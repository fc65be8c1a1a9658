---------------------------- MODULE IdentityProofs ----------------------------
(***************************************************************************)
(* Proofs about module Identity, for any number of tabs, flows, accounts,  *)
(* attempts, facts, and for any number of logouts.                         *)
(*                                                                         *)
(* The id under which an attempt was minted ties things together: while    *)
(* the device has that id, whoever is signed in is one of its players, and *)
(* a flush that straddles no logout carries what they did, as one of them, *)
(* to a server attempt of one of them.                                     *)
(***************************************************************************)
EXTENDS Identity, FiniteSetTheorems, TLAPS

\* Server attempt s was made by a flush of attempt k, for one of its players unless
\* the flush straddled a logout.
Serves(s, k) ==
  /\ s \in ServerIds /\ server[s] # None
  /\ ~server[s].left => server[s].user \in players[minted[k]]

\* What a row of attempt k, or a copy of one, says.
RowOK(k, row) == row \in RowType /\ minted[k] # None /\ (row.sid # None => Serves(row.sid, k))

\* The facts a flush is about to post are of the players of its attempt.
BatchOK(h) ==
  ~h.left => \A m \in h.batch : ~m.late => m.by \in players[minted[h.key]]

\* The calls at which a flow holds the key of an attempt.
Keyed == FlushLabels \cup {"append", "advance"}

\* What flow f may still rely on.
Fit(f) ==
  LET h == held[f]
  IN /\ pc[f] \in Keyed => h.key \in AttemptKeys /\ minted[h.key] # None
     /\ pc[f] \in {"find", "mint", "append"} =>
          h.fact \in Facts /\ h.user \in Users /\ h.user \in players[h.born]
     /\ pc[f] \in {"advance", "bindput"} => RowOK(h.key, h.row)
     /\ pc[f] \in {"bindget", "bindput", "post", "mark"} => Serves(h.sid, h.key)
     /\ pc[f] = "pending" /\ ~h.left => h.born = minted[h.key]
     /\ pc[f] \in {"pending", "bound", "create", "again"} =>
          h.user \in Users /\ (~h.left => h.user \in players[minted[h.key]])
     /\ pc[f] \in FlushLabels \ {"pending"} => BatchOK(h)
     /\ pc[f] = "register" => h.user \in Ids /\ h.user <= device
     /\ pc[f] = "signin" => h.user \in registered
     /\ h.quit => pc[f] \in FlushLabels \cup {"rotate"}
     /\ pc[f] = "rotate" => h.quit

\* Whoever is signed in has played under the id of now.
Here == (session # None => session \in players[device]) /\ \A i \in Ids : i \in players[i]

\* Ids come up in order.
Past ==
  /\ \A k \in AttemptKeys : minted[k] # None => minted[k] <= device
  /\ \A i \in registered \cap Ids : i <= device

Rows == \A k \in AttemptKeys : rows[k] # None => RowOK(k, rows[k])

\* A fact is of a player of the time it was written, and no attempt is younger than
\* its facts.
Owned(k, u) == \E j \in Ids : minted[k] <= j /\ j <= device /\ u \in players[j]

Queued ==
  \A k \in AttemptKeys, x \in Facts :
    queue[k][x] # None => minted[k] # None /\ (~queue[k][x].late => Owned(k, queue[k][x].by))

LogsServed == \A s \in ServerIds, x \in Facts : logs[s][x] # None => server[s] # None

Data   == Here /\ Past /\ Rows /\ Queued /\ LogsServed /\ StaysWithPlayer
Budget == device + Cardinality(Quitting) <= MaxIds

IInv ==
  /\ TypeOK /\ Data /\ Budget /\ LogoutForgets /\ NeverBricked
  /\ \A f \in Flows : Fit(f)

-----------------------------------------------------------------------------
(* Frames.                                                                  *)

\* Nothing that was relied on is taken back.
Grows ==
  /\ \A i \in Ids : players[i] \subseteq players'[i]
  /\ device <= device'
  /\ \A k \in AttemptKeys : minted[k] # None => minted'[k] = minted[k]
  /\ \A s \in ServerIds : server[s] # None => server'[s] = server[s]
  /\ registered \subseteq registered'

LEMMA ServesFrame ==
  ASSUME TypeOK, Grows, NEW s, NEW k \in AttemptKeys, minted[k] # None, Serves(s, k)
  PROVE  Serves(s, k)'
BY DEF Grows, Serves, TypeOK

LEMMA RowFrame ==
  ASSUME TypeOK, Grows, NEW k \in AttemptKeys, NEW row, RowOK(k, row)
  PROVE  RowOK(k, row)'
<1>1. minted'[k] = minted[k] /\ minted[k] # None
  BY DEF Grows, RowOK
<1> QED BY <1>1, ServesFrame DEF RowOK

LEMMA FitFrame ==
  ASSUME TypeOK, TypeOK', Grows, NEW f \in Flows, Fit(f), pc'[f] = pc[f], held'[f] = held[f]
  PROVE  Fit(f)'
<1> DEFINE h == held[f]
<1>1. PICK k, row, s, u, b : k = h.key /\ row = h.row /\ s = h.sid /\ u = h.user /\ b = h.born
  OBVIOUS
<1>2. h \in WorkType /\ device \in Nat /\ device' \in Nat /\ b \in Ids
  BY <1>1 DEF TypeOK, WorkType, Ids
<1>3. pc[f] \in Keyed => k \in AttemptKeys /\ minted[k] # None /\ minted'[k] = minted[k] /\ minted[k] \in Ids
  BY <1>1 DEF Fit, Grows, TypeOK
<1>4. pc[f] \in {"find", "mint", "append"} => u \in players'[b]
  BY <1>1, <1>2 DEF Fit, Grows
<1>5. pc[f] \in {"advance", "bindput"} => RowOK(k, row)'
  BY <1>1, <1>3, RowFrame DEF Fit, Keyed, FlushLabels
<1>6. pc[f] \in {"bindget", "bindput", "post", "mark"} => Serves(s, k)'
  BY <1>1, <1>3, ServesFrame DEF Fit, Keyed, FlushLabels
<1>7. pc[f] \in {"pending", "bound", "create", "again"} /\ ~h.left => u \in players'[minted'[k]]
  BY <1>1, <1>3 DEF Fit, Grows, Keyed, FlushLabels
<1>8. pc[f] \in FlushLabels \ {"pending"} => BatchOK(h)'
  <2> SUFFICES ASSUME pc[f] \in FlushLabels \ {"pending"}, ~h.left, NEW m \in h.batch, ~m.late
               PROVE  m.by \in players'[minted'[h.key]]
    BY DEF BatchOK
  <2>1. BatchOK(h)
    BY DEF Fit
  <2>2. m.by \in players[minted[k]]
    BY <1>1, <2>1 DEF BatchOK
  <2> QED BY <1>1, <1>3, <2>2 DEF Grows, Keyed
<1>9. pc[f] = "register" => u <= device'
  BY <1>1, <1>2 DEF Fit, Grows, Ids
<1>10. pc[f] = "signin" => u \in registered'
  BY <1>1 DEF Fit, Grows
<1>11. (held[f])' = h
  OBVIOUS
<1>12. BatchOK(held[f])' = BatchOK(h)'
  BY <1>11 DEF BatchOK
<1> QED BY <1>1, <1>3, <1>4, <1>5, <1>6, <1>7, <1>8, <1>9, <1>10, <1>11, <1>12 DEF Fit, Keyed, FlushLabels

\* Flow f goes to its next await, or ends.
At(f, label, h) == pc' = [pc EXCEPT ![f] = label] /\ held' = [held EXCEPT ![f] = h]

LEMMA Moves ==
  ASSUME TypeOK, NEW f \in Flows, NEW label, NEW h, At(f, label, h)
  PROVE  /\ pc'[f] = label /\ held'[f] = h
         /\ \A g \in Flows \ {f} : pc'[g] = pc[g] /\ held'[g] = held[g]
BY DEF TypeOK, At

\* A logout that is not announced now was announced before.
LEMMA QuittingFrame ==
  ASSUME TypeOK, NEW f \in Flows, NEW label, NEW h, At(f, label, h), h.quit => held[f].quit
  PROVE  /\ Quitting' \subseteq Quitting /\ IsFiniteSet(Quitting)
         /\ Cardinality(Quitting') <= Cardinality(Quitting)
         /\ Cardinality(Quitting) \in Nat /\ Cardinality(Quitting') \in Nat
<1>1. Quitting' \subseteq Quitting
  BY Moves DEF Quitting
<1>2. IsFiniteSet(Quitting)
  BY TabsAssumption, FS_Subset DEF Quitting
<1> QED BY <1>1, <1>2, FS_Subset, FS_CardinalityType

\* The copies that outlive a wipe do so by a late put, or the wipe is still due.
LEMMA ForgetsFrame ==
  ASSUME IInv, NEW f \in Flows, NEW label, NEW h, At(f, label, h), pc[f] # "wipe",
         device' = device, kept \subseteq kept',
         \A k \in AttemptKeys : rows'[k] # None =>
           \/ rows[k] # None /\ minted'[k] = minted[k]
           \/ k \in kept' \/ minted'[k] = device
  PROVE  LogoutForgets'
<1> SUFFICES ASSUME NEW k \in AttemptKeys, rows'[k] # None, minted'[k] # device
             PROVE  k \in kept' \/ \E g \in Flows : pc'[g] = "wipe"
  BY DEF LogoutForgets, Stored
<1>1. CASE rows[k] # None /\ minted'[k] = minted[k]
  <2>1. k \in kept \/ \E g \in Flows : pc[g] = "wipe"
    BY <1>1 DEF IInv, LogoutForgets, Stored
  <2>2. ASSUME NEW g \in Flows, pc[g] = "wipe" PROVE pc'[g] = "wipe"
    BY <2>2, Moves DEF IInv
  <2> QED BY <2>1, <2>2
<1> QED BY <1>1

LEMMA BrickedFrame ==
  ASSUME IInv, NEW f \in Flows, NEW label, NEW h, At(f, label, h), pc[f] # "signin",
         UNCHANGED <<session, device, registered>>, lost \subseteq lost'
  PROVE  NeverBricked'
<1>1. ASSUME NEW g \in Flows, pc[g] = "signin"
      PROVE  pc'[g] = "signin" /\ held'[g] = held[g]
  BY <1>1, Moves DEF IInv
<1> QED BY <1>1 DEF IInv, NeverBricked

LEMMA DataFrame ==
  ASSUME IInv, UNCHANGED <<browser, local, remote, players>>
  PROVE  Data' /\ Grows
<1>1. UNCHANGED <<session, device, rows, queue, minted, registered, server, logs, players>>
  BY DEF browser, local, remote
<1>2. Here' /\ Past' /\ Queued' /\ LogsServed'
  BY <1>1 DEF IInv, Data, Here, Past, Queued, Owned, LogsServed
<1>3. Rows'
  BY <1>1 DEF IInv, Data, Rows, RowOK, Serves
<1>4. StaysWithPlayer'
  BY <1>1 DEF IInv, Data, StaysWithPlayer, Together
<1>5. Grows
  BY <1>1 DEF Grows, IInv, TypeOK, Ids
<1> QED BY <1>2, <1>3, <1>4, <1>5 DEF Data

-----------------------------------------------------------------------------
(* What the steps of a kind have to show.                                   *)

\* A step that neither starts nor ends a session.
LEMMA FlowStep ==
  ASSUME IInv, NEW f \in Flows, NEW label, NEW h, At(f, label, h), pc[f] \notin {"wipe", "signin"},
         UNCHANGED <<session, device, registered>>, Grows, kept \subseteq kept', lost \subseteq lost',
         \A k \in AttemptKeys : rows'[k] # None =>
           \/ rows[k] # None /\ minted'[k] = minted[k]
           \/ k \in kept' \/ minted'[k] = device,
         h.quit => held[f].quit, TypeOK', Data', Fit(f)'
  PROVE  IInv'
<1>1. LogoutForgets' /\ NeverBricked'
  BY ForgetsFrame, BrickedFrame
<1>2. Budget'
  BY QuittingFrame, IdsAssumption DEF IInv, Budget, TypeOK, Ids
<1>3. ASSUME NEW g \in Flows \ {f} PROVE Fit(g)'
  BY Moves, FitFrame DEF IInv
<1> QED BY <1>1, <1>2, <1>3 DEF IInv

\* A step that only waits for the next answer.
LEMMA WaitStep ==
  ASSUME IInv, NEW f \in Flows, NEW label \in Labels, NEW h \in WorkType, At(f, label, h),
         pc[f] \notin {"wipe", "signin"}, UNCHANGED <<browser, local, remote, seen>>,
         faults' \in Nat, h.quit => held[f].quit, Fit(f)'
  PROVE  IInv'
<1>1. UNCHANGED <<session, device, rows, queue, minted, registered, server, logs, players, kept, lost>>
  BY DEF browser, local, remote, seen
<1>2. Data' /\ Grows
  BY <1>1, DataFrame DEF seen
<1>3. TypeOK'
  BY <1>1 DEF IInv, TypeOK, At
<1> QED BY <1>1, <1>2, <1>3, FlowStep

LEMMA Nothing == NoWork \in WorkType /\ ~NoWork.quit /\ "idle" \in Labels
BY IdsAssumption DEF NoWork, WorkType, Labels, Ids

LEMMA DoneFit ==
  ASSUME TypeOK, NEW f \in Flows, Done(f)
  PROVE  Fit(f)' /\ At(f, "idle", NoWork)
<1>1. At(f, "idle", NoWork)
  BY DEF Done, Goto, Hold, At
<1>2. pc'[f] = "idle" /\ held'[f] = NoWork
  BY <1>1, Moves
<1> QED BY <1>1, <1>2, Nothing DEF Fit, Keyed, FlushLabels

\* A flow that ends.
LEMMA DoneStep ==
  ASSUME IInv, NEW f \in Flows, Done(f), pc[f] \notin {"wipe", "signin"},
         UNCHANGED <<browser, local, remote, seen>>, faults' \in Nat
  PROVE  IInv'
BY DoneFit, Nothing, WaitStep DEF IInv

\* A flush ends, or its logout goes on.
LEMMA EndFit ==
  ASSUME TypeOK, NEW f \in Flows, End(f)
  PROVE  \E label \in Labels, h \in WorkType :
           At(f, label, h) /\ (h.quit => held[f].quit) /\ Fit(f)'
<1>1. CASE held[f].quit
  <2> DEFINE h == [NoWork EXCEPT !.quit = TRUE, !.joined = held[f].joined]
  <2>1. h \in WorkType /\ h.quit
    BY Nothing DEF NoWork, WorkType, TypeOK
  <2>2. At(f, "rotate", h)
    BY <1>1 DEF End, Goto, Hold, At
  <2> HIDE DEF h
  <2>3. pc'[f] = "rotate" /\ held'[f] = h
    BY <2>2, Moves
  <2>4. Fit(f)'
    BY <2>1, <2>3 DEF Fit, Keyed, FlushLabels
  <2> QED BY <1>1, <2>1, <2>2, <2>4 DEF Labels
<1>2. CASE ~held[f].quit
  BY <1>2, DoneFit, Nothing DEF End
<1> QED BY <1>1, <1>2

LEMMA EndStep ==
  ASSUME IInv, NEW f \in Flows, End(f), pc[f] \notin {"wipe", "signin"},
         UNCHANGED <<browser, local, remote, seen>>, faults' \in Nat
  PROVE  IInv'
BY EndFit, WaitStep DEF IInv

-----------------------------------------------------------------------------
(* Playing.                                                                 *)

\* Whoever plays now is a player of the id of now.
LEMMA PlayerOfNow ==
  ASSUME IInv
  PROVE  Me \in Users /\ Me \in players[device]
BY DEF IInv, TypeOK, Data, Here, Me, Users

LEMMA RecordKeeps ==
  ASSUME IInv, NEW f \in Flows, NEW x \in Facts, Record(f, x)
  PROVE  IInv'
<1> DEFINE h == [NoWork EXCEPT !.fact = x, !.user = Me, !.born = device]
<1>1. /\ h \in WorkType /\ h.fact = x /\ h.user = Me /\ h.born = device /\ ~h.quit
  BY PlayerOfNow, Nothing DEF NoWork, WorkType, IInv, TypeOK
<1>2. At(f, "find", h)
  BY DEF Record, Goto, Hold, At
<1> HIDE DEF h
<1>3. pc'[f] = "find" /\ held'[f] = h
  BY <1>2, Moves DEF IInv
<1>4. UNCHANGED <<players, registered, kept, lost, faults>>
  BY DEF Record, remote, history
<1>5. Fit(f)'
  BY <1>1, <1>3, <1>4, PlayerOfNow DEF Fit, Keyed, FlushLabels
<1> QED BY <1>1, <1>2, <1>4, <1>5, WaitStep DEF Record, seen, Labels, IInv, TypeOK

LEMMA FindActiveKeeps ==
  ASSUME IInv, NEW f \in Flows, FindActive(f)
  PROVE  IInv'
<1>1. pc[f] = "find" /\ held[f] \in WorkType /\ Fit(f)
  BY DEF FindActive, IInv, TypeOK
<1>2. UNCHANGED <<players, registered, minted, kept, lost, faults>>
  BY DEF FindActive, remote, history, local
<1>3. CASE \E k \in Stored : Goto(f, "append") /\ Hold(f, [held[f] EXCEPT !.key = k])
  <2>1. PICK k \in Stored : Goto(f, "append") /\ Hold(f, [held[f] EXCEPT !.key = k])
    BY <1>3
  <2> DEFINE h == [held[f] EXCEPT !.key = k]
  <2>2. h \in WorkType /\ h.key = k /\ h.fact = held[f].fact /\ h.user = held[f].user
        /\ h.born = held[f].born /\ h.quit = held[f].quit
    BY <1>1 DEF WorkType, Stored
  <2>3. At(f, "append", h)
    BY <2>1 DEF Goto, Hold, At
  <2> HIDE DEF h
  <2>4. pc'[f] = "append" /\ held'[f] = h
    BY <2>3, Moves DEF IInv
  <2>5. k \in AttemptKeys /\ minted[k] # None
    BY DEF Stored, IInv, Data, Rows, RowOK
  <2>6. Fit(f)'
    BY <1>1, <1>2, <2>2, <2>4, <2>5 DEF Fit, Keyed, FlushLabels
  <2> QED BY <1>1, <1>2, <2>2, <2>3, <2>6, WaitStep DEF FindActive, seen, Labels, IInv, TypeOK
<1>4. CASE Goto(f, "mint") /\ UNCHANGED held
  <2>1. At(f, "mint", held[f])
    BY <1>4 DEF Goto, At, IInv, TypeOK
  <2>2. pc'[f] = "mint" /\ held'[f] = held[f]
    BY <2>1, Moves DEF IInv
  <2>3. Fit(f)'
    BY <1>1, <1>2, <2>2 DEF Fit, Keyed, FlushLabels
  <2> QED BY <1>1, <1>2, <2>1, <2>3, WaitStep DEF FindActive, seen, Labels, IInv, TypeOK
<1> QED BY <1>3, <1>4 DEF FindActive

LEMMA MintFailsKeeps ==
  ASSUME IInv, NEW f \in Flows, MintFails(f)
  PROVE  IInv'
BY DoneStep DEF MintFails, history, seen, IInv, TypeOK

\* A key that nobody had before is nobody's row, nobody's fact and nobody's copy.
LEMMA MintAttemptKeeps ==
  ASSUME IInv, NEW f \in Flows, MintAttempt(f)
  PROVE  IInv'
<1>1. PICK k \in AttemptKeys :
        /\ minted[k] = None
        /\ rows' = [rows EXCEPT ![k] = [sid |-> None]]
        /\ minted' = [minted EXCEPT ![k] = device]
        /\ Hold(f, [held[f] EXCEPT !.key = k])
  BY DEF MintAttempt
<1>2. pc[f] = "mint" /\ held[f] \in WorkType /\ Fit(f)
  BY DEF MintAttempt, IInv, TypeOK
<1>3. UNCHANGED <<session, device, queue, registered, server, logs, players, kept, lost, faults>>
  BY DEF MintAttempt, browser, remote, history
<1>4. /\ minted'[k] = device /\ rows'[k] = [sid |-> None] /\ device # None /\ device \in Ids
      /\ \A x \in AttemptKeys \ {k} : minted'[x] = minted[x] /\ rows'[x] = rows[x]
  BY <1>1, NoneAssumption DEF IInv, TypeOK, Users
<1>5. Grows
  BY <1>1, <1>3, <1>4 DEF Grows, Ids, IInv, TypeOK
<1> DEFINE h == [held[f] EXCEPT !.key = k]
<1>6. h \in WorkType /\ h.key = k /\ h.fact = held[f].fact /\ h.user = held[f].user
      /\ h.born = held[f].born /\ h.quit = held[f].quit
  BY <1>2 DEF WorkType
<1>7. At(f, "append", h)
  BY <1>1 DEF MintAttempt, Goto, Hold, At
<1> HIDE DEF h
<1>8. pc'[f] = "append" /\ held'[f] = h
  BY <1>7, Moves DEF IInv
<1>9. Fit(f)'
  BY <1>2, <1>3, <1>4, <1>6, <1>8 DEF Fit, Keyed, FlushLabels
<1>10. TypeOK'
  <2>1. [sid |-> None] \in RowType
    BY DEF RowType
  <2>2. minted' \in [AttemptKeys -> Ids \cup {None}] /\ rows' \in [AttemptKeys -> RowType \cup {None}]
    BY <1>1, <1>4, <2>1 DEF IInv, TypeOK
  <2> QED BY <1>3, <1>6, <1>7, <2>2 DEF IInv, TypeOK, At, Labels
<1>11. Here' /\ LogsServed' /\ StaysWithPlayer'
  BY <1>3 DEF IInv, Data, Here, LogsServed, StaysWithPlayer, Together
<1>12. Past'
  BY <1>3, <1>4 DEF IInv, Data, Past, Ids
<1>13. Rows'
  <2> SUFFICES ASSUME NEW x \in AttemptKeys, rows'[x] # None PROVE RowOK(x, rows[x])'
    BY DEF Rows
  <2>1. CASE x = k
    BY <1>4, <2>1 DEF RowOK, RowType
  <2>2. CASE x # k
    BY <1>4, <1>5, <2>2, RowFrame DEF IInv, Data, Rows
  <2> QED BY <2>1, <2>2
<1>14. Queued'
  BY <1>1, <1>3, <1>4 DEF IInv, Data, Queued, Owned
<1> QED BY <1>2, <1>3, <1>4, <1>5, <1>6, <1>7, <1>9, <1>10, <1>11, <1>12, <1>13, <1>14, FlowStep DEF Data

LEMMA AppendFactKeeps ==
  ASSUME IInv, NEW f \in Flows, AppendFact(f)
  PROVE  IInv'
<1>1. PICK k, x, u : k = held[f].key /\ x = held[f].fact /\ u = held[f].user
  OBVIOUS
<1>2. pc[f] = "append" /\ held[f] \in WorkType /\ Fit(f)
  BY DEF AppendFact, IInv, TypeOK
<1>3. /\ k \in AttemptKeys /\ x \in Facts /\ u \in Users /\ minted[k] # None
      /\ u \in players[held[f].born]
  BY <1>1, <1>2 DEF Fit, Keyed
<1>4. UNCHANGED <<session, device, rows, minted, registered, server, logs, players, kept, lost, faults>>
  BY DEF AppendFact, browser, remote, history
<1> DEFINE new == [by |-> u, late |-> held[f].born # device, sent |-> FALSE]
<1>5. new \in FactType /\ new # None /\ new.by = u /\ (~new.late => held[f].born = device)
  <2>1. (held[f].born # device) \in BOOLEAN
    OBVIOUS
  <2>2. new \in FactType
    BY <1>3, <2>1 DEF FactType
  <2> QED BY <2>2, NoneAssumption
<1>6. queue' = [queue EXCEPT ![k][x] = IF queue[k][x] # None THEN queue[k][x] ELSE new]
  BY <1>1 DEF AppendFact
<1> HIDE DEF new
<1>7. queue' \in [AttemptKeys -> [Facts -> FactType \cup {None}]]
  BY <1>5, <1>6 DEF IInv, TypeOK
<1>8. \A j \in AttemptKeys, y \in Facts :
        queue'[j][y] = queue[j][y] \/ (j = k /\ queue'[j][y] = new)
  BY <1>3, <1>6 DEF IInv, TypeOK
<1>9. Queued'
  <2>1. Owned(k, u) \/ new.late
    BY <1>3, <1>5 DEF Owned, IInv, Data, Past, TypeOK, Ids
  <2>2. ASSUME NEW j \in AttemptKeys, NEW y \in Facts, queue'[j][y] # None
        PROVE  minted[j] # None /\ (~queue'[j][y].late => Owned(j, queue'[j][y].by))
    BY <1>3, <1>5, <1>8, <2>1, <2>2 DEF IInv, Data, Queued
  <2> QED BY <1>4, <2>2 DEF Queued, Owned
<1>10. Data' /\ Grows
  <2>1. Here' /\ Past' /\ LogsServed' /\ StaysWithPlayer'
    BY <1>4 DEF IInv, Data, Here, Past, LogsServed, StaysWithPlayer, Together
  <2>2. Grows
    BY <1>4 DEF Grows, IInv, TypeOK, Ids
  <2>3. Rows'
    BY <1>4 DEF IInv, Data, Rows, RowOK, Serves
  <2> QED BY <1>9, <2>1, <2>2, <2>3 DEF Data
<1>11. Fit(f)' /\ At(f, "idle", NoWork)
  BY DoneFit DEF AppendFact, IInv
<1>12. TypeOK'
  BY <1>4, <1>7, <1>11, Nothing DEF IInv, TypeOK, At
<1> QED BY <1>2, <1>4, <1>10, <1>11, <1>12, Nothing, FlowStep

LEMMA AdvanceKeeps ==
  ASSUME IInv, NEW f \in Flows, NEW k \in AttemptKeys, Advance(f, k)
  PROVE  IInv'
<1> DEFINE h == [NoWork EXCEPT !.key = k, !.row = rows[k]]
<1>1. h \in WorkType /\ h.key = k /\ h.row = rows[k] /\ ~h.quit
  BY Nothing DEF NoWork, WorkType, IInv, TypeOK
<1>2. At(f, "advance", h)
  BY DEF Advance, Goto, Hold, At
<1> HIDE DEF h
<1>3. pc'[f] = "advance" /\ held'[f] = h
  BY <1>2, Moves DEF IInv
<1>4. UNCHANGED <<players, registered, minted, server, rows, kept, lost, faults>>
  BY DEF Advance, remote, history, local
<1>5. RowOK(k, rows[k])
  BY DEF Advance, IInv, Data, Rows
<1>6. Fit(f)'
  BY <1>1, <1>3, <1>4, <1>5 DEF Fit, Keyed, FlushLabels, RowOK, Serves
<1> QED BY <1>1, <1>2, <1>4, <1>6, WaitStep DEF Advance, seen, Labels, IInv, TypeOK

\* A copy that is put back says of its attempt what the row did.
LEMMA PutBackStep ==
  ASSUME IInv, NEW f \in Flows, NEW label \in Labels, NEW h \in WorkType, At(f, label, h),
         NEW k \in AttemptKeys, NEW row, RowOK(k, row), PutBack(k, row),
         UNCHANGED <<browser, remote>>, pc[f] \notin {"wipe", "signin"}, h.quit => held[f].quit,
         Grows => Fit(f)'
  PROVE  IInv'
<1>1. UNCHANGED <<session, device, queue, minted, registered, server, logs, players, lost, faults>>
  BY DEF browser, remote, PutBack
<1>2. Grows
  BY <1>1 DEF Grows, IInv, TypeOK, Ids
<1>3. row \in RowType /\ rows' = [rows EXCEPT ![k] = row]
      /\ kept' = IF rows[k] = None THEN kept \cup {k} ELSE kept
  BY DEF RowOK, PutBack
<1>4. rows'[k] = row /\ \A x \in AttemptKeys \ {k} : rows'[x] = rows[x]
  BY <1>3 DEF IInv, TypeOK
<1>5. TypeOK'
  BY <1>1, <1>3 DEF IInv, TypeOK, At
<1>6. Here' /\ Past' /\ Queued' /\ LogsServed' /\ StaysWithPlayer'
  BY <1>1 DEF IInv, Data, Here, Past, Queued, Owned, LogsServed, StaysWithPlayer, Together
<1>7. Rows'
  <2> SUFFICES ASSUME NEW x \in AttemptKeys, rows'[x] # None PROVE RowOK(x, rows[x])'
    BY DEF Rows
  <2>1. RowOK(k, row)'
    BY <1>2, RowFrame DEF IInv
  <2>2. CASE x = k
    BY <1>4, <2>1, <2>2 DEF RowOK, Serves
  <2>3. CASE x # k
    <3>1. RowOK(x, rows[x])
      BY <1>4, <2>3 DEF IInv, Data, Rows
    <3> QED BY <1>1, <1>4, <2>3, <3>1 DEF RowOK, Serves
  <2> QED BY <2>2, <2>3
<1> QED BY <1>1, <1>2, <1>3, <1>4, <1>5, <1>6, <1>7, FlowStep DEF Data

LEMMA AdvancePutKeeps ==
  ASSUME IInv, NEW f \in Flows, AdvancePut(f)
  PROVE  IInv'
<1>1. pc[f] = "advance" /\ Fit(f)
  BY DEF AdvancePut, IInv
<1>2. held[f].key \in AttemptKeys /\ RowOK(held[f].key, held[f].row)
  BY <1>1 DEF Fit, Keyed
<1>3. Fit(f)' /\ At(f, "idle", NoWork)
  BY DoneFit DEF AdvancePut, IInv
<1> QED BY <1>1, <1>2, <1>3, Nothing, PutBackStep DEF AdvancePut

-----------------------------------------------------------------------------
(* Flushing.                                                                *)

\* A flush of attempt k that begins now.
LEMMA FlushFit ==
  ASSUME IInv, NEW f \in Flows, NEW k \in Stored, NEW h,
         h.key = k, h.user = Me, h.born = device, h.left = (minted[k] # device),
         At(f, "pending", h), UNCHANGED <<browser, local, remote, players>>
  PROVE  Fit(f)'
<1>1. pc'[f] = "pending" /\ held'[f] = h
  BY Moves DEF IInv
<1>2. k \in AttemptKeys /\ minted[k] # None
  BY DEF Stored, IInv, Data, Rows, RowOK
<1>3. minted' = minted /\ players' = players
  BY DEF local
<1> QED BY <1>1, <1>2, <1>3, PlayerOfNow DEF Fit, Keyed, FlushLabels

LEMMA StartFlushKeeps ==
  ASSUME IInv, NEW f \in Flows, NEW k \in AttemptKeys, StartFlush(f, k)
  PROVE  IInv'
<1> DEFINE h == FlushOf(f, k)
<1>1. (minted[k] # device) \in BOOLEAN
  OBVIOUS
<1>2. /\ h \in WorkType /\ h.key = k /\ h.user = Me /\ h.born = device
      /\ h.left = (minted[k] # device) /\ ~h.quit
  BY <1>1, PlayerOfNow, Nothing DEF FlushOf, NoWork, WorkType, IInv, TypeOK
<1>3. At(f, "pending", h)
  BY DEF StartFlush, Goto, Hold, At
<1>4. k \in Stored
  BY DEF StartFlush, Stored
<1>5. UNCHANGED <<players, kept, lost, faults>>
  BY DEF StartFlush, history
<1> HIDE DEF h
<1>6. Fit(f)'
  BY <1>2, <1>3, <1>4, <1>5, FlushFit DEF StartFlush
<1> QED BY <1>2, <1>3, <1>5, <1>6, WaitStep DEF StartFlush, seen, Labels, FlushLabels, IInv, TypeOK

\* What waits in the queue of attempt k.
LEMMA WaitingType ==
  ASSUME TypeOK, NEW k \in AttemptKeys
  PROVE  Waiting(k) \subseteq [fact : Facts, by : Users, late : BOOLEAN]
BY DEF Waiting, TypeOK, FactType

LEMMA ReadPendingKeeps ==
  ASSUME IInv, NEW f \in Flows, ReadPending(f)
  PROVE  IInv'
<1>1. pc[f] = "pending" /\ held[f] \in WorkType /\ Fit(f)
  BY DEF ReadPending, IInv, TypeOK
<1>2. PICK k : k = held[f].key
  OBVIOUS
<1>3. k \in AttemptKeys /\ minted[k] # None
  BY <1>1, <1>2 DEF Fit, Keyed, FlushLabels
<1>4. UNCHANGED <<players, minted, kept, lost, faults>>
  BY DEF ReadPending, history, local
<1>5. CASE Waiting(k) = {}
  <2>1. End(f)
    BY <1>2, <1>5 DEF ReadPending
  <2> QED BY <1>1, <1>4, <2>1, EndStep DEF ReadPending, seen, IInv, TypeOK
<1>6. CASE Waiting(k) # {}
  <2> DEFINE h == [held[f] EXCEPT !.batch = Waiting(k), !.born = 1,
                                  !.left = @ \/ held[f].born # device]
  <2>1. At(f, "bound", h)
    BY <1>2, <1>6 DEF ReadPending, Goto, Hold, At
  <2>2. (held[f].left \/ held[f].born # device) \in BOOLEAN /\ 1 \in Ids
    BY Nothing DEF WorkType, NoWork
  <2>3. /\ h \in WorkType /\ h.key = k /\ h.user = held[f].user /\ h.batch = Waiting(k)
        /\ h.quit = held[f].quit /\ h.left = (held[f].left \/ held[f].born # device)
    BY <1>1, <1>2, <1>3, <2>2, WaitingType DEF WorkType, IInv
  <2> HIDE DEF h
  <2>4. pc'[f] = "bound" /\ held'[f] = h
    BY <2>1, Moves DEF IInv
  <2>5. ~h.left => ~held[f].left /\ minted[k] = device
    BY <1>1, <1>2, <2>3 DEF Fit
  <2>6. ASSUME ~h.left, NEW m \in Waiting(k), ~m.late PROVE m.by \in players[device]
    <3>1. PICK x \in Facts : queue[k][x] # None /\ m.by = queue[k][x].by /\ ~queue[k][x].late
      BY <2>6 DEF Waiting
    <3>2. Owned(k, m.by)
      BY <1>3, <3>1 DEF IInv, Data, Queued
    <3> QED BY <2>5, <2>6, <3>2 DEF Owned, IInv, TypeOK, Ids
  <2>7. BatchOK(held[f])'
    <3> SUFFICES ASSUME ~h.left, NEW m \in h.batch, ~m.late PROVE m.by \in players'[minted'[h.key]]
      BY <2>4 DEF BatchOK
    <3> QED BY <1>4, <2>3, <2>5, <2>6
  <2>8. Fit(f)'
    BY <1>1, <1>2, <1>3, <1>4, <2>3, <2>4, <2>5, <2>7 DEF Fit, Keyed, FlushLabels
  <2>9. "bound" \in Labels
    BY DEF Labels, FlushLabels
  <2> QED BY <1>1, <1>4, <2>1, <2>3, <2>8, <2>9, WaitStep DEF ReadPending, seen, IInv, TypeOK
<1> QED BY <1>5, <1>6

\* A flush that goes on with the same batch, for the same player.
LEMMA SameBatch ==
  ASSUME IInv, NEW f \in Flows, Fit(f), pc[f] \in FlushLabels \ {"pending"}, NEW h \in WorkType,
         held'[f] = h, h.key = held[f].key, h.batch = held[f].batch, h.left = held[f].left, Grows
  PROVE  BatchOK(held[f])'
<1>1. held[f].key \in AttemptKeys /\ minted[held[f].key] # None /\ BatchOK(held[f])
  BY DEF Fit, Keyed
<1>2. minted'[h.key] = minted[h.key] /\ minted[h.key] \in Ids
  BY <1>1 DEF Grows, IInv, TypeOK
<1> SUFFICES ASSUME ~h.left, NEW m \in h.batch, ~m.late PROVE m.by \in players'[minted'[h.key]]
  BY DEF BatchOK
<1>3. m.by \in players[minted[h.key]]
  BY <1>1 DEF BatchOK
<1> QED BY <1>2, <1>3 DEF Grows

\* A flush that has its batch goes to its next call.
LEMMA FlushGoesOn ==
  ASSUME IInv, NEW f \in Flows, pc[f] \in FlushLabels \ {"pending"}, TypeOK',
         NEW label \in FlushLabels \ {"pending", "bound"}, NEW h \in WorkType, At(f, label, h), Grows,
         h.key = held[f].key, h.batch = held[f].batch, h.left = held[f].left,
         label \in {"create", "again"} => pc[f] \in {"bound", "create"} /\ h.user = held[f].user,
         label = "bindput" => RowOK(h.key, h.row),
         label \in {"bindget", "bindput", "post", "mark"} => Serves(h.sid, h.key)'
  PROVE  Fit(f)'
<1>1. PICK k : k = h.key
  OBVIOUS
<1>2. Fit(f)
  BY DEF IInv
<1>3. k \in AttemptKeys /\ minted[k] # None /\ minted'[k] = minted[k] /\ minted[k] \in Ids
  BY <1>1, <1>2 DEF Fit, Keyed, Grows, IInv, TypeOK
<1>4. minted'[k] # None
  BY <1>3
<1>5. pc'[f] = label /\ held'[f] = h
  BY Moves DEF IInv
<1>6. BatchOK(held[f])'
  BY <1>2, <1>5, SameBatch
<1>7. label = "bindput" => RowOK(k, h.row)'
  BY <1>1, <1>3, RowFrame DEF IInv
<1>8. label = "bindput" => RowOK((held[f]).key, (held[f]).row)'
  BY <1>1, <1>5, <1>7 DEF RowOK, Serves
<1>9. label \in {"create", "again"} => h.user \in Users /\ (~h.left => h.user \in players'[minted'[k]])
  BY <1>1, <1>2, <1>3 DEF Fit, Grows
<1>10. label \in {"bindget", "bindput", "post", "mark"} => Serves((held[f]).sid, (held[f]).key)'
  BY <1>5 DEF Serves
<1> QED BY <1>1, <1>3, <1>5, <1>6, <1>8, <1>9, <1>10 DEF Fit, Keyed, FlushLabels

\* What is bound is read from the row, and who calls from the session.
LEMMA ReadBoundKeeps ==
  ASSUME IInv, NEW f \in Flows, ReadBound(f)
  PROVE  IInv'
<1>1. pc[f] = "bound" /\ held[f] \in WorkType /\ Fit(f)
  BY DEF ReadBound, IInv, TypeOK
<1>2. PICK k : k = held[f].key
  OBVIOUS
<1>3. k \in AttemptKeys /\ minted[k] # None
  BY <1>1, <1>2 DEF Fit, Keyed, FlushLabels
<1>4. UNCHANGED <<session, device, rows, queue, minted, registered, server, logs, players, kept, lost, faults>>
  BY DEF ReadBound, browser, local, remote, history
<1>5. Grows
  BY <1>4, DataFrame DEF ReadBound
<1>6. ASSUME NEW label \in FlushLabels, NEW h \in WorkType, At(f, label, h) PROVE TypeOK'
  BY <1>4, <1>6 DEF IInv, TypeOK, At, Labels
<1>7. CASE rows[k] # None /\ rows[k].sid # None
  <2>0. PICK h : h = [held[f] EXCEPT !.sid = rows[k].sid, !.user = None]
    OBVIOUS
  <2>1. rows[k] \in RowType /\ rows[k].sid \in ServerIds
    BY <1>3, <1>7 DEF IInv, TypeOK, RowType
  <2>2. /\ h \in WorkType /\ h.key = k /\ h.batch = held[f].batch /\ h.left = held[f].left
        /\ h.quit = held[f].quit /\ h.sid = rows[k].sid
    BY <1>1, <1>2, <2>0, <2>1 DEF WorkType
  <2>3. At(f, "post", h)
    BY <1>2, <1>7, <2>0 DEF ReadBound, Goto, Hold, At
  <2>4. Serves(rows[k].sid, k)
    BY <1>3, <1>7 DEF IInv, Data, Rows, RowOK
  <2>5. Serves(h.sid, h.key)'
    <3>1. PICK s : s = h.sid
      OBVIOUS
    <3> QED BY <1>4, <2>2, <2>4, <3>1 DEF Serves
  <2>6. Fit(f)'
    BY <1>1, <1>2, <1>5, <1>6, <2>2, <2>3, <2>5, FlushGoesOn DEF FlushLabels
  <2> QED BY <1>1, <1>4, <2>2, <2>3, <2>6, WaitStep DEF ReadBound, seen, Labels, FlushLabels, IInv, TypeOK
<1>8. CASE ~(rows[k] # None /\ rows[k].sid # None)
  <2> DEFINE h == [held[f] EXCEPT !.auth = session]
  <2>1. /\ h \in WorkType /\ h.key = k /\ h.batch = held[f].batch /\ h.left = held[f].left
        /\ h.quit = held[f].quit /\ h.user = held[f].user
    BY <1>1, <1>2 DEF WorkType, IInv, TypeOK
  <2>2. At(f, "create", h)
    BY <1>2, <1>8 DEF ReadBound, Goto, Hold, At
  <2> HIDE DEF h
  <2>3. Fit(f)'
    BY <1>1, <1>2, <1>5, <1>6, <2>1, <2>2, FlushGoesOn DEF FlushLabels
  <2> QED BY <1>1, <1>4, <2>1, <2>2, <2>3, WaitStep DEF ReadBound, seen, Labels, FlushLabels, IInv, TypeOK
<1> QED BY <1>7, <1>8

\* An attempt is made for whom the flush says it is.
LEMMA NewAttemptServes ==
  ASSUME IInv, NEW f \in Flows, pc[f] \in {"create", "again"}, NEW s \in ServerIds, NewAttempt(f, s),
         NEW k, k = held[f].key, UNCHANGED <<minted, players, session, device>>
  PROVE  /\ Grows /\ Serves(s, k)' /\ UNCHANGED <<registered, logs>>
         /\ server' \in [ServerIds -> OwnType \cup {None}]
         /\ server[s] = None /\ \A x \in ServerIds \ {s} : server'[x] = server[x]
         /\ \A x \in ServerIds : server[x] # None => server'[x] # None
<1>1. PICK u : u = held[f].user
  OBVIOUS
<1>2. held[f] \in WorkType /\ Fit(f)
  BY DEF IInv, TypeOK
<1>3. /\ k \in AttemptKeys /\ minted[k] # None /\ u \in Users
      /\ ~held[f].left => u \in players[minted[k]]
  BY <1>1, <1>2 DEF Fit, Keyed, FlushLabels
<1>4. Resolved(held[f].auth, held[f].user) = u
  BY <1>1 DEF NewAttempt, MayAct, Resolved
<1> DEFINE own == [user |-> u, left |-> held[f].left]
<1>5. own \in OwnType /\ own.user = u /\ own.left = held[f].left
  BY <1>2, <1>3 DEF OwnType, WorkType
<1>6. server' = [server EXCEPT ![s] = own] /\ server[s] = None /\ UNCHANGED <<registered, logs>>
  BY <1>4 DEF NewAttempt
<1> HIDE DEF own
<1>7. own # None
  BY <1>5, NoneAssumption
<1>8. server'[s] = own /\ \A x \in ServerIds \ {s} : server'[x] = server[x]
  BY <1>6 DEF IInv, TypeOK
<1>9. server' \in [ServerIds -> OwnType \cup {None}]
  BY <1>5, <1>6 DEF IInv, TypeOK
<1>10. Serves(s, k)'
  BY <1>1, <1>3, <1>5, <1>7, <1>8 DEF Serves
<1>11. Grows
  BY <1>6, <1>8 DEF Grows, IInv, TypeOK, Ids
<1> QED BY <1>6, <1>7, <1>8, <1>9, <1>10, <1>11

\* A new attempt of the server has no log yet.
LEMMA NewAttemptData ==
  ASSUME IInv, NEW f \in Flows, pc[f] \in {"create", "again"}, NEW s \in ServerIds, NewAttempt(f, s),
         UNCHANGED <<browser, local, players>>
  PROVE  Data' /\ Grows
<1>1. UNCHANGED <<session, device, rows, queue, minted, players>>
  BY DEF browser, local
<1>2. PICK k : k = held[f].key
  OBVIOUS
<1>3. /\ Grows /\ UNCHANGED <<registered, logs>>
      /\ server[s] = None /\ \A x \in ServerIds \ {s} : server'[x] = server[x]
      /\ \A x \in ServerIds : server[x] # None => server'[x] # None
  BY <1>1, <1>2, NewAttemptServes
<1>4. Here' /\ Past' /\ Queued' /\ LogsServed'
  BY <1>1, <1>3 DEF IInv, Data, Here, Past, Queued, Owned, LogsServed
<1>5. Rows'
  <2> SUFFICES ASSUME NEW x \in AttemptKeys, rows'[x] # None PROVE RowOK(x, rows[x])'
    BY DEF Rows
  <2>1. PICK row : row = rows[x]
    OBVIOUS
  <2>2. RowOK(x, row)'
    BY <1>1, <1>3, <2>1, RowFrame DEF IInv, Data, Rows
  <2> QED BY <1>1, <2>1, <2>2 DEF RowOK, Serves
<1>6. StaysWithPlayer'
  <2> SUFFICES ASSUME NEW x \in ServerIds, NEW y \in Facts, logs[x][y] # None, ~logs[x][y].left
               PROVE  Together(logs[x][y].by, server'[x].user)
    BY <1>1, <1>3 DEF StaysWithPlayer, Together
  <2>1. server[x] # None
    BY DEF IInv, Data, LogsServed
  <2>2. server'[x] = server[x]
    BY <1>3, <2>1
  <2> QED BY <2>2 DEF IInv, Data, StaysWithPlayer
<1> QED BY <1>3, <1>4, <1>5, <1>6 DEF Data

LEMMA CreateAttemptKeeps ==
  ASSUME IInv, NEW f \in Flows, CreateAttempt(f)
  PROVE  IInv'
<1>1. pc[f] \in {"create", "again"} /\ held[f] \in WorkType
  BY DEF CreateAttempt, IInv, TypeOK
<1>2. PICK s \in ServerIds :
        NewAttempt(f, s) /\ Hold(f, [held[f] EXCEPT !.sid = s, !.user = None, !.auth = None])
  BY DEF CreateAttempt
<1>3. PICK h, k : h = [held[f] EXCEPT !.sid = s, !.user = None, !.auth = None] /\ k = held[f].key
  OBVIOUS
<1>4. /\ h \in WorkType /\ h.key = k /\ h.batch = held[f].batch /\ h.left = held[f].left
      /\ h.quit = held[f].quit /\ h.sid = s
  BY <1>1, <1>3 DEF WorkType
<1>5. At(f, "bindget", h)
  BY <1>2, <1>3 DEF CreateAttempt, Goto, Hold, At
<1>6. UNCHANGED <<session, device, rows, queue, minted, players, kept, lost, faults>>
  BY DEF CreateAttempt, browser, local, history
<1>7. Serves(s, k)' /\ Grows /\ UNCHANGED <<registered, logs>> /\ server' \in [ServerIds -> OwnType \cup {None}]
  BY <1>1, <1>2, <1>3, <1>6, NewAttemptServes
<1>8. TypeOK'
  BY <1>4, <1>5, <1>6, <1>7 DEF IInv, TypeOK, At, Labels, FlushLabels
<1>9. Fit(f)'
  BY <1>1, <1>3, <1>4, <1>5, <1>7, <1>8, FlushGoesOn DEF FlushLabels
<1>10. Data'
  BY <1>1, <1>2, <1>6, NewAttemptData DEF CreateAttempt
<1> QED BY <1>1, <1>4, <1>5, <1>6, <1>7, <1>8, <1>9, <1>10, FlowStep

LEMMA CreateFailsKeeps ==
  ASSUME IInv, NEW f \in Flows, CreateFails(f)
  PROVE  IInv'
<1>1. pc[f] \in {"create", "again"} /\ held[f] \in WorkType
  BY DEF CreateFails, IInv, TypeOK
<1>2. UNCHANGED <<session, device, rows, queue, minted, players, kept, lost>> /\ faults' \in Nat
  BY DEF CreateFails, Fault, browser, local, seen, IInv, TypeOK
<1>3. /\ Data' /\ Grows /\ UNCHANGED <<registered, logs>>
      /\ server' \in [ServerIds -> OwnType \cup {None}]
  <2>1. CASE UNCHANGED remote
    BY <1>2, <2>1, DataFrame DEF CreateFails, remote, IInv, TypeOK
  <2>2. CASE \E s \in ServerIds : NewAttempt(f, s)
    <3>1. PICK s \in ServerIds : NewAttempt(f, s)
      BY <2>2
    <3>2. PICK k : k = held[f].key
      OBVIOUS
    <3> QED BY <1>1, <1>2, <3>1, <3>2, NewAttemptData, NewAttemptServes DEF CreateFails
  <2> QED BY <2>1, <2>2 DEF CreateFails
<1>4. ASSUME NEW label \in Labels, NEW h \in WorkType, At(f, label, h) PROVE TypeOK'
  BY <1>2, <1>3, <1>4 DEF IInv, TypeOK, At
<1>5. PICK label \in Labels, h \in WorkType : At(f, label, h) /\ (h.quit => held[f].quit) /\ Fit(f)'
  <2>1. CASE Goto(f, "again") /\ Hold(f, [held[f] EXCEPT !.auth = session]) /\ pc[f] = "create"
    <3>1. PICK h : h = [held[f] EXCEPT !.auth = session]
      OBVIOUS
    <3>2. /\ h \in WorkType /\ h.key = held[f].key /\ h.batch = held[f].batch /\ h.left = held[f].left
          /\ h.quit = held[f].quit /\ h.user = held[f].user
      BY <1>1, <3>1 DEF WorkType, IInv, TypeOK
    <3>3. At(f, "again", h) /\ "again" \in FlushLabels \ {"pending", "bound"} /\ "again" \in Labels
      BY <2>1, <3>1 DEF Goto, Hold, At, FlushLabels, Labels
    <3>4. Fit(f)'
      BY <1>1, <1>3, <1>4, <2>1, <3>2, <3>3, FlushGoesOn DEF FlushLabels
    <3> QED BY <3>2, <3>3, <3>4
  <2>2. CASE End(f)
    BY <2>2, EndFit DEF IInv
  <2> QED BY <2>1, <2>2 DEF CreateFails
<1>6. TypeOK'
  BY <1>4, <1>5
<1> QED BY <1>1, <1>2, <1>3, <1>5, <1>6, FlowStep

LEMMA BindGetKeeps ==
  ASSUME IInv, NEW f \in Flows, BindGet(f)
  PROVE  IInv'
<1>1. pc[f] = "bindget" /\ held[f] \in WorkType /\ Fit(f)
  BY DEF BindGet, IInv, TypeOK
<1>2. PICK k, s : k = held[f].key /\ s = held[f].sid
  OBVIOUS
<1>3. k \in AttemptKeys /\ minted[k] # None /\ Serves(s, k)
  BY <1>1, <1>2 DEF Fit, Keyed, FlushLabels
<1>4. UNCHANGED <<session, device, rows, queue, minted, registered, server, logs, players, kept, lost, faults>>
  BY DEF BindGet, browser, local, remote, history
<1>5. Grows /\ Serves(s, k)'
  BY <1>3, <1>4, DataFrame DEF BindGet, Serves
<1>6. ASSUME NEW label \in FlushLabels, NEW h \in WorkType, At(f, label, h) PROVE TypeOK'
  BY <1>4, <1>6 DEF IInv, TypeOK, At, Labels
<1>7. CASE rows[k] = None
  <2>1. At(f, "post", held[f])
    BY <1>2, <1>7 DEF BindGet, Goto, At, IInv, TypeOK
  <2>2. PICK h : h = held[f]
    OBVIOUS
  <2>3. Fit(f)'
    BY <1>1, <1>2, <1>5, <1>6, <2>1, <2>2, FlushGoesOn DEF FlushLabels
  <2> QED BY <1>1, <1>4, <2>1, <2>3, WaitStep DEF BindGet, seen, Labels, FlushLabels, IInv, TypeOK
<1>8. CASE rows[k] # None
  <2>1. PICK h : h = [held[f] EXCEPT !.row = rows[k]]
    OBVIOUS
  <2>2. /\ h \in WorkType /\ h.key = k /\ h.batch = held[f].batch /\ h.left = held[f].left
        /\ h.quit = held[f].quit /\ h.sid = s /\ h.row = rows[k]
    BY <1>1, <1>2, <1>3, <2>1 DEF WorkType, IInv, TypeOK
  <2>3. At(f, "bindput", h)
    BY <1>2, <1>8, <2>1 DEF BindGet, Goto, Hold, At
  <2>4. RowOK(h.key, h.row)
    BY <1>3, <1>8, <2>2 DEF IInv, Data, Rows
  <2>5. Fit(f)'
    BY <1>1, <1>2, <1>5, <1>6, <2>2, <2>3, <2>4, FlushGoesOn DEF FlushLabels
  <2> QED BY <1>1, <1>4, <2>2, <2>3, <2>5, WaitStep DEF BindGet, seen, Labels, FlushLabels, IInv, TypeOK
<1> QED BY <1>7, <1>8

LEMMA BindPutKeeps ==
  ASSUME IInv, NEW f \in Flows, BindPut(f)
  PROVE  IInv'
<1>1. pc[f] = "bindput" /\ held[f] \in WorkType /\ Fit(f)
  BY DEF BindPut, IInv, TypeOK
<1>2. PICK k, s, row : k = held[f].key /\ s = held[f].sid /\ row = [held[f].row EXCEPT !.sid = held[f].sid]
  OBVIOUS
<1>3. k \in AttemptKeys /\ minted[k] # None /\ Serves(s, k) /\ RowOK(k, held[f].row)
  BY <1>1, <1>2 DEF Fit, Keyed, FlushLabels
<1>4. RowOK(k, row)
  <2>1. row \in RowType /\ row.sid = s
    BY <1>2, <1>3 DEF RowOK, RowType, Serves
  <2> QED BY <1>3, <2>1 DEF RowOK
<1>5. PutBack(k, row)
  BY <1>2 DEF BindPut
<1>6. UNCHANGED <<session, device, minted, registered, server, logs, players>>
  BY <1>5 DEF BindPut, PutBack, browser, remote
<1>7. PICK h : h = [held[f] EXCEPT !.row = None]
  OBVIOUS
<1>8. /\ h \in WorkType /\ h.key = k /\ h.batch = held[f].batch /\ h.left = held[f].left
      /\ h.quit = held[f].quit /\ h.sid = s
  BY <1>1, <1>2, <1>7 DEF WorkType
<1>9. At(f, "post", h) /\ "post" \in Labels
  BY <1>7 DEF BindPut, Goto, Hold, At, Labels, FlushLabels
<1>10. TypeOK'
  <2>1. rows' \in [AttemptKeys -> RowType \cup {None}] /\ kept' \subseteq AttemptKeys
    BY <1>3, <1>4, <1>5 DEF PutBack, RowOK, IInv, TypeOK
  <2> QED BY <1>5, <1>6, <1>8, <1>9, <2>1 DEF PutBack, IInv, TypeOK, At
<1>11. Serves(s, k)'
  BY <1>3, <1>6 DEF Serves
<1>12. Grows => Fit(f)'
  BY <1>1, <1>2, <1>8, <1>9, <1>10, <1>11, FlushGoesOn DEF FlushLabels
<1> QED BY <1>1, <1>3, <1>4, <1>5, <1>8, <1>9, <1>12, PutBackStep DEF BindPut

\* What is posted is of a player of the attempt it is posted for.
LEMMA PostData ==
  ASSUME IInv, NEW f \in Flows, pc[f] = "post", Post(f), UNCHANGED <<browser, local, players>>
  PROVE  /\ Data' /\ Grows /\ UNCHANGED <<registered, server>>
         /\ logs' \in [ServerIds -> [Facts -> LogType \cup {None}]]
<1>1. UNCHANGED <<session, device, rows, queue, minted, players, registered, server>>
  BY DEF browser, local, Post
<1>2. PICK h, k, s : h = held[f] /\ k = h.key /\ s = h.sid
  OBVIOUS
<1>3. /\ h \in WorkType /\ k \in AttemptKeys /\ minted[k] \in Ids /\ s \in ServerIds
      /\ Serves(s, k) /\ BatchOK(h)
  <2>1. Fit(f) /\ h \in WorkType
    BY <1>2 DEF IInv, TypeOK
  <2>2. k \in AttemptKeys /\ minted[k] # None
    BY <1>2, <2>1 DEF Fit, Keyed, FlushLabels
  <2>3. Serves(s, k) /\ BatchOK(h)
    BY <1>2, <2>1 DEF Fit, FlushLabels
  <2> QED BY <2>1, <2>2, <2>3 DEF Serves, IInv, TypeOK
<1>4. server[s] \in OwnType /\ server[s].user \in Users /\ server[s].left \in BOOLEAN
  BY <1>3 DEF Serves, OwnType, IInv, TypeOK
<1> DEFINE new(x) == CHOOSE m \in h.batch : m.fact = x
           entry(x) == [by |-> new(x).by, left |-> new(x).late \/ h.left \/ server[s].left]
           line(x) == IF logs[s][x] = None /\ x \in {m.fact : m \in h.batch} THEN entry(x) ELSE logs[s][x]
<1>5. logs' = [logs EXCEPT ![s] = [x \in Facts |-> line(x)]]
  BY <1>2 DEF Post
<1>6. ASSUME NEW x \in Facts, x \in {m.fact : m \in h.batch}
      PROVE  /\ entry(x) \in LogType
             /\ ~entry(x).left => Together(entry(x).by, server[s].user)
  <2>1. PICK m : m = new(x)
    OBVIOUS
  <2>2. m \in h.batch /\ m \in [fact : Facts, by : Users, late : BOOLEAN]
    BY <1>3, <1>6, <2>1 DEF WorkType
  <2>3. PICK late : late = (m.late \/ h.left \/ server[s].left)
    OBVIOUS
  <2>4. late \in BOOLEAN
    BY <2>3
  <2>5. entry(x) = [by |-> m.by, left |-> late]
    BY <2>1, <2>3
  <2>6. entry(x) \in LogType
    BY <2>2, <2>4, <2>5 DEF LogType
  <2>7. ~late => m.by \in players[minted[k]] /\ server[s].user \in players[minted[k]]
    BY <1>2, <1>3, <2>2, <2>3 DEF BatchOK, Serves
  <2>8. entry(x).left = late /\ entry(x).by = m.by
    BY <2>5
  <2> QED BY <1>3, <2>6, <2>7, <2>8 DEF Together
<1> HIDE DEF entry
<1>7. \A x \in Facts : line(x) \in LogType \cup {None}
  BY <1>3, <1>6 DEF IInv, TypeOK
<1>8. /\ \A x \in Facts : logs'[s][x] = line(x)
      /\ \A y \in ServerIds \ {s} : logs'[y] = logs[y]
  BY <1>3, <1>5 DEF IInv, TypeOK
<1>9. \A x \in Facts : \/ logs'[s][x] = logs[s][x]
                       \/ /\ x \in {m.fact : m \in h.batch}
                          /\ logs'[s][x] = entry(x)
  BY <1>8
<1>10. logs' \in [ServerIds -> [Facts -> LogType \cup {None}]]
  <2> HIDE DEF line
  <2> QED BY <1>3, <1>5, <1>7 DEF IInv, TypeOK
<1>11. LogsServed'
  BY <1>1, <1>3, <1>8 DEF IInv, Data, LogsServed, Serves
<1>12. StaysWithPlayer'
  <2> HIDE DEF line
  <2> SUFFICES ASSUME NEW y \in ServerIds, NEW x \in Facts, logs'[y][x] # None, ~logs'[y][x].left
               PROVE  Together(logs'[y][x].by, server[y].user)
    BY <1>1 DEF StaysWithPlayer, Together
  <2>1. CASE logs'[y][x] = logs[y][x]
    BY <2>1 DEF IInv, Data, StaysWithPlayer
  <2>2. CASE y = s /\ x \in {m.fact : m \in h.batch} /\ logs'[y][x] = entry(x)
    BY <1>6, <2>2
  <2> QED BY <1>8, <1>9, <2>1, <2>2
<1>13. Here' /\ Past' /\ Queued'
  BY <1>1 DEF IInv, Data, Here, Past, Queued, Owned
<1>14. Rows'
  BY <1>1 DEF IInv, Data, Rows, RowOK, Serves
<1>15. Grows
  BY <1>1 DEF Grows, IInv, TypeOK, Ids
<1> QED BY <1>1, <1>10, <1>11, <1>12, <1>13, <1>14, <1>15 DEF Data

LEMMA PostFactsKeeps ==
  ASSUME IInv, NEW f \in Flows, PostFacts(f)
  PROVE  IInv'
<1>1. pc[f] = "post" /\ held[f] \in WorkType /\ Fit(f)
  BY DEF PostFacts, IInv, TypeOK
<1>2. UNCHANGED <<session, device, rows, queue, minted, players, kept, lost, faults>>
  BY DEF PostFacts, browser, local, history
<1>3. /\ Data' /\ Grows /\ UNCHANGED <<registered, server>>
      /\ logs' \in [ServerIds -> [Facts -> LogType \cup {None}]]
  BY <1>1, <1>2, PostData DEF PostFacts
<1>4. PICK h, k, s : h = held[f] /\ k = h.key /\ s = h.sid
  OBVIOUS
<1>5. At(f, "mark", h)
  BY <1>4 DEF PostFacts, Goto, At, IInv, TypeOK
<1>6. Serves(s, k)'
  BY <1>1, <1>2, <1>3, <1>4 DEF Fit, Serves
<1>7. TypeOK'
  BY <1>1, <1>2, <1>3, <1>4, <1>5 DEF IInv, TypeOK, At, Labels, FlushLabels
<1>8. Fit(f)'
  BY <1>1, <1>3, <1>4, <1>5, <1>6, <1>7, FlushGoesOn DEF FlushLabels
<1> QED BY <1>1, <1>2, <1>3, <1>4, <1>5, <1>7, <1>8, FlowStep

LEMMA PostFailsKeeps ==
  ASSUME IInv, NEW f \in Flows, PostFails(f)
  PROVE  IInv'
<1>1. pc[f] = "post"
  BY DEF PostFails
<1>2. UNCHANGED <<session, device, rows, queue, minted, players, kept, lost>> /\ faults' \in Nat
  BY DEF PostFails, Fault, browser, local, seen, IInv, TypeOK
<1>3. /\ Data' /\ Grows /\ UNCHANGED <<registered, server>>
      /\ logs' \in [ServerIds -> [Facts -> LogType \cup {None}]]
  <2>1. CASE UNCHANGED remote
    BY <1>2, <2>1, DataFrame DEF PostFails, remote, IInv, TypeOK
  <2>2. CASE Post(f)
    BY <1>1, <1>2, <2>2, PostData DEF PostFails
  <2> QED BY <2>1, <2>2 DEF PostFails
<1>4. PICK label \in Labels, h \in WorkType : At(f, label, h) /\ (h.quit => held[f].quit) /\ Fit(f)'
  BY EndFit DEF PostFails, IInv
<1>5. TypeOK'
  BY <1>2, <1>3, <1>4 DEF IInv, TypeOK, At
<1> QED BY <1>1, <1>2, <1>3, <1>4, <1>5, FlowStep

\* A row that is marked keeps its player.
LEMMA MarkSentKeeps ==
  ASSUME IInv, NEW f \in Flows, MarkSent(f)
  PROVE  IInv'
<1>1. pc[f] = "mark"
  BY DEF MarkSent
<1>2. PICK k, posted : k = held[f].key /\ posted = {m.fact : m \in held[f].batch}
  OBVIOUS
<1>3. UNCHANGED <<session, device, rows, minted, registered, server, logs, players, kept, lost, faults>>
  BY DEF MarkSent, browser, remote, history
<1> DEFINE mark(x) == IF x \in posted /\ queue[k][x] # None
                      THEN [queue[k][x] EXCEPT !.sent = TRUE] ELSE queue[k][x]
<1>4. queue' = [queue EXCEPT ![k] = [x \in Facts |-> mark(x)]]
  BY <1>2 DEF MarkSent
<1>5. k \in AttemptKeys
  BY <1>1, <1>2 DEF IInv, Fit, Keyed, FlushLabels
<1>6. ASSUME NEW x \in Facts
      PROVE  /\ mark(x) \in FactType \cup {None}
             /\ mark(x) # None =>
                  queue[k][x] # None /\ mark(x).by = queue[k][x].by /\ mark(x).late = queue[k][x].late
  <2>1. PICK r : r = queue[k][x]
    OBVIOUS
  <2>2. r \in FactType \cup {None}
    BY <1>5, <2>1 DEF IInv, TypeOK
  <2>3. CASE x \in posted /\ r # None
    <3>1. PICK q : q = [r EXCEPT !.sent = TRUE]
      OBVIOUS
    <3>2. r \in FactType /\ mark(x) = q
      BY <2>1, <2>2, <2>3, <3>1
    <3>3. q \in FactType /\ q.by = r.by /\ q.late = r.late
      BY <3>1, <3>2 DEF FactType
    <3> QED BY <2>1, <2>3, <3>2, <3>3
  <2>4. CASE ~(x \in posted /\ r # None)
    <3>1. mark(x) = r
      BY <2>1, <2>4
    <3> QED BY <2>1, <2>2, <3>1
  <2> QED BY <2>3, <2>4
<1> HIDE DEF mark
<1>7. /\ \A x \in Facts : queue'[k][x] = mark(x)
      /\ \A j \in AttemptKeys \ {k} : queue'[j] = queue[j]
      /\ queue' \in [AttemptKeys -> [Facts -> FactType \cup {None}]]
  BY <1>4, <1>5, <1>6 DEF IInv, TypeOK
<1>8. Queued'
  <2> SUFFICES ASSUME NEW j \in AttemptKeys, NEW x \in Facts, queue'[j][x] # None
               PROVE  minted[j] # None /\ (~queue'[j][x].late => Owned(j, queue'[j][x].by))
    BY <1>3 DEF Queued, Owned
  <2>1. queue[j][x] # None /\ queue'[j][x].by = queue[j][x].by /\ queue'[j][x].late = queue[j][x].late
    BY <1>6, <1>7
  <2> QED BY <2>1 DEF IInv, Data, Queued
<1>9. Here' /\ Past' /\ LogsServed' /\ StaysWithPlayer'
  BY <1>3 DEF IInv, Data, Here, Past, LogsServed, StaysWithPlayer, Together
<1>10. Rows'
  BY <1>3 DEF IInv, Data, Rows, RowOK, Serves
<1>11. Grows
  BY <1>3 DEF Grows, IInv, TypeOK, Ids
<1>12. PICK label \in Labels, h \in WorkType : At(f, label, h) /\ (h.quit => held[f].quit) /\ Fit(f)'
  BY EndFit DEF MarkSent, IInv
<1>13. TypeOK'
  BY <1>3, <1>7, <1>12 DEF IInv, TypeOK, At
<1> QED BY <1>1, <1>3, <1>8, <1>9, <1>10, <1>11, <1>12, <1>13, FlowStep DEF Data

-----------------------------------------------------------------------------
(* Signing in and out.                                                      *)

\* Whom a flow that signs in or registers waits for.
LEMMA ForOf ==
  ASSUME IInv, NEW u \in Users
  PROVE  /\ [NoWork EXCEPT !.user = u] \in WorkType
         /\ [NoWork EXCEPT !.user = u].user = u /\ ~[NoWork EXCEPT !.user = u].quit
BY Nothing DEF NoWork, WorkType

LEMMA RegisterKeeps ==
  ASSUME IInv, NEW f \in Flows, Register(f)
  PROVE  IInv'
<1>1. device \in Ids /\ device \in Users /\ device \in Nat
  BY DEF IInv, TypeOK, Users, Ids
<1>2. PICK h : h = [NoWork EXCEPT !.user = device]
  OBVIOUS
<1>3. h \in WorkType /\ h.user = device /\ ~h.quit
  BY <1>1, <1>2, ForOf
<1>4. At(f, "register", h)
  BY <1>2 DEF Register, Goto, Hold, At
<1>5. pc'[f] = "register" /\ held'[f] = h
  BY <1>4, Moves DEF IInv
<1>6. UNCHANGED <<device, players, kept, lost, faults>>
  BY DEF Register, browser, history
<1>7. Fit(f)'
  BY <1>1, <1>3, <1>5, <1>6 DEF Fit, Keyed, FlushLabels
<1> QED BY <1>3, <1>4, <1>6, <1>7, WaitStep DEF Register, seen, Labels, IInv, TypeOK

LEMMA SignInKeeps ==
  ASSUME IInv, NEW f \in Flows, NEW a \in Users, SignIn(f, a)
  PROVE  IInv'
<1>1. PICK h : h = [NoWork EXCEPT !.user = a]
  OBVIOUS
<1>2. h \in WorkType /\ h.user = a /\ ~h.quit
  BY <1>1, ForOf
<1>3. At(f, "signin", h)
  BY <1>1 DEF SignIn, Goto, Hold, At
<1>4. pc'[f] = "signin" /\ held'[f] = h
  BY <1>3, Moves DEF IInv
<1>5. UNCHANGED <<registered, players, kept, lost, faults>>
  BY DEF SignIn, remote, history
<1>6. Fit(f)'
  BY <1>2, <1>4, <1>5 DEF SignIn, Fit, Keyed, FlushLabels
<1> QED BY <1>2, <1>3, <1>5, <1>6, WaitStep DEF SignIn, seen, Labels, IInv, TypeOK

LEMMA RegisterUserKeeps ==
  ASSUME IInv, NEW f \in Flows, RegisterUser(f)
  PROVE  IInv'
<1>1. pc[f] = "register" /\ held[f] \in WorkType /\ Fit(f) /\ ~held[f].quit
  BY DEF RegisterUser, IInv, TypeOK, Fit, FlushLabels
<1>2. UNCHANGED <<session, device, rows, queue, minted, server, logs, players, kept, lost, faults>>
  BY DEF RegisterUser, browser, local, history
<1>3. CASE held[f].user \in registered
  <2>1. Done(f) /\ UNCHANGED remote
    BY <1>3 DEF RegisterUser, remote
  <2> QED BY <1>1, <1>2, <2>1, DoneStep DEF RegisterUser, seen, IInv, TypeOK
<1>4. CASE held[f].user \notin registered
  <2>1. PICK h, u : h = held[f] /\ u = h.user
    OBVIOUS
  <2>2. registered' = registered \cup {u} /\ u \in Ids /\ u <= device
    BY <1>1, <1>4, <2>1 DEF RegisterUser, Fit
  <2>3. At(f, "signin", h)
    BY <1>4, <2>1 DEF RegisterUser, Goto, At, IInv, TypeOK
  <2>4. pc'[f] = "signin" /\ held'[f] = h
    BY <2>3, Moves DEF IInv
  <2>5. Grows
    BY <1>2, <2>2 DEF Grows, IInv, TypeOK, Ids
  <2>6. TypeOK'
    BY <1>1, <1>2, <2>1, <2>2, <2>3 DEF IInv, TypeOK, At, Labels, Users
  <2>7. Data'
    <3>1. Here' /\ Past' /\ Queued' /\ LogsServed' /\ StaysWithPlayer'
      BY <1>2, <2>2 DEF IInv, Data, Here, Past, Queued, Owned, LogsServed, StaysWithPlayer, Together
    <3>2. Rows'
      BY <1>2 DEF IInv, Data, Rows, RowOK, Serves
    <3> QED BY <3>1, <3>2 DEF Data
  <2>8. LogoutForgets'
    BY <1>1, <1>2, <2>3, ForgetsFrame
  <2>9. NeverBricked'
    <3> SUFFICES ASSUME session = None, device \in registered', device \notin lost
                 PROVE  \E g \in Flows : pc'[g] = "signin" /\ held'[g].user = device
      BY <1>2 DEF NeverBricked
    <3>1. CASE device = u
      BY <2>1, <2>4, <3>1
    <3>2. CASE device \in registered
      <4>1. PICK g \in Flows : pc[g] = "signin" /\ held[g].user = device
        BY <3>2 DEF IInv, NeverBricked
      <4> QED BY <1>1, <2>3, <4>1, Moves DEF IInv
    <3> QED BY <2>2, <3>1, <3>2
  <2>10. Budget'
    BY <1>2, <2>1, <2>3, QuittingFrame, IdsAssumption DEF IInv, Budget, TypeOK, Ids
  <2>11. Fit(f)'
    BY <1>1, <2>1, <2>2, <2>4 DEF Fit, Keyed, FlushLabels
  <2>12. ASSUME NEW g \in Flows \ {f} PROVE Fit(g)'
    BY <2>3, <2>5, <2>6, Moves, FitFrame DEF IInv
  <2> QED BY <2>6, <2>7, <2>8, <2>9, <2>10, <2>11, <2>12 DEF IInv
<1> QED BY <1>3, <1>4

\* Whoever signs in becomes a player of the id of now.
LEMMA SetSessionKeeps ==
  ASSUME IInv, NEW f \in Flows, SetSession(f)
  PROVE  IInv'
<1>1. PICK u : u = held[f].user
  OBVIOUS
<1>2. pc[f] = "signin" /\ u \in registered /\ u \in Users /\ u # None
  BY <1>1, NoneAssumption DEF SetSession, IInv, TypeOK, Fit
<1>3. UNCHANGED <<device, rows, queue, minted, registered, server, logs, kept, lost, faults>>
      /\ session' = u
  BY <1>1 DEF SetSession, local, remote
<1>4. /\ device \in Ids /\ players'[device] = players[device] \cup {u}
      /\ \A i \in Ids \ {device} : players'[i] = players[i]
      /\ players' \in [Ids -> SUBSET Users]
  BY <1>1, <1>2 DEF SetSession, IInv, TypeOK
<1>5. Grows
  BY <1>3, <1>4 DEF Grows, IInv, TypeOK, Ids
<1>6. Fit(f)' /\ At(f, "idle", NoWork)
  BY DoneFit DEF SetSession, IInv
<1>7. TypeOK'
  BY <1>2, <1>3, <1>4, <1>6, Nothing DEF IInv, TypeOK, At
<1>8. Data'
  <2>1. Here'
    BY <1>3, <1>4 DEF IInv, Data, Here
  <2>2. Past' /\ LogsServed'
    BY <1>3 DEF IInv, Data, Past, LogsServed
  <2>3. Rows'
    <3> SUFFICES ASSUME NEW x \in AttemptKeys, rows'[x] # None PROVE RowOK(x, rows[x])'
      BY DEF Rows
    <3>1. PICK row : row = rows[x]
      OBVIOUS
    <3>2. RowOK(x, row)'
      BY <1>3, <1>5, <3>1, RowFrame DEF IInv, Data, Rows
    <3> QED BY <1>3, <3>1, <3>2 DEF RowOK, Serves
  <2>4. ASSUME NEW k \in AttemptKeys, NEW v, Owned(k, v) PROVE Owned(k, v)'
    BY <1>3, <1>5, <2>4 DEF Owned, Grows
  <2>5. Queued'
    <3> SUFFICES ASSUME NEW j \in AttemptKeys, NEW x \in Facts, queue[j][x] # None
                 PROVE  minted[j] # None /\ (~queue[j][x].late => Owned(j, queue[j][x].by)')
      BY <1>3 DEF Queued, Owned
    <3>1. PICK v : v = queue[j][x].by
      OBVIOUS
    <3>2. ~queue[j][x].late => Owned(j, v)'
      BY <2>4, <3>1 DEF IInv, Data, Queued
    <3> QED BY <1>3, <3>1, <3>2 DEF IInv, Data, Queued, Owned
  <2>6. StaysWithPlayer'
    <3>1. ASSUME NEW v, NEW w, Together(v, w) PROVE Together(v, w)'
      BY <1>5, <3>1 DEF Together, Grows
    <3> SUFFICES ASSUME NEW s \in ServerIds, NEW x \in Facts, logs[s][x] # None, ~logs[s][x].left
                 PROVE  Together(logs[s][x].by, server[s].user)'
      BY <1>3 DEF StaysWithPlayer
    <3>2. PICK v, w : v = logs[s][x].by /\ w = server[s].user
      OBVIOUS
    <3>3. Together(v, w)'
      BY <3>1, <3>2 DEF IInv, Data, StaysWithPlayer
    <3> QED BY <1>3, <3>2, <3>3 DEF Together
  <2> QED BY <2>1, <2>2, <2>3, <2>5, <2>6 DEF Data
<1>9. LogoutForgets'
  BY <1>2, <1>3, <1>6, ForgetsFrame
<1>10. NeverBricked'
  BY <1>2, <1>3 DEF NeverBricked
<1>11. Budget'
  BY <1>3, <1>6, Nothing, QuittingFrame, IdsAssumption DEF IInv, Budget, TypeOK, Ids
<1>12. ASSUME NEW g \in Flows \ {f} PROVE Fit(g)'
  BY <1>5, <1>6, <1>7, Moves, FitFrame DEF IInv
<1> QED BY <1>6, <1>7, <1>8, <1>9, <1>10, <1>11, <1>12 DEF IInv

LEMMA SignInFailsKeeps ==
  ASSUME IInv, NEW f \in Flows, SignInFails(f)
  PROVE  IInv'
<1>1. PICK u : u = held[f].user
  OBVIOUS
<1>2. pc[f] = "signin" /\ u \in Users
  BY <1>1 DEF SignInFails, IInv, TypeOK, Fit
<1>3. /\ UNCHANGED <<session, device, rows, queue, minted, registered, server, logs, players, kept>>
      /\ lost' = lost \cup {u} /\ faults' \in Nat
  BY <1>1 DEF SignInFails, Fault, browser, local, remote, IInv, TypeOK
<1>4. Fit(f)' /\ At(f, "idle", NoWork)
  BY DoneFit DEF SignInFails, IInv
<1>5. Data' /\ Grows
  BY <1>3, DataFrame DEF SignInFails
<1>6. TypeOK'
  BY <1>2, <1>3, <1>4, Nothing DEF IInv, TypeOK, At
<1>7. LogoutForgets'
  BY <1>2, <1>3, <1>4, ForgetsFrame
<1>8. NeverBricked'
  <2> SUFFICES ASSUME session = None, device \in registered, device \notin lost, device # u
               PROVE  \E g \in Flows : pc'[g] = "signin" /\ held'[g].user = device
    BY <1>3 DEF NeverBricked
  <2>1. PICK g \in Flows : pc[g] = "signin" /\ held[g].user = device
    BY DEF IInv, NeverBricked
  <2> QED BY <1>1, <1>4, <2>1, Moves DEF IInv
<1>9. Budget'
  BY <1>3, <1>4, Nothing, QuittingFrame, IdsAssumption DEF IInv, Budget, TypeOK, Ids
<1>10. ASSUME NEW g \in Flows \ {f} PROVE Fit(g)'
  BY <1>4, <1>5, <1>6, Moves, FitFrame DEF IInv
<1> QED BY <1>4, <1>5, <1>6, <1>7, <1>8, <1>9, <1>10 DEF IInv

\* A logout takes the next id, and its place is kept from the moment it starts.
LEMMA LogoutKeeps ==
  ASSUME IInv, NEW f \in Flows, Logout(f)
  PROVE  IInv'
<1>1. pc[f] = "idle" /\ ~held[f].quit /\ device \in Nat
  <2>1. pc[f] = "idle"
    BY DEF Logout
  <2>2. Fit(f) /\ device \in Nat
    BY DEF IInv, TypeOK, Ids
  <2> QED BY <2>1, <2>2 DEF Fit, FlushLabels
<1>2. UNCHANGED <<session, device, rows, queue, minted, registered, server, logs, players, kept, lost, faults>>
  BY DEF Logout, browser, local, remote, history
<1>3. Data' /\ Grows
  BY <1>2, DataFrame DEF Logout
<1>4. PICK label, h :
        /\ label \in Labels /\ h \in WorkType /\ At(f, label, h) /\ h.quit /\ Fit(f)'
  <2> DEFINE joined == {g \in Flows : TabOf[g] = TabOf[f] /\ pc[g] \in FlushLabels}
  <2>1. CASE \E k \in Stored : /\ Hold(f, [FlushOf(f, k) EXCEPT !.quit = TRUE, !.joined = joined])
                               /\ Goto(f, "pending")
    <3>1. PICK k \in Stored : /\ Hold(f, [FlushOf(f, k) EXCEPT !.quit = TRUE, !.joined = joined])
                              /\ Goto(f, "pending")
      BY <2>1
    <3>2. PICK h : h = [FlushOf(f, k) EXCEPT !.quit = TRUE, !.joined = joined]
      OBVIOUS
    <3>3. (minted[k] # device) \in BOOLEAN /\ k \in AttemptKeys /\ joined \in SUBSET Flows
      BY DEF Stored
    <3>4. FlushOf(f, k) \in WorkType
      BY <3>3, PlayerOfNow, Nothing DEF FlushOf, NoWork, WorkType, IInv, TypeOK
    <3>5. /\ FlushOf(f, k).key = k /\ FlushOf(f, k).user = Me /\ FlushOf(f, k).born = device
          /\ FlushOf(f, k).left = (minted[k] # device)
      BY DEF FlushOf, NoWork
    <3> HIDE DEF joined
    <3>6. /\ h \in WorkType /\ h.key = k /\ h.user = Me /\ h.born = device
          /\ h.left = (minted[k] # device) /\ h.quit
      BY <3>2, <3>3, <3>4, <3>5 DEF WorkType
    <3>7. At(f, "pending", h)
      BY <3>1, <3>2 DEF Goto, Hold, At
    <3>8. Fit(f)'
      BY <1>2, <3>6, <3>7, FlushFit DEF Logout
    <3> QED BY <3>6, <3>7, <3>8 DEF Labels, FlushLabels
  <2>2. CASE Hold(f, [NoWork EXCEPT !.quit = TRUE, !.joined = joined]) /\ Goto(f, "rotate")
    <3>1. PICK h : h = [NoWork EXCEPT !.quit = TRUE, !.joined = joined]
      OBVIOUS
    <3>2. joined \in SUBSET Flows
      OBVIOUS
    <3> HIDE DEF joined
    <3>3. h \in WorkType /\ h.quit
      BY <3>1, <3>2, Nothing DEF NoWork, WorkType
    <3>4. At(f, "rotate", h)
      BY <2>2, <3>1 DEF Goto, Hold, At
    <3>5. pc'[f] = "rotate" /\ held'[f] = h
      BY <3>4, Moves DEF IInv
    <3>6. Fit(f)'
      BY <3>3, <3>5 DEF Fit, Keyed, FlushLabels
    <3> QED BY <3>3, <3>4, <3>6 DEF Labels
  <2> QED BY <2>1, <2>2 DEF Logout
<1>5. TypeOK'
  BY <1>2, <1>4 DEF IInv, TypeOK, At
<1>6. LogoutForgets' /\ NeverBricked'
  BY <1>1, <1>2, <1>4, ForgetsFrame, BrickedFrame
<1>7. Budget'
  <2>1. Quitting' = Quitting \cup {f} /\ f \notin Quitting
    BY <1>1, <1>4, Moves DEF Quitting, IInv
  <2>2. IsFiniteSet(Quitting)
    BY TabsAssumption, FS_Subset DEF Quitting
  <2>3. Cardinality(Quitting') = Cardinality(Quitting) + 1 /\ Cardinality(Quitting) \in Nat
    BY <2>1, <2>2, FS_AddElement, FS_CardinalityType
  <2>4. device + Cardinality(Quitting) < MaxIds /\ MaxIds \in Nat
    BY IdsAssumption DEF Logout
  <2> QED BY <1>1, <1>2, <2>3, <2>4 DEF Budget
<1>8. ASSUME NEW g \in Flows \ {f} PROVE Fit(g)'
  BY <1>3, <1>4, <1>5, Moves, FitFrame DEF IInv
<1> QED BY <1>3, <1>4, <1>5, <1>6, <1>7, <1>8 DEF IInv

\* The new id is nobody's: it is younger than every attempt and every account.
LEMMA RotateKeeps ==
  ASSUME IInv, NEW f \in Flows, Rotate(f)
  PROVE  IInv'
<1>1. pc[f] = "rotate" /\ held[f].quit /\ device \in Nat
  BY DEF Rotate, IInv, Fit, TypeOK, Ids
<1>2. UNCHANGED <<rows, queue, minted, registered, server, logs, players, kept, lost, faults>>
      /\ session' = None /\ device' = device + 1
  BY DEF Rotate, NextId, local, remote, history
<1>3. At(f, "wipe", NoWork)
  BY DEF Rotate, Goto, Hold, At
<1>4. pc'[f] = "wipe" /\ held'[f] = NoWork
  BY <1>3, Moves DEF IInv
<1>5. Budget' /\ device' \in Ids
  <2>1. Quitting' = Quitting \ {f} /\ f \in Quitting
    BY <1>1, <1>3, <1>4, Moves, Nothing DEF Quitting, IInv
  <2>2. IsFiniteSet(Quitting)
    BY TabsAssumption, FS_Subset DEF Quitting
  <2>3. Cardinality(Quitting') = Cardinality(Quitting) - 1 /\ Cardinality(Quitting) \in Nat
        /\ Cardinality(Quitting') \in Nat
    BY <2>1, <2>2, FS_RemoveElement, FS_Subset, FS_CardinalityType
  <2> QED BY <1>1, <1>2, <2>3, IdsAssumption DEF IInv, Budget, Ids
<1>6. Grows
  BY <1>1, <1>2 DEF Grows
<1>7. TypeOK'
  BY <1>2, <1>3, <1>5, Nothing DEF IInv, TypeOK, At, Labels
<1>8. Data'
  <2>1. Here' /\ LogsServed' /\ StaysWithPlayer'
    BY <1>2 DEF IInv, Data, Here, LogsServed, StaysWithPlayer, Together
  <2>2. Past'
    BY <1>1, <1>2 DEF IInv, Data, Past, Ids, TypeOK
  <2>3. Rows'
    BY <1>2 DEF IInv, Data, Rows, RowOK, Serves
  <2>4. Queued'
    BY <1>1, <1>2 DEF IInv, Data, Queued, Owned, Ids
  <2> QED BY <2>1, <2>2, <2>3, <2>4 DEF Data
<1>9. LogoutForgets'
  BY <1>4 DEF LogoutForgets
<1>10. NeverBricked'
  <2>1. device' \notin registered
    BY <1>1, <1>2, <1>5 DEF IInv, Data, Past
  <2> QED BY <1>2, <2>1 DEF NeverBricked
<1>11. Fit(f)'
  BY <1>4, Nothing DEF Fit, Keyed, FlushLabels
<1>12. ASSUME NEW g \in Flows \ {f} PROVE Fit(g)'
  BY <1>3, <1>6, <1>7, Moves, FitFrame DEF IInv
<1> QED BY <1>5, <1>7, <1>8, <1>9, <1>10, <1>11, <1>12 DEF IInv

LEMMA WipeKeeps ==
  ASSUME IInv, NEW f \in Flows, Wipe(f)
  PROVE  IInv'
<1>1. UNCHANGED <<session, device, minted, registered, server, logs, players, kept, lost, faults>>
  BY DEF Wipe, browser, remote, history
<1>2. /\ rows' = [k \in AttemptKeys |-> None]
      /\ queue' = [k \in AttemptKeys |-> [x \in Facts |-> None]]
      /\ pc[f] = "wipe"
  BY DEF Wipe, Wiped
<1>3. Fit(f)' /\ At(f, "idle", NoWork)
  BY DoneFit DEF Wipe, IInv
<1>4. Grows
  BY <1>1 DEF Grows, IInv, TypeOK, Ids
<1>5. TypeOK'
  BY <1>1, <1>2, <1>3, Nothing DEF IInv, TypeOK, At
<1>6. Data'
  <2>1. Here' /\ Past' /\ LogsServed' /\ StaysWithPlayer'
    BY <1>1 DEF IInv, Data, Here, Past, LogsServed, StaysWithPlayer, Together
  <2>2. Rows' /\ Queued'
    BY <1>2 DEF Rows, Queued
  <2> QED BY <2>1, <2>2 DEF Data
<1>7. LogoutForgets'
  BY <1>2 DEF LogoutForgets, Stored
<1>8. NeverBricked'
  BY <1>1, <1>2, <1>3, BrickedFrame
<1>9. Budget'
  BY <1>1, <1>3, Nothing, QuittingFrame, IdsAssumption DEF IInv, Budget, TypeOK, Ids
<1>10. ASSUME NEW g \in Flows \ {f} PROVE Fit(g)'
  BY <1>3, <1>4, <1>5, Moves, FitFrame DEF IInv
<1> QED BY <1>3, <1>5, <1>6, <1>7, <1>8, <1>9, <1>10 DEF IInv

LEMMA WipeFailsKeeps ==
  ASSUME IInv, NEW f \in Flows, WipeFails(f)
  PROVE  IInv'
<1>1. UNCHANGED <<session, device, rows, queue, minted, registered, server, logs, players, lost>>
      /\ kept' = kept \cup Stored /\ faults' \in Nat /\ pc[f] = "wipe"
  BY DEF WipeFails, Fault, browser, local, remote, IInv, TypeOK
<1>2. Fit(f)' /\ At(f, "idle", NoWork)
  BY DoneFit DEF WipeFails, IInv
<1>3. Data' /\ Grows
  BY <1>1, DataFrame DEF WipeFails
<1>4. TypeOK'
  BY <1>1, <1>2, Nothing DEF IInv, TypeOK, At, Stored
<1>5. LogoutForgets'
  BY <1>1 DEF LogoutForgets, Stored
<1>6. NeverBricked'
  BY <1>1, <1>2, BrickedFrame
<1>7. Budget'
  BY <1>1, <1>2, Nothing, QuittingFrame, IdsAssumption DEF IInv, Budget, TypeOK, Ids
<1>8. ASSUME NEW g \in Flows \ {f} PROVE Fit(g)'
  BY <1>2, <1>3, <1>4, Moves, FitFrame DEF IInv
<1> QED BY <1>2, <1>3, <1>4, <1>5, <1>6, <1>7, <1>8 DEF IInv

\* A tab that closes leaves a wipe undone and a reply unread, and nothing else.
LEMMA CloseTabKeeps ==
  ASSUME IInv, NEW t \in Tabs, CloseTab(t)
  PROVE  IInv'
<1>1. PICK gone : gone = {f \in Flows : TabOf[f] = t}
  OBVIOUS
<1>2. /\ UNCHANGED <<session, device, rows, queue, minted, registered, server, logs, players>>
      /\ faults' \in Nat
  BY DEF CloseTab, Fault, browser, local, remote, IInv, TypeOK
<1>3. /\ pc' = [f \in Flows |-> IF f \in gone THEN "idle" ELSE pc[f]]
      /\ held' = [f \in Flows |-> IF f \in gone THEN NoWork ELSE held[f]]
      /\ kept' = IF \E f \in gone : pc[f] = "wipe" THEN kept \cup Stored ELSE kept
      /\ lost' = lost \cup {held[f].user : f \in {g \in gone : pc[g] = "signin"}}
  BY <1>1 DEF CloseTab
<1>4. /\ \A f \in gone : f \in Flows /\ pc'[f] = "idle" /\ held'[f] = NoWork
      /\ \A f \in Flows \ gone : pc'[f] = pc[f] /\ held'[f] = held[f]
  BY <1>1, <1>3
<1>5. Data' /\ Grows
  BY <1>2, DataFrame DEF CloseTab
<1>6. TypeOK'
  <2>1. \A f \in gone : pc[f] = "signin" => held[f].user \in Users
    BY <1>4 DEF IInv, Fit, TypeOK
  <2>2. kept' \subseteq AttemptKeys /\ lost' \subseteq Users
    BY <1>3, <2>1 DEF IInv, TypeOK, Stored
  <2>3. pc' \in [Flows -> Labels] /\ held' \in [Flows -> WorkType]
    BY <1>3, Nothing DEF IInv, TypeOK
  <2> QED BY <1>2, <2>2, <2>3 DEF IInv, TypeOK
<1>7. LogoutForgets'
  <2> SUFFICES ASSUME NEW k \in AttemptKeys, rows[k] # None, minted[k] # device, k \notin kept'
               PROVE  \E g \in Flows : pc'[g] = "wipe"
    BY <1>2 DEF LogoutForgets, Stored
  <2>1. k \notin kept /\ ~\E g \in gone : pc[g] = "wipe"
    BY <1>3 DEF Stored
  <2>2. PICK g \in Flows : pc[g] = "wipe"
    BY <2>1 DEF IInv, LogoutForgets, Stored
  <2> QED BY <1>4, <2>1, <2>2
<1>8. NeverBricked'
  <2> SUFFICES ASSUME session = None, device \in registered, device \notin lost'
               PROVE  \E g \in Flows : pc'[g] = "signin" /\ held'[g].user = device
    BY <1>2 DEF NeverBricked
  <2>1. device \notin lost /\ \A g \in gone : pc[g] = "signin" => held[g].user # device
    BY <1>3
  <2>2. PICK g \in Flows : pc[g] = "signin" /\ held[g].user = device
    BY <2>1 DEF IInv, NeverBricked
  <2> QED BY <1>4, <2>1, <2>2
<1>9. Budget'
  <2>1. Quitting' \subseteq Quitting
    BY <1>4, Nothing DEF Quitting
  <2>2. IsFiniteSet(Quitting)
    BY TabsAssumption, FS_Subset DEF Quitting
  <2>3. /\ Cardinality(Quitting') <= Cardinality(Quitting)
        /\ Cardinality(Quitting) \in Nat /\ Cardinality(Quitting') \in Nat
    BY <2>1, <2>2, FS_Subset, FS_CardinalityType
  <2> QED BY <1>2, <2>3, IdsAssumption DEF IInv, Budget, TypeOK, Ids
<1>10. ASSUME NEW g \in Flows PROVE Fit(g)'
  <2>1. CASE g \in gone
    BY <1>4, <2>1, Nothing DEF Fit, Keyed, FlushLabels
  <2>2. CASE g \notin gone
    BY <1>4, <1>5, <1>6, <2>2, FitFrame DEF IInv
  <2> QED BY <2>1, <2>2
<1> QED BY <1>5, <1>6, <1>7, <1>8, <1>9, <1>10 DEF IInv

-----------------------------------------------------------------------------
(* The invariant.                                                           *)

LEMMA InitHolds ==
  ASSUME Init
  PROVE  IInv
<1>1. TypeOK
  BY IdsAssumption, Nothing DEF Init, TypeOK, Ids, Users
<1>2. Budget
  <2>1. Quitting = {}
    BY Nothing DEF Init, Quitting
  <2>2. Cardinality(Quitting) = 0
    BY <2>1, FS_EmptySet
  <2> QED BY <2>2, IdsAssumption DEF Init, Budget
<1>3. Data
  <2>1. Here /\ Rows /\ Queued /\ LogsServed /\ StaysWithPlayer
    BY DEF Init, Here, Rows, Queued, LogsServed, StaysWithPlayer
  <2>2. Past
    BY IdsAssumption DEF Init, Past
  <2> QED BY <2>1, <2>2 DEF Data
<1>4. LogoutForgets /\ NeverBricked
  BY IdsAssumption DEF Init, LogoutForgets, Stored, NeverBricked, Ids
<1>5. ASSUME NEW f \in Flows PROVE Fit(f)
  <2>1. pc[f] = "idle" /\ held[f] = NoWork
    BY DEF Init
  <2> QED BY <2>1, Nothing DEF Fit, Keyed, FlushLabels
<1> QED BY <1>1, <1>2, <1>3, <1>4, <1>5 DEF IInv

LEMMA PlayKeeps ==
  ASSUME IInv, NEW f \in Flows, Play(f)
  PROVE  IInv'
BY RecordKeeps, FindActiveKeeps, MintAttemptKeeps, MintFailsKeeps, AppendFactKeeps,
   AdvanceKeeps, AdvancePutKeeps DEF Play

LEMMA FlushKeeps ==
  ASSUME IInv, NEW f \in Flows, Flush(f)
  PROVE  IInv'
BY StartFlushKeeps, ReadPendingKeeps, ReadBoundKeeps, CreateAttemptKeeps, CreateFailsKeeps,
   BindGetKeeps, BindPutKeeps, PostFactsKeeps, PostFailsKeeps, MarkSentKeeps DEF Flush

LEMMA SessionKeeps ==
  ASSUME IInv, NEW f \in Flows, Session(f)
  PROVE  IInv'
BY RegisterKeeps, RegisterUserKeeps, SignInKeeps, SetSessionKeeps, SignInFailsKeeps,
   LogoutKeeps, RotateKeeps, WipeKeeps, WipeFailsKeeps DEF Session

LEMMA StutterKeeps ==
  ASSUME IInv, UNCHANGED vars
  PROVE  IInv'
<1>1. UNCHANGED <<session, device, registered, rows, queue, minted, pc, held, server, logs,
                  players, kept, lost, faults>>
  BY DEF vars, browser, local, remote, history
<1>2. Data' /\ Grows
  BY <1>1, DataFrame DEF browser, local, remote
<1>3. TypeOK'
  BY <1>1 DEF IInv, TypeOK
<1>4. LogoutForgets' /\ NeverBricked' /\ Budget'
  BY <1>1 DEF IInv, LogoutForgets, Stored, NeverBricked, Budget, Quitting
<1>5. ASSUME NEW f \in Flows PROVE Fit(f)'
  BY <1>1, <1>2, <1>3, FitFrame DEF IInv
<1> QED BY <1>2, <1>3, <1>4, <1>5 DEF IInv

LEMMA NextKeeps ==
  ASSUME IInv, [Next]_vars
  PROVE  IInv'
BY PlayKeeps, FlushKeeps, SessionKeeps, CloseTabKeeps, StutterKeeps DEF Next

\* IInv is an invariant.
LEMMA Inductive == Spec => []IInv
<1>1. Init => IInv
  BY InitHolds
<1>2. IInv /\ [Next]_vars => IInv'
  BY NextKeeps
<1> QED BY <1>1, <1>2, PTL DEF Spec

-----------------------------------------------------------------------------
(* The theorems.                                                            *)

\* The browser's session and queue, what a flow carries over its awaits and what the
\* server keeps have their types, and the device never runs out of ids (identity.ts,
\* session-actions.ts, queue.ts, sync.ts).
THEOREM TypeCorrect == Spec => []TypeOK
<1>1. IInv => TypeOK
  BY DEF IInv
<1> QED BY Inductive, <1>1, PTL

\* Whatever logins, logouts, flushes and tabs overlap, what one player played is filed
\* under somebody who played on the device between the same two logouts, unless a write
\* straddled a logout or a row outlived it (resolve_user, flush, logoutAndReset).
THEOREM AlwaysStaysWithPlayer == Spec => []StaysWithPlayer
<1>1. IInv => StaysWithPlayer
  BY DEF IInv, Data
<1> QED BY Inductive, <1>1, PTL

\* A row outlives its logout only by a wipe that is due or failed, or by a copy put back
\* after the wipe (clearLocalPlay, setServerAttemptId, setLastStepIdx).
THEOREM LogoutAlwaysForgets == Spec => []LogoutForgets
<1>1. IInv => LogoutForgets
  BY DEF IInv
<1> QED BY Inductive, <1>1, PTL

\* A device without a session has an id that is no account's, unless the reply to a
\* registration was lost or is still under way (clearSession, register_account).
THEOREM DeviceNeverBricked == Spec => []NeverBricked
<1>1. IInv => NeverBricked
  BY DEF IInv
<1> QED BY Inductive, <1>1, PTL
=============================================================================
