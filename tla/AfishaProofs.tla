---------------------------- MODULE AfishaProofs ----------------------------
(***************************************************************************)
(* Proofs about Afisha: its type invariant, with what it says of published *)
(* announcements, and that the admin's word stands.                        *)
(***************************************************************************)
EXTENDS Afisha, TLAPS

(***************************************************************************)
(* The inductive invariant.                                                *)
(***************************************************************************)

\* An announcement that still says what the admin's word `w` about it says; `kept`
\* when its post was not found gone since.
Stands(e, w, kept) ==
  /\ w.edited \subseteq e.edited
  /\ "when" \in w.edited => e.when = w.when
  /\ "kind" \in w.edited => e.kind = w.kind
  /\ w.status = "hidden" /\ kept => e.status = "hidden"

Stored(known) == {p \in Posts : known[p] # None}

\* What each stage of a pass has in hand: posts to read are posts it has fetched,
\* posts to remove or to check are announcements it has loaded.
PassFits ==
  /\ pass.stage = "read" => pass.todo \subseteq Have(pass.fetched)
  /\ pass.stage \in {"gone", "embed", "store"} => pass.todo \subseteq Stored(pass.known)
  /\ pass.stage = "store" => pass.at \in Stored(pass.known)
  /\ pass.mode = "import" => pass.at \in Posts
  /\ pass.stage \in {"embed", "store"} => pass.mode = "check"

\* The admin's word stands in the table, and the copy a pass works on agrees with the
\* table about every post the admin has a word on.
WordFits ==
  \A p \in Posts : word[p] # None =>
    /\ events[p] # None
    /\ Stands(events[p], word[p], p \notin lapsed)
    /\ Loaded => pass.known[p] = events[p]

IInv == TypeOK /\ PassFits /\ WordFits

-----------------------------------------------------------------------------
(* The rules of afisha.rs.                                                  *)

\* settle changes the status alone, leaves what is hidden hidden, and publishes only
\* what has a kind and a date.
LEMMA SettledFits ==
  ASSUME NEW e \in EventType
  PROVE  /\ Settled(e) \in EventType /\ OnSiteComplete(Settled(e))
         /\ Settled(e).edited = e.edited /\ Settled(e).kind = e.kind
         /\ Settled(e).when = e.when
         /\ e.status = "hidden" => Settled(e).status = "hidden"
<1>1. CASE e.status = "hidden"
  <2> QED BY <1>1 DEF Settled, OnSiteComplete, EventType
<1>2. CASE e.status # "hidden" /\ e.kind = None
  <2>1. Settled(e) = [e EXCEPT !.status = "untagged"] BY <1>2 DEF Settled
  <2> QED BY <2>1, <1>2 DEF OnSiteComplete, EventType, StatusSet
<1>3. CASE e.status # "hidden" /\ e.kind # None /\ e.when = None
  <2>1. Settled(e) = [e EXCEPT !.status = "draft"] BY <1>3 DEF Settled
  <2> QED BY <2>1, <1>3 DEF OnSiteComplete, EventType, StatusSet
<1>4. CASE e.status # "hidden" /\ e.kind # None /\ e.when # None
  <2>1. Settled(e) = [e EXCEPT !.status = "published"] BY <1>4 DEF Settled
  <2> QED BY <2>1, <1>4 DEF OnSiteComplete, EventType, StatusSet
<1> QED BY <1>1, <1>2, <1>3, <1>4

\* An announcement a post was applied to keeps what was set by hand and stays hidden.
Keeps(a, e) ==
  /\ e.edited \subseteq a.edited
  /\ "when" \in e.edited => a.when = e.when
  /\ "kind" \in e.edited /\ e.kind # None => a.kind = e.kind
  /\ e.status = "hidden" => a.status = "hidden"

LEMMA ApplyFits ==
  ASSUME NEW x \in EventType \cup {None}, NEW post \in PostType, NEW copied \in BOOLEAN
  PROVE  /\ ApplyPost(x, post, copied) \in EventType
         /\ OnSiteComplete(ApplyPost(x, post, copied))
         /\ x # None => /\ Keeps(ApplyPost(x, post, copied), x)
                        /\ ApplyPost(x, post, copied).edited = x.edited
                        /\ "kind" \in x.edited => ApplyPost(x, post, copied).kind = x.kind
<1> DEFINE e  == IF x = None THEN Blank(post) ELSE x
           wh == Kept(e.when, WhenOf[post.text], e.edited, "when")
           ki == Kept(e.kind, IF post.own THEN KindOf[post.text] ELSE None, e.edited, "kind")
           im == post.photo /\ (copied \/ e.image)
           st == IF e.status = "removed" THEN "untagged" ELSE e.status
           f  == [e EXCEPT !.when = wh, !.kind = ki, !.own = post.own, !.text = post.text,
                           !.image = im, !.status = st]
<1>1. e \in EventType
  <2>1. post.text \in Texts BY DEF PostType
  <2>2. Blank(post) \in EventType
    BY <2>1 DEF Blank, EventType, StatusSet
  <2> QED BY <2>2
<1>2. /\ WhenOf[post.text] \in Days \cup {None} /\ KindOf[post.text] \in Kinds
      /\ post.own \in BOOLEAN /\ post.text \in Texts
  BY TextsAssumption DEF PostType
<1>3. wh \in Days \cup {None}
  BY <1>1, <1>2 DEF Kept, EventType
<1>4. ki \in Kinds \cup {None}
  BY <1>1, <1>2 DEF Kept, EventType
<1>5. im \in BOOLEAN
  OBVIOUS
<1>6. st \in StatusSet
  BY <1>1 DEF EventType, StatusSet
<1>7. /\ f \in EventType /\ f.edited = e.edited /\ f.when = wh /\ f.kind = ki /\ f.status = st
  <2> HIDE DEF e, wh, ki, im, st
  <2> QED BY <1>1, <1>2, <1>3, <1>4, <1>5, <1>6 DEF EventType
<1>8. ApplyPost(x, post, copied) = Settled(f)
  BY DEF ApplyPost
<1>9. /\ Settled(f) \in EventType /\ OnSiteComplete(Settled(f))
      /\ Settled(f).edited = e.edited /\ Settled(f).kind = ki /\ Settled(f).when = wh
      /\ st = "hidden" => Settled(f).status = "hidden"
  <2> HIDE DEF f
  <2> QED BY <1>7, SettledFits
<1>10. ASSUME x # None
       PROVE  /\ wh = Kept(x.when, WhenOf[post.text], x.edited, "when")
              /\ ki = Kept(x.kind, IF post.own THEN KindOf[post.text] ELSE None,
                           x.edited, "kind")
              /\ e = x /\ x.status = "hidden" => st = "hidden"
  BY <1>10
<1>11. x # None => e = x
  OBVIOUS
<1>12. x # None => /\ "when" \in x.edited => wh = x.when
                   /\ "kind" \in x.edited => ki = x.kind
  BY <1>10 DEF Kept
<1> HIDE DEF e, wh, ki, im, st, f
<1> QED BY <1>8, <1>9, <1>10, <1>11, <1>12 DEF Keeps

\* file_imported and file_archived keep it too.
LEMMA FiledFits ==
  ASSUME NEW x \in EventType \cup {None}, NEW post \in PostType, NEW copied \in BOOLEAN,
         NEW mode \in Modes
  PROVE  LET a == Filed(mode, ApplyPost(x, post, copied))
         IN /\ a \in EventType /\ OnSiteComplete(a)
            /\ x # None => /\ Keeps(a, x)
                           /\ mode # "import" /\ "kind" \in x.edited => a.kind = x.kind
<1>1. PICK b : b = ApplyPost(x, post, copied)
  OBVIOUS
<1>2. /\ b \in EventType /\ OnSiteComplete(b)
      /\ x # None => /\ Keeps(b, x) /\ b.edited = x.edited
                     /\ "kind" \in x.edited => b.kind = x.kind
  BY <1>1, ApplyFits
<1>3. CASE mode = "import" /\ b.kind # None
  <2>1. Filed(mode, b) = b BY <1>3 DEF Filed, FileImported
  <2> QED BY <2>1, <1>1, <1>2, <1>3
<1>4. CASE mode = "import" /\ b.kind = None
  <2> DEFINE c == [b EXCEPT !.kind = KindOf[b.text], !.edited = @ \cup {"kind"}]
  <2>1. Filed(mode, b) = Settled(c) BY <1>4 DEF Filed, FileImported
  <2>2. KindOf[b.text] \in Kinds BY <1>2, TextsAssumption DEF EventType
  <2>3. /\ c \in EventType /\ c.edited = b.edited \cup {"kind"} /\ c.when = b.when
        /\ c.status = b.status
    BY <1>2, <2>2 DEF EventType
  <2> HIDE DEF c
  <2>4. /\ Settled(c) \in EventType /\ OnSiteComplete(Settled(c))
        /\ Settled(c).edited = b.edited \cup {"kind"} /\ Settled(c).when = b.when
        /\ b.status = "hidden" => Settled(c).status = "hidden"
    BY <2>3, SettledFits
  <2>5. x # None => Keeps(Settled(c), x)
    BY <2>4, <1>2, <1>4 DEF Keeps
  <2> QED BY <2>1, <2>4, <2>5, <1>1, <1>4
<1>5. CASE mode = "archive" /\ b.status = "draft"
  <2>1. Filed(mode, b) = [b EXCEPT !.status = "untagged"] BY <1>5 DEF Filed, FileArchived
  <2>2. /\ [b EXCEPT !.status = "untagged"] \in EventType
        /\ OnSiteComplete([b EXCEPT !.status = "untagged"])
    BY <1>2 DEF EventType, StatusSet, OnSiteComplete
  <2>3. x # None => Keeps([b EXCEPT !.status = "untagged"], x)
    BY <1>2, <1>5 DEF Keeps, EventType
  <2>4. [b EXCEPT !.status = "untagged"].kind = b.kind
    BY <1>2 DEF EventType
  <2> QED BY <2>1, <2>2, <2>3, <2>4, <1>1, <1>2, <1>5
<1>6. CASE mode = "archive" /\ b.status # "draft"
  <2>1. Filed(mode, b) = b BY <1>6 DEF Filed, FileArchived
  <2> QED BY <2>1, <1>1, <1>2
<1>7. CASE mode \in {"feed", "check"}
  <2>1. Filed(mode, b) = b BY <1>7 DEF Filed
  <2> QED BY <2>1, <1>1, <1>2
<1> QED BY <1>3, <1>4, <1>5, <1>6, <1>7 DEF Modes

\* The buttons leave an announcement that fits, ...
LEMMA ButtonsFit ==
  ASSUME NEW e \in EventType
  PROVE  /\ Hide(e) \in EventType /\ OnSiteComplete(Hide(e))
         /\ Show(e) \in EventType /\ OnSiteComplete(Show(e))
<1>1. Hide(e) \in EventType /\ OnSiteComplete(Hide(e))
  BY DEF Hide, EventType, StatusSet, OnSiteComplete
<1>2. Show(e) \in EventType /\ OnSiteComplete(Show(e))
  <2>1. [e EXCEPT !.status = "draft"] \in EventType BY DEF EventType, StatusSet
  <2> QED BY <2>1, SettledFits DEF Show
<1> QED BY <1>1, <1>2

\* ... and so does the form.
LEMMA EditFits ==
  ASSUME NEW e \in EventType, NEW f \in AdminForms
  PROVE  Edit(e, f) \in EventType /\ OnSiteComplete(Edit(e, f))
<1> DEFINE ed == e.edited \cup (IF f.kind # e.kind THEN {"kind"} ELSE {})
                          \cup (IF f.when # e.when THEN {"when"} ELSE {})
           g  == [e EXCEPT !.kind = f.kind, !.when = f.when, !.edited = ed]
<1>1. f.kind \in Kinds \cup {None} /\ f.when \in Days \cup {None}
  BY FormsAssumption
<1>2. ed \in SUBSET {"kind", "when"}
  BY DEF EventType
<1>3. Edit(e, f) = Settled(g)
  BY DEF Edit
<1>4. g \in EventType
  <2> HIDE DEF ed
  <2> QED BY <1>1, <1>2 DEF EventType
<1> HIDE DEF g
<1> QED BY <1>3, <1>4, SettledFits

-----------------------------------------------------------------------------
(* A pass.                                                                  *)

LEMMA NoneFits ==
  /\ None \notin Kinds /\ None \notin Days /\ None \notin EventType
  /\ None \notin PostType /\ None \notin Posts
BY NoneAssumption

LEMMA IdleFits ==
  /\ Idle \in PassType /\ Idle.stage = "idle" /\ Idle.mode = "feed" /\ Idle.todo = {}
BY DEF Idle, PassType, Stages, Modes, NoPosts

\* A pass takes any stage and any set of posts to do,
LEMMA StageTodo ==
  ASSUME NEW s \in PassType, NEW t \in Stages, NEW T \in SUBSET Posts
  PROVE  [s EXCEPT !.stage = t, !.todo = T] \in PassType
BY DEF PassType

\* ... any posts it fetched,
LEMMA StageFetched ==
  ASSUME NEW s \in PassType, NEW t \in Stages,
         NEW F \in [Posts -> PostType \cup {None}]
  PROVE  [s EXCEPT !.stage = t, !.fetched = F] \in PassType
BY DEF PassType

\* ... any announcements it loaded,
LEMMA StageKnown ==
  ASSUME NEW s \in PassType, NEW t \in Stages, NEW T \in SUBSET Posts,
         NEW K \in [Posts -> EventType \cup {None}]
  PROVE  [s EXCEPT !.stage = t, !.known = K, !.todo = T] \in PassType
BY DEF PassType

\* ... before it goes on,
LEMMA JustKnown ==
  ASSUME NEW s \in PassType, NEW K \in [Posts -> EventType \cup {None}]
  PROVE  [s EXCEPT !.known = K] \in PassType
BY DEF PassType

\* ... and one more page.
LEMMA OnePageMore ==
  ASSUME NEW s \in PassType,
         NEW F \in [Posts -> PostType \cup {None}]
  PROVE  [s EXCEPT !.fetched = F, !.pages = s.pages + 1] \in PassType
<1>1. s.pages + 1 \in Nat
  BY DEF PassType
<1>2. PICK n : n = s.pages + 1
  OBVIOUS
<1>3. [s EXCEPT !.fetched = F, !.pages = n] \in PassType
  BY <1>1, <1>2 DEF PassType
<1> QED BY <1>2, <1>3

\* A pass that goes on from its pages keeps what it has fetched and loaded, and reads
\* only posts it has fetched.
LEMMA OnwardFits ==
  ASSUME NEW s \in PassType
  PROVE  /\ Onward(s) \in PassType /\ Onward(s).stage \in {"older", "read"}
         /\ Onward(s).stage = "read" => Onward(s).todo \subseteq Have(Onward(s).fetched)
         /\ Onward(s).known = s.known /\ Onward(s).mode = s.mode /\ Onward(s).at = s.at
<1> DEFINE W == Wanted(s.fetched, s.known, s.mode)
<1>1. W \in SUBSET Posts /\ W \subseteq Have(s.fetched)
  BY DEF Wanted, Have
<1>2. CASE Onward(s) = [s EXCEPT !.stage = "older"]
  BY <1>2 DEF PassType, Stages
<1>3. CASE Onward(s) = [s EXCEPT !.stage = "read", !.todo = W]
  <2> HIDE DEF W
  <2> QED BY <1>1, <1>3 DEF PassType, Stages
<1> QED BY <1>2, <1>3 DEF Onward

\* A step of the pass alone: what it has in hand fits, and the admin's word is about
\* posts its copy and the table agree on.
LEMMA PassSteps ==
  ASSUME IInv, UNCHANGED <<channel, events, form, word, lapsed, acts>>,
         pass' \in PassType, fails' \in Nat, PassFits',
         Loaded' => \/ pass'.known = events
                    \/ Loaded /\ pass'.known = pass.known
  PROVE  IInv'
<1>1. TypeOK'
  BY DEF IInv, TypeOK
<1>2. WordFits'
  <2> SUFFICES ASSUME NEW p \in Posts, word[p] # None
               PROVE  /\ events[p] # None /\ Stands(events[p], word[p], p \notin lapsed)
                      /\ Loaded' => pass'.known[p] = events[p]
    BY DEF WordFits
  <2>1. /\ events[p] # None /\ Stands(events[p], word[p], p \notin lapsed)
        /\ Loaded => pass.known[p] = events[p]
    BY DEF IInv, WordFits
  <2> QED BY <2>1
<1> QED BY <1>1, <1>2 DEF IInv

LEMMA StartKeeps ==
  ASSUME IInv, NEW mode \in Modes, NEW by \in {"timer", "admin"}, NEW at \in Posts \cup {None},
         mode = "import" => at \in Posts, Start(mode, by, at)
  PROVE  IInv'
<1>1. pass' = [Idle EXCEPT !.stage = "page", !.mode = mode, !.by = by, !.at = at]
  BY DEF Start
<1>2. pass' \in PassType /\ pass'.stage = "page" /\ pass'.mode = mode /\ pass'.at = at
  BY <1>1, IdleFits DEF PassType, Stages
<1>3. PassFits' /\ ~ Loaded'
  BY <1>2 DEF PassFits, Loaded
<1> QED BY <1>2, <1>3, PassSteps DEF Start, IInv, TypeOK

LEMMA FetchPageKeeps == ASSUME IInv, FetchPage PROVE IInv'
<1>1. PICK found : /\ found = (IF pass.mode = "import" THEN {pass.at} \cap Shown ELSE Page(pass.at))
                   /\ pass' = IF found = {} /\ pass.mode # "archive" THEN Idle
                              ELSE [pass EXCEPT !.stage = "load", !.fetched = Read(found)]
  BY DEF FetchPage
<1>2. pass \in PassType /\ channel \in [Posts -> PostType \cup {None}] /\ fails \in Nat
  BY DEF IInv, TypeOK
<1>3. Read(found) \in [Posts -> PostType \cup {None}]
  BY <1>2 DEF Read
<1>4. /\ pass' \in PassType /\ ~ Loaded' /\ PassFits'
  <2>1. CASE pass' = Idle
    BY <2>1, IdleFits DEF Loaded, PassFits
  <2>2. CASE pass' = [pass EXCEPT !.stage = "load", !.fetched = Read(found)]
    <3>1. pass' \in PassType
      <4>1. "load" \in Stages BY DEF Stages
      <4> QED BY <2>2, <1>2, <1>3, <4>1, StageFetched
    <3>2. pass'.stage = "load" /\ pass'.mode = pass.mode /\ pass'.at = pass.at
      BY <2>2, <1>2 DEF PassType
    <3> QED BY <3>1, <3>2 DEF Loaded, PassFits, IInv
  <2> QED BY <2>1, <2>2, <1>1
<1> QED BY <1>2, <1>4, PassSteps DEF FetchPage

LEMMA LoadKeeps == ASSUME IInv, Load PROVE IInv'
<1>1. pass \in PassType /\ events \in [Posts -> EventType \cup {None}] /\ fails \in Nat
  BY DEF IInv, TypeOK
<1>2. PassFits
  BY DEF IInv
<1>3. CASE /\ pass.mode = "check"
           /\ pass' = [pass EXCEPT !.stage = "embed", !.known = events,
                                   !.todo = Upcoming(events)]
  <2>1. Upcoming(events) \in SUBSET Posts /\ Upcoming(events) \subseteq Stored(events)
    BY DEF Upcoming, Stored
  <2>2. pass' \in PassType
    <3>1. "embed" \in Stages BY DEF Stages
    <3> QED BY <1>1, <1>3, <2>1, <3>1, StageKnown
  <2>3. /\ pass'.stage = "embed" /\ pass'.known = events /\ pass'.todo = Upcoming(events)
        /\ pass'.mode = pass.mode /\ pass'.at = pass.at
    <3> DEFINE U == Upcoming(events)
    <3> HIDE DEF U
    <3>1. pass' = [pass EXCEPT !.stage = "embed", !.known = events, !.todo = U]
      BY <1>3 DEF U
    <3>2. /\ pass'.stage = "embed" /\ pass'.known = events /\ pass'.todo = U
          /\ pass'.mode = pass.mode /\ pass'.at = pass.at
      BY <3>1, <1>1 DEF PassType
    <3> QED BY <3>2 DEF U
  <2>4. PassFits'
    BY <2>1, <2>3, <1>2, <1>3 DEF PassFits
  <2> QED BY <1>1, <2>2, <2>3, <2>4, PassSteps DEF Load
<1>4. CASE pass' = Onward([pass EXCEPT !.known = events])
  <2>1. PICK s : s = [pass EXCEPT !.known = events] OBVIOUS
  <2>2. s \in PassType /\ s.known = events /\ s.mode = pass.mode /\ s.at = pass.at
    BY <2>1, <1>1 DEF PassType
  <2>3. pass' = Onward(s) BY <1>4, <2>1
  <2>4. /\ pass' \in PassType /\ pass'.stage \in {"older", "read"}
        /\ pass'.stage = "read" => pass'.todo \subseteq Have(pass'.fetched)
        /\ pass'.known = events /\ pass'.mode = pass.mode /\ pass'.at = pass.at
    BY <2>2, <2>3, OnwardFits
  <2>5. PassFits'
    BY <2>4, <1>2 DEF PassFits
  <2> QED BY <1>1, <2>4, <2>5, PassSteps DEF Load
<1> QED BY <1>3, <1>4 DEF Load

LEMMA FetchOlderKeeps == ASSUME IInv, FetchOlder PROVE IInv'
<1>1. pass \in PassType /\ channel \in [Posts -> PostType \cup {None}] /\ fails \in Nat
      /\ pass.stage = "older"
  BY DEF IInv, TypeOK, FetchOlder
<1>2. PassFits
  BY DEF IInv
<1>3. PICK older, all :
        /\ all = [p \in Posts |-> IF p \in older THEN channel[p] ELSE pass.fetched[p]]
        /\ pass' = IF older = {}
                   THEN [pass EXCEPT !.stage = "read",
                                     !.todo = Wanted(all, pass.known, pass.mode)]
                   ELSE Onward([pass EXCEPT !.fetched = all, !.pages = @ + 1])
  BY DEF FetchOlder
<1>4. all \in [Posts -> PostType \cup {None}]
  BY <1>1, <1>3 DEF PassType
<1>5. CASE older = {}
  <2>1. all = pass.fetched
    BY <1>1, <1>3, <1>5 DEF PassType
  <2>2. PICK T : T = Wanted(all, pass.known, pass.mode) OBVIOUS
  <2>3. T \in SUBSET Posts /\ T \subseteq Have(pass.fetched)
    BY <2>1, <2>2 DEF Wanted, Have
  <2>4. pass' = [pass EXCEPT !.stage = "read", !.todo = T]
    BY <1>3, <1>5, <2>2
  <2>5. /\ pass'.stage = "read" /\ pass'.todo = T
        /\ pass'.fetched = pass.fetched /\ pass'.known = pass.known
        /\ pass'.mode = pass.mode /\ pass'.at = pass.at
    BY <2>4, <1>1 DEF PassType
  <2>6. pass' \in PassType
    <3>1. "read" \in Stages BY DEF Stages
    <3> QED BY <2>3, <2>4, <1>1, <3>1, StageTodo
  <2>7. PassFits' /\ Loaded
    BY <2>3, <2>5, <1>1, <1>2 DEF PassFits, Loaded
  <2> QED BY <1>1, <2>5, <2>6, <2>7, PassSteps DEF FetchOlder
<1>6. CASE older # {}
  <2>1. PICK s : s = [pass EXCEPT !.fetched = all, !.pages = pass.pages + 1] OBVIOUS
  <2>2. s \in PassType
    BY <2>1, <1>1, <1>4, OnePageMore
  <2>3. pass' = Onward(s) BY <1>3, <1>6, <2>1
  <2>4. /\ pass' \in PassType /\ pass'.stage \in {"older", "read"}
        /\ pass'.stage = "read" => pass'.todo \subseteq Have(pass'.fetched)
        /\ pass'.known = s.known /\ pass'.mode = s.mode /\ pass'.at = s.at
    BY <2>2, <2>3, OnwardFits
  <2>5. s.known = pass.known /\ s.mode = pass.mode /\ s.at = pass.at
    BY <2>1, <1>1 DEF PassType
  <2>6. PassFits' /\ Loaded
    BY <2>4, <2>5, <1>1, <1>2 DEF PassFits, Loaded
  <2> QED BY <1>1, <2>4, <2>5, <2>6, PassSteps DEF FetchOlder
<1> QED BY <1>5, <1>6

\* An announcement stored whole, and put into the copy: it fits when the admin's word
\* about this one post still stands.
LEMMA StoreKeeps ==
  ASSUME IInv, NEW p \in Posts, NEW e \in EventType, OnSiteComplete(e), Store(p, e),
         pass.stage \in {"read", "gone", "store"},
         lapsed' = lapsed \/ lapsed' = lapsed \cup {p},
         word' \in [Posts -> EventType \cup {None}],
         \A q \in Posts \ {p} : word'[q] = word[q],
         word'[p] # None => Stands(e, word'[p], p \notin lapsed'),
         UNCHANGED <<channel, form, acts, fails>>
  PROVE  IInv'
<1> DEFINE t == IF pass.stage = "store" THEN "embed" ELSE pass.stage
<1>1. /\ pass \in PassType /\ events \in [Posts -> EventType \cup {None}]
      /\ lapsed \subseteq Posts /\ PassFits /\ WordFits
      /\ \A q \in Posts : OnSiteComplete(events[q])
  BY DEF IInv, TypeOK
<1>2. PICK K, T, u : /\ K = [pass.known EXCEPT ![p] = e] /\ T = pass.todo \ {p} /\ u = t
  OBVIOUS
<1>3. /\ K \in [Posts -> EventType \cup {None}] /\ T \in SUBSET Posts /\ u \in Stages
      /\ u \in {"read", "gone", "embed"} /\ K[p] = e
      /\ \A q \in Posts \ {p} : K[q] = pass.known[q]
  BY <1>1, <1>2 DEF PassType, Stages
<1>4. pass' = [pass EXCEPT !.known = K, !.todo = T, !.stage = u]
  BY <1>2 DEF Store
<1>5. /\ pass'.known = K /\ pass'.todo = T /\ pass'.stage = u
      /\ pass'.fetched = pass.fetched /\ pass'.mode = pass.mode /\ pass'.at = pass.at
  BY <1>1, <1>4 DEF PassType
<1>6. pass' \in PassType
  <2>1. pass' = [pass EXCEPT !.stage = u, !.known = K, !.todo = T]
    BY <1>1, <1>4 DEF PassType
  <2> QED BY <2>1, <1>1, <1>3, StageKnown
<1>7. /\ events' \in [Posts -> EventType \cup {None}] /\ events'[p] = e
      /\ \A q \in Posts \ {p} : events'[q] = events[q]
  BY <1>1 DEF Store
<1>8. TypeOK'
  <2>1. \A q \in Posts : OnSiteComplete(events'[q])
    BY <1>1, <1>7 DEF OnSiteComplete
  <2>2. OnSiteComplete(e)
    OBVIOUS
  <2>3. lapsed' \subseteq Posts
    BY <1>1
  <2> QED BY <1>6, <1>7, <2>1, <2>3 DEF IInv, TypeOK
<1>9. PassFits'
  <2>1. u = "read" => T \subseteq Have(pass.fetched)
    BY <1>1, <1>2 DEF PassFits
  <2>2. u \in {"gone", "embed"} => T \subseteq Stored(K)
    <3>1. u \in {"gone", "embed"} => pass.todo \subseteq Stored(pass.known)
      BY <1>1, <1>2 DEF PassFits
    <3>2. e # None
      BY NoneFits
    <3> QED BY <1>2, <1>3, <3>1, <3>2 DEF Stored
  <2>3. /\ pass.mode = "import" => pass.at \in Posts
        /\ u = "embed" => pass.mode = "check"
    BY <1>1, <1>2 DEF PassFits
  <2> QED BY <1>3, <1>5, <2>1, <2>2, <2>3 DEF PassFits
<1>10. WordFits'
  <2> SUFFICES ASSUME NEW q \in Posts, word'[q] # None
               PROVE  /\ events'[q] # None
                      /\ Stands(events'[q], word'[q], q \notin lapsed')
                      /\ pass'.known[q] = events'[q]
    BY DEF WordFits
  <2>1. CASE q = p
    BY <2>1, <1>3, <1>5, <1>7, NoneFits
  <2>2. CASE q # p
    <3>1. Loaded
      BY DEF Loaded
    <3>2. word[q] # None /\ word'[q] = word[q] /\ (q \notin lapsed') = (q \notin lapsed)
      BY <2>2
    <3>3. events[q] # None /\ Stands(events[q], word[q], q \notin lapsed)
          /\ pass.known[q] = events[q]
      BY <3>1, <3>2, <1>1 DEF WordFits
    <3> QED BY <2>2, <3>2, <3>3, <1>3, <1>5, <1>7
  <2> QED BY <2>1, <2>2
<1> QED BY <1>8, <1>9, <1>10 DEF IInv

\* A post read and applied leaves the admin's word standing, the import's word with it.
LEMMA ReadFits ==
  ASSUME IInv, NEW p \in Posts, Loaded, pass.fetched[p] # None, StoreRead(p)
  PROVE  \E e \in EventType :
           /\ Store(p, e) /\ OnSiteComplete(e)
           /\ word[p] # None =>
                IF pass.mode = "import"
                THEN /\ ByImport(word[p], e) \in EventType
                     /\ Stands(e, ByImport(word[p], e), p \notin lapsed)
                ELSE Stands(e, word[p], p \notin lapsed)
<1>1. /\ pass \in PassType /\ word \in [Posts -> EventType \cup {None}] /\ WordFits
  BY DEF IInv, TypeOK
<1>2. /\ pass.known[p] \in EventType \cup {None} /\ pass.fetched[p] \in PostType
      /\ pass.mode \in Modes
  BY <1>1 DEF PassType
<1>3. PICK copied \in BOOLEAN :
        Store(p, Filed(pass.mode, ApplyPost(pass.known[p], pass.fetched[p], copied)))
  BY DEF StoreRead
<1>4. PICK e : e = Filed(pass.mode, ApplyPost(pass.known[p], pass.fetched[p], copied))
  OBVIOUS
<1>5. /\ e \in EventType /\ OnSiteComplete(e)
      /\ pass.known[p] # None =>
           /\ Keeps(e, pass.known[p])
           /\ pass.mode # "import" /\ "kind" \in pass.known[p].edited
                => e.kind = pass.known[p].kind
  BY <1>2, <1>4, FiledFits
<1>6. ASSUME word[p] # None
      PROVE  IF pass.mode = "import"
             THEN /\ ByImport(word[p], e) \in EventType
                  /\ Stands(e, ByImport(word[p], e), p \notin lapsed)
             ELSE Stands(e, word[p], p \notin lapsed)
  <2>1. PICK k, w : k = pass.known[p] /\ w = word[p]
    OBVIOUS
  <2>2. k # None /\ Stands(k, w, p \notin lapsed) /\ w \in EventType
    BY <1>1, <1>6, <2>1 DEF WordFits
  <2>3. Keeps(e, k) /\ (pass.mode # "import" /\ "kind" \in k.edited => e.kind = k.kind)
    BY <1>5, <2>1, <2>2
  <2>4. CASE pass.mode # "import"
    BY <2>1, <2>2, <2>3, <2>4 DEF Stands, Keeps
  <2>5. CASE pass.mode = "import" /\ "kind" \in w.edited /\ w.kind # None
    <3>1. ByImport(w, e) = w
      BY <2>5 DEF ByImport
    <3>2. Stands(e, w, p \notin lapsed)
      BY <2>2, <2>3, <2>5 DEF Stands, Keeps
    <3> QED BY <2>1, <2>2, <2>5, <3>1, <3>2
  <2>6. CASE pass.mode = "import" /\ ~("kind" \in w.edited /\ w.kind # None)
    <3> DEFINE D == w.edited \cup (e.edited \cap {"kind"})
               v == [w EXCEPT !.kind = e.kind, !.edited = D]
    <3>1. ByImport(w, e) = v
      BY <2>6 DEF ByImport
    <3>2. D \in SUBSET {"kind", "when"} /\ e.kind \in Kinds \cup {None}
      BY <2>2, <1>5 DEF EventType
    <3>3. /\ v \in EventType /\ v.kind = e.kind /\ v.edited = D /\ v.when = w.when
          /\ v.status = w.status
      <4> HIDE DEF D
      <4> QED BY <2>2, <3>2 DEF EventType
    <3>4. Stands(e, v, p \notin lapsed)
      <4> HIDE DEF v
      <4>1. D \subseteq e.edited
        BY <2>2, <2>3 DEF Stands, Keeps
      <4>2. "when" \in D => e.when = w.when
        BY <2>2, <2>3 DEF Stands, Keeps
      <4>3. w.status = "hidden" /\ p \notin lapsed => e.status = "hidden"
        BY <2>2, <2>3 DEF Stands, Keeps
      <4> QED BY <3>3, <4>1, <4>2, <4>3 DEF Stands
    <3> QED BY <2>1, <2>6, <3>1, <3>3, <3>4
  <2> QED BY <2>4, <2>5, <2>6
<1> QED BY <1>3, <1>4, <1>5, <1>6

LEMMA ReadPostKeeps == ASSUME IInv, NEW p \in Posts, ReadPost(p) PROVE IInv'
<1>1. /\ pass \in PassType /\ word \in [Posts -> EventType \cup {None}] /\ PassFits
      /\ pass.stage = "read" /\ p \in pass.todo /\ Loaded
  BY DEF IInv, TypeOK, ReadPost, Loaded
<1>2. pass.fetched[p] # None
  BY <1>1 DEF PassFits, Have
<1>3. PICK e \in EventType :
        /\ Store(p, e) /\ OnSiteComplete(e)
        /\ word[p] # None =>
             IF pass.mode = "import"
             THEN /\ ByImport(word[p], e) \in EventType
                  /\ Stands(e, ByImport(word[p], e), p \notin lapsed)
             ELSE Stands(e, word[p], p \notin lapsed)
  BY <1>1, <1>2, ReadFits DEF ReadPost
<1>4. events'[p] = e
  BY <1>3 DEF Store, IInv, TypeOK
<1>5. CASE pass.mode = "import" /\ word[p] # None
  <2>1. PICK v : v = ByImport(word[p], e)
    OBVIOUS
  <2>2. word' = [word EXCEPT ![p] = v]
    BY <1>4, <1>5, <2>1 DEF ReadPost
  <2>3. /\ word' \in [Posts -> EventType \cup {None}] /\ word'[p] = v
        /\ \A q \in Posts \ {p} : word'[q] = word[q]
    BY <1>1, <1>3, <1>5, <2>1, <2>2
  <2>4. Stands(e, word'[p], p \notin lapsed') /\ lapsed' = lapsed
    BY <1>3, <1>5, <2>1, <2>3 DEF ReadPost
  <2> QED BY <1>1, <1>3, <2>3, <2>4, StoreKeeps DEF ReadPost
<1>6. CASE ~(pass.mode = "import" /\ word[p] # None)
  <2>1. word' = word /\ lapsed' = lapsed
    BY <1>6 DEF ReadPost
  <2>2. word'[p] # None => Stands(e, word'[p], p \notin lapsed')
    BY <1>3, <1>6, <2>1
  <2> QED BY <1>1, <1>3, <2>1, <2>2, StoreKeeps DEF ReadPost
<1> QED BY <1>5, <1>6

\* A post found gone: the fields set by hand stay, and the status is the reader's.
LEMMA GoneKeeps ==
  ASSUME IInv, NEW p \in Posts, pass.stage \in {"gone", "store"}, p \in Stored(pass.known),
         StoreGone(p), UNCHANGED <<channel, form, word, acts, fails>>
  PROVE  IInv'
<1>1. /\ pass \in PassType /\ word \in [Posts -> EventType \cup {None}] /\ WordFits /\ Loaded
  BY DEF IInv, TypeOK, Loaded
<1>2. PICK k : k = pass.known[p]
  OBVIOUS
<1>3. k \in EventType
  BY <1>1, <1>2 DEF PassType, Stored
<1>4. PICK e : e = [k EXCEPT !.status = "removed"]
  OBVIOUS
<1>5. /\ e \in EventType /\ OnSiteComplete(e) /\ e.edited = k.edited /\ e.when = k.when
      /\ e.kind = k.kind
  BY <1>3, <1>4 DEF EventType, StatusSet, OnSiteComplete
<1>6. Store(p, e) /\ lapsed' = lapsed \cup {p}
  BY <1>2, <1>4 DEF StoreGone
<1>7. ASSUME word'[p] # None PROVE Stands(e, word'[p], p \notin lapsed')
  <2>1. Stands(k, word[p], p \notin lapsed) /\ word' = word /\ p \in lapsed'
    BY <1>1, <1>2, <1>6, <1>7 DEF WordFits
  <2> QED BY <1>5, <2>1 DEF Stands
<1>8. word' = word
  OBVIOUS
<1> QED BY <1>1, <1>5, <1>6, <1>7, <1>8, StoreKeeps

LEMMA RemovePostKeeps == ASSUME IInv, NEW p \in Posts, RemovePost(p) PROVE IInv'
<1>1. p \in Stored(pass.known)
  BY DEF IInv, PassFits, RemovePost
<1> QED BY <1>1, GoneKeeps DEF RemovePost

LEMMA CheckPostKeeps == ASSUME IInv, CheckPost PROVE IInv'
<1>1. PICK p : p = pass.at
  OBVIOUS
<1>2. /\ pass.stage = "store" /\ p \in Stored(pass.known) /\ p \in Posts /\ Loaded
  BY <1>1 DEF IInv, PassFits, CheckPost, Stored, Loaded
<1>3. CASE pass.fetched[p] = None
  BY <1>1, <1>2, <1>3, GoneKeeps DEF CheckPost
<1>4. CASE pass.fetched[p] # None
  <2>1. StoreRead(p) /\ UNCHANGED <<channel, form, word, acts, fails, lapsed>>
    BY <1>1, <1>4 DEF CheckPost
  <2>2. PICK e \in EventType :
          /\ Store(p, e) /\ OnSiteComplete(e)
          /\ word[p] # None =>
               IF pass.mode = "import"
               THEN /\ ByImport(word[p], e) \in EventType
                    /\ Stands(e, ByImport(word[p], e), p \notin lapsed)
               ELSE Stands(e, word[p], p \notin lapsed)
    BY <1>2, <1>4, <2>1, ReadFits
  <2>3. pass.mode # "import"
    BY <1>2 DEF IInv, PassFits
  <2>4. word'[p] # None => Stands(e, word'[p], p \notin lapsed')
    BY <2>1, <2>2, <2>3
  <2>5. word' \in [Posts -> EventType \cup {None}]
    BY <2>1 DEF IInv, TypeOK
  <2> QED BY <1>2, <2>1, <2>2, <2>4, <2>5, StoreKeeps
<1> QED BY <1>3, <1>4

\* A post of the daily check is passed over.
LEMMA PassedOverKeeps ==
  ASSUME IInv, NEW p \in Posts, pass.stage = "embed", p \in pass.todo,
         pass' = [pass EXCEPT !.todo = @ \ {p}], fails' \in Nat,
         UNCHANGED <<channel, events, form, word, lapsed, acts>>
  PROVE  IInv'
<1>1. /\ pass \in PassType /\ PassFits /\ Loaded
      /\ pass.todo \subseteq Stored(pass.known) /\ pass.mode = "check"
  BY DEF IInv, TypeOK, Loaded, PassFits
<1>2. PICK T : T = pass.todo \ {p}
  OBVIOUS
<1>3. T \in SUBSET Posts /\ T \subseteq Stored(pass.known)
  BY <1>1, <1>2 DEF PassType
<1>4. pass' = [pass EXCEPT !.stage = "embed", !.todo = T]
  BY <1>1, <1>2 DEF PassType
<1>5. pass' \in PassType
  <2>1. "embed" \in Stages BY DEF Stages
  <2> QED BY <1>1, <1>3, <1>4, <2>1, StageTodo
<1>6. /\ pass'.stage = "embed" /\ pass'.todo = T /\ pass'.known = pass.known
      /\ pass'.mode = pass.mode /\ pass'.at = pass.at
  BY <1>1, <1>4 DEF PassType
<1>7. PassFits'
  BY <1>1, <1>3, <1>6 DEF PassFits
<1> QED BY <1>1, <1>5, <1>6, <1>7, PassSteps

LEMMA PageUnreadableKeeps == ASSUME IInv, NEW p \in Posts, PageUnreadable(p) PROVE IInv'
<1>1. fails' \in Nat
  BY DEF IInv, TypeOK, PageUnreadable
<1> QED BY <1>1, PassedOverKeeps DEF PageUnreadable

LEMMA FetchEmbedKeeps == ASSUME IInv, NEW p \in Posts, FetchEmbed(p) PROVE IInv'
<1>1. /\ pass \in PassType /\ channel \in [Posts -> PostType \cup {None}] /\ fails \in Nat
      /\ pass.stage = "embed" /\ p \in pass.todo /\ PassFits /\ Loaded
  BY DEF IInv, TypeOK, FetchEmbed, Loaded
<1>2. /\ pass.todo \subseteq Stored(pass.known) /\ pass.mode = "check"
  BY <1>1 DEF PassFits
<1>3. CASE pass' = [pass EXCEPT !.todo = @ \ {p}]
  <2>1. fails' \in Nat
    BY <1>1 DEF FetchEmbed
  <2> QED BY <1>1, <1>3, <2>1, PassedOverKeeps DEF FetchEmbed
<1>4. CASE pass' = [pass EXCEPT !.stage = "store", !.at = p, !.fetched[p] = channel[p]]
  <2>1. PICK F : F = [pass.fetched EXCEPT ![p] = channel[p]]
    OBVIOUS
  <2>2. F \in [Posts -> PostType \cup {None}]
    BY <1>1, <2>1 DEF PassType
  <2>3. pass' = [pass EXCEPT !.stage = "store", !.at = p, !.fetched = F]
    BY <1>4, <2>1
  <2>4. pass' \in PassType
    BY <1>1, <2>2, <2>3 DEF PassType, Stages
  <2>5. /\ pass'.stage = "store" /\ pass'.todo = pass.todo /\ pass'.known = pass.known
        /\ pass'.mode = pass.mode /\ pass'.at = p
    BY <1>1, <2>3 DEF PassType
  <2>6. PassFits'
    BY <1>1, <1>2, <2>5 DEF PassFits
  <2> QED BY <1>1, <2>4, <2>5, <2>6, PassSteps DEF FetchEmbed
<1> QED BY <1>3, <1>4 DEF FetchEmbed

LEMMA LookForDeletedKeeps == ASSUME IInv, LookForDeleted PROVE IInv'
<1>1. /\ pass \in PassType /\ fails \in Nat /\ PassFits /\ Loaded /\ pass.mode = "feed"
  BY DEF IInv, TypeOK, LookForDeleted, Loaded
<1>2. PICK T : T = Deleted(pass.fetched, pass.known)
  OBVIOUS
<1>3. T \in SUBSET Posts /\ T \subseteq Stored(pass.known)
  BY <1>2 DEF Deleted, Stored
<1>4. pass' = [pass EXCEPT !.stage = "gone", !.todo = T]
  BY <1>2 DEF LookForDeleted
<1>5. pass' \in PassType
  <2>1. "gone" \in Stages BY DEF Stages
  <2> QED BY <1>1, <1>3, <1>4, <2>1, StageTodo
<1>6. /\ pass'.stage = "gone" /\ pass'.todo = T /\ pass'.known = pass.known
      /\ pass'.mode = pass.mode
  BY <1>1, <1>4 DEF PassType
<1>7. PassFits'
  BY <1>1, <1>3, <1>6 DEF PassFits
<1> QED BY <1>1, <1>5, <1>6, <1>7, PassSteps DEF LookForDeleted

\* A pass that ends, or fails, holds nothing.
LEMMA EndKeeps ==
  ASSUME IInv, pass' = Idle, fails' \in Nat,
         UNCHANGED <<channel, events, form, word, lapsed, acts>>
  PROVE  IInv'
<1>1. PassFits' /\ ~ Loaded'
  BY IdleFits DEF PassFits, Loaded
<1> QED BY <1>1, IdleFits, PassSteps

LEMMA GoOnKeeps == ASSUME IInv, GoOnWithCheck PROVE IInv'
<1>1. pass' = [Idle EXCEPT !.stage = "load", !.mode = "check"]
  BY DEF GoOnWithCheck
<1>2. pass' \in PassType /\ pass'.stage = "load" /\ pass'.mode = "check"
  BY <1>1, IdleFits DEF PassType, Stages, Modes
<1>3. PassFits' /\ ~ Loaded'
  BY <1>2 DEF PassFits, Loaded
<1> QED BY <1>2, <1>3, PassSteps DEF GoOnWithCheck, IInv, TypeOK

-----------------------------------------------------------------------------
(* The admin, the author, and the whole.                                    *)

LEMMA AdminReadsKeeps ==
  ASSUME IInv, NEW a \in Slots, NEW p \in Posts, AdminReads(a, p)
  PROVE  IInv'
<1>1. /\ form \in [Slots -> [post : Posts, event : EventType] \cup {None}]
      /\ events \in [Posts -> EventType \cup {None}] /\ acts \in [admin : Nat, channel : Nat]
  BY DEF IInv, TypeOK
<1>2. [post |-> p, event |-> events[p]] \in [post : Posts, event : EventType]
  BY <1>1 DEF AdminReads
<1>3. form' \in [Slots -> [post : Posts, event : EventType] \cup {None}]
  BY <1>1, <1>2 DEF AdminReads
<1>4. acts' \in [admin : Nat, channel : Nat]
  <2>1. acts.admin + 1 \in Nat
    BY <1>1
  <2> QED BY <1>1, <2>1 DEF AdminReads
<1>5. TypeOK'
  BY <1>3, <1>4 DEF IInv, TypeOK, AdminReads
<1>6. PassFits' /\ WordFits'
  BY DEF IInv, PassFits, WordFits, AdminReads, Loaded
<1> QED BY <1>5, <1>6 DEF IInv

LEMMA AdminStoresKeeps == ASSUME IInv, NEW a \in Slots, AdminStores(a) PROVE IInv'
<1>1. /\ form \in [Slots -> [post : Posts, event : EventType] \cup {None}]
      /\ events \in [Posts -> EventType \cup {None}] /\ word \in [Posts -> EventType \cup {None}]
      /\ \A q \in Posts : OnSiteComplete(events[q])
  BY DEF IInv, TypeOK
<1>2. PICK p, e : p = form[a].post /\ e = form[a].event
  OBVIOUS
<1>3. p \in Posts /\ e \in EventType
  BY <1>1, <1>2 DEF AdminStores
<1>4. PICK new \in {Hide(e), Show(e)} \cup {Edit(e, f) : f \in AdminForms} :
        /\ events' = [events EXCEPT ![p] = new]
        /\ word' = [word EXCEPT ![p] = IF Loaded THEN None ELSE new]
        /\ lapsed' = lapsed \ {p}
  BY <1>2 DEF AdminStores
<1>5. new \in EventType /\ OnSiteComplete(new)
  <2>1. CASE new \in {Hide(e), Show(e)}
    BY <2>1, <1>3, ButtonsFit
  <2>2. CASE new \in {Edit(e, f) : f \in AdminForms}
    BY <2>2, <1>3, EditFits
  <2> QED BY <2>1, <2>2, <1>4
<1>6. TypeOK'
  <2>1. events' \in [Posts -> EventType \cup {None}] /\ word' \in [Posts -> EventType \cup {None}]
    BY <1>1, <1>3, <1>4, <1>5
  <2>2. form' \in [Slots -> [post : Posts, event : EventType] \cup {None}]
    BY <1>1 DEF AdminStores
  <2>3. \A q \in Posts : OnSiteComplete(events'[q])
    BY <1>1, <1>3, <1>4, <1>5 DEF OnSiteComplete
  <2>4. lapsed' \subseteq Posts
    BY <1>4 DEF IInv, TypeOK
  <2> QED BY <2>1, <2>2, <2>3, <2>4 DEF IInv, TypeOK, AdminStores
<1>7. PassFits'
  BY DEF IInv, PassFits, AdminStores
<1>8. WordFits'
  <2> SUFFICES ASSUME NEW q \in Posts, word'[q] # None
               PROVE  /\ events'[q] # None
                      /\ Stands(events'[q], word'[q], q \notin lapsed')
                      /\ Loaded => pass.known[q] = events'[q]
    BY DEF WordFits, AdminStores, Loaded
  <2>1. CASE q = p
    <3>1. ~ Loaded /\ word'[q] = new /\ events'[q] = new
      BY <2>1, <1>1, <1>3, <1>4
    <3> QED BY <3>1, <1>5, NoneFits DEF Stands
  <2>2. CASE q # p
    <3>1. word'[q] = word[q] /\ events'[q] = events[q] /\ (q \in lapsed' <=> q \in lapsed)
      BY <2>2, <1>1, <1>3, <1>4
    <3> QED BY <3>1 DEF IInv, WordFits, Stands
  <2> QED BY <2>1, <2>2
<1> QED BY <1>6, <1>7, <1>8 DEF IInv

LEMMA AuthorActsKeeps == ASSUME IInv, NEW p \in Posts, AuthorActs(p) PROVE IInv'
<1>1. channel' \in [Posts -> PostType \cup {None}]
  BY FormsAssumption DEF IInv, TypeOK, AuthorActs
<1>2. acts' \in [admin : Nat, channel : Nat]
  <2>1. acts \in [admin : Nat, channel : Nat] /\ acts.channel + 1 \in Nat
    BY DEF IInv, TypeOK
  <2> QED BY <2>1 DEF AuthorActs
<1>3. TypeOK'
  BY <1>1, <1>2 DEF IInv, TypeOK, AuthorActs
<1>4. PassFits' /\ WordFits'
  BY DEF IInv, PassFits, WordFits, AuthorActs, Loaded
<1> QED BY <1>3, <1>4 DEF IInv

LEMMA InitHolds == Init => IInv
<1> SUFFICES ASSUME Init PROVE IInv
  OBVIOUS
<1>1. /\ channel \in [Posts -> PostType \cup {None}] /\ events \in [Posts -> EventType \cup {None}]
      /\ \A p \in Posts : OnSiteComplete(events[p])
  BY WorldsAssumption DEF Init
<1>2. TypeOK
  BY <1>1, IdleFits DEF Init, TypeOK, NoPosts
<1>3. PassFits /\ WordFits
  BY IdleFits DEF Init, PassFits, WordFits, NoPosts
<1> QED BY <1>2, <1>3 DEF IInv

LEMMA NextKeeps == IInv /\ [Next]_vars => IInv'
<1> SUFFICES ASSUME IInv, [Next]_vars PROVE IInv'
  OBVIOUS
<1>1. CASE StartTimer \/ StartSync
  BY <1>1, StartKeeps DEF StartTimer, StartSync, Modes
<1>2. CASE StartImport \/ StartArchive
  BY <1>2, StartKeeps DEF StartImport, StartArchive, Modes
<1>3. CASE FetchPage \/ Load \/ FetchOlder \/ LookForDeleted \/ CheckPost
  BY <1>3, FetchPageKeeps, LoadKeeps, FetchOlderKeeps, LookForDeletedKeeps, CheckPostKeeps
<1>4. CASE \E p \in Posts : ReadPost(p) \/ RemovePost(p) \/ FetchEmbed(p)
  BY <1>4, ReadPostKeeps, RemovePostKeeps, FetchEmbedKeeps
<1>5. CASE Finish
  BY <1>5, EndKeeps DEF Finish, IInv, TypeOK
<1>6. CASE GoOnWithCheck
  BY <1>6, GoOnKeeps
<1>7. CASE Fail
  BY <1>7, EndKeeps DEF Fail, IInv, TypeOK
<1>8. CASE \E a \in Slots : AdminStores(a) \/ \E p \in Posts : AdminReads(a, p)
  BY <1>8, AdminStoresKeeps, AdminReadsKeeps
<1>9. CASE \E p \in Posts : PageUnreadable(p) \/ AuthorActs(p)
  BY <1>9, PageUnreadableKeeps, AuthorActsKeeps
<1>10. CASE UNCHANGED vars
  BY <1>10 DEF vars, IInv, TypeOK, PassFits, WordFits, Loaded
<1> QED BY <1>1, <1>2, <1>3, <1>4, <1>5, <1>6, <1>7, <1>8, <1>9, <1>10 DEF Next, PassStep

LEMMA Inductive == Spec => []IInv
BY InitHolds, NextKeeps, PTL DEF Spec

-----------------------------------------------------------------------------
(* The results.                                                             *)

\* Every variable has its type in every reachable state, and no announcement is
\* published without a kind and a date, for any channel, any rules of reading a text
\* and any number of requests of the admin (afisha.rs: settle, apply_post).
THEOREM TypeCorrect == Spec => []TypeOK
<1>1. IInv => TypeOK
  BY DEF IInv
<1> QED BY Inductive, <1>1, PTL

\* What the admin stored while no pass held a copy stays as the admin left it through
\* every later pass of the reader, whatever it reads and wherever it fails
\* (afisha.rs: keep_edited, apply_post, file_imported; afisha_reader.rs: Pass).
THEOREM WordStands == Spec => []AdminsWordStands
<1>1. IInv => AdminsWordStands
  BY DEF IInv, WordFits, Stands, AdminsWordStands
<1> QED BY Inductive, <1>1, PTL

=============================================================================
