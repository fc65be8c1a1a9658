------------------------------- MODULE Afisha -------------------------------
(***************************************************************************)
(* The announcements page and the reader that keeps it in step with a      *)
(* channel it does not own (backend/src/afisha.rs, afisha_reader.rs,       *)
(* handlers/afisha.rs, the store of announcements).                        *)
(*                                                                         *)
(* One pass reads the channel at a time.  It loads every announcement once,*)
(* then works on that copy: page by page, post by post, each stored whole. *)
(* The admin's forms read and store announcements meanwhile, and the       *)
(* channel's author posts, edits and deletes.  A page fetched, a list      *)
(* loaded, an announcement stored are one step each.                       *)
(***************************************************************************)
EXTENDS Naturals, FiniteSets

CONSTANTS
  Posts,          \* post numbers, in the order they were posted
  Texts,          \* what a post may say, told apart by content
  Days,           \* dates that parse
  Kinds,          \* a walk or a group quest
  WhenOf,         \* text -> its date, None when date, time or city is missing
  KindOf,         \* text -> the kind it speaks of
  Past,           \* days that are over
  PostForms,      \* the posts the author may write
  AdminForms,     \* the forms the admin may send: a kind and a date
  Worlds,         \* the channels and tables an instance may start from
  PageSize,       \* posts on a page of the feed
  MaxCatchUp,     \* older pages a pass reads to catch up
  None,           \* absent
  Slots,          \* bound: admin requests under way at a time
  MaxChannel,     \* bound: what the author does to the channel
  MaxAdmin,       \* bound: what the admin changes
  MaxFails        \* bound: failed fetches, unreadable pages, failed stores and dropped passes

PostType  == [text : Texts, own : BOOLEAN, photo : BOOLEAN]
StatusSet == {"published", "draft", "hidden", "untagged", "removed"}

\* `when` stands for the fields a page needs (date, time, city), `own` for the
\* registration link; `edited` names what the admin set by hand.
EventType == [status : StatusSet, kind : Kinds \cup {None}, when : Days \cup {None},
              edited : SUBSET {"kind", "when"}, image : BOOLEAN, own : BOOLEAN,
              text : Texts]

\* What is published has a kind and a date, as its public page needs
\* (AfishaEventWire::public).
OnSiteComplete(e) == e # None /\ e.status = "published" => e.kind # None /\ e.when # None

ASSUME PostsAssumption  == Posts \subseteq Nat \ {0} /\ IsFiniteSet(Posts)
ASSUME TextsAssumption  == /\ WhenOf \in [Texts -> Days \cup {None}]
                           /\ KindOf \in [Texts -> Kinds]
ASSUME FormsAssumption  == /\ PostForms \subseteq PostType
                           /\ AdminForms \subseteq [kind : Kinds \cup {None}, when : Days \cup {None}]
ASSUME BoundsAssumption == /\ PageSize \in Nat \ {0} /\ MaxCatchUp \in Nat
                           /\ MaxChannel \in Nat /\ MaxAdmin \in Nat /\ MaxFails \in Nat
\* The tables an instance starts from are ones earlier passes may have left.
ASSUME WorldsAssumption == \A w \in Worlds :
                             /\ w.channel \in [Posts -> PostType \cup {None}]
                             /\ w.events \in [Posts -> EventType \cup {None}]
                             /\ \A p \in Posts : OnSiteComplete(w.events[p])
ASSUME NoneAssumption   == None \notin Kinds \cup Days \cup EventType \cup PostType \cup Posts

VARIABLES
  channel,   \* post -> what the channel's public pages show, None when nothing
  events,    \* post -> afisha_events row, None when absent
  pass,      \* the pass under way
  form,      \* admin request -> the announcement it has read, None when free
  word,      \* post -> what the admin last stored with no pass at its copy, and the
             \* kind an import has filed since
  lapsed,    \* posts the reader found gone after that
  acts,      \* what author and admin have done so far
  fails      \* failures so far

vars == <<channel, events, pass, form, word, lapsed, acts, fails>>

-----------------------------------------------------------------------------
(* The rules of afisha.rs.                                                  *)

SettledAnyway(e) ==   \* faulty: an incomplete announcement goes on the site
  IF e.status = "hidden" THEN e
  ELSE [e EXCEPT !.status = IF e.kind = None THEN "untagged" ELSE "published"]

\* settle: the status follows from the kind and the fields, unless hidden.
Settled(e) ==
  IF e.status = "hidden" THEN e
  ELSE [e EXCEPT !.status = CASE e.kind = None -> "untagged"
                              [] e.kind # None /\ e.when = None -> "draft"
                              [] OTHER -> "published"]

Blank(post) == [status |-> "untagged", kind |-> None, when |-> None, edited |-> {},
                image |-> FALSE, own |-> FALSE, text |-> post.text]

Overwritten(old, fresh, edited, name) == fresh   \* faulty: the post always wins

\* keep_edited: what the admin set by hand stays, the rest follows the post.
Kept(old, fresh, edited, name) == IF name \in edited THEN old ELSE fresh

\* apply_post: the announcement of a (re-)read post; `copied` says that its picture
\* is in the media store.
ApplyPost(existing, post, copied) ==
  LET e == IF existing = None THEN Blank(post) ELSE existing
  IN Settled([e EXCEPT
       !.when   = Kept(e.when, WhenOf[post.text], e.edited, "when"),
       !.kind   = Kept(e.kind, IF post.own THEN KindOf[post.text] ELSE None, e.edited, "kind"),
       !.own    = post.own,
       !.text   = post.text,
       !.image  = post.photo /\ (copied \/ e.image),
       !.status = IF e.status = "removed" THEN "untagged" ELSE e.status])

\* file_imported: a post taken by its link gets a kind, as if the admin had set it.
FileImported(e) ==
  IF e.kind # None THEN e
  ELSE Settled([e EXCEPT !.kind = KindOf[e.text], !.edited = @ \cup {"kind"}])

\* file_archived: the archive makes no drafts for the admin to chase.
FileArchived(e) == IF e.status = "draft" THEN [e EXCEPT !.status = "untagged"] ELSE e

Filed(mode, e) ==
  CASE mode = "import"  -> FileImported(e)
    [] mode = "archive" -> FileArchived(e)
    [] OTHER            -> e

\* What the admin's buttons do to the announcement they read.
Hide(e) == [e EXCEPT !.status = "hidden"]
Show(e) == Settled([e EXCEPT !.status = "draft"])
Edit(e, f) ==
  Settled([e EXCEPT !.kind = f.kind, !.when = f.when,
             !.edited = @ \cup (IF f.kind # e.kind THEN {"kind"} ELSE {})
                          \cup (IF f.when # e.when THEN {"when"} ELSE {})])

-----------------------------------------------------------------------------
(* What a pass wants.                                                       *)

\* An own event stored without a kind, which nobody set by hand.
Unfiled(e, post) ==
  e.status = "untagged" /\ e.kind = None /\ "kind" \notin e.edited /\ post.own

NothingNew(e, post) ==
  e.status # "removed" /\ e.text = post.text /\ (e.image \/ ~post.photo)

WantsChanged(e, post, mode) ==   \* faulty: a text read before is never filed again
  CASE mode = "import" -> TRUE
    [] e = None -> post.own
    [] e # None /\ mode = "archive" -> Unfiled(e, post)
    [] OTHER -> ~NothingNew(e, post)

Wants(e, post, mode) ==
  CASE mode = "import" -> TRUE
    [] e = None /\ mode # "import" -> post.own
    [] e # None /\ mode = "archive" -> Unfiled(e, post)
    [] OTHER -> ~NothingNew(e, post) \/ Unfiled(e, post)

Shown == {p \in Posts : channel[p] # None}

\* One page of the feed: the newest posts, or the newest before a number.
Before(n) == {p \in Shown : n = None \/ p < n}
Page(n)   == {p \in Before(n) : Cardinality({q \in Before(n) : q > p}) < PageSize}

Oldest(S)   == CHOOSE p \in S : \A q \in S : p <= q
Youngest(S) == CHOOSE p \in S : \A q \in S : q <= p

NoPosts  == [p \in Posts |-> None]
Read(S)  == [p \in Posts |-> IF p \in S THEN channel[p] ELSE None]
Have(fetched) == {p \in Posts : fetched[p] # None}

Idle == [stage |-> "idle", mode |-> "feed", by |-> "timer", at |-> None, pages |-> 0,
         fetched |-> NoPosts, known |-> NoPosts, todo |-> {}]

Modes  == {"feed", "check", "import", "archive"}
Stages == {"idle", "page", "load", "older", "read", "gone", "embed", "store"}

PassType == [stage : Stages, mode : Modes, by : {"timer", "admin"},
             at : Posts \cup {None}, pages : Nat,
             fetched : [Posts -> PostType \cup {None}],
             known : [Posts -> EventType \cup {None}], todo : SUBSET Posts]

\* The posts a pass applies: nothing it learns about one post changes what it wants
\* of another.
Wanted(fetched, known, mode) ==
  {p \in Have(fetched) : Wants(known[p], fetched[p], mode)}

\* Stored announcements of posts the pages cover and do not show.
Deleted(fetched, known) ==
  {p \in Posts : /\ known[p] # None /\ known[p].status # "removed"
                 /\ fetched[p] = None
                 /\ p \in Oldest(Have(fetched)) .. Youngest(Have(fetched))}

DraftsOnly(known) ==   \* faulty: what is on the site is not checked
  {p \in Posts : known[p] # None /\ known[p].status = "draft" /\ known[p].when \notin Past}

\* Announcements still to come, which the daily check reads one by one.
Upcoming(known) ==
  {p \in Posts : /\ known[p] # None /\ known[p].status \in {"published", "draft"}
                 /\ known[p].when \notin Past}

\* After a pause a feed pass pages back until it meets a post it knows.
NeedsOlder(fetched, known, pages) ==
  LET stored == {p \in Posts : known[p] # None}
  IN /\ stored # {} /\ pages < MaxCatchUp
     /\ Oldest(Have(fetched)) > Youngest(stored) + 1

-----------------------------------------------------------------------------
(* A pass.                                                                  *)

\* try_run: the timer and the admin's buttons start a pass unless one is under way.
Start(mode, by, at) ==
  /\ pass.stage = "idle"
  /\ pass' = [Idle EXCEPT !.stage = "page", !.mode = mode, !.by = by, !.at = at]
  /\ UNCHANGED <<channel, events, form, word, lapsed, acts, fails>>

StartTimer   == Start("feed", "timer", None)
StartSync    == Start("feed", "admin", None)
StartImport  == \E p \in Posts : Start("import", "admin", p)
StartArchive == \E p \in Posts \cup {None} : Start("archive", "admin", p)

FetchPage ==
  /\ pass.stage = "page"
  /\ LET found == IF pass.mode = "import" THEN {pass.at} \cap Shown
                  ELSE Page(pass.at)
     IN pass' = IF found = {} /\ pass.mode # "archive" THEN Idle
                ELSE [pass EXCEPT !.stage = "load", !.fetched = Read(found)]
  /\ UNCHANGED <<channel, events, form, word, lapsed, acts, fails>>

\* With the pages fetched: on to one more of them, or to the posts.
Onward(p) ==
  IF p.mode = "feed" /\ NeedsOlder(p.fetched, p.known, p.pages)
    THEN [p EXCEPT !.stage = "older"]
    ELSE [p EXCEPT !.stage = "read", !.todo = Wanted(p.fetched, p.known, p.mode)]

\* Pass::new lists the stored announcements: the copy the pass works on.
Load ==
  /\ pass.stage = "load"
  /\ pass' = IF pass.mode = "check"
             THEN [pass EXCEPT !.stage = "embed", !.known = events, !.todo = Upcoming(events)]
             ELSE Onward([pass EXCEPT !.known = events])
  /\ UNCHANGED <<channel, events, form, word, lapsed, acts, fails>>

FetchOlder ==
  /\ pass.stage = "older"
  /\ LET older == Page(Oldest(Have(pass.fetched)))
         all   == [p \in Posts |-> IF p \in older THEN channel[p] ELSE pass.fetched[p]]
     IN pass' = IF older = {}
                THEN [pass EXCEPT !.stage = "read", !.todo = Wanted(all, pass.known, pass.mode)]
                ELSE Onward([pass EXCEPT !.fetched = all, !.pages = @ + 1])
  /\ UNCHANGED <<channel, events, form, word, lapsed, acts, fails>>

\* A pass is under way that works on the copy it loaded.
Loaded == pass.stage \notin {"idle", "page", "load"}

\* Pass::store: the announcement goes to the store whole, and into the copy.
Store(p, e) ==
  /\ events' = [events EXCEPT ![p] = e]
  /\ pass' = [pass EXCEPT !.known[p] = e, !.todo = @ \ {p},
                          !.stage = IF @ = "store" THEN "embed" ELSE @]

\* Pass::read: the picture is copied, or the copy fails, and the post is applied.
StoreRead(p) ==
  \E copied \in BOOLEAN :
    /\ copied => pass.fetched[p].photo
    /\ Store(p, Filed(pass.mode, ApplyPost(pass.known[p], pass.fetched[p], copied)))

\* The kind an import files counts as the admin's word, unless the admin named one.
ByImport(w, e) ==
  IF "kind" \in w.edited /\ w.kind # None THEN w
  ELSE [w EXCEPT !.kind = e.kind, !.edited = @ \cup (e.edited \cap {"kind"})]

ReadPost(p) ==
  /\ pass.stage = "read" /\ p \in pass.todo
  /\ StoreRead(p)
  /\ word' = IF pass.mode = "import" /\ word[p] # None
             THEN [word EXCEPT ![p] = ByImport(@, events'[p])] ELSE word
  /\ UNCHANGED <<channel, form, lapsed, acts, fails>>

\* Pass::remove: the post is gone, and its page goes too.
StoreGone(p) ==
  /\ Store(p, [pass.known[p] EXCEPT !.status = "removed"])
  /\ lapsed' = lapsed \cup {p}

LookForDeleted ==
  /\ pass.stage = "read" /\ pass.todo = {} /\ pass.mode = "feed"
  /\ pass' = [pass EXCEPT !.stage = "gone", !.todo = Deleted(pass.fetched, pass.known)]
  /\ UNCHANGED <<channel, events, form, word, lapsed, acts, fails>>

RemovePost(p) ==
  /\ pass.stage = "gone" /\ p \in pass.todo
  /\ StoreGone(p)
  /\ UNCHANGED <<channel, form, word, acts, fails>>

\* The daily check: each post's own page, one after the other.
FetchEmbed(p) ==
  /\ pass.stage = "embed" /\ p \in pass.todo
  /\ LET post == channel[p] IN
     pass' = IF post # None /\ ~Wants(pass.known[p], post, "feed")
             THEN [pass EXCEPT !.todo = @ \ {p}]
             ELSE [pass EXCEPT !.stage = "store", !.at = p, !.fetched[p] = post]
  /\ UNCHANGED <<channel, events, form, word, lapsed, acts, fails>>

\* A page that is neither a missing post's nor one the post can be read from: the
\* announcement is left alone.
PageUnreadable(p) ==
  /\ pass.stage = "embed" /\ p \in pass.todo /\ fails < MaxFails
  /\ pass' = [pass EXCEPT !.todo = @ \ {p}]
  /\ fails' = fails + 1
  /\ UNCHANGED <<channel, events, form, word, lapsed, acts>>

CheckPost ==
  /\ pass.stage = "store"
  /\ IF pass.fetched[pass.at] = None
       THEN StoreGone(pass.at)
       ELSE StoreRead(pass.at) /\ UNCHANGED lapsed
  /\ UNCHANGED <<channel, form, word, acts, fails>>

AllDone ==
  /\ pass.todo = {}
  /\ \/ pass.stage \in {"gone", "embed"}
     \/ pass.stage = "read" /\ pass.mode # "feed"

Finish ==
  /\ AllDone
  /\ pass' = Idle
  /\ UNCHANGED <<channel, events, form, word, lapsed, acts, fails>>

\* A feed pass of the timer that went well goes on with the check when it is due,
\* under the same lock.
GoOnWithCheck ==
  /\ AllDone /\ pass.mode = "feed" /\ pass.by = "timer"
  /\ pass' = [Idle EXCEPT !.stage = "load", !.mode = "check"]
  /\ UNCHANGED <<channel, events, form, word, lapsed, acts, fails>>

\* A page that cannot be fetched, a store that fails, a request that is dropped: the
\* pass ends where it stands.
Fail ==
  /\ pass.stage # "idle" /\ fails < MaxFails
  /\ pass' = Idle
  /\ fails' = fails + 1
  /\ UNCHANGED <<channel, events, form, word, lapsed, acts>>

PassStep ==
  \/ FetchPage \/ Load \/ FetchOlder \/ LookForDeleted \/ CheckPost
  \/ \E p \in Posts : ReadPost(p) \/ RemovePost(p) \/ FetchEmbed(p)
  \/ Finish \/ GoOnWithCheck

-----------------------------------------------------------------------------
(* The admin, and the channel's author.                                     *)

\* admin_event: the announcement is read, ...
AdminReads(a, p) ==
  /\ form[a] = None /\ events[p] # None /\ acts.admin < MaxAdmin
  /\ form' = [form EXCEPT ![a] = [post |-> p, event |-> events[p]]]
  /\ acts' = [acts EXCEPT !.admin = @ + 1]
  /\ UNCHANGED <<channel, events, pass, word, lapsed, fails>>

\* ... and save_admin_change stores it whole.
AdminStores(a) ==
  /\ form[a] # None
  /\ LET p == form[a].post
         e == form[a].event
     IN \E new \in {Hide(e), Show(e)} \cup {Edit(e, f) : f \in AdminForms} :
          /\ events' = [events EXCEPT ![p] = new]
          /\ word' = [word EXCEPT ![p] = IF Loaded THEN None ELSE new]
          /\ lapsed' = lapsed \ {p}
  /\ form' = [form EXCEPT ![a] = None]
  /\ UNCHANGED <<channel, pass, acts, fails>>

\* The author posts, edits or deletes; a post that was seen may be back.
AuthorActs(p) ==
  /\ acts.channel < MaxChannel
  /\ \/ /\ channel[p] # None \/ events[p] # None \/ \A q \in Shown : q < p
        /\ \E post \in PostForms : channel' = [channel EXCEPT ![p] = post]
     \/ channel' = [channel EXCEPT ![p] = None]
  /\ channel' # channel
  /\ acts' = [acts EXCEPT !.channel = @ + 1]
  /\ UNCHANGED <<events, pass, form, word, lapsed, fails>>

Init ==
  /\ \E w \in Worlds : channel = w.channel /\ events = w.events
  /\ pass = Idle
  /\ form = [a \in Slots |-> None]
  /\ word = NoPosts /\ lapsed = {}
  /\ acts = [admin |-> 0, channel |-> 0]
  /\ fails = 0

Next ==
  \/ StartTimer \/ StartSync \/ StartImport \/ StartArchive
  \/ PassStep \/ Fail
  \/ \E a \in Slots : AdminStores(a) \/ \E p \in Posts : AdminReads(a, p)
  \/ \E p \in Posts : PageUnreadable(p) \/ AuthorActs(p)

Spec == Init /\ [][Next]_vars

\* The timer ticks every ten minutes, a pass that is not dropped goes on to its end,
\* and a pass of the timer finds the check due once a day.
Fairness == SF_vars(StartTimer) /\ WF_vars(PassStep) /\ SF_vars(GoOnWithCheck)

LiveSpec == Spec /\ Fairness

-----------------------------------------------------------------------------
(* Properties.                                                              *)

\* Every variable has its type, and no announcement counts as published without a
\* kind and a date, which would leave it without a public page.
TypeOK ==
  /\ channel \in [Posts -> PostType \cup {None}]
  /\ events \in [Posts -> EventType \cup {None}]
  /\ pass \in PassType
  /\ form \in [Slots -> [post : Posts, event : EventType] \cup {None}]
  /\ word \in [Posts -> EventType \cup {None}] /\ lapsed \subseteq Posts
  /\ acts \in [admin : Nat, channel : Nat] /\ fails \in Nat
  /\ \A p \in Posts : OnSiteComplete(events[p])

\* What the admin stored while no pass held a copy stays as the admin left it,
\* through every later pass: the fields set by hand keep their values, what was
\* hidden stays off the site as long as its post was not found gone, and the kind
\* an import filed later stays too, except that the import of a post whose kind the
\* admin had cleared gives it one (file_imported).
AdminsWordStands ==
  \A p \in Posts : word[p] # None =>
    /\ "when" \in word[p].edited => events[p].when = word[p].when
    /\ "kind" \in word[p].edited => events[p].kind = word[p].kind
    /\ word[p].status = "hidden" /\ p \notin lapsed => events[p].status = "hidden"

OwnOnFeed(p) == p \in Page(None) /\ channel[p].own
OnRecord(p)  == /\ events[p] # None
                /\ \/ events[p].kind # None
                   \/ "kind" \in events[p].edited
                   \/ events[p].status = "hidden"

\* An own event on the newest page is on record with a kind in the end, whatever
\* passes fail, or it leaves the page, or the admin says what it is or hides it.
OwnEventIsFiled ==
  \A p \in Posts : OwnOnFeed(p) ~> (~OwnOnFeed(p) \/ OnRecord(p))

Announced(p) ==
  events[p] # None /\ events[p].status \in {"published", "draft"} /\ events[p].when \notin Past

\* An announcement still to come leaves the site in the end when its post was
\* deleted, also one the feed shows no more; unless the whole feed is gone, which
\* the reader takes for a page it cannot read.
DeletedLeavesTheSite ==
  \A p \in Posts :
    (channel[p] = None /\ Announced(p)) ~> (~Announced(p) \/ channel[p] # None \/ Shown = {})

=============================================================================
