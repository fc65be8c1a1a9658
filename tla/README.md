# GeoQuest in TLA+

GeoQuest is a marketplace of city quests: a Rust backend (`src/platform/backend`, Axum over an
in-memory or a Postgres store) and an offline-capable Next.js client (`src/platform/frontend`).
This directory holds TLA+ models of the parts of it where order, concurrency and failure decide
whether the program is right, the TLC runs that check them, and the proofs TLAPS checks.

Contents: [the system](#the-system) · [the modules](#the-modules) · [the runs](#the-runs) ·
[fairness](#fairness) · [the proofs](#the-proofs) · [where code and text disagree](#where-code-and-text-disagree) ·
[not modelled](#not-modelled) · [what is left](#what-is-left)

## The system

`src/README.md` names the chain *grant → attempt → facts*: a player buys a quest (a **grant**),
the server opens an **attempt** for a grant holder, and what the player does becomes **facts**
appended to the attempt's log. Everything a page shows (balance, progress, passport) is a fold of
facts. It also names five invariants: a signed balance may go negative (1); facts are
device-agnostic and append once per natural key (2); the completion bonus is awarded once ever per
player and quest (3); an attempt stays with the snapshot it was created on (4); the client's fold
and the server's are the same (5).

| Component | State | Operations | What makes it correct |
|---|---|---|---|
| coupon rules (`coupons.rs`) | none | `check_redeemable`, `discount_amount`, form rules | a discount stays within the price; every refusal is decided by the coupon, the log and the day |
| checkout and settlement (`payments.rs`, `handlers/payments.rs`) | none of its own between calls | `checkout`, `quote_coupon`, `redeem`, `settle`, poll, webhook | paid ⇒ granted, granted ⇒ paid or free; one winner per settlement |
| stores (`store.rs`, `pg_store.rs`, `grants.rs`) | coupons, redemptions, grants, `pending_payments` | one call = one transaction | caps under the store's lock; first grant wins |
| payment gateway client (`yookassa.rs`) | none | `create_payment`, `fetch_payment` | a notification is only a hint: the gateway is asked |
| offline queue (`queue.ts`) | IndexedDB: attempts, facts, bundles | `openAttempt`, `restartAttempt`, `appendFact`, `markSent`, ... | nothing recorded is lost; nothing is marked sent that is not |
| sync controller (`sync.ts`) | in-memory flight map per tab | `flushPending`, `flushAll` | every fact reaches the server in the end |
| fact sink, player page (`fact-sink.ts`, `QuestPlayerClient.tsx`) | one chain of writes | `push` | facts are filed in order, under the run shown |
| attempts and facts (`store.rs`, `pg_store.rs`, `handlers/player.rs`) | attempts, logs, `bonus_awards` | `create_attempt`, `append_idempotent` | invariants 2, 3 and 4 |
| play loop, projections (`play-loop.ts`, `shared-model.ts`, `facts.rs`) | an in-memory log | a reducer and folds | invariants 1 and 5 |
| profile fold (`player-stats.ts`, `storefront.ts`) | none | merge of the server's and the device's folds | no coin counted twice or lost |
| accounts (`auth.rs`, `handlers/auth.rs`, the identity store) | users, an index of addresses, password rows, provider links, mailed tokens, sessions | register, sign in, social sign-in and link, unlink, recover, reset, confirm, move the address, change the password, delete | one account per address and per provider subject; a mailed key works once and only where it was sent; an account keeps a way in |
| constructor (`handlers/constructor.rs`, `authz.rs`) | author rows, listings, frozen snapshots | create, save, status, publish, delete, transfer | what is sold has a snapshot; a write lands for the owner its gate saw |
| media backfill (`backfill.rs`) | none: rewrites rows, listings and snapshots in place | one run over all three | a rewrite never changes what a text says, nor undoes a save |
| afisha and its reader (`afisha.rs`, `afisha_reader.rs`, `handlers/afisha.rs`) | announcements | passes over a foreign channel, the admin's forms | the admin's word stands; what is announced is found, what is deleted goes |
| sign-in and logout on the device (`session-actions.ts`, `identity.ts`, `app/auth`) | device id, session | sign in, register; flush, rotate, wipe | no fact crosses from one player to the next; the device can always be played anonymously |
| feature toggles (`features.rs`) | flags | on, off | no provider is used while off |
| media files, statistics, export, settings, mail, UI | see `PROJECT.json` | read-only or pure I/O | not modelled |

How they interact: the player page calls the queue and the sync controller; the sync controller
calls the attempt registry, checkout (when it is refused for want of a grant) and the fact store;
checkout and settlement call the stores, the toggles and the gateway; the gateway calls the
webhook. A publish decides what version the next attempt is bound to and what checkout sells; the
deletion of an account reaches into the tables of players, grants and authors; the backfill shares the
author's tables with the constructor. Admin saves and account deletions share the stores with all of
them. Signing in and out changes, under running flushes, under whom the queue is synced. The afisha shares nothing
with the rest.

The behaviours that are hard to test, each at its line, are the `hazards` of `PROJECT.json`. They
come down to four sources. **Handlers interleave at every `await`**: two checkouts, a poll and a
webhook, an admin's save in the middle. **Handlers die**: between the redemption and the grant,
or between the settlement of the row and the grant. **IndexedDB transactions are short**: a row is read in
one and put back in another, with other flows and tabs in between. **Replies are lost**: the server
did it, the client does not know, and does it again.

## The modules

### `Coupons`

The pure rules of `coupons.rs`: who is refused, and what a discount takes off. Days are naturals:
the code compares `YYYY-MM-DD` as text, which orders them as days. Which of several refusals is told first
is not decided here (`RefusalReasons` is a set); no other component reads it.

### `Payments` (extends `Coupons`)

`checkout` and `settle` of `payments.rs` with the routes that call them and the stores they write.
A handler `r` is a slot of `Requests`: `pc[r]` is the store or gateway call it makes next, `job[r]`
is what it holds across its calls. One call is one step, so every other handler, an admin or the
gateway may run between any two.

| Code | Model |
|---|---|
| `checkout` (`payments.rs:142`) | `StartCheckout` (has_grant), `GetPublished`, `QuoteGift`, `RequireProvider`, then a grant, a redemption or the card |
| `mock_checkout`, `redeem` (`payments.rs:203`, `store.rs`, `pg_store.rs`) | `RedeemAtCheckout` |
| `yookassa_checkout` (`payments.rs:286`) | `ReuseOpenPayment`, `QuoteCharge`, `CreatePayment` / `CreateFails`, `InsertRow` |
| poll and webhook (`handlers/payments.rs`) | `Poll`, `Webhook`, `WebhookUnknown` |
| `settle` (`payments.rs:383`) | `FetchRemote`, `SettleSucceeded`, `RedeemHeld`, `MarkCanceled`, `TellStatus`, `CreateGrant` |
| a task that is dropped: the client hangs up, the store fails, a restart | `Abort` |
| admin saves, publishing, toggles, account deletion, midnight | `SaveCoupon`, `DeleteCoupon`, `SetPrice`, `Toggle`, `DeleteAccount`, `NextDay` |
| the gateway (external) | `PayerPays`, `GatewayCancels`, and notifications repeated until a 200 |

What is abstracted. A provider is *enabled* when it is configured and switched on. A payment token is
drawn by the code at random and is a fresh member of `PaymentIds` here. A redemption carries `by`,
which the code does not store: properties read it, no action does. A deleted account's id can still be presented as
an anonymous claim, so deletion does not stop that player's handlers. `GatewayCancels` assumes the
gateway gives an unpaid payment up long after the request that opened it ended; `PayerPays`
assumes the payer learns the link from the checkout's answer. A store failure and a dropped task
look alike from outside and are both `Abort`; a gateway call that fails is `CreateFails`.

### `Purchase`

What `Payments` promises, in two variables: `orders` (asked for, paid, void) and `access` (who may
play what, and the payment that bought it). There are no handlers and no retries in it. `Payments`
instantiates it (`Promise`) with a refinement mapping: an order is the row of a payment, with the state the gateway gives
it (`OrderOf`), access is a grant, attributed to the payment when it was made by a settle
(`AccessOf`). `KeepsPromise` is `Promise!Spec`: every step of checkout, settle, webhook or admin
is a step of `Purchase` or none.

### `PlaySync`

One quest, played offline on some devices and tabs and synced. A flow `f` is an async call under
way in a tab; `pc[f]` is the await it stands at, `held[f]` is its closure. An IndexedDB transaction is
one step; a get and a put in transactions of their own are two, and the row that was read in the first is
carried in `held[f].row`. The server's handlers are one step each: their transaction is.

| Code | Model |
|---|---|
| `openAttempt`, `ensureActiveAttempt` (`queue.ts`) | `OpenQuest`, `FindActive`, `MintAttempt`, `MintFails` |
| `restartAttempt` | `Restart` (the read), `Supersede` (the put), then the same find and mint |
| fact sink: `push` → `ensureActiveAttempt` → `appendFact` | `Record`, `FindActive`, `MintAttempt`, `AppendFact` |
| `setLastStepIdx` | `Advance` (the read), `AdvancePut` |
| `flushPending`, `flushAll`, `flushOnce` (`sync.ts`) | `StartFlush`, `ReadBound`, `CreateAttempt` / `CreateFails`, `Checkout` / `CheckoutFails`, `BindGet`, `BindPut`, `PostFacts` / `PostFails`, `MarkSent` |
| `create_attempt`, `append_idempotent` (`store.rs`, `pg_store.rs`) | `NewAttempt`; `Accepts` and `Apply` |
| a closed or reloaded tab | `CloseTab` |

What is abstracted. A fact stands for its natural key; `coins` tells two versions' pricing of one
bonus apart. The position `setLastStepIdx` writes is left out: what matters is the copy of the row it puts
back. Two flows of one tab may file facts at the same time, which the sink's ordered chain forbids:
the model allows more than the code, and no property reads the order. The checkout inside a flush is
of a free or already bought quest (anything else fails, which is a fault). Sign-ins, logouts and
their wipe are in `Identity`; `removeDownload` and the legacy migration are left out; snapshots and the deletion of play data on the
server are in `Publishing`.

### `FactLedger`

What `PlaySync` promises, without tabs, rows or requests, in four variables: whose an attempt is (`owner`), what is
recorded in it (`record`: none, pending, sent), what the server keeps of it (`filed`), and the bonuses awarded
(`awards`). `PlaySync` instantiates it (`Ledger`): the owner is the player of the row's device (`OwnerOf`), and
filed is the union of the logs of all the attempts that the server made for the key (`FiledOf`), because an attempt may be registered
twice. `KeepsLedger` is `Ledger!Spec`: the put of a row begins an attempt, `appendFact` notes, an accepted batch files, `markSent`
confirms, and every other step, the ones that copy rows back or register an attempt again included, is none of them. So a
record never disappears nor goes back to pending, nothing is filed that the attempt's device did not record, and what is
filed stays, short of the deletion of a player's data, which `PlaySync` leaves out.

### `PlayLoop`

One attempt on one page: the engine of `play-loop.ts`, a pure reducer, so that an event of the player is
one step; the folds it reads its history from; and the write-through of what it appends. The steps
that interleave are the writes, the answers that load late, the browser's history, and a page that dies
and is opened again on what was stored by then.

| Code | Model |
|---|---|
| `transition` (`play-loop.ts`): answer, physical, hint, skip, rate, next, back | `Answer`, `PhysicalConfirm`, `BuyHint`, `SkipTask`, `Rate`, `AdvanceTo` with `CompleteAttempt`, `AwardOnce`, `ClaimGift` |
| `runEvent`, the buttons (`QuestPlayerClient.tsx`) | `RunEvent`, `Press`, `Report`, `TapStars`, `Finish` |
| `stepHistory.onGoToStep` | `GoToStep` |
| features loaded after the page (`client-features.ts`) | `LoadFeatures` |
| the chain of `fact-sink.ts`, `appendFact` (`queue.ts`) | `chain`, `WriteFact`, `WriteFails`; `Absorb` is the lookup by natural key |
| `setLastStepIdx`; `setServerAttemptId` (`queue.ts`), for a flush of this page or of another tab | `SavePosition`; `PutRow` |
| hydration on mount, with the finale's completion | `Reopen` |
| `projectState`, `projectBalance`, `latestRating` (`shared-model.ts`, `facts.rs`) | `ProjectState`, `ProjectBalance`, `LatestRating` |

What is abstracted. Texts are compared after the code folds case and spaces, so an answer is a member
of `Answers`. The get of `setLastStepIdx` is left out: of the row it takes the other
fields, which `PlaySync` has. The get and put of `setServerAttemptId` put back whatever position the copy had, and since the
stored one was at some time each one below it, `PutRow` takes any of those; positions wait in `saving` like facts in the chain.
A reopened page gathers anew what other attempts earned, more or less than the visit before knew: their logs or the server may be out
of reach.
A page that is left inside the app while its chain still drains, and is opened before it has, is left out:
`Reopen` always finds a dead chain. The popup that reveals a bought hint, toasts and sounds change no
rule. The finale is the last step, as the constructor requires.

### `Identity`

Who plays on a device, and under whom what was played is filed. `PlaySync` has one player per device for good and all of the
queue; here players come and go over a queue of one free quest. A flow is an async call in a tab, with its await in `pc[f]` and its
closure in `held[f]`, as there; the batch that a flush read before its calls is part of the closure.

| Code | Model |
|---|---|
| `getSession`, `currentUserId` (`identity.ts`) | `session`, `device`, `Me`: read anew at each use |
| fact sink, `ensureActiveAttempt`, `appendFact`, `setLastStepIdx` | `Record`, `FindActive`, `MintAttempt`, `AppendFact`; `Advance`, `AdvancePut` |
| `flushPending`, `flushAll`, `flushOnce` (`sync.ts`) | `StartFlush`, `ReadPending`, `ReadBound`, `CreateAttempt` / `CreateFails`, `BindGet`, `BindPut`, `PostFacts` / `PostFails`, `MarkSent` |
| `resolve_user` (`authz.rs`) in `create_attempt`; `append_facts`, which asks nobody | `MayAct`, `NewAttempt`; `Post` |
| registration, login, reset link (`app/auth`), `setSession` | `Register`, `RegisterUser`, `SignIn`, `SetSession`, `SignInFails` |
| `logoutAndReset` (`session-actions.ts`), `clearSession`, `clearLocalPlay` (`queue.ts`) | `Logout` with its own flush, `Rotate`, `Wipe` / `WipeFails` |
| a closed or reloaded tab | `CloseTab` |

What is abstracted. Facts are of ordinary kinds and rows have no status: both are `PlaySync`'s. A logout flushes
one attempt itself and waits for the flushes its tab has under way (`joined`); another attempt's flush is a flow of its own. The ids of
the device are drawn by the code at random; here they count, so that a property can say which came first. The grants and bundles a logout also
drops are left out: nothing of the queue depends on them. `players`, `kept`, `lost` and the marks `late` and `left` are history: who played
under an id, which rows outlived a logout, which registrations the device never heard of, and what straddled a logout. They
are read by properties only. Its two storage writes, the session's removal and the new id
(`identity.ts:134-142`), are one step. `clearSession` is called by `logoutAndReset` alone: the sign-in page's branch for
"no session" is never taken, its callers always bring one.

### `Publishing`

A quest from its draft to the shop, with everything that reads or writes the same three tables: the
author's row, the listing, the frozen snapshots. A handler is a slot of `Requests` as in `Payments`;
one store call is one step.

| Code | Model |
|---|---|
| the gates of `authz.rs` and the handlers' own (`handlers/constructor.rs`, `handlers/admin.rs`) | `LetIn`, `Gate` |
| create, save, status, delete | `Create`, `Save`, `ReadListing` + `SetStatus`, `Unpublish` + `Remove` |
| transfer (`handlers/constructor.rs`) | `ReadTarget`, `Handover` |
| publish and `register_published` (`pg_store.rs`) | `Register` (the SELECT), `Commit` (the write and the listing, one transaction), `Flip` (the row's status) |
| `AuthorGuard` (`store.rs`) | `AuthorGuard` in `Save`, `SetStatus`, `Remove` |
| `create_attempt` (`handlers/player.rs`) | `HasGrant`, `BindVersion`, `CreateAttempt` |
| the deletion of an account (`handlers/auth.rs`) | `CheckSales`, `WipePlay`, `WipeGrants`, `Leave` |
| `backfill.rs`, `rewrite_media`, `rewrite_snapshot_media` | `ReadDraft`/`RewriteDraft`, `ReadCard`/`RewriteCard`, `ReadSnapshot`/`RewriteSnapshot` |
| roles; a task that is dropped; seconds | `SetRole`; `Abort`; `Tick` |

What is abstracted. A text stands for everything an author may write; `inline` says that it still
carries its pictures in itself, which the backfill replaces by references. `register_published` is
modelled on Postgres at READ COMMITTED: its SELECT takes no lock, so another publish may commit before
its write; its two writes commit together. The backfill walks in a fixed order within a budget; any
subset in any order stands for it. The operator's token is an account of role `ops`.
A publish may carry no content, as its `snapshot` is optional, and such a row counts as a snapshot: `Playable` says that one is stored,
not that it has content. The client also names the snapshot (`snapshot_id`, `constructor.rs:90`, `138-140`), by default after the quest and the version;
the model keys snapshots by quest and version, so a publish that names another quest's is left out. `moved` is read by
properties only: which quests were listed, restatused or handed over since a handler looked.

### `Accounts`

Who may act for an account. An id is a device before it is an account, a subject is one person at
one provider, a token is one mailed key.

| Code | Model |
|---|---|
| `register`, `login` | `Insert`, `Match`, `Session` |
| social sign-in and linking (`complete_social_login`) | `FindIdentity`, `FindByEmail`, `Claim`, `Create`, `CreateIdentity`, `Again`, `LinkOwner`, `AttachEmail`, `Session` |
| unlink | `CountWays`, `DeleteIdentity` |
| recover, reset, the typed code | `FindForRecovery`, `DeleteUnused`, `IssueToken`, `ConsumeToken`, `FindForCode`, `ConsumeByCode`, `SetPassword` |
| confirm; move of the address; change of the password | `ConsumeToken`, `ConfirmEmail`; `CheckSecret`, `AddressFree`, `DeleteUnused`, `IssueToken`, `ConsumeToken`, `ReplaceEmail`; `CheckSecret`, `SetPassword` |
| deletion; expiry; a task that is dropped | `DeleteUser`; `Expire`; `Abort` |

What is abstracted. Passwords and codes are not spelled out: whether the typed one matches is a choice.
A session is whether an account has one. Where the two stores differ the model follows Postgres: a session, a
password or a link of an account that is gone is refused by a foreign key (the in-memory store inserts without the check,
`store.rs:1078`, `1223`), and `create_auth_token` is a DELETE and an INSERT in one transaction that locks no account (`DeleteUnused`,
`IssueToken`; the in-memory store does both under one lock). The two UPDATEs of `consume_auth_token_by_code` are one step.
`proofs`, `gone` and `moved` are history that properties read, and so are the marks of a key: `late`, the address moved between the lookup and
the mail, and `rivals`, the keys whose transactions overlapped its own.
The provider's own exchange, rate limits, mail and profile fields are left out.

### `Afisha`

A page of announcements kept in step with a channel it does not own. A pass of the reader is one
record: what it fetched, the announcements it loaded when it began, what it has left to do. The admin's
request reads an announcement and stores it whole; so does the pass, from its own copy.

| Code | Model |
|---|---|
| `settle`, `apply_post`, `keep_edited`, `file_imported`, `file_archived` (`afisha.rs`) | `Settled`, `ApplyPost`, `Kept`, `FileImported`, `FileArchived` |
| the timer, "sync now", import by link, the archive (`try_run`) | `StartTimer`, `StartSync`, `StartImport`, `StartArchive` |
| feed pass with its catch-up and deletions (`afisha_reader.rs`) | `FetchPage`, `Load`, `FetchOlder`, `ReadPost`, `LookForDeleted`, `RemovePost`, `Finish` |
| the daily check | `GoOnWithCheck`, `FetchEmbed`, `PageUnreadable`, `CheckPost` |
| `admin_event`, `save_admin_change` (`handlers/afisha.rs`) | `AdminReads`, `AdminStores` |
| a fetch or store that fails, a dropped pass; the channel's author (external) | `Fail`; `AuthorActs` |

What is abstracted. `when` stands for the fields a page needs (date, time, city), `own` for the
registration link, a picture is present or not. Parsing is the constant function from a text to its date
and kind. The author may put a post that was seen back (an edit that undoes a deletion in the reader's
eyes). A pass that loads its copy also writes
announcements back to fill in the print of a picture (`afisha_reader.rs:369-378`); that write is left out, what it may overwrite is what any
later store of the same pass may. Mails to the admin, pings to search engines, click counts, reports and settings change no announcement.

`word` is history that `AdminsWordStands` reads: what the admin last stored with no pass at the post's copy. It moves on in one
case (`ByImport`): `file_imported` gives a post its kind unless one is on record, also where the admin had cleared the
kind by hand, and the kind it files counts as the admin's from then on. The instance has the form that clears a kind, so
both orders occur. `lapsed` are the posts found gone since, whose pages a returning post may bring back.

### Proofs and instances

`PaymentsProofs`, `PurchaseProofs`, `PublishingProofs`, `AccountsProofs`, `PlaySyncProofs`, `IdentityProofs`, `PlayLoopProofs` and
`AfishaProofs` hold theorems; `MC*` hold instances for TLC. In the modules of the models, a definition whose comment says *faulty* is a variant no specification uses: it is what a
property must catch (`mutants` in `PROJECT.json`).

## The runs

| Run | Question | Answer |
|---|---|---|
| `payments_settle` | two handlers, two payments, a one-use coupon, an admin edit and a dead handler: is every grant justified, is a held coupon burnt at most once, is a 200 only given once the buyer has the quest? | holds (3.9 M states) |
| `payments_caps` | two buyers, a coupon good for one of them, an admin who may turn a gift into a half price or back: do caps hold at each redemption, and is every charge one the payments table accepts? | holds (5.0 M states) |
| `payments_live` | with a handler that dies and midnight between: does money taken end in access, a cancellation in a free buyer, and is every step one of `Purchase`? | holds |
| `payments_double` | what a comment says of overlapping checkouts | violated, see below |
| `sync_tabs` | two tabs of one device with two attempts on each side, restarts and concurrent flushes: is a bonus awarded once, do the ledger and the logs agree, is what is marked sent on the server? | holds (2.3 M states) |
| `sync_live` | one tab, two calls under way, a lost request, reply or tab: does every fact reach the server in the end, and is every step one of `FactLedger`? | holds (300 k states) |
| `play_loop` | four steps with mistakes, hints, skips, back, history, ratings, a lost write and a page that dies anywhere: with a stale copy of the row put back: does the stored log say what the live one says, is a step solved once, a once-ever bonus paid once, and does nobody resume beyond what was solved? | holds (1.9 M states) |
| `publishing` | two requests at a time of twelve kinds, one of which may die, on a draft, a quest on sale, one without a row, and one published without content: is what is sold playable, does an attempt stay with the content it was bound to, does a write land for the right author, does nothing stay on sale that lost its row or its owner? | holds (1.5 M states) |
| `accounts` | two requests at a time of every kind on two ids, two addresses, two providers and two mailed keys: does an address open one account, is nothing left of a deleted one, was what is confirmed proved, is an old key dead, does an unlink leave a way in? | holds (960 k states) |
| `afisha` | three posts, an author, the timer, every button of the admin, one failure: is only what is complete on the site, and does the admin's word stand? | holds (2.8 M states) |
| `afisha_live` | with the timer ticking: is an own event on the feed filed in the end, does a deleted one leave the site? | holds (76 k states) |
| `identity` | two tabs with a flow each, an account made elsewhere, one logout, one fault: is what was played filed under who played it, does a logout leave nothing on the device, can the device be played anonymously after it? | holds (5.2 M states) |

Bounds, and why they are enough. *Handlers*: every race in the code is between two of them (a
poll and a webhook, two checkouts), and a row is settled by at most one. *Payments*: two for one
buyer show a payment replayed, abandoned or doubled. *Price*: 3 rubles, so that half of it
rounds (to 2, a discount of 1) and a fixed ruble is a partial discount. *Coupons*: a coupon with a
cap of one is at its limit with two buyers or two attempts. *Edits* and *aborts*: one each;
a second edit can only undo the first or hit a different call of the same handler. `SaleSpec`
starts with every quest on sale and the card on, the shop of every race worth having; the free
quest, the delisted one and the mock come with the edit. *Server attempts* in `sync_live` are three,
because with two the bound itself would stop a retry: a lost registration uses one, its repeat the
second, and a put that overwrites the binding the third. `sync_tabs` has no faults: two
tabs already lose each other's writes, and with a fault the instance outgrows the time it is given;
lost replies are `sync_live`'s. `MaxDay`, `MaxEdits`, `MaxAborts`, `MaxFaults` bound counters only.
*Play*: the quest of `play_loop` has each template once; three facts before an event (an event adds up
to five) hold two mistakes and their skip, or a hint and the way to the finale. `MaxWaiting` is 0: an event comes when the
chain has drained, while history moves and the page's death come at any time; the chain is
first in, first out, so an event that comes earlier only makes the chain longer. `MaxLog` leaves room for three ratings on the finale, so that
one returns to an earlier score. `PutRow` comes before the last reopening only: after it nobody reads the row. One reopening shows what
is lost and what is replayed; `Elsewhere` is the completion bonus, by far the easiest to earn twice.

*Publishing*: one quest, because no handler touches two; an admin, an author and the operator; two
versions and two texts or none, enough for a publish of the same version with another content or without any, for two that
fill one empty version, and for one of another version; three requests of which two overlap, so that a third (a transfer, a role, a publish) has ended in
between; one second of clock, so that a save may or may not fall into the second of the backfill's read.
*Accounts*: the same shape; two ids for a claim against an owner, two addresses for a move, one
provider each for the two subjects, so that an account can have one way in, two or none; one wrong
code is allowed, so that the limit is met. *Afisha*: a page holds two posts of three in `afisha` (the
third falls off it, and a gap on it is a deletion) and one of two in `afisha_live` (which must page back to
catch up); one change of the admin's and two of the author's, in any order with a pass and its failure.

*Identity*: two flows, because every race in it is between a write or a flush and a logout or a sign-in; one in each tab, because what a
logout cannot wait for is another tab. One logout parts two players, and a third could only meet the second in the same way. Three
larger instances were run once, without an error: two server attempts with the fault (11.9 M states), two local attempts with one
server attempt and no fault (10.9 M), and two flows of one tab, where a logout waits for the flush it joins (11.6 M without
symmetry).

Symmetry is used for interchangeable requests, payments, players, keys and server ids, and in no run
that checks liveness. `publishing` and `accounts` turn the deadlock check off: their handlers are
started a bounded number of times (`MaxStarted`), after which nothing is left to do.

## Fairness

`Payments!LiveSpec`: weak fairness for each handler's next call (a task that is not dropped is
polled to its end), and strong fairness for the delivery of each notification to a handler (the gateway
repeats it until a 200; that a slot is busy each time it comes is not credible). Nothing is assumed of
buyers, admins, polls, or of a handler surviving: `Abort` may take any of them, up to its bound. So
`PaidIsGranted` rests on the webhook alone, also when the browser never comes back.

`PlaySync!LiveSpec`: weak fairness for each flow's resumption (a promise resolves or rejects), and
strong fairness for a flush of each attempt that has something pending: `flushAll` runs at app load,
at profile load, when the browser is back online and 1.2 s after a new fact. Nothing is assumed of
play. A permanently refused quest is outside: the checkout of a flush is of a quest the player can have.

`Afisha!LiveSpec`: strong fairness for the timer's start (it ticks every ten minutes, and each
pass under way ends and frees the lock), weak fairness for the steps of a pass, and strong fairness for the
daily check, which a timer's feed pass goes on with when a day has gone by. Nothing is assumed of
the admin or the author, and `Fail` may end any pass, up to its bound.

## The proofs

`tlapm PaymentsProofs.tla` checks, for any number of players, quests, coupons, payments and
concurrent handlers, and any bounds:

| Theorem | Says |
|---|---|
| `TypeCorrect` | `Spec => []TypeOK`; a slot whose handler ended or died holds nothing |
| `RowsFollowGatewayAlways` | a row is settled only as the gateway says (part of `IInv`; no run repeats it, as `KeepsPromise` says it of the orders) |
| `GrantsAlwaysJustified` | access that names a payment was paid by that player for that quest; one grant per pair |
| `AnsweredAlwaysGranted` | once a paid payment is no longer notified, its buyer has the quest or deleted the account |
| `InsertAlwaysAccepted` | every charge is above zero and within the price, for every coupon the form accepts |
| `HeldCouponAlwaysBurnsOnce` | a payment burns the coupon it holds at most once, and only when its row is settled as paid |
| `CapsAlwaysHold` | no step records a redemption past the caps its coupon has then, nor a second one for one pair |
| `FirstGrantAlwaysWins` | `FirstGrantWins`, which no run repeats: no step takes away or rewrites a grant but the deletion of its owner's account |

*Assumptions* are those `Payments` names: prices are naturals, saved coupons pass the form's
discount rule, `None` and `"mock"` are nobody's id, and no payment has the name `"checkout"` that stands for a redemption
without a payment (`ByAssumption`). TLC evaluates them in each run.

*The argument.* None of the safety properties is inductive: `GrantsAreJustified` is about rows and
grants, but a grant is made by a handler that read the row and asked the gateway several steps
ago. `IInv` adds what each handler holds (`Fit`): a checkout that reached the quote has a positive
price, and a charge within it from the second quote on; a settle's job equals the row it read; at `flip`
the gateway said succeeded, at `burn` and `grant` the row is settled. `OneInsert` (no two handlers hold
one fresh payment) and `GatewayOK` (what is notified has ended, what is paid has a row) close the
loop. The steps of others cannot disturb a handler because rows only settle, gateway payments only
end, and grants go only with the account: `Steady` states that and `FitFrame` carries `Fit` over it.
Then there is one lemma per action; `QuietStep`, `RestStep`, `MoveStep` and `GrantNextStep` serve the
actions that write no row and no grant, `RowSettled` the two that settle one, `SettleAnswerStep`
those that answer a webhook. `DiscountBounds` and `QuoteBounds` bring the arithmetic of the
discount in once.

The two statements that count redemptions rest on a second invariant, `LogOK`, inductive on top of the first. Two coupons never
share a code, so a code finds one coupon. Of one payment (`BurnsOne`) there is at most one handler about to burn or one
redemption recorded, never both, and only behind a row that says succeeded, which no step changes again (`PaidRowStays`): the
compare-and-set that settles the row is the only way to `burn`. The redemptions are finitely many, so that adding one adds one to
each count, which is what the caps were tested against under the store's lock.

`tlapm PurchaseProofs.tla` proves the refinement, for the same unbounded instances:
`PromiseAlwaysKept` is `Spec => KeepsPromise`. Under the invariant of `PaymentsProofs`, each action is
mapped to a step of `Purchase` or to a stutter: the insertion of the row asks for an order, the payer's payment and the gateway's cancellation end
it, `CreateGrant` after a settle delivers a paid one (the invariant supplies that the row was settled as
succeeded and that the grant is the pair's first), and everything else leaves both variables alone.

`tlapm PublishingProofs.tla` checks, for any number of quests, accounts, versions and requests:

| Theorem | Says |
|---|---|
| `TypeCorrect` | `Spec => []TypeOK` |
| `AlwaysPlayable` | what is on sale, and every row beyond a draft, has a stored snapshot behind it |
| `OnlyOwnersEdit` | a save, a status change or the end of a row lands for an admin or for the author of that moment, and a deletion takes off sale only what was the caller's, or an admin's to take, when its gate looked |
| `DeletedAreDelisted` | a deletion leaves no quest on sale without a row, unless another request listed it in between |
| `OwnersLeaveNothing` | a deleted account leaves nothing of its own on sale but what came to it while the deletion ran |
| `AttemptsPinned`, `SnapshotsFrozen` | an attempt keeps the content it was bound to, a snapshot keeps what it says (`FrozenSnapshots`, which no run repeats); both once no publish that saw it empty, and no rewrite of older content, is under way (`Settled`) |

*Assumptions*: a world is one where what is listed has a snapshot and what is beyond a draft is listed
(`WorldsAssumption`), `None` is no record and no name; TLC evaluates them.

*The argument.* What a handler found at its gate is worth something later only if nobody else can undo
it. `Fit` states for each call what its handler still relies on: at a guarded write, that an admin calls or
the author the gate saw is the caller; at `status`, that a snapshot exists if the new status needs one; at
`remove`, that the listing is gone or somebody listed it since; at `leave`, that what the account has on
sale came to it since the check. `Steady` is what every step leaves standing for the handlers it does not
run (snapshots stay; what is put on sale or handed over is noted in `moved`), `FitFrame` carries `Fit` over it,
and `RowStep` and `ListStep` serve the actions that write a row, or a listing or a snapshot.

What an attempt is bound to rests on a second invariant, `Bound`: an attempt, and the handler about to open one, knows a content only of a
version that is `Settled`, and `SettledStep` says that no step changes such a content or unsettles it: a publish that looks now finds
the content there and has nothing to fill, and a rewrite that begins now carries that very content. So nothing is assumed of what
publishes carry.

`tlapm AccountsProofs.tla` checks, for any number of ids, addresses, subjects, keys and requests:

| Theorem | Says |
|---|---|
| `TypeCorrect` | `Spec => []TypeOK` |
| `AddressesAgree` | the index of addresses is the inverse of the accounts' addresses |
| `NothingOutlives` | no password, link or session of an account that does not exist |
| `ConfirmedProved` | a confirmed address was proved reachable for that very account |
| `KeysGood` | two working keys of a kind come of two transactions that overlapped; a key went to the address the account has now, or is `late` |
| `UnlinkLeavesAWay` | an unlink leaves an address or another provider, unless another request took one since the count |

*Assumptions*: the accounts a world begins with have distinct addresses, their passwords and links are of
accounts that exist, and an account has one link per provider, as the table's unique index has it
(`WorldsAssumption`); `None` is no record and no name. TLC evaluates them.

*The argument.* The first two follow from the tables: `IndexAgrees` and `NoOrphans` are inductive with the types. The
next two are not, because a key is mailed, followed and acted on in steps far apart, and the address
may move in between. `KeyOK` says what a mailed key stands for while its account lives: it went to the address
of now, or the address of now is confirmed. `Sure` says what a handler still relies on at each call (about to
mail: the address it read is the address of now, or it was told that it moved; brought by a key: the
address of now is proved), `MovedOK` that a move confirms. `Lasting` and `KeptKey` are what every step leaves of
accounts and of keys, and carry `Sure` and `KeyOK` over it; `WriteStep` and `InsertStep` serve the actions that write a row,
`SpendStep` those that use up a key. That the latest mail wins rests on `Snapshots`: a transaction about to insert its key has on its
list every key of the kind that works, but for those it was told of, which were inserted since (`rivals`). `UnlinkKeepsAWay` needs what the count found to be there still when the link goes:
`WaysInv` says that an unlink past its count has an address to count on, or a link of another provider, or was told that a link of the
account went (`CountOK`); that the provider to go has one link of the account (`OneLinkEach`) is why the other one is not taken with
it. `Stays` and `Told` carry it over the steps of others.

`tlapm PlaySyncProofs.tla` checks, for any number of tabs, devices, players, facts, attempts and calls under way:

| Theorem | Says |
|---|---|
| `TypeCorrect` | `Spec => []TypeOK` |
| `BonusAlwaysOnce` | the logs of one player hold at most one fact of a once-ever kind |
| `BackendsAlwaysAgree` | the Postgres ledger marks what the in-memory store's scan of the logs finds |
| `SentAlwaysDurable` | a fact marked as sent is in a log, or is a bonus the player has |
| `LedgerAlwaysKept` | `Spec => KeepsLedger`: every step is one of `FactLedger` or none |

*Assumptions*: each tab is of a device and each device of a player, the once-ever kinds are kinds
(`PlacesAssumption`, `FactsAssumption`), and `None` is no record and no name (`NoneAssumption`). TLC evaluates them.

*The argument.* `OneAward` strengthens `BonusOnce` to what is inductive: of a player's logs, two facts of one once-ever
kind are the same fact of the same attempt; with `BackendsAgree` the ledger stands for the scan, which is what the
batch of `PostFacts` is tested against (`PostKeeps`). `SentIsDurable` needs more, because the queue is marked several awaits
after the row was read, and another tab may have rebound or superseded it. `Fit` says what a flow
still relies on at each call: the row it copied is of its own device and bound, if at all, to an attempt
that the server made for it (`Serves`), and each fact of the batch it posted is filed. `Grows` is what every
step leaves of rows, attempts, logs and the ledger, and carries all of it over the steps of other flows.

The refinement needs one thing more: that what a flush carries was recorded in the queue of the attempt it carries it for (`Recorded`, inductive on
top of `IInv`, checked by TLC on the instance of `sync_tabs` first). A flush keeps its batch to its end (`SameWork`) and the queue forgets no fact (`QueueOnlyGrows`). Then
each action is mapped in a lemma of its own: `CopyUntold` for the three puts of a stale copy, which keep the row's player; `NewAttemptUntold`
for a registration, whose log is empty; `PostFiles`, where `Fit` supplies that the server's attempt is of this key and this player, and
`AcceptsOne` that of a once-ever kind one new fact is accepted; `MarkConfirms`, where `Fit` supplies that the batch is filed.

`tlapm IdentityProofs.tla` checks, for any number of tabs, calls under way, accounts, attempts, facts and logouts:

| Theorem | Says |
|---|---|
| `TypeCorrect` | `Spec => []TypeOK` |
| `AlwaysStaysWithPlayer` | what is played is filed under somebody who played between the same two logouts, but for what straddled one |
| `LogoutAlwaysForgets` | a row outlives its logout by a wipe that is due or failed, or by a late put, and in no other way |
| `DeviceNeverBricked` | a signed-out device has an id that is no account's, unless a registration's reply is to come or was lost |

*Assumptions*: each flow is in a tab and there are finitely many, the device's ids are nobody else's (`TabsAssumption`, `IdsAssumption`), and
`None` is no record and no name (`NoneAssumption`). TLC evaluates them.

*The argument.* `StaysWithPlayer` relates a log to the attempt it was posted for, but who played is known only where the fact was
queued, calls and sessions earlier. What ties the two together is the id under which the local attempt was minted. `Queued` says
that a fact is of a player of that id or of a later one; a flush that reads its batch while the device still has the id therefore
carries that player's facts (`BatchOK`), for a user who is one of its players, and since a token must be of the claimed user, `MayAct`
makes the server's attempt theirs (`Serves`). That holds of every row and of every copy of a row (`RowOK`), however late it is put back. `Past`
says that no attempt and no account is younger than the device's id, which is why the id after a logout is nobody's, and
`Budget` that each logout under way has an id left for it, which the bound on ids makes part of the type invariant. `Grows` is what every step leaves of
players, ids and server attempts, and carries `Fit` over the steps of other flows.

`tlapm PlayLoopProofs.tla` checks, for any quest and any number of facts, ratings, reopenings and waiting writes:

| Theorem | Says |
|---|---|
| `TypeCorrect` | `Spec => []TypeOK` |
| `SolvedOnce` | an answer step has one solution, and its gift is for an answer that was accepted |
| `BonusesPayOnce` | no event appends a once-ever bonus already known to be earned, nor a second one of its kind |
| `PositionIsEarned` | nobody resumes beyond a question or a place whose solution is neither stored nor on its way there, while no fact was lost |
| `LogAlwaysReplays` | the queue's one fact per natural key replays into what was played, the latest rating included, while no write is lost, no text is judged wrong first and right later and no rating returns to an earlier score |
| `CoinsAlwaysReplay` | its coins and bought hints do so in every state (no run names it: it is stated beside its proof) |

*Assumptions*: the last step of a quest and no other is its finale, the skip has a price in whole coins, limits and scores are
numbers, `None` is no answer, and platform-wide answers are answers (`UniversalsAssumption`). TLC evaluates them.

*The argument.* The engine only adds to the log it is given, so one relation says what it may add: `Grown(a, b)`, the log of `b`
continues that of `a`, and each fact it adds fits the ones before it (`Fits`): a once-ever kind is new to the log and to what other attempts
earned, a solution is of a step not yet solved, a gift follows an answer accepted in the same event. Each operator of the
engine keeps it (`PutGrows`, `AwardGrows`, `AnswerGrows`, ...), and `RunKeeps` turns that into a step of the page. `SolvedOnce` is not
inductive, because a reopening throws the log away and starts again from storage, while facts of the last visit still wait
in the sink's chain. `IInv` adds that storage and chain hold only facts of the log, so that what a reopening reads has no
second solution either; and that, while no write was lost, a gift in storage or in the chain comes after the
answer it is for, so that a page that dies between the two writes leaves the answer rather than the gift.

The two replays compare folds over two logs of any length, and need to know what two facts of one natural key may differ in. `Fits`
therefore also says that a fact moves coins only if its key is new to the log, and that a mistake has the next number
among those with its text. `IInv` keeps the first of the whole log (`Priced`), and the second, while no write was lost, of the log
and of storage (`Numbered`); between them, that the mistakes in the chain continue the stored ones (`Continues`) and that none of the log's is in
neither (`KeptWrongs`), so that a reopened page goes on numbering where the last one stopped. TLC checked the whole of `IInv` on the
instance of `play_loop` before it was proved. A fold is then read as a function on the
front parts of a log: `FoldExists` gives the function by a minimal counterexample (`StepUp`), `BalanceSteps` and `AbsorbSteps`
its value at each length, and `CollapsedLog` carries the comparison from one length to the next. With texts judged once, a
log has no two mistakes of one key (`NumberedApart`), which is the part of the comparison that coins do not need.

`ResumeIsEarned` has an invariant of its own, `EInv`: while no fact was lost, what opened a gate is in storage or in the chain (`OpenersKept`), and
every position, shown, waiting to be saved or stored, has the gates before it solved there (`Cleared`). `Climbs` says, again for each operator of
the engine, that an event gets past a gate only with the fact that opens it. A stale copy of the row only goes back among positions that are `Cleared`.

`tlapm AfishaProofs.tla` checks, for any number of posts, requests, pages, failures and changes:

| Theorem | Says |
|---|---|
| `TypeCorrect` | `Spec => []TypeOK`; with it, that what is on the site has a kind and a date |
| `WordStands` | what the admin stored with no pass at its copy stays through every later pass |

*Assumptions*: posts are finitely many positive numbers, a text has a kind and at most one date, and what is on the site of a world to
begin with is complete (`WorldsAssumption`); `None` is no name. TLC evaluates them.

*The argument.* A pass stores what it made of its own copy, taken calls earlier, so `AdminsWordStands` cannot be
inductive by itself. `WordFits` adds that of a post the admin has a word on, the copy of a pass that has loaded one is what the
table says (the admin's word counts only when no pass was at the copy, and a pass stores and keeps the same), and
that the table remembers which fields were set by hand, which is what `ApplyPost` goes by. `PassFits` says what each stage of a pass has in hand: it reads only posts it
fetched, and removes or checks only announcements it loaded. One lemma per rule of `afisha.rs` (`SettledFits` and its like) shows that
the rule keeps the word and the completeness of what is published.

*Only model-checked*: liveness (`PaidIsGranted`, `CanceledIsReleased`, `EverythingSyncs`, `OwnEventIsFiled`,
`DeletedLeavesTheSite`), outside TLAPS's reach here. Every safety property of the passing runs is proved.

## Where code and text disagree

One run must be violated, and has an entry of `findings` with the lines.

1. *Two open payments* (`payments_double`). "An open payment for this order is replayed instead of
   double-creating": two checkouts that overlap both find none, and both open one; the table has no
   unique index on player and quest.

Others were met while modelling and have no run; the properties above are stated so that they say
what holds in spite of them.

- *A partial discount granted without a charge* (`payments.rs:121`, `169-175`, `223`): a coupon edited from gift to partial
  between the quote and the redemption grants a card buyer by way of the mock.
- *An abandoned gift is refused* (`store.rs:3158`, `payments.rs:171`): a repeat is to return the recorded redemption, but checkout
  quotes first, and the quote counts the player's own redemption against the caps.
- *A fact filed under another run* (`QuestPlayerClient.tsx:300`): the sink relies on `ensureActiveAttempt` returning
  the attempt the page was hydrated with; a restart in a second tab changes it.
- *A binding lost* (`sync.ts:68`, `queue.ts:161`): registration happens "at most once per attempt"; a copy of
  the row put back by `setLastStepIdx` overwrites it, and the attempt is registered again. `SentIsDurable` and
  `BonusOnce` hold nonetheless.
- *A restore that forgets a solution* (`play-loop.ts:6-8`, `queue.ts:102`): a text refused before the platform-wide
  answer was loaded, and accepted later, has the natural key of the refused fact, and the queue keeps
  the refused one. `LogReplays` leaves such texts out; no coin and no bought hint is lost by it (`CoinsAlwaysReplay`).
- *A rating that returns to an earlier score* (`play-loop.ts:368`, `QuestPlayerClient.tsx:459-462`, `477-479`): "a restore from the queue
  replays into exactly the same behavior"; but 5, then 4, then 5 again, over several visits of the finale, has two natural keys, and the restored log
  ends with 4. The page knows of the collapse within one visit and commits only the last choice on the way out. The second 5 can then never be stored
  again. `LogReplays` leaves such ratings out.
- *A position that moves back* (`QuestPlayerClient.tsx:586-587`, `queue.ts:151`, `159`): "a back-navigation reread must never regress where the player
  resumes"; a copy of the row that `setServerAttemptId` puts back, for a flush of this page or of another tab, has an older position.
- *A position ahead of the log* (`QuestPlayerClient.tsx:586`, `fact-sink.ts`): position and facts are written apart, so a page that dies with a fact under way, a write
  that fails, or a refused text that is right later, may leave a place to resume beyond a question whose solution is nowhere. `ResumeIsEarned`
  says that a lost fact is the only way to it.
- *Bonuses gathered anew* (`QuestPlayerClient.tsx:195-198`, `541`): each visit asks what other attempts earned, and knows less
  when offline; `PaysOnce` is about what the visit knows, and the server's refusal of a second one is `BonusOnce`.
- *An orphan on sale* (`constructor.rs:735`): a publish or a backfill that runs between the two steps of a
  deletion lists the quest again, whose row then goes. `SaleEndsFirst` leaves what `moved` notes out.
- *An account without a way in* (`handlers/auth.rs:432`): two unlinks at once each count the other's link.
  `UnlinkKeepsAWay` leaves a stale count out, and an id that a
  sign-in in flight takes again after its deletion: the new account begins without the ways that were counted. That takes
  three requests at once, one more than the instance has; the proof is where it showed.
- *A snapshot filled twice* (`pg_store.rs:877-879`, `917-924`): "NULL data may be filled once"; two publishes of a version
  stored without content both read NULL, and the later UPDATE, which does not look again, replaces what the first filled in. A
  backfill that read the first content may put it back over the second. Both happen in `publishing`; an attempt bound in between is
  one whose content was not `Settled`, and `AttemptsKeepSnapshot` says nothing of its content.
- *A former author takes the new owner's quest off sale* (`constructor.rs:749`): "Every gated mutation therefore carries the author it saw"
  (`store.rs:2392-2399`), "a transfer landing in between costs the loser their edit, never the quest" (`authz.rs:269-272`); but the first write of
  a deletion, `unpublish`, carries no author, so a deletion let in before a transfer ends the sale after it. The row stays: its removal is
  guarded. `EditsByOwner` says of that write only that the caller was the author at the gate, or an admin.
- *A hidden announcement comes back* (`afisha.rs`, `afisha_reader.rs`): "Taken off the site by the admin; a re-read never
  brings it back"; but a pass works on the copy it loaded when it began and stores it whole, so an announcement
  hidden while the pass runs is published again. `AdminsWordStands` says what does hold: what was
  stored with no pass at its copy stays.
- *A row that outlives its logout* (`queue.ts:151`, `159`): `clearLocalPlay` leaves "no lingering attempts/facts to mis-attribute to
  the rotated id" (`session-actions.ts:24`), but `setServerAttemptId` and `setLastStepIdx` get a row and put it in two transactions, and a put
  that comes after the wipe brings the row back with its binding: the next player's facts then go to the last one's attempt.
- *What straddles a logout* (`session-actions.ts:30-46`): a fact that another tab files between the rotation and the wipe is lost, and
  one that a call began to file before and files after belongs to the next player. `StaysWithPlayer` leaves out what is marked so.
- *Signed in over a session* (`app/auth/reset/page.tsx`): a reset link signs its account in without a logout, and what the last account
  left unsynced is filed by the new one, or refused: the two count as players of one id (`Together`).
- *Played before a login* (`session-actions.ts:28`): "Everything that synced stays on the account"; an attempt bound
  before the login stays the anonymous id's on the server, with all that is played in it afterwards.
- *A registration whose reply is lost* (`identity.ts:138`): the account exists, the device has no session and goes on with an id that the server
  refuses to anonymous calls. Only a login helps; `NeverBricked` leaves that id out (`lost`).
- *Two working keys of one kind* (`pg_store.rs:1521-1553`): "latest mail wins: issuing deletes prior unused tokens of the same kind in the
  same transaction"; two such transactions at once do not see each other's key, and both mails work. `GoodKeys` says that
  it takes an overlap (`rivals`). A typed code is tried on all the keys that work, and costs each an attempt.
- *A key mailed to the address of before* (`handlers/auth.rs:659`): an address that moves between the lookup and the issue leaves a working key
  in the old mailbox, which the move's own deletion of keys came too early for. `GoodKeys` leaves it out (`late`).

## Not modelled

- *Moderation's review notes, listings and the dashboard's counters*: written and read by single calls; nothing
  else reads them.
- *The profile fold* (`player-stats.ts`) and the *fact folds of pages* (statistics, export): functions of a log without a
  state of their own, read when a page is shown.
- *Settings, cities, icons*: lookup tables. The rename of a city is the one operation of several
  calls, and repeating it finishes it.
- *Mail, search pings, the provider's OAuth exchange and the check of its token (`social.rs`), the gateway's wire format and signatures, parsing of posts*: I/O and text,
  modelled by the outcomes the code branches on.
- *Media files, offline bundles, caches, the pages*: pure I/O and rendering. *Rate limits*: counters by address and minute,
  in front of handlers that are modelled as free to run.

## What is left

1. Two devices of one account: `PlaySync` has the devices, `Identity` the accounts.
2. `FactLedger` with the wipe of a logout, so that `Identity` can be shown to implement it too.
