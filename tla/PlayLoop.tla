------------------------------ MODULE PlayLoop ------------------------------
(***************************************************************************)
(* Playing one attempt: the rules engine (frontend/lib/play-loop.ts), the  *)
(* folds it reads its history from (lib/shared-model.ts, whose twin is     *)
(* backend/src/facts.rs), the player page that runs it                     *)
(* (app/quest/QuestPlayerClient.tsx), and the write-through of its facts   *)
(* (lib/fact-sink.ts, lib/queue.ts).                                       *)
(*                                                                         *)
(* An event of the player is one step: the engine is a pure function.  The *)
(* facts it appends wait in the sink's chain and are written one           *)
(* transaction at a time; the page may be closed in between, and is opened *)
(* again on what was stored.  The popup that reveals a bought hint, toasts *)
(* and sounds are left out: no rule reads them.                            *)
(***************************************************************************)
EXTENDS Integers, SequencesExt

CONSTANTS
  None,
  LastStep,      \* index of the last step
  Quest,         \* step index -> [template, accept, gift, hint, nav]
  SkipCost,
  Answers,       \* texts the player may submit, up to case and spaces
  Reviews, Reports,
  Scores,        \* stars the player may give
  Universals,    \* platform-wide answers: sets the server may serve
  Elsewhere,     \* once-ever bonuses other attempts of the quest may earn
  MaxFacts, MaxLog, MaxWaiting, MaxVisits
                 \* bounds: facts in the log when a step's button is pressed and when a
                 \* rating is given, writes under way when an event comes, reopenings

Once  == {"completion_bonus", "rating_bonus", "comment_bonus"}
Bonus == 5

Templates == {"next", "physical", "answer", "finale"}

StepType == [template : Templates, accept : SUBSET Answers,
             gift : Nat \cup {None}, hint : Nat \cup {None}, nav : BOOLEAN]

ASSUME QuestAssumption ==
  /\ LastStep \in Nat /\ Quest \in [0 .. LastStep -> StepType]
  /\ \A p \in 0 .. LastStep : Quest[p].template = "finale" <=> p = LastStep
ASSUME CostAssumption   == SkipCost \in Nat
ASSUME NobodyAssumption == None \notin Answers \cup Reviews \cup Reports \cup Int
ASSUME LimitsAssumption == {MaxFacts, MaxLog, MaxWaiting, MaxVisits} \subseteq Nat /\ Scores \subseteq 1 .. 5
                           /\ Elsewhere \subseteq Once
ASSUME UniversalsAssumption == Universals \subseteq SUBSET Answers

VARIABLES
  play,        \* the reducer's state (facts, stepIdx, maxStepIdx, hintOfferPos), and in
               \* `paid` the once-ever bonuses this visit knows other attempts earned
  chain,       \* facts the sink still has to write, in order
  stored,      \* the attempt's rows in IndexedDB, in the order of seq
  resume,      \* last_step_idx of the attempt's row
  saving,      \* positions the page still has to put there, in order
  universal,   \* platform-wide answers in effect, none until they are fetched
  rating,      \* stars tapped on the finale, 0 before
  dropped,     \* a write failed: its fact lived in memory only
  lost,        \* history: some fact is not in storage and will not be
  visits

vars  == <<play, chain, stored, resume, saving, universal, rating, dropped, lost, visits>>
disk  == <<stored, resume>>
visit == <<universal, dropped, lost, visits>>

-----------------------------------------------------------------------------
(* Facts and their folds.                                                   *)

Fact(kind, step, value, coins, note, ok) ==
  [kind |-> kind, step |-> step, value |-> value, coins |-> coins, note |-> note, ok |-> ok]

\* The natural key: the verdict and the device are not part of it.
Key(f) == <<f.kind, f.step, f.value, f.coins, f.note>>

AbsorbAlways(log, f) == Append(log, f)   \* faulty: the key is not looked up

\* appendFact: a known key keeps the row that is there.
Absorb(log, f) ==
  IF \E i \in DOMAIN log : Key(log[i]) = Key(f) THEN log ELSE Append(log, f)

AbsorbAll(log, facts) == FoldLeft(Absorb, log, facts)

Has(log, kind)      == \E i \in DOMAIN log : log[i].kind = kind
HasAt(log, p, kind) == \E i \in DOMAIN log : log[i].kind = kind /\ log[i].step = p

\* The one rule of what completes a step.
CompletesStep(f) ==
  \/ f.kind \in {"physical_confirmed", "attempt_completed", "task_skipped"}
  \/ f.kind = "answer_submitted" /\ f.ok

Solved(log, p) == \E i \in DOMAIN log : log[i].step = p /\ CompletesStep(log[i])

Wrongs(log, p) ==
  {i \in DOMAIN log : log[i].kind = "answer_submitted" /\ ~log[i].ok /\ log[i].step = p}

ProjectBalance(log) == FoldLeft(LAMBDA sum, f : sum + f.coins, 0, log)

ProjectState(log) ==
  [completed |-> {log[i].step : i \in {j \in DOMAIN log : CompletesStep(log[j])}},
   hints     |-> {log[i].step : i \in {j \in DOMAIN log : log[j].kind = "hint_purchased"}},
   balance   |-> ProjectBalance(log)]

\* The score of the last rating, 0 before the first.
LatestRating(log) ==
  LET rated == {i \in DOMAIN log : log[i].kind = "quest_rated"}
  IN IF rated = {} THEN 0 ELSE log[CHOOSE i \in rated : \A j \in rated : j <= i].value

\* The wrong-answer popup opens on an unsolved answer step with a mistake on it.
WrongPopupAt(log, p) ==
  Quest[p].template = "answer" /\ Wrongs(log, p) # {} /\ ~Solved(log, p)

-----------------------------------------------------------------------------
(* The engine.  `b` is the play state a transition builds up.               *)

Put(b, f) == [b EXCEPT !.facts = Append(@, f)]

NewPlay(facts, idx, paid) ==
  [facts |-> facts, stepIdx |-> idx, maxStepIdx |-> idx, offer |-> None, paid |-> paid]

\* faulty: what other attempts earned is forgotten
AwardAgain(b, kind) ==
  IF Has(b.facts, kind) THEN b
  ELSE Put(b, Fact(kind, b.stepIdx, None, Bonus, None, TRUE))

AwardOnce(b, kind) ==
  IF kind \in b.paid \/ Has(b.facts, kind) THEN b
  ELSE Put(b, Fact(kind, b.stepIdx, None, Bonus, None, TRUE))

\* The gift of a completed step, never of a skipped one.
ClaimGift(b, p) ==
  IF Quest[p].gift = None \/ HasAt(b.facts, p, "gift_claimed") \/ HasAt(b.facts, p, "task_skipped")
  THEN b
  ELSE Put(b, Fact("gift_claimed", p, None, Quest[p].gift, None, TRUE))

CompleteAttempt(b) ==
  IF Has(b.facts, "attempt_completed") THEN b
  ELSE LET done == Put(b, Fact("attempt_completed", b.stepIdx, None, 0, None, TRUE))
       IN ClaimGift(AwardOnce(done, "completion_bonus"), b.stepIdx)

\* Landing on the finale is completion.
AdvanceTo(b, to) ==
  LET clamped == IF to < 0 THEN 0 ELSE IF to > LastStep THEN LastStep ELSE to
      moved   == [b EXCEPT !.stepIdx = clamped,
                           !.maxStepIdx = IF clamped > @ THEN clamped ELSE @]
  IN IF clamped = b.stepIdx THEN b
     ELSE IF Quest[clamped].template = "finale" THEN CompleteAttempt(moved) ELSE moved

Accepted(value, p) == value \in Quest[p].accept \cup universal

WrongUnnumbered(log, p, value) == None   \* faulty: repeats share one key

\* The ordinal that keeps a repeated mistake a fact of its own.
WrongNote(log, p, value) ==
  LET repeats == Cardinality({i \in Wrongs(log, p) : log[i].value = value})
  IN IF repeats = 0 THEN None ELSE repeats + 1

\* faulty: a solved step is asked again
AnswerAgain(b, value) ==
  LET p  == b.stepIdx
      ok == Accepted(value, p)
      answered == Put(b, Fact("answer_submitted", p, value, 0,
                              IF ok THEN None ELSE WrongNote(b.facts, p, value), ok))
  IN IF ok THEN AdvanceTo(ClaimGift(answered, p), p + 1) ELSE [answered EXCEPT !.offer = p]

\* A solved step only moves on; a mistake opens the popup.
Answer(b, value) ==
  LET p  == b.stepIdx
      ok == Accepted(value, p)
      answered == Put(b, Fact("answer_submitted", p, value, 0,
                              IF ok THEN None ELSE WrongNote(b.facts, p, value), ok))
  IN IF Solved(b.facts, p) THEN AdvanceTo(b, p + 1)
     ELSE IF ok THEN AdvanceTo(ClaimGift(answered, p), p + 1)
     ELSE [answered EXCEPT !.offer = IF WrongPopupAt(answered.facts, p) THEN p ELSE @]

PhysicalConfirm(b) ==
  LET p == b.stepIdx
  IN AdvanceTo(ClaimGift(Put(b, Fact("physical_confirmed", p, None, 0, None, TRUE)), p), p + 1)

\* Once per step, and never blocked by the balance.
BuyHint(b) ==
  LET p == IF b.offer # None THEN b.offer ELSE b.stepIdx
  IN IF Quest[p].hint = None THEN b
     ELSE [(IF HasAt(b.facts, p, "hint_purchased") THEN b
            ELSE Put(b, Fact("hint_purchased", p, None, -Quest[p].hint, None, TRUE)))
             EXCEPT !.offer = None]

\* Only from an open popup whose step still has a mistake and no solution.
SkipTask(b) ==
  LET p == b.offer
      answer == IF Quest[p].accept = {} THEN None ELSE CHOOSE a \in Quest[p].accept : TRUE
  IN IF p = None \/ ~WrongPopupAt(b.facts, p) THEN b
     ELSE AdvanceTo(Put([b EXCEPT !.offer = None],
                        Fact("task_skipped", p, answer, -SkipCost, None, TRUE)), p + 1)

\* A rating is logged when the score or the review is new; each pays once ever.
Rate(b, score, review) ==
  LET rated   == Put(b, Fact("quest_rated", b.stepIdx, score, 0, review, TRUE))
      starred == AwardOnce(rated, "rating_bonus")
  IN IF score <= 0 \/ (LatestRating(b.facts) = score /\ review = None) THEN b
     ELSE IF review = None THEN starred ELSE AwardOnce(starred, "comment_bonus")

-----------------------------------------------------------------------------
(* The player page.                                                         *)

Init ==
  /\ \E paid \in SUBSET Elsewhere : play = NewPlay(<<>>, 0, paid)
  /\ chain = <<>> /\ stored = <<>> /\ resume = 0 /\ saving = <<0>>
  /\ universal = {} /\ rating = 0 /\ dropped = FALSE /\ lost = FALSE /\ visits = 0

Fresh(b, from) == SubSeq(b.facts, Len(from) + 1, Len(b.facts))

\* The effect that saves the furthest step, not the one in view, once it has grown.
Saves(b) == IF b.maxStepIdx = play.maxStepIdx THEN saving ELSE Append(saving, b.maxStepIdx)

\* runEvent: the new state to the reducer, what it appended to the sink.
RunEvent(b) ==
  /\ Len(chain) <= MaxWaiting /\ Len(saving) <= MaxWaiting
  /\ play' = b
  /\ chain' = chain \o Fresh(b, play.facts)
  /\ saving' = Saves(b)

Template == Quest[play.stepIdx].template

\* The buttons of the step that is shown, and of the popup when it is open.
Press ==
  /\ Len(play.facts) < MaxFacts
  /\ \/ Template = "next" /\ RunEvent(AdvanceTo(play, play.stepIdx + 1))
     \/ Template = "physical" /\ RunEvent(PhysicalConfirm(play))
     \/ Template = "answer" /\ \E value \in Answers : RunEvent(Answer(play, value))
     \/ Template = "answer" /\ ~HasAt(play.facts, play.stepIdx, "hint_purchased")
          /\ ~Solved(play.facts, play.stepIdx) /\ RunEvent(BuyHint(play))
     \/ play.offer # None /\ RunEvent(BuyHint(play))
     \/ play.offer # None /\ RunEvent(SkipTask(play))
     \/ play.offer # None /\ RunEvent([play EXCEPT !.offer = None])
     \/ play.stepIdx > 0 /\ RunEvent(AdvanceTo(play, play.stepIdx - 1))
  /\ UNCHANGED <<disk, visit, rating>>

\* A report to the author, and the hand-off to the maps app.
Report ==
  /\ Len(play.facts) < MaxFacts
  /\ \/ \E note \in Reports :
          RunEvent(Put(play, Fact("feedback_reported", play.stepIdx, None, 0, note, TRUE)))
     \/ Quest[play.stepIdx].nav
          /\ RunEvent(Put(play, Fact("navigator_used", play.stepIdx, None, 0, None, TRUE)))
  /\ UNCHANGED <<disk, visit, rating>>

LogLeft == Len(play.facts) <= MaxLog

\* handleRate: only the first tap is logged at once.
TapStars(score) ==
  /\ Template = "finale" /\ LogLeft
  /\ rating' = score
  /\ IF LatestRating(play.facts) = 0 THEN RunEvent(Rate(play, score, None))
     ELSE UNCHANGED <<play, chain, saving>>
  /\ UNCHANGED <<disk, visit>>

\* finish: whatever the card holds is committed on the way out.
Finish ==
  /\ Template = "finale" /\ LogLeft
  /\ LET shown == IF rating # 0 THEN rating ELSE LatestRating(play.facts)
     IN \E review \in Reviews \cup {None} : RunEvent(Rate(play, shown, review))
  /\ UNCHANGED <<disk, visit, rating>>

\* The browser's history moves the view only: what that appends is not sunk.
View(to) ==
  /\ play' = AdvanceTo(play, to)
  /\ saving' = Saves(play')
  /\ UNCHANGED <<chain, disk, visit, rating>>

\* faulty: an entry left by an earlier attempt leads past the furthest step
GoToAnyStep(to) == View(to)

\* An entry of the history may be older than the attempt: the furthest step caps it.
GoToStep(to) == to <= play.maxStepIdx /\ View(to)

\* The platform's answers arrive, or do not.
LoadFeatures ==
  /\ universal = {}
  /\ universal' \in Universals
  /\ UNCHANGED <<play, chain, disk, saving, rating, dropped, lost, visits>>

\* The sink writes its facts one after the other; a fact whose key is stored with
\* the other verdict is never stored.
WriteFact ==
  /\ chain # <<>>
  /\ stored' = Absorb(stored, Head(chain))
  /\ chain' = Tail(chain)
  /\ lost' = (lost \/ Head(chain) \notin ToSet(stored'))
  /\ UNCHANGED <<play, resume, saving, universal, rating, dropped, visits>>

\* A write that fails leaves its fact in memory (bound: one in all).
WriteFails ==
  /\ chain # <<>> /\ ~dropped
  /\ dropped' = TRUE /\ lost' = TRUE
  /\ chain' = Tail(chain)
  /\ UNCHANGED <<play, disk, saving, universal, rating, visits>>

\* setLastStepIdx puts the next position.  Its get is left out: of the row it takes
\* the other fields only.
SavePosition ==
  /\ saving # <<>>
  /\ resume' = Head(saving)
  /\ saving' = Tail(saving)
  /\ UNCHANGED <<play, chain, stored, visit, rating>>

\* setServerAttemptId gets the row and puts it back, for a flush of this page or of
\* another tab: a copy as it was at any earlier time, every position up to the stored
\* one was stored once (bound: not in the last visit, no other reads the row).
PutRow ==
  /\ visits < MaxVisits
  /\ resume' \in 0 .. resume
  /\ UNCHANGED <<play, chain, stored, saving, visit, rating>>

\* The page is left or dies, with what it had still to write, and is opened again on
\* what was stored; opened on the finale it completes the attempt, and at once it
\* saves the position it read.  What other attempts earned is gathered anew: more by
\* now, or less when their logs or the server cannot be read.
Reopen ==
  /\ visits < MaxVisits
  /\ visits' = visits + 1
  /\ \E known \in SUBSET Elsewhere :
       LET opened == NewPlay(stored, resume, known)
           begun  == IF Quest[resume].template = "finale" THEN CompleteAttempt(opened)
                     ELSE opened
       IN play' = begun /\ chain' = Fresh(begun, stored)
  /\ saving' = <<resume>>
  /\ lost' = (lost \/ chain # <<>>)
  /\ universal' = {} /\ rating' = 0
  /\ UNCHANGED <<disk, dropped>>

Next ==
  \/ Press \/ Report \/ Finish
  \/ \E score \in Scores : TapStars(score)
  \/ \E to \in 0 .. LastStep : GoToStep(to)
  \/ LoadFeatures \/ WriteFact \/ WriteFails \/ SavePosition \/ PutRow \/ Reopen

Spec == Init /\ [][Next]_vars

-----------------------------------------------------------------------------
FactType ==
  [kind : Once \cup {"physical_confirmed", "answer_submitted", "gift_claimed",
                     "attempt_completed", "hint_purchased", "task_skipped",
                     "feedback_reported", "navigator_used", "quest_rated"},
   step : 0 .. LastStep, value : Answers \cup Scores \cup {None}, coins : Int,
   note : Reviews \cup Reports \cup Nat \cup {None}, ok : BOOLEAN]

IsLog(log) == \A i \in DOMAIN log : log[i] \in FactType

\* Every variable has its type, and storage holds no natural key twice.
TypeOK ==
  /\ play.stepIdx \in 0 .. LastStep /\ play.maxStepIdx \in play.stepIdx .. LastStep
  /\ play.offer \in 0 .. LastStep \cup {None}
  /\ IsLog(play.facts) /\ IsLog(chain) /\ IsLog(stored)
  /\ \A i, j \in DOMAIN stored : Key(stored[i]) = Key(stored[j]) => i = j
  /\ resume \in 0 .. LastStep /\ ToSet(saving) \subseteq 0 .. LastStep
  /\ play.paid \subseteq Once /\ universal \subseteq Answers
  /\ rating \in Scores \cup {0} /\ visits \in 0 .. MaxVisits
  /\ dropped \in BOOLEAN /\ lost \in BOOLEAN

\* What the rules read from a log: its steps, hints and coins, the mistakes on each
\* step, and the latest rating.
Mistakes(log)  == [p \in 0 .. LastStep |-> Cardinality(Wrongs(log, p))]
Behaviour(log) == <<ProjectState(log), Mistakes(log), LatestRating(log)>>

\* No text was judged wrong on a step and right later.
JudgedOnce(log) ==
  \A i, j \in DOMAIN log :
    log[i].kind = "answer_submitted" /\ Key(log[i]) = Key(log[j]) => log[i].ok = log[j].ok

\* No rating is given again after another score.
RatedOnce(log) ==
  \A i, j \in DOMAIN log : \A k \in i .. j :
    /\ log[i].kind = "quest_rated" /\ log[k].kind = "quest_rated" /\ Key(log[i]) = Key(log[j])
      => log[k].value = log[i].value

\* "A restore from the queue replays into exactly the same behavior as live play":
\* collapsing a log by natural key changes nothing the rules read, as long as every
\* write was made, no text changes from wrong to right, and no rating returns to an
\* earlier score.
LogReplays ==
  ~dropped /\ JudgedOnce(play.facts) /\ RatedOnce(play.facts)
    => Behaviour(AbsorbAll(<<>>, play.facts)) = Behaviour(play.facts)

\* An answer step has one solution, found or bought, and its gift is for an answer
\* that was accepted, whatever order back, history, popups and reopenings bring
\* events in.
OneSolution ==
  \A p \in 0 .. LastStep : Quest[p].template = "answer" =>
    LET log == play.facts
        solutions == {i \in DOMAIN log : log[i].step = p /\ CompletesStep(log[i])}
        accepted  == Quest[p].accept \cup UNION Universals
        found     == {i \in DOMAIN log : /\ log[i].kind = "answer_submitted"
                                         /\ log[i].step = p /\ log[i].value \in accepted}
    IN /\ Cardinality(solutions) <= 1
       /\ HasAt(log, p, "gift_claimed") /\ ~dropped => found # {}

\* awardOnce: no step of the page appends a once-ever bonus that another attempt is
\* known to have earned, nor a second one of its kind.
PaysOnce ==
  [][\A i \in DOMAIN chain' :
       chain'[i].kind \in Once /\ chain'[i] \notin ToSet(chain)
         => chain'[i].kind \notin play'.paid /\ ~Has(stored, chain'[i].kind)]_vars

\* What the player has to do before a step lets go.
Gate(p) == Quest[p].template \in {"physical", "answer"}

\* The position and the facts are written apart, and the row may go back to an older
\* copy: still nobody resumes beyond a question or a place whose solution is neither
\* stored nor about to be, unless a fact was lost.
ResumeIsEarned ==
  ~lost => \A p \in 0 .. resume - 1 : Gate(p) => Solved(stored, p) \/ Solved(chain, p)
=============================================================================
