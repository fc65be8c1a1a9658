--------------------------- MODULE PlayLoopProofs ---------------------------
(***************************************************************************)
(* Proofs about module PlayLoop, for every quest, every set of answers and *)
(* every number of facts, ratings and reopenings.                          *)
(*                                                                         *)
(* The engine only ever adds to the log it is given, so what it adds is    *)
(* stated once: Grown(a, b) says that b continues a, and that every fact   *)
(* it adds fits the ones before it.  One lemma per operator of the engine  *)
(* shows that it keeps Grown; RunKeeps then shows that an event of the     *)
(* page that runs a grown state keeps the inductive invariant IInv.        *)
(*                                                                         *)
(* OneSolution is not inductive: a reopening starts the log again from     *)
(* what was stored.  IInv adds that storage and the sink's chain hold only *)
(* facts of the log, and that a gift on its way to storage follows the     *)
(* answer it is for.                                                       *)
(*                                                                         *)
(* LogReplays needs more: facts of one natural key move no coins but the   *)
(* first (Priced), and the mistakes with one text are numbered in order in *)
(* the log and in storage (Numbered), those still in the chain continue    *)
(* the stored ones (Continues), and no mistake of the log is in neither    *)
(* (KeptWrongs).  The folds themselves are read as functions on the front  *)
(* parts of a log: FoldExists gives the function, by a minimal             *)
(* counterexample, and BalanceSteps and AbsorbSteps its value at each      *)
(* length, from which CollapsedLog follows by StepUp; the latest rating is *)
(* the last among the first of their key (RatingStep, CollapsedRating).    *)
(*                                                                         *)
(* ResumeIsEarned rests on EInv: as long as no fact was lost, what opened  *)
(* a gate is in storage or on its way there (OpenersKept), and the stored  *)
(* position, those still to be stored and the furthest step have all their *)
(* gates opened (Cleared).                                                 *)
(***************************************************************************)
EXTENDS PlayLoop, FiniteSetTheorems, SequenceTheorems, WellFoundedInduction, TLAPS

Steps == 0 .. LastStep

PlayType ==
  [facts : Seq(FactType), stepIdx : Steps, maxStepIdx : Steps,
   offer : Steps \cup {None}, paid : SUBSET Once]

AnswerStep(p) == Quest[p].template = "answer"

\* f completes an answer step, f is the gift of one, f is an answer step p accepts.
Solves(f)   == AnswerStep(f.step) /\ CompletesStep(f)
Gifts(f)    == AnswerStep(f.step) /\ f.kind = "gift_claimed"
Finds(f, p) == /\ f.kind = "answer_submitted" /\ f.step = p
               /\ f.value \in Quest[p].accept \cup UNION Universals

\* f is a mistake; its text, and its number among the mistakes with that text.
Wrong(f)       == f.kind = "answer_submitted" /\ ~f.ok
SameText(f, g) == f.step = g.step /\ f.value = g.value
Rank(f)        == IF f.note = None THEN 1 ELSE f.note

\* The mistakes with the text of f among the first n facts.
Repeats(log, n, f) == {j \in 1 .. n : Wrong(log[j]) /\ SameText(log[j], f)}

\* The fact at i fits the ones before it, when the first n were there at the start.
Fits(log, paid, n, i) ==
  /\ log[i].kind \in Once =>
       log[i].kind \notin paid /\ \A j \in 1 .. i - 1 : log[j].kind # log[i].kind
  /\ Solves(log[i]) \/ Wrong(log[i]) =>
       \A j \in 1 .. i - 1 : ~(log[j].step = log[i].step /\ CompletesStep(log[j]))
  /\ Gifts(log[i]) => \E j \in n + 1 .. i - 1 : Finds(log[j], log[i].step)
  /\ \A j \in 1 .. i - 1 : Key(log[j]) = Key(log[i]) => log[i].coins = 0
  /\ Wrong(log[i]) => Rank(log[i]) = Cardinality(Repeats(log, i - 1, log[i])) + 1

\* b continues a.
Grown(a, b) ==
  /\ a \in PlayType /\ b \in PlayType
  /\ b.stepIdx <= b.maxStepIdx /\ a.maxStepIdx <= b.maxStepIdx /\ b.paid = a.paid
  /\ Len(a.facts) <= Len(b.facts)
  /\ \A i \in 1 .. Len(a.facts) : b.facts[i] = a.facts[i]
  /\ \A i \in Len(a.facts) + 1 .. Len(b.facts) : Fits(b.facts, b.paid, Len(a.facts), i)

Single(log) ==
  \A i, j \in DOMAIN log :
    Solves(log[i]) /\ Solves(log[j]) /\ log[i].step = log[j].step => i = j

Earned(log) ==
  \A i \in DOMAIN log : Gifts(log[i]) => \E j \in DOMAIN log : Finds(log[j], log[i].step)

\* Facts with one natural key move no coins but the first.
Priced(log) ==
  \A i, j \in DOMAIN log : i < j /\ Key(log[i]) = Key(log[j]) => log[j].coins = 0

\* Every mistake has the number of its place among those with its text.
Numbered(log) ==
  \A i \in DOMAIN log :
    Wrong(log[i]) => Rank(log[i]) = Cardinality(Repeats(log, i - 1, log[i])) + 1

\* Every fact of part is one of log.
Among(part, log) == \A i \in DOMAIN part : \E k \in DOMAIN log : part[i] = log[k]

ChainEarned ==
  \A i \in DOMAIN chain : Gifts(chain[i]) =>
    \/ \E j \in DOMAIN stored : Finds(stored[j], chain[i].step)
    \/ \E j \in 1 .. i - 1 : Finds(chain[j], chain[i].step)

\* What a mistake still to be written needs of a fact that is stored before it, and
\* the mistake with its text that it follows.
Precedes(f, g) == f.kind = "answer_submitted" /\ SameText(f, g) => ~f.ok /\ Rank(f) < Rank(g)
Leads(f, g)    == Wrong(f) /\ SameText(f, g) /\ Rank(f) + 1 = Rank(g)

\* The mistake at i continues those in storage and those before it in the chain.
Follows(i) ==
  /\ Rank(chain[i]) \in Nat \ {0}
  /\ \A j \in DOMAIN stored : Precedes(stored[j], chain[i])
  /\ \A j \in 1 .. i - 1 : Precedes(chain[j], chain[i])
  /\ Rank(chain[i]) # 1 => \/ \E j \in DOMAIN stored : Leads(stored[j], chain[i])
                          \/ \E j \in 1 .. i - 1 : Leads(chain[j], chain[i])

Continues == \A i \in DOMAIN chain : Wrong(chain[i]) => Follows(i)

\* No mistake of the log is in neither.
KeptWrongs ==
  \A i \in DOMAIN play.facts : Wrong(play.facts[i]) =>
    \/ \E j \in DOMAIN stored : stored[j] = play.facts[i]
    \/ \E j \in DOMAIN chain : chain[j] = play.facts[i]

Ordered == Numbered(play.facts) /\ Numbered(stored) /\ Continues /\ KeptWrongs

Typed ==
  /\ play \in PlayType /\ play.stepIdx <= play.maxStepIdx
  /\ chain \in Seq(FactType) /\ stored \in Seq(FactType)
  /\ resume \in Steps /\ saving \in Seq(Steps) /\ lost \in BOOLEAN
  /\ universal \subseteq Answers /\ universal \subseteq UNION Universals
  /\ rating \in Scores \cup {0} /\ dropped \in BOOLEAN /\ visits \in 0 .. MaxVisits

OneKeyEach == \A i, j \in DOMAIN stored : Key(stored[i]) = Key(stored[j]) => i = j

IInv ==
  /\ Typed
  /\ OneKeyEach
  /\ Among(chain, play.facts) /\ Among(stored, play.facts)
  /\ Single(play.facts) /\ Priced(play.facts)
  /\ ~dropped => Earned(play.facts) /\ Earned(stored) /\ ChainEarned /\ Ordered

-----------------------------------------------------------------------------
(* What the engine builds.                                                  *)

LEMMA QuestTypes ==
  ASSUME NEW p \in Steps
  PROVE  /\ Quest[p].template \in Templates /\ Quest[p].accept \subseteq Answers
         /\ Quest[p].gift \in Nat \cup {None} /\ Quest[p].hint \in Nat \cup {None}
         /\ (Quest[p].template = "finale" <=> p = LastStep)
BY QuestAssumption DEF Steps, StepType

LEMMA StepsAre == LastStep \in Nat /\ 0 \in Steps /\ LastStep \in Steps
BY QuestAssumption DEF Steps

LEMMA PlayFields ==
  ASSUME NEW b \in PlayType
  PROVE  /\ b.facts \in Seq(FactType) /\ b.stepIdx \in Steps /\ b.maxStepIdx \in Steps
         /\ b.offer \in Steps \cup {None} /\ b.paid \subseteq Once
BY DEF PlayType

LEMMA FactFields ==
  ASSUME NEW f \in FactType
  PROVE  f.step \in Steps /\ f.value \in Answers \cup Scores \cup {None} /\ f.coins \in Int
         /\ f.ok \in BOOLEAN
BY DEF FactType, Steps

LEMMA PutFields ==
  ASSUME NEW b \in PlayType, NEW f \in FactType
  PROVE  /\ Put(b, f) \in PlayType
         /\ Put(b, f).facts = Append(b.facts, f)
         /\ Put(b, f).stepIdx = b.stepIdx /\ Put(b, f).maxStepIdx = b.maxStepIdx
         /\ Put(b, f).offer = b.offer /\ Put(b, f).paid = b.paid
<1>1. Append(b.facts, f) \in Seq(FactType)
  BY PlayFields
<1> QED BY <1>1 DEF PlayType, Put

\* What a log holds when a fact is appended.
LEMMA AppendAt ==
  ASSUME NEW S, NEW log \in Seq(S), NEW f \in S
  PROVE  /\ Append(log, f) \in Seq(S)
         /\ Len(Append(log, f)) = Len(log) + 1 /\ Len(log) \in Nat
         /\ \A i \in 1 .. Len(log) : Append(log, f)[i] = log[i]
         /\ Append(log, f)[Len(log) + 1] = f
         /\ DOMAIN log = 1 .. Len(log)
OBVIOUS

LEMMA FitsLast ==
  ASSUME NEW log, NEW new, NEW f, NEW paid, NEW n \in Nat, NEW m \in Nat,
         DOMAIN log = 1 .. m, new[m + 1] = f, \A i \in 1 .. m : new[i] = log[i],
         n + 1 .. m \subseteq 1 .. m,
         f.kind \in Once => f.kind \notin paid /\ ~Has(log, f.kind),
         Solves(f) \/ Wrong(f) => ~Solved(log, f.step),
         Gifts(f) => \E j \in n + 1 .. m : Finds(log[j], f.step),
         f.coins # 0 => ~HasAt(log, f.step, f.kind),
         Wrong(f) => Rank(f) = Cardinality(Repeats(log, m, f)) + 1
  PROVE  Fits(new, paid, n, m + 1)
<1>1. (m + 1) - 1 = m
  OBVIOUS
<1>2. f.kind \in Once => f.kind \notin paid /\ \A j \in 1 .. m : new[j].kind # f.kind
  BY DEF Has
<1>3. Solves(f) \/ Wrong(f) =>
        \A j \in 1 .. m : ~(new[j].step = f.step /\ CompletesStep(new[j]))
  BY DEF Solved
<1>4. Gifts(f) => \E j \in n + 1 .. m : Finds(new[j], f.step)
  OBVIOUS
<1>5. \A j \in 1 .. m : Key(new[j]) = Key(f) => f.coins = 0
  BY DEF HasAt, Key
<1>6. Repeats(new, m, f) = Repeats(log, m, f)
  BY DEF Repeats
<1> QED BY <1>1, <1>2, <1>3, <1>4, <1>5, <1>6 DEF Fits

\* A state grows by a fact that fits the log.
LEMMA PutGrows ==
  ASSUME NEW a, NEW b, NEW f \in FactType, Grown(a, b),
         f.kind \in Once => f.kind \notin b.paid /\ ~Has(b.facts, f.kind),
         Solves(f) \/ Wrong(f) => ~Solved(b.facts, f.step),
         Gifts(f) => \E j \in Len(a.facts) + 1 .. Len(b.facts) : Finds(b.facts[j], f.step),
         f.coins # 0 => ~HasAt(b.facts, f.step, f.kind),
         Wrong(f) => Rank(f) = Cardinality(Repeats(b.facts, Len(b.facts), f)) + 1
  PROVE  Grown(a, Put(b, f))
<1> DEFINE c == Put(b, f)
           n == Len(a.facts)
           m == Len(b.facts)
<1>1. /\ a \in PlayType /\ b \in PlayType /\ b.facts \in Seq(FactType) /\ a.facts \in Seq(FactType)
  BY PlayFields DEF Grown
<1>2. n \in Nat /\ m \in Nat /\ n <= m
  BY <1>1 DEF Grown
<1>3. /\ c.facts = Append(b.facts, f) /\ c.paid = b.paid
  BY <1>1, PutFields
<1>4. /\ Len(c.facts) = m + 1 /\ c.facts[m + 1] = f
      /\ \A i \in 1 .. m : c.facts[i] = b.facts[i]
      /\ DOMAIN b.facts = 1 .. m
  BY <1>1, <1>3, AppendAt
<1>5. ASSUME NEW i \in n + 1 .. m
      PROVE  Fits(c.facts, c.paid, n, i)
  <2>1. Fits(b.facts, b.paid, n, i)
    BY DEF Grown
  <2>2. i \in 1 .. m /\ \A j \in 1 .. i - 1 : j \in 1 .. m
    BY <1>2
  <2>3. \A j \in n + 1 .. i - 1 : j \in 1 .. m
    BY <1>2
  <2> HIDE DEF c, n, m
  <2>4. Repeats(c.facts, i - 1, c.facts[i]) = Repeats(b.facts, i - 1, b.facts[i])
    BY <1>4, <2>2 DEF Repeats
  <2> QED BY <1>3, <1>4, <2>1, <2>2, <2>3, <2>4 DEF Fits
<1>6. Fits(c.facts, c.paid, n, m + 1)
  <2>1. n + 1 .. m \subseteq 1 .. m
    BY <1>2
  <2> HIDE DEF c
  <2> QED BY <1>2, <1>3, <1>4, <2>1, FitsLast
<1>7. \A i \in n + 1 .. m + 1 : i \in n + 1 .. m \/ i = m + 1
  BY <1>2
<1>8. \A i \in n + 1 .. Len(c.facts) : Fits(c.facts, c.paid, n, i)
  BY <1>4, <1>5, <1>6, <1>7
<1>9. /\ c \in PlayType /\ c.stepIdx = b.stepIdx /\ c.maxStepIdx = b.maxStepIdx
  BY <1>1, PutFields
<1>10. n <= Len(c.facts) /\ \A i \in 1 .. n : c.facts[i] = a.facts[i]
  <2>1. \A i \in 1 .. n : i \in 1 .. m
    BY <1>2
  <2> QED BY <1>2, <1>4, <2>1 DEF Grown
<1> HIDE DEF c
<1>11. Grown(a, c)
  BY <1>1, <1>3, <1>8, <1>9, <1>10 DEF Grown
<1> QED BY <1>11 DEF c

LEMMA PutKeeps ==
  ASSUME NEW a, NEW b, NEW f \in FactType, Grown(a, b)
  PROVE  /\ Put(b, f).facts = Append(b.facts, f)
         /\ Put(b, f).stepIdx = b.stepIdx /\ Put(b, f).maxStepIdx = b.maxStepIdx
         /\ Put(b, f).offer = b.offer /\ Put(b, f).paid = b.paid
         /\ b.stepIdx \in Steps /\ b.facts \in Seq(FactType)
BY PutFields, PlayFields DEF Grown

LEMMA GrownSelf ==
  ASSUME NEW a \in PlayType, a.stepIdx <= a.maxStepIdx
  PROVE  Grown(a, a)
<1>1. Len(a.facts) \in Nat /\ a.maxStepIdx \in Nat
  BY PlayFields, StepsAre DEF Steps
<1>2. Len(a.facts) + 1 .. Len(a.facts) = {}
  BY <1>1
<1> QED BY <1>1, <1>2 DEF Grown

LEMMA OfferGrows ==
  ASSUME NEW a, NEW b, Grown(a, b), NEW o \in Steps \cup {None}
  PROVE  Grown(a, [b EXCEPT !.offer = o])
<1> DEFINE c == [b EXCEPT !.offer = o]
<1>1. b \in PlayType
  BY DEF Grown
<1>2. /\ c \in PlayType /\ c.facts = b.facts /\ c.stepIdx = b.stepIdx
      /\ c.maxStepIdx = b.maxStepIdx /\ c.paid = b.paid
  BY <1>1 DEF PlayType
<1> HIDE DEF c
<1>3. Grown(a, c)
  BY <1>2 DEF Grown
<1> QED BY <1>3 DEF c

LEMMA MoveGrows ==
  ASSUME NEW a, NEW b, Grown(a, b), NEW to \in Steps, NEW far \in Steps,
         to <= far, b.maxStepIdx <= far
  PROVE  Grown(a, [b EXCEPT !.stepIdx = to, !.maxStepIdx = far])
<1> DEFINE c == [b EXCEPT !.stepIdx = to, !.maxStepIdx = far]
<1>1. b \in PlayType /\ a \in PlayType
  BY DEF Grown
<1>2. /\ c \in PlayType /\ c.facts = b.facts /\ c.stepIdx = to
      /\ c.maxStepIdx = far /\ c.paid = b.paid
  BY <1>1 DEF PlayType
<1>3. a.maxStepIdx <= far
  <2>1. a.maxStepIdx \in Int /\ b.maxStepIdx \in Int /\ far \in Int
    BY <1>1, PlayFields DEF Steps
  <2> QED BY <2>1 DEF Grown
<1> HIDE DEF c
<1>4. Grown(a, c)
  BY <1>2, <1>3 DEF Grown
<1> QED BY <1>4 DEF c

-----------------------------------------------------------------------------
(* The engine, operator by operator.                                        *)

Kinds == Once \cup {"physical_confirmed", "answer_submitted", "gift_claimed",
                    "attempt_completed", "hint_purchased", "task_skipped",
                    "feedback_reported", "navigator_used", "quest_rated"}

LEMMA FactTyped ==
  ASSUME NEW kind \in Kinds, NEW step \in Steps, NEW value \in Answers \cup Scores \cup {None},
         NEW coins \in Int, NEW note \in Reviews \cup Reports \cup Nat \cup {None},
         NEW ok \in BOOLEAN
  PROVE  Fact(kind, step, value, coins, note, ok) \in FactType
BY DEF Fact, FactType, Kinds, Steps

\* A fact that pays no bonus, judges no answer, completes no step and is no gift may
\* be added at any time, at a price once per step.
LEMMA PlainGrows ==
  ASSUME NEW a, NEW b, NEW f \in FactType, Grown(a, b),
         f.kind \in {"hint_purchased", "feedback_reported", "navigator_used", "quest_rated"},
         f.coins # 0 => ~HasAt(b.facts, f.step, f.kind)
  PROVE  Grown(a, Put(b, f))
<1>1. f.kind \notin Once /\ ~Solves(f) /\ ~Gifts(f) /\ ~Wrong(f)
  BY DEF Once, Solves, CompletesStep, Gifts, Wrong
<1> QED BY <1>1, PutGrows

\* Nor does a fact of a step that asks no question complete or reward one.
LEMMA OtherStepGrows ==
  ASSUME NEW a, NEW b, NEW f \in FactType, Grown(a, b),
         f.kind \notin Once, ~AnswerStep(f.step), f.coins = 0, f.kind # "answer_submitted"
  PROVE  Grown(a, Put(b, f))
<1>1. ~Solves(f) /\ ~Gifts(f) /\ ~Wrong(f)
  BY DEF Solves, Gifts, Wrong
<1> QED BY <1>1, PutGrows

LEMMA AwardGrows ==
  ASSUME NEW a, NEW b, NEW kind \in Once, Grown(a, b)
  PROVE  /\ Grown(a, AwardOnce(b, kind))
         /\ AwardOnce(b, kind).stepIdx = b.stepIdx
<1> DEFINE f == Fact(kind, b.stepIdx, None, Bonus, None, TRUE)
<1>1. b \in PlayType /\ b.stepIdx \in Steps
  BY PlayFields DEF Grown
<1>2. kind \in Kinds /\ Bonus \in Int
  BY DEF Kinds, Bonus
<1>3. f \in FactType
  BY <1>1, <1>2, FactTyped
<1>4. f.kind = kind
  BY DEF Fact
<1>5. ~Solves(f) /\ ~Gifts(f) /\ ~Wrong(f)
  BY <1>4 DEF Once, Solves, CompletesStep, Gifts, Wrong
<1>6. CASE kind \in b.paid \/ Has(b.facts, kind)
  BY <1>6 DEF AwardOnce
<1>7. CASE ~(kind \in b.paid \/ Has(b.facts, kind))
  <2>1. AwardOnce(b, kind) = Put(b, f)
    BY <1>7 DEF AwardOnce
  <2> HIDE DEF f
  <2>2. ~HasAt(b.facts, f.step, f.kind)
    BY <1>4, <1>7 DEF Has, HasAt
  <2>3. Grown(a, Put(b, f))
    BY <1>3, <1>4, <1>5, <1>7, <2>2, PutGrows
  <2> QED BY <1>1, <1>3, <2>1, <2>3, PutFields
<1> QED BY <1>6, <1>7

\* A gift is claimed where no question is asked, or after an answer found now.
LEMMA GiftGrows ==
  ASSUME NEW a, NEW b, NEW p \in Steps, Grown(a, b),
         AnswerStep(p) => \E j \in Len(a.facts) + 1 .. Len(b.facts) : Finds(b.facts[j], p)
  PROVE  /\ Grown(a, ClaimGift(b, p))
         /\ ClaimGift(b, p).stepIdx = b.stepIdx
<1> DEFINE f == Fact("gift_claimed", p, None, Quest[p].gift, None, TRUE)
<1>1. b \in PlayType
  BY DEF Grown
<1>2. CASE Quest[p].gift = None \/ HasAt(b.facts, p, "gift_claimed")
             \/ HasAt(b.facts, p, "task_skipped")
  BY <1>2 DEF ClaimGift
<1>3. CASE ~(Quest[p].gift = None \/ HasAt(b.facts, p, "gift_claimed")
               \/ HasAt(b.facts, p, "task_skipped"))
  <2>1. ClaimGift(b, p) = Put(b, f)
    BY <1>3 DEF ClaimGift
  <2>2. Quest[p].gift \in Int /\ "gift_claimed" \in Kinds
    BY <1>3, QuestTypes DEF Kinds
  <2>3. f \in FactType
    BY <2>2, FactTyped
  <2>4. f.kind = "gift_claimed" /\ f.step = p
    BY DEF Fact
  <2>5. /\ f.kind \notin Once /\ ~Solves(f) /\ ~Wrong(f)
        /\ ~HasAt(b.facts, f.step, f.kind)
    BY <1>3, <2>4 DEF Once, Solves, CompletesStep, Wrong
  <2>6. Gifts(f) => AnswerStep(p)
    BY <2>4 DEF Gifts
  <2> HIDE DEF f
  <2>7. Gifts(f) => \E j \in Len(a.facts) + 1 .. Len(b.facts) : Finds(b.facts[j], f.step)
    BY <2>4, <2>6
  <2>8. Grown(a, Put(b, f))
    BY <2>3, <2>5, <2>7, PutGrows
  <2> QED BY <1>1, <2>1, <2>3, <2>8, PutFields
<1> QED BY <1>2, <1>3

LEMMA FinaleAsksNothing ==
  ~AnswerStep(LastStep)
BY QuestAssumption, StepsAre DEF AnswerStep, Steps

LEMMA CompleteGrows ==
  ASSUME NEW a, NEW b, Grown(a, b), b.stepIdx = LastStep
  PROVE  Grown(a, CompleteAttempt(b))
<1> DEFINE f    == Fact("attempt_completed", b.stepIdx, None, 0, None, TRUE)
           done == Put(b, f)
           paid == AwardOnce(done, "completion_bonus")
<1>1. CASE Has(b.facts, "attempt_completed")
  BY <1>1 DEF CompleteAttempt
<1>2. CASE ~Has(b.facts, "attempt_completed")
  <2>1. CompleteAttempt(b) = ClaimGift(paid, b.stepIdx)
    BY <1>2 DEF CompleteAttempt
  <2>2. /\ b \in PlayType /\ "attempt_completed" \in Kinds /\ LastStep \in Steps
        /\ b.stepIdx \in Steps /\ 0 \in Int
    BY StepsAre DEF Grown, Kinds
  <2>3. f \in FactType
    BY <2>2, FactTyped
  <2>4. f.kind = "attempt_completed" /\ f.step = LastStep /\ f.coins = 0
    BY DEF Fact
  <2>5. f.kind \notin Once /\ ~AnswerStep(f.step)
    BY <2>4, FinaleAsksNothing DEF Once
  <2> HIDE DEF f
  <2>6. Grown(a, done)
    BY <2>3, <2>4, <2>5, OtherStepGrows
  <2>7. "completion_bonus" \in Once
    BY DEF Once
  <2> HIDE DEF done
  <2>8. Grown(a, paid)
    BY <2>6, <2>7, AwardGrows
  <2> HIDE DEF paid
  <2>9. Grown(a, ClaimGift(paid, LastStep))
    BY <2>2, <2>8, FinaleAsksNothing, GiftGrows
  <2> QED BY <2>1, <2>9
<1> QED BY <1>1, <1>2

LEMMA AdvanceGrows ==
  ASSUME NEW a, NEW b, NEW to \in Int, Grown(a, b)
  PROVE  Grown(a, AdvanceTo(b, to))
<1> DEFINE clamped == IF to < 0 THEN 0 ELSE IF to > LastStep THEN LastStep ELSE to
           far     == IF clamped > b.maxStepIdx THEN clamped ELSE b.maxStepIdx
           moved   == [b EXCEPT !.stepIdx = clamped, !.maxStepIdx = far]
           asWritten == [b EXCEPT !.stepIdx = clamped,
                                  !.maxStepIdx = IF clamped > @ THEN clamped ELSE @]
<1>1. b \in PlayType /\ b.maxStepIdx \in Steps
  BY PlayFields DEF Grown
<1>2. clamped \in Steps
  BY StepsAre DEF Steps
<1>3. far \in Steps /\ clamped <= far /\ b.maxStepIdx <= far
  <2> HIDE DEF clamped
  <2> QED BY <1>1, <1>2 DEF Steps
<1>4. asWritten = moved
  BY <1>1 DEF PlayType
<1>5. moved.stepIdx = clamped
  BY <1>1 DEF PlayType
<1>6. AdvanceTo(b, to) =
        IF clamped = b.stepIdx THEN b
        ELSE IF Quest[clamped].template = "finale" THEN CompleteAttempt(moved) ELSE moved
  BY <1>4 DEF AdvanceTo
<1> HIDE DEF clamped, far
<1>7. Grown(a, moved)
  BY <1>2, <1>3, MoveGrows
<1>8. Quest[clamped].template = "finale" => clamped = LastStep
  BY <1>2, QuestTypes
<1> HIDE DEF moved
<1>9. Quest[clamped].template = "finale" => Grown(a, CompleteAttempt(moved))
  BY <1>5, <1>7, <1>8, CompleteGrows
<1> QED BY <1>6, <1>7, <1>9

LEMMA WrongNoteTyped ==
  ASSUME NEW log \in Seq(FactType), NEW p, NEW value
  PROVE  WrongNote(log, p, value) \in Nat \cup {None}
<1> DEFINE same == {i \in Wrongs(log, p) : log[i].value = value}
<1>1. Len(log) \in Nat /\ DOMAIN log = 1 .. Len(log)
  OBVIOUS
<1>2. IsFiniteSet(1 .. Len(log))
  BY <1>1, FS_Interval
<1>3. same \subseteq 1 .. Len(log)
  BY <1>1 DEF Wrongs
<1>4. IsFiniteSet(same)
  BY <1>2, <1>3, FS_Subset
<1>5. Cardinality(same) \in Nat
  BY <1>4, FS_CardinalityType
<1>6. WrongNote(log, p, value) = IF Cardinality(same) = 0 THEN None ELSE Cardinality(same) + 1
  BY DEF WrongNote
<1> HIDE DEF same
<1> QED BY <1>5, <1>6

\* A finite log that holds a rating holds a last one.
LEMMA LastIndex ==
  ASSUME NEW n \in Nat, NEW T, T \subseteq 1 .. n, T # {}
  PROVE  \E i \in T : \A j \in T : j <= i
<1> DEFINE back == {n - i : i \in T}
<1>0. \A i \in T : i \in 1 .. n /\ n - i \in Nat
  OBVIOUS
<1>1. back \subseteq Nat /\ back # {}
  BY <1>0
<1>2. IsWellFoundedOn(OpToRel(<, Nat), Nat)
  BY NatLessThanWellFounded
<1>3. PICK x \in back : \A y \in back : ~(<<y, x>> \in OpToRel(<, Nat))
  <2> HIDE DEF back
  <2> QED BY <1>1, <1>2, WFMin
<1>4. PICK i \in T : x = n - i
  OBVIOUS
<1>5. ASSUME NEW j \in T
      PROVE  j <= i
  <2>1. /\ n - j \in back /\ n - j \in Nat /\ n - i \in Nat
        /\ i \in Int /\ j \in Int
    BY <1>0
  <2>2. ~(n - j < n - i)
    BY <1>3, <1>4, <2>1 DEF OpToRel
  <2> QED BY <2>1, <2>2
<1> QED BY <1>5

LEMMA LatestRatingTyped ==
  ASSUME NEW log \in Seq(FactType)
  PROVE  LatestRating(log) \in Answers \cup Scores \cup {None, 0}
<1> DEFINE rated == {i \in DOMAIN log : log[i].kind = "quest_rated"}
           last  == CHOOSE i \in rated : \A j \in rated : j <= i
<1>1. Len(log) \in Nat /\ DOMAIN log = 1 .. Len(log) /\ rated \subseteq 1 .. Len(log)
  OBVIOUS
<1>2. LatestRating(log) = IF rated = {} THEN 0 ELSE log[last].value
  BY DEF LatestRating
<1>3. CASE rated # {}
  <2> HIDE DEF rated
  <2>1. \E i \in rated : \A j \in rated : j <= i
    BY <1>1, <1>3, LastIndex
  <2>2. last \in rated
    BY <2>1
  <2>3. log[last] \in FactType
    <3>1. last \in 1 .. Len(log)
      BY <1>1, <2>2
    <3> HIDE DEF last
    <3> QED BY <3>1
  <2> HIDE DEF last
  <2>4. log[last].value \in Answers \cup Scores \cup {None}
    BY <2>3 DEF FactType
  <2> QED BY <1>2, <1>3, <2>4
<1>4. CASE rated = {}
  BY <1>2, <1>4
<1> QED BY <1>3, <1>4

\* The ordinal of a mistake is one more than the mistakes with its text before it.
LEMMA WrongRank ==
  ASSUME NEW log \in Seq(FactType), NEW f, f.note = WrongNote(log, f.step, f.value)
  PROVE  Rank(f) = Cardinality(Repeats(log, Len(log), f)) + 1
<1> DEFINE same == {i \in Wrongs(log, f.step) : log[i].value = f.value}
<1>1. Len(log) \in Nat /\ DOMAIN log = 1 .. Len(log)
  OBVIOUS
<1>2. same = Repeats(log, Len(log), f)
  BY <1>1 DEF Wrongs, Repeats, Wrong, SameText
<1>3. IsFiniteSet(1 .. Len(log)) /\ same \subseteq 1 .. Len(log)
  BY <1>1, FS_Interval DEF Wrongs
<1>4. Cardinality(same) \in Nat
  <2> HIDE DEF same
  <2> QED BY <1>3, FS_Subset, FS_CardinalityType
<1>5. f.note = IF Cardinality(same) = 0 THEN None ELSE Cardinality(same) + 1
  BY DEF WrongNote
<1> HIDE DEF same
<1>6. Rank(f) = Cardinality(same) + 1
  BY <1>4, <1>5, NobodyAssumption DEF Rank
<1> QED BY <1>2, <1>6

LEMMA AnswerGrows ==
  ASSUME NEW a, NEW b, NEW value \in Answers, Grown(a, b),
         universal \subseteq UNION Universals
  PROVE  Grown(a, Answer(b, value))
<1> DEFINE p    == b.stepIdx
           ok   == Accepted(value, p)
           note == IF ok THEN None ELSE WrongNote(b.facts, p, value)
           f    == Fact("answer_submitted", p, value, 0, note, ok)
           answered == Put(b, f)
           gifted   == ClaimGift(answered, p)
           popup    == IF WrongPopupAt(answered.facts, p) THEN p ELSE answered.offer
<1>1. b \in PlayType /\ a \in PlayType /\ p \in Steps /\ b.facts \in Seq(FactType) /\ p + 1 \in Int
  BY PlayFields DEF Grown, Steps
<1>2. ok \in BOOLEAN /\ "answer_submitted" \in Kinds /\ 0 \in Int
  BY DEF Accepted, Kinds
<1>3. note \in Reviews \cup Reports \cup Nat \cup {None}
  BY <1>1, WrongNoteTyped
<1>4. f \in FactType
  <2> HIDE DEF ok, note
  <2> QED BY <1>1, <1>2, <1>3, FactTyped
<1>5. /\ f.kind = "answer_submitted" /\ f.step = p /\ f.value = value /\ f.ok = ok
      /\ f.coins = 0 /\ f.note = note
  BY DEF Fact
<1>6. ok => Finds(f, p)
  BY <1>5 DEF Finds, Accepted
<1>7. Answer(b, value) =
        IF Solved(b.facts, p) THEN AdvanceTo(b, p + 1)
        ELSE IF ok THEN AdvanceTo(gifted, p + 1)
        ELSE [answered EXCEPT !.offer = popup]
  <2>1. answered \in PlayType
    <3> HIDE DEF f
    <3> QED BY <1>1, <1>4, PutFields
  <2>2. [answered EXCEPT !.offer = IF WrongPopupAt(answered.facts, p) THEN p ELSE @]
          = [answered EXCEPT !.offer = popup]
    <3> HIDE DEF answered
    <3> QED BY <2>1 DEF PlayType
  <2> QED BY <2>2 DEF Answer
<1>8. CASE Solved(b.facts, p)
  <2>1. Grown(a, AdvanceTo(b, p + 1))
    <3> HIDE DEF p
    <3> QED BY <1>1, AdvanceGrows
  <2> QED BY <1>7, <1>8, <2>1
<1>9. ASSUME ~Solved(b.facts, p)
      PROVE  Grown(a, answered)
  <2>1. f.kind \notin Once /\ ~Gifts(f)
    BY <1>5 DEF Once, Gifts
  <2>2. Wrong(f) => f.note = WrongNote(b.facts, p, value)
    BY <1>5 DEF Wrong
  <2> HIDE DEF f
  <2>3. Wrong(f) => Rank(f) = Cardinality(Repeats(b.facts, Len(b.facts), f)) + 1
    BY <1>1, <1>5, <2>2, WrongRank
  <2> QED BY <1>4, <1>5, <1>9, <2>1, <2>3, PutGrows
<1>10. /\ answered.facts = Append(b.facts, f) /\ answered.offer = b.offer
       /\ answered.stepIdx = p
  <2> HIDE DEF f
  <2> QED BY <1>1, <1>4, PutFields
<1>11. CASE ~Solved(b.facts, p) /\ ok
  <2>1. \E j \in Len(a.facts) + 1 .. Len(answered.facts) : Finds(answered.facts[j], p)
    <3> HIDE DEF f, answered
    <3>1. /\ Len(answered.facts) = Len(b.facts) + 1 /\ answered.facts[Len(b.facts) + 1] = f
          /\ Len(b.facts) \in Nat
      BY <1>1, <1>4, <1>10, AppendAt
    <3>2. Len(a.facts) \in Nat /\ Len(a.facts) <= Len(b.facts)
      BY <1>1, PlayFields DEF Grown
    <3>3. Len(b.facts) + 1 \in Len(a.facts) + 1 .. Len(answered.facts)
      BY <3>1, <3>2
    <3> QED BY <1>6, <1>11, <3>1, <3>3
  <2> HIDE DEF answered, p
  <2>2. Grown(a, gifted)
    BY <1>1, <1>9, <1>11, <2>1, GiftGrows
  <2> HIDE DEF gifted
  <2>3. Grown(a, AdvanceTo(gifted, p + 1))
    BY <1>1, <2>2, AdvanceGrows
  <2> QED BY <1>7, <1>11, <2>3
<1>12. CASE ~Solved(b.facts, p) /\ ~ok
  <2>1. popup \in Steps \cup {None}
    BY <1>1, <1>10, PlayFields
  <2> HIDE DEF answered, popup
  <2>2. Grown(a, [answered EXCEPT !.offer = popup])
    BY <1>9, <1>12, <2>1, OfferGrows
  <2> QED BY <1>7, <1>12, <2>2
<1> QED BY <1>8, <1>11, <1>12

LEMMA PhysicalGrows ==
  ASSUME NEW a, NEW b, Grown(a, b), ~AnswerStep(b.stepIdx)
  PROVE  Grown(a, PhysicalConfirm(b))
<1> DEFINE p == b.stepIdx
           f == Fact("physical_confirmed", p, None, 0, None, TRUE)
           done   == Put(b, f)
           gifted == ClaimGift(done, p)
<1>1. p \in Steps /\ p + 1 \in Int /\ "physical_confirmed" \in Kinds /\ 0 \in Int
  BY PlayFields DEF Grown, Steps, Kinds
<1>2. f \in FactType
  BY <1>1, FactTyped
<1>3. f.kind = "physical_confirmed" /\ f.step = p /\ f.coins = 0
  BY DEF Fact
<1>4. f.kind \notin Once /\ ~AnswerStep(f.step)
  BY <1>3 DEF Once
<1>5. PhysicalConfirm(b) = AdvanceTo(gifted, p + 1)
  BY DEF PhysicalConfirm
<1> HIDE DEF f
<1>6. Grown(a, done)
  BY <1>2, <1>3, <1>4, OtherStepGrows
<1>7. ~AnswerStep(p)
  OBVIOUS
<1> HIDE DEF done, p
<1>8. Grown(a, gifted)
  BY <1>1, <1>6, <1>7, GiftGrows
<1> HIDE DEF gifted
<1> QED BY <1>1, <1>5, <1>8, AdvanceGrows

LEMMA HintGrows ==
  ASSUME NEW a, NEW b, Grown(a, b)
  PROVE  Grown(a, BuyHint(b))
<1> DEFINE p == IF b.offer # None THEN b.offer ELSE b.stepIdx
           f == Fact("hint_purchased", p, None, -Quest[p].hint, None, TRUE)
           bought == IF HasAt(b.facts, p, "hint_purchased") THEN b ELSE Put(b, f)
<1>1. p \in Steps
  BY PlayFields DEF Grown
<1>2. BuyHint(b) = IF Quest[p].hint = None THEN b ELSE [bought EXCEPT !.offer = None]
  BY DEF BuyHint
<1>3. CASE Quest[p].hint # None
  <2>1. -Quest[p].hint \in Int /\ "hint_purchased" \in Kinds
    <3> HIDE DEF p
    <3> QED BY <1>1, <1>3, QuestTypes DEF Kinds
  <2>2. f \in FactType /\ f.kind = "hint_purchased" /\ f.step = p
    <3>1. f \in FactType
      <4> HIDE DEF p
      <4> QED BY <1>1, <2>1, FactTyped
    <3> QED BY <3>1 DEF Fact
  <2> HIDE DEF f
  <2>3. ~HasAt(b.facts, p, "hint_purchased") => Grown(a, Put(b, f))
    BY <2>2, PlainGrows
  <2>4. Grown(a, bought)
    BY <2>3
  <2> HIDE DEF bought
  <2>5. Grown(a, [bought EXCEPT !.offer = None])
    BY <2>4, OfferGrows
  <2> QED BY <1>2, <1>3, <2>5
<1>4. CASE Quest[p].hint = None
  BY <1>2, <1>4
<1> QED BY <1>3, <1>4

LEMMA SkipGrows ==
  ASSUME NEW a, NEW b, Grown(a, b)
  PROVE  Grown(a, SkipTask(b))
<1> DEFINE p == b.offer
           answer == IF Quest[p].accept = {} THEN None ELSE CHOOSE x \in Quest[p].accept : TRUE
           f      == Fact("task_skipped", p, answer, -SkipCost, None, TRUE)
           closed == [b EXCEPT !.offer = None]
           done   == Put(closed, f)
<1>1. SkipTask(b) = IF p = None \/ ~WrongPopupAt(b.facts, p) THEN b ELSE AdvanceTo(done, p + 1)
  BY DEF SkipTask
<1>2. CASE p # None /\ WrongPopupAt(b.facts, p)
  <2>1. b \in PlayType /\ p \in Steps /\ ~Solved(b.facts, p)
    BY <1>2, PlayFields DEF Grown, WrongPopupAt
  <2>2. p + 1 \in Int /\ -SkipCost \in Int /\ "task_skipped" \in Kinds
    BY <2>1, CostAssumption DEF Steps, Kinds
  <2>3. answer \in Answers \cup Scores \cup {None}
    BY <2>1, QuestTypes
  <2>4. f \in FactType
    <3> HIDE DEF answer
    <3> QED BY <2>1, <2>2, <2>3, FactTyped
  <2>5. f.kind = "task_skipped" /\ f.step = p
    BY DEF Fact
  <2>6. /\ f.kind \notin Once /\ ~Gifts(f) /\ ~Wrong(f)
        /\ ~HasAt(b.facts, f.step, f.kind)
    BY <2>1, <2>5 DEF Once, Gifts, Wrong, HasAt, Solved, CompletesStep
  <2> HIDE DEF f
  <2>7. closed.facts = b.facts
    BY <2>1 DEF PlayType
  <2>8. Grown(a, closed)
    BY OfferGrows
  <2> HIDE DEF closed
  <2>9. Grown(a, done)
    BY <2>1, <2>4, <2>5, <2>6, <2>7, <2>8, PutGrows
  <2> HIDE DEF done
  <2>10. Grown(a, AdvanceTo(done, p + 1))
    <3> HIDE DEF p
    <3> QED BY <2>2, <2>9, AdvanceGrows
  <2> QED BY <1>1, <1>2, <2>10
<1>3. CASE ~(p # None /\ WrongPopupAt(b.facts, p))
  BY <1>1, <1>3
<1> QED BY <1>2, <1>3

LEMMA RateGrows ==
  ASSUME NEW a, NEW b, Grown(a, b), NEW score \in Answers \cup Scores \cup {None, 0},
         NEW review \in Reviews \cup {None}
  PROVE  Grown(a, Rate(b, score, review))
<1> DEFINE f       == Fact("quest_rated", b.stepIdx, score, 0, review, TRUE)
           rated   == Put(b, f)
           starred == AwardOnce(rated, "rating_bonus")
           both    == AwardOnce(starred, "comment_bonus")
           idle    == score <= 0 \/ (LatestRating(b.facts) = score /\ review = None)
<1>1. Rate(b, score, review) = IF idle THEN b ELSE IF review = None THEN starred ELSE both
  BY DEF Rate
<1>2. CASE ~idle
  <2>1. score # 0
    BY <1>2
  <2>2. /\ b.stepIdx \in Steps /\ "quest_rated" \in Kinds /\ 0 \in Int
        /\ "rating_bonus" \in Once /\ "comment_bonus" \in Once
    BY PlayFields DEF Grown, Kinds, Once
  <2>3. f \in FactType
    BY <2>1, <2>2, FactTyped
  <2>4. f.kind = "quest_rated" /\ f.coins = 0
    BY DEF Fact
  <2> HIDE DEF f
  <2>5. Grown(a, rated)
    BY <2>3, <2>4, PlainGrows
  <2> HIDE DEF rated
  <2>6. Grown(a, starred)
    BY <2>2, <2>5, AwardGrows
  <2> HIDE DEF starred
  <2>7. Grown(a, both)
    BY <2>2, <2>6, AwardGrows
  <2> QED BY <1>1, <1>2, <2>6, <2>7
<1>3. CASE idle
  BY <1>1, <1>3
<1> QED BY <1>2, <1>3

-----------------------------------------------------------------------------
(* Moving the view judges no answer and opens no gate.                      *)

\* f lets the player past a question or a place.
Opens(f) == CompletesStep(f) /\ Gate(f.step)

\* The mistakes of b, and what opens a gate, are among its first n facts.
Quiet(n, b) ==
  b \in PlayType /\ \A i \in DOMAIN b.facts : Wrong(b.facts[i]) \/ Opens(b.facts[i]) => i \in 1 .. n

LEMMA PutQuiet ==
  ASSUME NEW n, NEW b, Quiet(n, b), NEW f \in FactType, ~Wrong(f), ~Opens(f)
  PROVE  Quiet(n, Put(b, f))
<1>1. Put(b, f) \in PlayType /\ Put(b, f).facts = Append(b.facts, f) /\ b.facts \in Seq(FactType)
  BY PutFields, PlayFields DEF Quiet
<1> DEFINE new == Append(b.facts, f)
<1>2. /\ Len(new) = Len(b.facts) + 1 /\ Len(b.facts) \in Nat /\ new \in Seq(FactType)
      /\ \A i \in 1 .. Len(b.facts) : new[i] = b.facts[i]
      /\ new[Len(b.facts) + 1] = f /\ DOMAIN b.facts = 1 .. Len(b.facts)
  BY <1>1, AppendAt
<1>3. DOMAIN new = 1 .. Len(b.facts) + 1
  BY <1>2
<1>4. \A i \in DOMAIN new : i \in DOMAIN b.facts \/ i = Len(b.facts) + 1
  BY <1>2, <1>3
<1> HIDE DEF new
<1>5. \A i \in DOMAIN new : Wrong(new[i]) \/ Opens(new[i]) => i \in 1 .. n
  BY <1>2, <1>4 DEF Quiet
<1> QED BY <1>1, <1>5 DEF Quiet, new

LEMMA AwardQuiet ==
  ASSUME NEW n, NEW b, Quiet(n, b), NEW kind \in Once
  PROVE  Quiet(n, AwardOnce(b, kind)) /\ AwardOnce(b, kind).stepIdx = b.stepIdx
<1> DEFINE f == Fact(kind, b.stepIdx, None, Bonus, None, TRUE)
<1>1. b \in PlayType /\ b.stepIdx \in Steps /\ kind \in Kinds /\ Bonus \in Int
  BY PlayFields DEF Quiet, Kinds, Bonus
<1>2. f \in FactType
  BY <1>1, FactTyped
<1>3. ~Wrong(f) /\ ~Opens(f)
  BY DEF Fact, Wrong, Opens, CompletesStep, Once
<1>4. AwardOnce(b, kind) = IF kind \in b.paid \/ Has(b.facts, kind) THEN b ELSE Put(b, f)
  BY DEF AwardOnce
<1> HIDE DEF f
<1>5. Quiet(n, Put(b, f)) /\ Put(b, f).stepIdx = b.stepIdx
  BY <1>1, <1>2, <1>3, PutQuiet, PutFields
<1> QED BY <1>4, <1>5

LEMMA GiftQuiet ==
  ASSUME NEW n, NEW b, Quiet(n, b), NEW p \in Steps
  PROVE  Quiet(n, ClaimGift(b, p))
<1> DEFINE f == Fact("gift_claimed", p, None, Quest[p].gift, None, TRUE)
<1>1. CASE Quest[p].gift # None
  <2>1. Quest[p].gift \in Int /\ "gift_claimed" \in Kinds
    BY <1>1, QuestTypes DEF Kinds
  <2>2. f \in FactType
    BY <2>1, FactTyped
  <2>3. ~Wrong(f) /\ ~Opens(f)
    BY DEF Fact, Wrong, Opens, CompletesStep
  <2>4. ClaimGift(b, p) = b \/ ClaimGift(b, p) = Put(b, f)
    BY DEF ClaimGift
  <2> HIDE DEF f
  <2> QED BY <2>2, <2>3, <2>4, PutQuiet
<1>2. CASE Quest[p].gift = None
  BY <1>2 DEF ClaimGift
<1> QED BY <1>1, <1>2

LEMMA CompleteQuiet ==
  ASSUME NEW n, NEW b, Quiet(n, b), ~Gate(b.stepIdx)
  PROVE  Quiet(n, CompleteAttempt(b))
<1> DEFINE f    == Fact("attempt_completed", b.stepIdx, None, 0, None, TRUE)
           done == Put(b, f)
           paid == AwardOnce(done, "completion_bonus")
<1>1. b.stepIdx \in Steps /\ "attempt_completed" \in Kinds /\ "completion_bonus" \in Once /\ 0 \in Int
  BY PlayFields DEF Quiet, Kinds, Once
<1>2. f \in FactType
  BY <1>1, FactTyped
<1>3. ~Wrong(f) /\ ~Opens(f)
  BY DEF Fact, Wrong, Opens
<1>4. CompleteAttempt(b) = b \/ CompleteAttempt(b) = ClaimGift(paid, b.stepIdx)
  BY DEF CompleteAttempt
<1> HIDE DEF f
<1>5. Quiet(n, done)
  BY <1>2, <1>3, PutQuiet
<1> HIDE DEF done
<1>6. Quiet(n, paid)
  BY <1>1, <1>5, AwardQuiet
<1> HIDE DEF paid
<1> QED BY <1>1, <1>4, <1>6, GiftQuiet

LEMMA AdvanceQuiet ==
  ASSUME NEW n, NEW b, NEW to \in Int, Quiet(n, b)
  PROVE  Quiet(n, AdvanceTo(b, to))
<1> DEFINE clamped == IF to < 0 THEN 0 ELSE IF to > LastStep THEN LastStep ELSE to
           moved   == [b EXCEPT !.stepIdx = clamped,
                                !.maxStepIdx = IF clamped > @ THEN clamped ELSE @]
<1>1. b \in PlayType /\ clamped \in Steps
  BY StepsAre DEF Quiet, Steps
<1> HIDE DEF clamped
<1>2. moved \in PlayType /\ moved.facts = b.facts /\ moved.stepIdx = clamped
  BY <1>1 DEF PlayType
<1>3. Quiet(n, moved)
  BY <1>2 DEF Quiet
<1>4. \/ AdvanceTo(b, to) \in {b, moved}
      \/ AdvanceTo(b, to) = CompleteAttempt(moved) /\ Quest[clamped].template = "finale"
  BY DEF AdvanceTo, clamped
<1>5. Quest[clamped].template = "finale" => ~Gate(moved.stepIdx)
  BY <1>2 DEF Gate
<1> HIDE DEF moved
<1> QED BY <1>3, <1>4, <1>5, CompleteQuiet

-----------------------------------------------------------------------------
(* What a grown log keeps.                                                  *)

LEMMA GrownLogs ==
  ASSUME NEW a, NEW b, Grown(a, b)
  PROVE  /\ a.facts \in Seq(FactType) /\ b.facts \in Seq(FactType)
         /\ Len(a.facts) \in Nat /\ Len(b.facts) \in Nat /\ Len(a.facts) <= Len(b.facts)
         /\ DOMAIN a.facts = 1 .. Len(a.facts) /\ DOMAIN b.facts = 1 .. Len(b.facts)
         /\ \A i \in DOMAIN a.facts : i \in DOMAIN b.facts /\ b.facts[i] = a.facts[i]
         /\ \A i \in DOMAIN b.facts : i \in DOMAIN a.facts \/ i \in Len(a.facts) + 1 .. Len(b.facts)
<1>1. a.facts \in Seq(FactType) /\ b.facts \in Seq(FactType)
  BY PlayFields DEF Grown
<1>2. /\ Len(a.facts) \in Nat /\ Len(b.facts) \in Nat
      /\ DOMAIN a.facts = 1 .. Len(a.facts) /\ DOMAIN b.facts = 1 .. Len(b.facts)
  BY <1>1
<1>3. /\ Len(a.facts) <= Len(b.facts)
      /\ \A i \in 1 .. Len(a.facts) : b.facts[i] = a.facts[i]
  BY DEF Grown
<1> QED BY <1>1, <1>2, <1>3

LEMMA GrownAmong ==
  ASSUME NEW a, NEW b, Grown(a, b), NEW part, Among(part, a.facts)
  PROVE  Among(part, b.facts)
BY GrownLogs DEF Among

LEMMA GrownSingle ==
  ASSUME NEW a, NEW b, Grown(a, b), Single(a.facts)
  PROVE  Single(b.facts)
<1> DEFINE n == Len(a.facts)
           log == b.facts
<1>1. \* a solution that was added has none before it
      ASSUME NEW i \in DOMAIN log, NEW j \in DOMAIN log, i < j,
             Solves(log[i]), Solves(log[j]), log[i].step = log[j].step
      PROVE  FALSE
  <2>1. CASE j \in DOMAIN a.facts
    <3>1. i \in DOMAIN a.facts
      BY <1>1, <2>1, GrownLogs
    <3>2. a.facts[i] = log[i] /\ a.facts[j] = log[j]
      BY <2>1, <3>1, GrownLogs
    <3>3. i = j
      BY <1>1, <2>1, <3>1, <3>2 DEF Single
    <3> QED BY <1>1, <3>3, GrownLogs
  <2>2. CASE j \in n + 1 .. Len(log)
    <3>1. Fits(log, b.paid, n, j)
      BY <2>2 DEF Grown
    <3>2. i \in 1 .. j - 1
      BY <1>1, <2>2, GrownLogs
    <3>3. ~(log[i].step = log[j].step /\ CompletesStep(log[i]))
      BY <1>1, <3>1, <3>2 DEF Fits
    <3> QED BY <1>1, <3>3 DEF Solves
  <2> QED BY <2>1, <2>2, GrownLogs
<1>2. \A i \in DOMAIN log : i \in Int
  BY GrownLogs
<1> SUFFICES ASSUME NEW i \in DOMAIN log, NEW j \in DOMAIN log,
                    Solves(log[i]), Solves(log[j]), log[i].step = log[j].step
             PROVE  i = j
  BY DEF Single
<1>3. i < j \/ j < i \/ i = j
  BY <1>2
<1> QED BY <1>1, <1>3

LEMMA GrownEarned ==
  ASSUME NEW a, NEW b, Grown(a, b), Earned(a.facts)
  PROVE  Earned(b.facts)
<1> DEFINE n == Len(a.facts)
           log == b.facts
<1> SUFFICES ASSUME NEW i \in DOMAIN log, Gifts(log[i])
             PROVE  \E j \in DOMAIN log : Finds(log[j], log[i].step)
  BY DEF Earned
<1>1. CASE i \in DOMAIN a.facts
  <2>1. a.facts[i] = log[i]
    BY <1>1, GrownLogs
  <2>2. PICK j \in DOMAIN a.facts : Finds(a.facts[j], a.facts[i].step)
    BY <1>1, <2>1 DEF Earned
  <2> QED BY <2>1, <2>2, GrownLogs
<1>2. CASE i \in n + 1 .. Len(log)
  <2>1. Fits(log, b.paid, n, i)
    BY <1>2 DEF Grown
  <2>2. PICK j \in n + 1 .. i - 1 : Finds(log[j], log[i].step)
    BY <2>1 DEF Fits
  <2>3. j \in DOMAIN log
    BY <1>2, GrownLogs
  <2> QED BY <2>2, <2>3
<1> QED BY <1>1, <1>2, GrownLogs

LEMMA GrownPriced ==
  ASSUME NEW a, NEW b, Grown(a, b), Priced(a.facts)
  PROVE  Priced(b.facts)
<1> DEFINE n == Len(a.facts)
           log == b.facts
<1> SUFFICES ASSUME NEW i \in DOMAIN log, NEW j \in DOMAIN log, i < j, Key(log[i]) = Key(log[j])
             PROVE  log[j].coins = 0
  BY DEF Priced
<1> HIDE DEF log
<1>1. CASE j \in DOMAIN a.facts
  <2>1. i \in DOMAIN a.facts
    BY <1>1, GrownLogs DEF log
  <2>2. a.facts[i] = log[i] /\ a.facts[j] = log[j]
    BY <1>1, <2>1, GrownLogs DEF log
  <2> QED BY <1>1, <2>1, <2>2 DEF Priced
<1>2. CASE j \in n + 1 .. Len(log)
  <2>1. Fits(log, b.paid, n, j)
    BY <1>2 DEF Grown, log
  <2>2. i \in 1 .. j - 1
    BY <1>2, GrownLogs DEF log
  <2> QED BY <2>1, <2>2 DEF Fits
<1> QED BY <1>1, <1>2, GrownLogs DEF log

LEMMA GrownNumbered ==
  ASSUME NEW a, NEW b, Grown(a, b), Numbered(a.facts)
  PROVE  Numbered(b.facts)
<1> DEFINE n == Len(a.facts)
           log == b.facts
<1> SUFFICES ASSUME NEW i \in DOMAIN log, Wrong(log[i])
             PROVE  Rank(log[i]) = Cardinality(Repeats(log, i - 1, log[i])) + 1
  BY DEF Numbered
<1> HIDE DEF log
<1>1. CASE i \in DOMAIN a.facts
  <2>1. a.facts[i] = log[i] /\ \A j \in 1 .. i - 1 : a.facts[j] = log[j]
    BY <1>1, GrownLogs DEF log
  <2>2. Repeats(a.facts, i - 1, a.facts[i]) = Repeats(log, i - 1, log[i])
    BY <2>1 DEF Repeats
  <2> QED BY <1>1, <2>1, <2>2 DEF Numbered
<1>2. CASE i \in n + 1 .. Len(log)
  <2>1. Fits(log, b.paid, n, i)
    BY <1>2 DEF Grown, log
  <2> QED BY <2>1 DEF Fits
<1> QED BY <1>1, <1>2, GrownLogs DEF log

\* What is handed to the sink is what was added, in order.
LEMMA FreshIs ==
  ASSUME NEW a, NEW b, Grown(a, b)
  PROVE  /\ Fresh(b, a.facts) \in Seq(FactType)
         /\ Len(Fresh(b, a.facts)) = Len(b.facts) - Len(a.facts)
         /\ \A i \in 1 .. Len(b.facts) - Len(a.facts) :
              /\ Fresh(b, a.facts)[i] = b.facts[Len(a.facts) + i]
              /\ Len(a.facts) + i \in Len(a.facts) + 1 .. Len(b.facts)
              /\ Len(a.facts) + i \in DOMAIN b.facts
<1> DEFINE n == Len(a.facts)
           m == Len(b.facts)
<1>1. b.facts \in Seq(FactType) /\ n \in Nat /\ m \in Nat /\ n <= m /\ DOMAIN b.facts = 1 .. m
  BY GrownLogs
<1>2. \A i \in n + 1 .. m : b.facts[i] \in FactType
  BY <1>1
<1>3. /\ Fresh(b, a.facts) \in Seq(FactType)
      /\ Len(Fresh(b, a.facts)) = IF n + 1 <= m THEN m - (n + 1) + 1 ELSE 0
      /\ \A i \in 1 .. m - (n + 1) + 1 : Fresh(b, a.facts)[i] = b.facts[(n + 1) + i - 1]
  <2>1. n + 1 \in Int /\ m \in Int
    BY <1>1
  <2> HIDE DEF n, m
  <2>2. Fresh(b, a.facts) = SubSeq(b.facts, n + 1, m)
    BY DEF Fresh, n, m
  <2> QED BY <1>2, <2>1, <2>2, SubSeqProperties
<1>4. \A i \in 1 .. m - n : n + i \in n + 1 .. m /\ n + i \in 1 .. m /\ (n + 1) + i - 1 = n + i
  BY <1>1
<1>5. m - (n + 1) + 1 = m - n /\ (IF n + 1 <= m THEN m - n ELSE 0) = m - n
  <2> HIDE DEF n, m
  <2> QED BY <1>1
<1> HIDE DEF n, m
<1>6. \A i \in 1 .. m - n : Fresh(b, a.facts)[i] = b.facts[n + i]
  BY <1>3, <1>4, <1>5
<1>7. Len(Fresh(b, a.facts)) = m - n
  BY <1>1, <1>3, <1>5
<1> QED BY <1>1, <1>3, <1>4, <1>6, <1>7 DEF n, m

LEMMA AddedEarned ==
  ASSUME NEW a, NEW b, Grown(a, b),
         NEW i \in 1 .. Len(b.facts) - Len(a.facts), Gifts(Fresh(b, a.facts)[i])
  PROVE  \E k \in 1 .. i - 1 : Finds(Fresh(b, a.facts)[k], Fresh(b, a.facts)[i].step)
<1> DEFINE n == Len(a.facts)
           m == Len(b.facts)
           added == Fresh(b, a.facts)
<1>1. n \in Nat /\ m \in Nat
  BY GrownLogs
<1>2. added[i] = b.facts[n + i] /\ n + i \in n + 1 .. m
  BY FreshIs
<1>3. Fits(b.facts, b.paid, n, n + i)
  BY <1>2 DEF Grown
<1>4. PICK j \in n + 1 .. (n + i) - 1 : Finds(b.facts[j], b.facts[n + i].step)
  BY <1>2, <1>3 DEF Fits
<1>5. j - n \in 1 .. i - 1 /\ j - n \in 1 .. m - n /\ n + (j - n) = j
  BY <1>1, <1>2
<1>6. added[j - n] = b.facts[j]
  BY <1>5, FreshIs
<1> QED BY <1>2, <1>4, <1>5, <1>6

-----------------------------------------------------------------------------
(* The numbers of repeated mistakes.                                        *)

LEMMA RepeatsFinite ==
  ASSUME NEW log, NEW n \in Int, NEW f
  PROVE  IsFiniteSet(Repeats(log, n, f)) /\ Cardinality(Repeats(log, n, f)) \in Nat
<1>1. IsFiniteSet(1 .. n) /\ Repeats(log, n, f) \subseteq 1 .. n
  BY FS_Interval DEF Repeats
<1> QED BY <1>1, FS_Subset, FS_CardinalityType

\* A mistake and those with its text before it are as many as its number.
LEMMA RepeatsUpTo ==
  ASSUME NEW log, NEW f, NEW n \in Nat, 1 .. n \subseteq DOMAIN log, Numbered(log),
         NEW k \in Repeats(log, n, f)
  PROVE  LET upTo == Repeats(log, k - 1, f) \cup {k}
         IN  /\ upTo \subseteq Repeats(log, n, f)
             /\ Rank(log[k]) \in Nat \ {0} /\ Cardinality(upTo) = Rank(log[k])
<1> DEFINE before == Repeats(log, k - 1, f)
<1>1. k \in 1 .. n /\ k \in DOMAIN log /\ Wrong(log[k]) /\ SameText(log[k], f)
  BY DEF Repeats
<1>2. k - 1 \in Int /\ k \notin 1 .. k - 1 /\ \A j \in 1 .. k - 1 : j \in 1 .. n
  BY <1>1
<1>3. before = Repeats(log, k - 1, log[k])
  BY <1>1 DEF Repeats, SameText
<1>4. Rank(log[k]) = Cardinality(before) + 1
  BY <1>1, <1>3 DEF Numbered
<1>5. IsFiniteSet(before) /\ Cardinality(before) \in Nat
  BY <1>2, RepeatsFinite
<1>6. k \notin before /\ before \cup {k} \subseteq Repeats(log, n, f)
  BY <1>1, <1>2 DEF Repeats
<1> HIDE DEF before
<1>7. Cardinality(before \cup {k}) = Cardinality(before) + 1
  BY <1>5, <1>6, FS_AddElement
<1> QED BY <1>4, <1>5, <1>6, <1>7 DEF before

\* No number is higher than the count of its text, and the count is the number of the
\* last mistake.
LEMMA RankBound ==
  ASSUME NEW log, NEW f, NEW n \in Nat, 1 .. n \subseteq DOMAIN log, Numbered(log),
         NEW k \in Repeats(log, n, f)
  PROVE  Rank(log[k]) \in Nat \ {0} /\ Rank(log[k]) <= Cardinality(Repeats(log, n, f))
<1> DEFINE upTo == Repeats(log, k - 1, f) \cup {k}
<1>1. upTo \subseteq Repeats(log, n, f) /\ Cardinality(upTo) = Rank(log[k]) /\ Rank(log[k]) \in Nat \ {0}
  BY RepeatsUpTo
<1>2. Cardinality(upTo) <= Cardinality(Repeats(log, n, f))
  <2> HIDE DEF upTo
  <2> QED BY <1>1, RepeatsFinite, FS_Subset
<1> QED BY <1>1, <1>2

LEMMA RankReached ==
  ASSUME NEW log, NEW f, NEW n \in Nat, 1 .. n \subseteq DOMAIN log, Numbered(log),
         Repeats(log, n, f) # {}
  PROVE  \E k \in Repeats(log, n, f) : Rank(log[k]) = Cardinality(Repeats(log, n, f))
<1> DEFINE T == Repeats(log, n, f)
<1>1. T \subseteq 1 .. n
  BY DEF Repeats
<1>2. PICK k \in T : \A j \in T : j <= k
  <2> HIDE DEF T
  <2> QED BY <1>1, LastIndex DEF T
<1>3. T = Repeats(log, k - 1, f) \cup {k}
  <2>1. k \in 1 .. n /\ \A j \in 1 .. n : j <= k <=> j \in 1 .. k - 1 \/ j = k
    BY <1>1, <1>2
  <2>2. \A j \in 1 .. k - 1 : j \in 1 .. n
    BY <2>1
  <2>3. \A j \in T : j \in 1 .. k - 1 \/ j = k
    BY <1>1, <1>2, <2>1
  <2> QED BY <1>2, <2>2, <2>3 DEF Repeats
<1>4. Cardinality(Repeats(log, k - 1, f) \cup {k}) = Rank(log[k])
  BY <1>2, RepeatsUpTo
<1> QED BY <1>2, <1>3, <1>4

\* A number that every earlier one is below, and that follows one of them, is the next.
LEMMA RankNext ==
  ASSUME NEW log \in Seq(FactType), Numbered(log), NEW f, Rank(f) \in Nat \ {0},
         \A i \in DOMAIN log : Precedes(log[i], f),
         Rank(f) # 1 => \E i \in DOMAIN log : Leads(log[i], f)
  PROVE  Rank(f) = Cardinality(Repeats(log, Len(log), f)) + 1
<1> DEFINE n == Len(log)
           T == Repeats(log, n, f)
<1>1. n \in Nat /\ DOMAIN log = 1 .. n
  OBVIOUS
<1>2. Cardinality(T) \in Nat
  BY <1>1, RepeatsFinite
<1>3. \A k \in T : Rank(log[k]) \in Nat \ {0} /\ Rank(log[k]) <= Cardinality(T)
  BY <1>1, RankBound
<1>4. \A k \in T : Rank(log[k]) < Rank(f)
  BY <1>1 DEF Repeats, Precedes, Wrong
<1>5. Rank(f) # 1 => \E k \in T : Rank(log[k]) + 1 = Rank(f)
  BY <1>1 DEF Repeats, Leads
<1>6. CASE T = {}
  <2>1. Cardinality(T) = 0
    BY <1>6, FS_EmptySet
  <2> QED BY <1>5, <1>6, <2>1
<1>7. CASE T # {}
  <2>1. \E k \in T : Rank(log[k]) = Cardinality(T)
    BY <1>1, <1>7, RankReached
  <2> HIDE DEF T
  <2>2. Cardinality(T) < Rank(f) /\ Cardinality(T) # 0
    BY <1>3, <1>4, <2>1
  <2>3. Rank(f) <= Cardinality(T) + 1
    BY <1>2, <1>3, <1>5, <2>2
  <2>4. Rank(f) = Cardinality(T) + 1
    BY <1>2, <2>2, <2>3
  <2> QED BY <2>4 DEF T
<1> QED BY <1>6, <1>7

\* A mistake that was added comes after the ones with its text, and after no right
\* answer.
LEMMA AddedWrong ==
  ASSUME NEW a, NEW b, Grown(a, b), Numbered(b.facts),
         NEW l \in Len(a.facts) + 1 .. Len(b.facts), Wrong(b.facts[l])
  PROVE  /\ Rank(b.facts[l]) \in Nat \ {0}
         /\ \A i \in 1 .. l - 1 : Precedes(b.facts[i], b.facts[l])
         /\ Rank(b.facts[l]) # 1 => \E i \in 1 .. l - 1 : Leads(b.facts[i], b.facts[l])
<1> DEFINE log == b.facts
           f   == log[l]
           T   == Repeats(log, l - 1, f)
<1>1. l - 1 \in Nat /\ 1 .. l - 1 \subseteq DOMAIN log /\ l \in DOMAIN log
  BY GrownLogs
<1>2. Fits(log, b.paid, Len(a.facts), l)
  BY DEF Grown
<1>3. Rank(f) = Cardinality(T) + 1 /\ Cardinality(T) \in Nat
  BY <1>1, <1>2, RepeatsFinite DEF Fits
<1>4. ASSUME NEW i \in 1 .. l - 1
      PROVE  Precedes(log[i], f)
  <2>1. ~(log[i].step = f.step /\ CompletesStep(log[i]))
    BY <1>2 DEF Fits
  <2>2. SameText(log[i], f) /\ log[i].kind = "answer_submitted" => ~log[i].ok
    BY <2>1 DEF SameText, CompletesStep
  <2>3. ASSUME Wrong(log[i]), SameText(log[i], f)
        PROVE  Rank(log[i]) < Rank(f)
    <3>1. i \in T
      BY <2>3 DEF Repeats
    <3>2. Rank(log[i]) \in Nat \ {0} /\ Rank(log[i]) <= Cardinality(T)
      <4> HIDE DEF log, f
      <4> QED BY <1>1, <3>1, RankBound DEF log
    <3> QED BY <1>3, <3>2
  <2> QED BY <2>2, <2>3 DEF Precedes, Wrong
<1>5. ASSUME Rank(f) # 1
      PROVE  \E i \in 1 .. l - 1 : Leads(log[i], f)
  <2>1. T # {}
    <3> HIDE DEF T, f, log
    <3>1. T = {} => Cardinality(T) = 0
      BY FS_EmptySet
    <3> QED BY <1>3, <1>5, <3>1
  <2>2. PICK k \in T : Rank(log[k]) = Cardinality(T)
    <3> HIDE DEF log, f
    <3> QED BY <1>1, <2>1, RankReached DEF log
  <2>3. k \in 1 .. l - 1 /\ Wrong(log[k]) /\ SameText(log[k], f)
    BY DEF Repeats
  <2> QED BY <1>3, <2>2, <2>3 DEF Leads
<1> QED BY <1>3, <1>4, <1>5

-----------------------------------------------------------------------------
(* The page.                                                                *)

LEMMA PlayKeeps ==
  ASSUME IInv, Grown(play, play')
  PROVE  /\ play' \in PlayType /\ play'.stepIdx <= play'.maxStepIdx
         /\ Saves(play') \in Seq(Steps)
         /\ Among(chain, play'.facts) /\ Among(stored, play'.facts)
         /\ Single(play'.facts) /\ Priced(play'.facts)
         /\ Earned(play.facts) => Earned(play'.facts)
         /\ Numbered(play.facts) => Numbered(play'.facts)
<1>1. play' \in PlayType /\ play'.stepIdx <= play'.maxStepIdx /\ play.maxStepIdx <= play'.maxStepIdx
  BY DEF Grown
<1>2. play'.maxStepIdx \in Steps /\ saving \in Seq(Steps)
  BY <1>1, PlayFields DEF IInv, Typed
<1>3. Saves(play') \in Seq(Steps)
  BY <1>2 DEF Saves
<1> QED BY <1>1, <1>3, GrownAmong, GrownSingle, GrownEarned, GrownPriced, GrownNumbered DEF IInv

\* The view moved by the browser's history: what it appends is not sunk.
LEMMA ViewKeeps ==
  ASSUME IInv, Grown(play, play'), Quiet(Len(play.facts), play'),
         UNCHANGED <<chain, stored, resume, visits, dropped, lost, universal>>,
         saving' \in {saving, Saves(play')},
         rating' \in Scores \cup {0}
  PROVE  IInv'
<1>1. Typed'
  BY PlayKeeps DEF IInv, Typed
<1>2. OneKeyEach'
  BY DEF IInv, OneKeyEach
<1>3. /\ Among(chain', play'.facts) /\ Among(stored', play'.facts)
      /\ Single(play'.facts) /\ Priced(play'.facts)
  BY PlayKeeps
<1>4. ~dropped' => Earned(play'.facts) /\ Earned(stored') /\ ChainEarned'
  BY PlayKeeps DEF IInv, ChainEarned
<1>5. ASSUME ~dropped'
      PROVE  Ordered'
  <2>1. Ordered
    BY <1>5 DEF IInv
  <2>2. Numbered(play'.facts) /\ Numbered(stored') /\ Continues'
    BY <2>1, PlayKeeps DEF Ordered, Continues, Follows
  <2>3. \A i \in DOMAIN play'.facts : Wrong(play'.facts[i]) =>
          i \in DOMAIN play.facts /\ play'.facts[i] = play.facts[i]
    BY GrownLogs DEF Quiet
  <2>4. KeptWrongs'
    BY <2>1, <2>3 DEF Ordered, KeptWrongs
  <2> QED BY <2>2, <2>4 DEF Ordered
<1> QED BY <1>1, <1>2, <1>3, <1>4, <1>5 DEF IInv

\* The chain with what an event adds to the log, by place.
LEMMA ChainGrows ==
  ASSUME IInv, Grown(play, play'), chain' = chain \o Fresh(play', play.facts)
  PROVE  LET c == Len(chain)
             n == Len(play.facts)
             d == Len(play'.facts) - n
         IN  /\ c \in Nat /\ n \in Nat /\ d \in Nat
             /\ DOMAIN chain = 1 .. c /\ DOMAIN chain' = 1 .. c + d
             /\ \A i \in 1 .. c : chain'[i] = chain[i]
             /\ \A k \in 1 .. d : chain'[c + k] = play'.facts[n + k]
             /\ \A i \in 1 .. c + d : i \in 1 .. c \/ (i - c \in 1 .. d /\ i = c + (i - c))
<1> DEFINE new == Fresh(play', play.facts)
           c   == Len(chain)
           n   == Len(play.facts)
           d   == Len(play'.facts) - n
<1>1. chain \in Seq(FactType) /\ c \in Nat /\ DOMAIN chain = 1 .. c
  <2>1. chain \in Seq(FactType)
    BY DEF IInv, Typed
  <2> QED BY <2>1
<1>2. n \in Nat /\ d \in Nat
  BY GrownLogs
<1>3. new \in Seq(FactType) /\ Len(new) = d
  BY FreshIs
<1>4. \A k \in 1 .. d : new[k] = play'.facts[n + k]
  BY FreshIs
<1>5. chain' = chain \o new
  OBVIOUS
<1> HIDE DEF new, d, n
<1>6. /\ chain' \in Seq(FactType) /\ Len(chain') = c + d
      /\ \A k \in 1 .. c + d : chain'[k] = IF k <= c THEN chain[k] ELSE new[k - c]
  <2>1. /\ chain \o new \in Seq(FactType) /\ Len(chain \o new) = Len(chain) + Len(new)
        /\ \A k \in 1 .. Len(chain) + Len(new) :
             (chain \o new)[k] = IF k <= Len(chain) THEN chain[k] ELSE new[k - Len(chain)]
    BY <1>1, <1>3, ConcatProperties
  <2> QED BY <1>3, <1>5, <2>1
<1>7. DOMAIN chain' = 1 .. c + d
  BY <1>6
<1> HIDE DEF c
<1>8. \A i \in 1 .. c : i \in 1 .. c + d /\ i <= c
  BY <1>1, <1>2
<1>9. \A k \in 1 .. d : c + k \in 1 .. c + d /\ ~(c + k <= c) /\ (c + k) - c = k
  BY <1>1, <1>2
<1>10. \A i \in 1 .. c + d : i \in 1 .. c \/ (i - c \in 1 .. d /\ i = c + (i - c))
  BY <1>1, <1>2
<1>11. \A i \in 1 .. c : chain'[i] = chain[i]
  BY <1>6, <1>8
<1>12. \A k \in 1 .. d : chain'[c + k] = play'.facts[n + k]
  BY <1>6, <1>9, <1>4
<1> QED BY <1>1, <1>2, <1>7, <1>10, <1>11, <1>12 DEF c, d, n

\* The mistakes an event adds continue those of storage and of the chain.
LEMMA RunOrders ==
  ASSUME IInv, Ordered, Grown(play, play'), chain' = chain \o Fresh(play', play.facts),
         stored' = stored
  PROVE  Ordered'
<1> DEFINE c   == Len(chain)
           n   == Len(play.facts)
           d   == Len(play'.facts) - n
           log == play'.facts
<1>1. /\ c \in Nat /\ n \in Nat /\ d \in Nat
      /\ DOMAIN chain = 1 .. c /\ DOMAIN chain' = 1 .. c + d
      /\ \A i \in 1 .. c : chain'[i] = chain[i]
      /\ \A k \in 1 .. d : chain'[c + k] = log[n + k]
      /\ \A i \in 1 .. c + d : i \in 1 .. c \/ (i - c \in 1 .. d /\ i = c + (i - c))
  BY ChainGrows
<1>2. /\ DOMAIN play.facts = 1 .. n /\ DOMAIN log = 1 .. n + d
      /\ \A i \in 1 .. n : log[i] = play.facts[i]
      /\ n + 1 .. n + d = Len(play.facts) + 1 .. Len(log)
  BY GrownLogs
<1>3. Numbered(log) /\ Numbered(stored')
  BY PlayKeeps DEF Ordered
<1> HIDE DEF c, d, log
<1>4. \* every fact of storage and of the chain is one of the log
      /\ \A i \in DOMAIN stored : \E k \in 1 .. n : stored[i] = log[k]
      /\ \A i \in 1 .. c : \E k \in 1 .. n : chain[i] = log[k]
  <2>1. /\ \A i \in DOMAIN stored : \E k \in DOMAIN play.facts : stored[i] = play.facts[k]
        /\ \A i \in DOMAIN chain : \E k \in DOMAIN play.facts : chain[i] = play.facts[k]
    BY DEF IInv, Among
  <2> QED BY <1>1, <1>2, <2>1
<1>5. \* every mistake of the log is in storage or in the chain
      \A k \in 1 .. n : Wrong(log[k]) =>
        (\E j \in DOMAIN stored : stored[j] = log[k]) \/ \E j \in 1 .. c : chain[j] = log[k]
  BY <1>1, <1>2 DEF Ordered, KeptWrongs
<1> HIDE DEF n
<1>6. ASSUME NEW i \in 1 .. c, Wrong(chain'[i])
      PROVE  Follows(i)'
  <2>1. chain'[i] = chain[i] /\ \A j \in 1 .. i - 1 : chain'[j] = chain[j]
    BY <1>1
  <2>2. Follows(i)
    BY <1>1, <1>6, <2>1 DEF Ordered, Continues
  <2> QED BY <2>1, <2>2 DEF Follows
<1>7. ASSUME NEW k \in 1 .. d, NEW i \in DOMAIN chain', i = c + k, Wrong(log[n + k])
      PROVE  Follows(i)'
  <2> DEFINE f == log[n + k]
  <2>1. /\ \A l \in 1 .. n : l \in 1 .. (n + k) - 1
        /\ \A l \in 1 .. (n + k) - 1 :
             l \in 1 .. n \/ (l - n \in 1 .. k - 1 /\ l - n \in 1 .. d /\ n + (l - n) = l)
    BY <1>1
  <2>2. /\ \A l \in 1 .. c : l \in 1 .. i - 1
        /\ \A l \in 1 .. k - 1 : l \in 1 .. d /\ c + l \in 1 .. i - 1 /\ n + l \in 1 .. (n + k) - 1
        /\ \A l \in 1 .. i - 1 : l \in 1 .. c \/ (l - c \in 1 .. k - 1 /\ c + (l - c) = l)
    BY <1>1, <1>7
  <2>3. chain'[i] = f /\ n + k \in n + 1 .. n + d
    <3>1. chain'[c + k] = log[n + k]
      BY <1>1
    <3>2. n + k \in n + 1 .. n + d
      BY <1>1
    <3> QED BY <1>7, <3>1, <3>2
  <2>4. /\ Rank(f) \in Nat \ {0}
        /\ \A l \in 1 .. (n + k) - 1 : Precedes(log[l], f)
        /\ Rank(f) # 1 => \E l \in 1 .. (n + k) - 1 : Leads(log[l], f)
    <3> DEFINE m == n + k
    <3>1. m \in Len(play.facts) + 1 .. Len(play'.facts) /\ Wrong(play'.facts[m])
      BY <1>2, <1>7, <2>3 DEF log
    <3>2. Numbered(play'.facts)
      BY <1>3 DEF log
    <3> HIDE DEF m
    <3>3. /\ Rank(play'.facts[m]) \in Nat \ {0}
          /\ \A l \in 1 .. m - 1 : Precedes(play'.facts[l], play'.facts[m])
          /\ Rank(play'.facts[m]) # 1 =>
               \E l \in 1 .. m - 1 : Leads(play'.facts[l], play'.facts[m])
      BY <3>1, <3>2, AddedWrong
    <3> QED BY <3>3 DEF m, log
  <2> HIDE DEF f
  <2>5. \A j \in DOMAIN stored : Precedes(stored[j], f)
    BY <1>4, <2>1, <2>4
  <2>6. ASSUME NEW j \in 1 .. i - 1
        PROVE  Precedes(chain'[j], f)
    <3>1. CASE j \in 1 .. c
      <4>1. chain'[j] = chain[j]
        BY <1>1, <3>1
      <4>2. PICK l \in 1 .. n : chain[j] = log[l]
        BY <1>4, <3>1
      <4> QED BY <2>1, <2>4, <4>1, <4>2
    <3>2. CASE j - c \in 1 .. k - 1 /\ c + (j - c) = j
      <4>1. chain'[c + (j - c)] = log[n + (j - c)] /\ n + (j - c) \in 1 .. (n + k) - 1
        BY <1>1, <2>2, <3>2
      <4> QED BY <2>4, <3>2, <4>1
    <3> QED BY <2>2, <3>1, <3>2
  <2>7. ASSUME Rank(f) # 1
        PROVE  \/ \E j \in DOMAIN stored : Leads(stored[j], f)
               \/ \E j \in 1 .. i - 1 : Leads(chain'[j], f)
    <3>1. PICK l \in 1 .. (n + k) - 1 : Leads(log[l], f)
      BY <2>4, <2>7
    <3>2. CASE l \in 1 .. n
      <4>1. (\E j \in DOMAIN stored : stored[j] = log[l]) \/ \E j \in 1 .. c : chain[j] = log[l]
        BY <1>5, <3>1, <3>2 DEF Leads
      <4>2. \A j \in 1 .. c : chain'[j] = chain[j] /\ j \in 1 .. i - 1
        BY <1>1, <2>2
      <4> QED BY <3>1, <4>1, <4>2
    <3>3. CASE l - n \in 1 .. k - 1 /\ l - n \in 1 .. d /\ n + (l - n) = l
      <4>1. chain'[c + (l - n)] = log[l] /\ c + (l - n) \in 1 .. i - 1
        BY <1>1, <2>2, <3>3
      <4> QED BY <3>1, <4>1
    <3> QED BY <2>1, <3>1, <3>2, <3>3
  <2> QED BY <2>3, <2>4, <2>5, <2>6, <2>7 DEF Follows
<1>8. Continues'
  <2> SUFFICES ASSUME NEW i \in DOMAIN chain', Wrong(chain'[i])
               PROVE  Follows(i)'
    BY DEF Continues
  <2>1. CASE i \in 1 .. c
    BY <1>6, <2>1
  <2>2. CASE i - c \in 1 .. d /\ i = c + (i - c)
    <3>1. chain'[i] = log[n + (i - c)]
      BY <1>1, <2>2
    <3> QED BY <1>7, <2>2, <3>1
  <2> QED BY <1>1, <2>1, <2>2
<1>9. ASSUME NEW i \in 1 .. n + d, Wrong(log[i])
      PROVE  \/ \E j \in DOMAIN stored : stored[j] = log[i]
             \/ \E j \in DOMAIN chain' : chain'[j] = log[i]
  <2>1. \A j \in 1 .. c : j \in DOMAIN chain'
    BY <1>1
  <2>2. CASE i \in 1 .. n
    BY <1>1, <1>5, <1>9, <2>1, <2>2
  <2>3. CASE i \notin 1 .. n
    <3>1. i - n \in 1 .. d /\ c + (i - n) \in 1 .. c + d /\ n + (i - n) = i
      BY <1>1, <2>3
    <3> QED BY <1>1, <3>1
  <2> QED BY <2>2, <2>3
<1>10. KeptWrongs'
  BY <1>2, <1>9 DEF KeptWrongs, log
<1> QED BY <1>3, <1>8, <1>10 DEF Ordered, log

\* An event of the page: its facts go to the log and to the sink.
LEMMA RunKeeps ==
  ASSUME IInv, Grown(play, play'), chain' = chain \o Fresh(play', play.facts),
         UNCHANGED <<stored, resume, visits, dropped, lost, universal>>,
         saving' = Saves(play'), rating' \in Scores \cup {0}
  PROVE  IInv'
<1> DEFINE new == Fresh(play', play.facts)
           c   == Len(chain)
           n   == Len(play.facts)
           m   == Len(play'.facts)
<1>1. /\ new \in Seq(FactType) /\ chain \in Seq(FactType) /\ Len(new) = m - n
      /\ c \in Nat /\ n \in Nat /\ m \in Nat
  <2>1. new \in Seq(FactType) /\ Len(new) = m - n
    BY FreshIs
  <2>2. n \in Nat /\ m \in Nat
    BY GrownLogs
  <2>3. chain \in Seq(FactType)
    BY DEF IInv, Typed
  <2>4. c \in Nat
    BY <2>3
  <2> QED BY <2>1, <2>2, <2>3, <2>4
<1>2. /\ chain' \in Seq(FactType) /\ DOMAIN chain = 1 .. c /\ DOMAIN chain' = 1 .. c + Len(new)
      /\ \A i \in 1 .. c : chain'[i] = chain[i]
      /\ \A i \in 1 .. Len(new) : chain'[c + i] = new[i]
      /\ \A i \in 1 .. c + Len(new) :
           i \in 1 .. c \/ (i - c \in 1 .. Len(new) /\ i = c + (i - c))
  <2>1. chain' = chain \o new
    OBVIOUS
  <2> HIDE DEF new, n, m
  <2>2. /\ chain \o new \in Seq(FactType)
        /\ DOMAIN chain = 1 .. c /\ DOMAIN (chain \o new) = 1 .. c + Len(new)
        /\ \A i \in 1 .. c : (chain \o new)[i] = chain[i]
        /\ \A i \in 1 .. Len(new) : (chain \o new)[c + i] = new[i]
    <3>1. chain \o new \in Seq(FactType)
      BY <1>1
    <3>2. DOMAIN chain = 1 .. c
      BY <1>1
    <3>3. DOMAIN (chain \o new) = 1 .. c + Len(new)
      <4>1. Len(chain \o new) = c + Len(new)
        BY <1>1, ConcatProperties
      <4>2. DOMAIN (chain \o new) = 1 .. Len(chain \o new)
        BY <3>1
      <4> QED BY <4>1, <4>2
    <3>4. \A i \in 1 .. c : (chain \o new)[i] = chain[i]
      BY <1>1
    <3>5. \A i \in 1 .. Len(new) : (chain \o new)[c + i] = new[i]
      BY <1>1
    <3> QED BY <3>1, <3>2, <3>3, <3>4, <3>5
  <2>3. \A i \in 1 .. c + Len(new) :
          i \in 1 .. c \/ (i - c \in 1 .. Len(new) /\ i = c + (i - c))
    BY <1>1
  <2> QED BY <2>1, <2>2, <2>3
<1>3. Typed'
  BY <1>2, PlayKeeps DEF IInv, Typed
<1>4. OneKeyEach'
  BY DEF IInv, OneKeyEach
<1>5. Among(chain', play'.facts)
  <2> SUFFICES ASSUME NEW i \in DOMAIN chain'
               PROVE  \E k \in DOMAIN play'.facts : chain'[i] = play'.facts[k]
    BY DEF Among
  <2>1. CASE i \in 1 .. c
    BY <1>2, <2>1, PlayKeeps DEF Among
  <2>2. CASE i - c \in 1 .. Len(new) /\ i = c + (i - c)
    <3>1. chain'[i] = new[i - c]
      BY <1>2, <2>2
    <3>2. new[i - c] = play'.facts[n + (i - c)] /\ n + (i - c) \in DOMAIN play'.facts
      BY <1>1, <2>2, FreshIs
    <3> QED BY <3>1, <3>2
  <2> QED BY <1>2, <2>1, <2>2
<1>6. ASSUME ~dropped'
      PROVE  ChainEarned'
  <2> SUFFICES ASSUME NEW i \in DOMAIN chain', Gifts(chain'[i])
               PROVE  \/ \E j \in DOMAIN stored' : Finds(stored'[j], chain'[i].step)
                      \/ \E j \in 1 .. i - 1 : Finds(chain'[j], chain'[i].step)
    BY DEF ChainEarned
  <2>1. CASE i \in 1 .. c
    <3>1. chain'[i] = chain[i] /\ \A j \in 1 .. i - 1 : chain'[j] = chain[j]
      BY <1>1, <1>2, <2>1
    <3>2. ChainEarned /\ i \in DOMAIN chain
      BY <1>2, <1>6, <2>1 DEF IInv
    <3> QED BY <3>1, <3>2 DEF ChainEarned
  <2>2. CASE i - c \in 1 .. Len(new) /\ i = c + (i - c)
    <3>1. chain'[i] = new[i - c]
      BY <1>2, <2>2
    <3>2. PICK k \in 1 .. (i - c) - 1 : Finds(new[k], new[i - c].step)
      BY <1>1, <2>2, <3>1, AddedEarned
    <3>3. k \in 1 .. Len(new) /\ c + k \in 1 .. i - 1
      <4>1. i \in Int /\ Len(new) \in Int
        BY <1>1, <1>2
      <4> DEFINE l == Len(new)
                 d == i - c
      <4>2. d \in 1 .. l /\ i = c + d /\ d \in Int /\ l \in Int /\ c \in Int /\ k \in 1 .. d - 1
        <5> HIDE DEF new, c, n, m
        <5> QED BY <1>1, <2>2, <4>1
      <4> HIDE DEF new, c, l, d
      <4>3. k \in 1 .. l /\ c + k \in 1 .. i - 1
        BY <1>1, <4>2
      <4> QED BY <4>3 DEF l
    <3>4. chain'[c + k] = new[k]
      BY <1>2, <3>3
    <3> QED BY <3>1, <3>2, <3>3, <3>4
  <2> QED BY <1>2, <2>1, <2>2
<1>7. ~dropped' => Earned(play'.facts) /\ Earned(stored')
  BY PlayKeeps DEF IInv
<1>8. Among(stored', play'.facts) /\ Single(play'.facts) /\ Priced(play'.facts)
  BY PlayKeeps
<1>9. ~dropped' => Ordered'
  BY RunOrders DEF IInv
<1> QED BY <1>3, <1>4, <1>5, <1>6, <1>7, <1>8, <1>9 DEF IInv

\* No bonus that was added to the log was in it, or known to be paid.
LEMMA RunPays ==
  ASSUME NEW a, NEW b, Grown(a, b), NEW i \in 1 .. Len(b.facts) - Len(a.facts),
         Fresh(b, a.facts)[i].kind \in Once, NEW part, Among(part, a.facts)
  PROVE  Fresh(b, a.facts)[i].kind \notin b.paid /\ ~Has(part, Fresh(b, a.facts)[i].kind)
<1> DEFINE n == Len(a.facts)
           f == b.facts[n + i]
<1>1. Fresh(b, a.facts)[i] = f /\ n + i \in n + 1 .. Len(b.facts)
  BY FreshIs
<1>2. Fits(b.facts, b.paid, n, n + i)
  BY <1>1 DEF Grown
<1>3. f.kind \notin b.paid /\ \A j \in 1 .. (n + i) - 1 : b.facts[j].kind # f.kind
  BY <1>1, <1>2 DEF Fits
<1>4. \A j \in DOMAIN a.facts : j \in 1 .. (n + i) - 1 /\ b.facts[j] = a.facts[j]
  BY GrownLogs
<1>5. \A j \in DOMAIN a.facts : a.facts[j].kind # f.kind
  BY <1>3, <1>4
<1>6. ~Has(part, f.kind)
  BY <1>5 DEF Has, Among
<1> QED BY <1>1, <1>3, <1>6

\* PaysOnce, as the property of one step.
Pays ==
  \A i \in DOMAIN chain' :
    chain'[i].kind \in Once /\ chain'[i] \notin ToSet(chain)
      => chain'[i].kind \notin play'.paid /\ ~Has(stored, chain'[i].kind)

LEMMA EventPays ==
  ASSUME IInv, Grown(play, play'), chain' = chain \o Fresh(play', play.facts)
  PROVE  Pays
<1> DEFINE new == Fresh(play', play.facts)
           c   == Len(chain)
           d   == Len(play'.facts) - Len(play.facts)
<1>1. new \in Seq(FactType) /\ chain \in Seq(FactType) /\ Len(new) = d /\ c \in Nat
  <2>1. new \in Seq(FactType) /\ Len(new) = d
    BY FreshIs
  <2>2. chain \in Seq(FactType)
    BY DEF IInv, Typed
  <2> QED BY <2>1, <2>2
<1>2. chain' = chain \o new
  OBVIOUS
<1> SUFFICES ASSUME NEW i \in DOMAIN chain', chain'[i].kind \in Once, chain'[i] \notin ToSet(chain)
             PROVE  chain'[i].kind \notin play'.paid /\ ~Has(stored, chain'[i].kind)
  BY DEF Pays
<1>3. i \in 1 .. c + d /\ chain'[i] = IF i <= c THEN chain[i] ELSE new[i - c]
  <2> HIDE DEF new, d
  <2>1. /\ chain' \in Seq(FactType) /\ Len(chain') = c + d
        /\ \A k \in 1 .. c + d : chain'[k] = IF k <= c THEN chain[k] ELSE new[k - c]
    BY <1>1, <1>2, ConcatProperties
  <2>2. i \in 1 .. c + d
    BY <1>1, <2>1
  <2> QED BY <2>1, <2>2
<1>4. CASE i <= c
  <2>1. i \in DOMAIN chain /\ chain'[i] = chain[i]
    BY <1>1, <1>3, <1>4
  <2> QED BY <2>1 DEF ToSet
<1>5. CASE ~(i <= c)
  <2>1. d \in Int
    BY GrownLogs
  <2> HIDE DEF d, new
  <2>2. i - c \in 1 .. d /\ chain'[i] = new[i - c]
    BY <1>1, <1>3, <1>5, <2>1
  <2>3. Among(stored, play.facts)
    BY DEF IInv
  <2> QED BY <2>2, <2>3, RunPays DEF d, new
<1> QED BY <1>4, <1>5

\* An event of the page that runs the grown state b.
LEMMA EventKeeps ==
  ASSUME IInv, Grown(play, play'), chain' = chain \o Fresh(play', play.facts),
         UNCHANGED <<disk, visit>>, saving' = Saves(play'), rating' \in Scores \cup {0}
  PROVE  IInv' /\ Pays
BY RunKeeps, EventPays DEF disk, visit

LEMMA PlayGrows ==
  ASSUME IInv
  PROVE  /\ Grown(play, play) /\ play \in PlayType
         /\ play.stepIdx \in Steps /\ play.stepIdx + 1 \in Int /\ play.stepIdx - 1 \in Int
         /\ universal \subseteq UNION Universals
<1>1. play \in PlayType /\ play.stepIdx <= play.maxStepIdx /\ universal \subseteq UNION Universals
  BY DEF IInv, Typed
<1>2. play.stepIdx \in Steps
  BY <1>1, PlayFields
<1>3. play.stepIdx + 1 \in Int /\ play.stepIdx - 1 \in Int
  BY <1>2 DEF Steps
<1> QED BY <1>1, <1>2, <1>3, GrownSelf

LEMMA PlayQuiet ==
  ASSUME IInv
  PROVE  Quiet(Len(play.facts), play)
<1>1. play \in PlayType /\ play.facts \in Seq(FactType)
  BY PlayGrows, PlayFields
<1>2. DOMAIN play.facts = 1 .. Len(play.facts)
  BY <1>1
<1> QED BY <1>1, <1>2 DEF Quiet

\* A press, and a report, add to the log and hand the sink what they added.
LEMMA PressGrows ==
  ASSUME IInv, Press
  PROVE  Grown(play, play') /\ chain' = chain \o Fresh(play', play.facts) /\ saving' = Saves(play')
<1>1. /\ Grown(play, play) /\ play \in PlayType /\ play.stepIdx \in Steps
      /\ play.stepIdx + 1 \in Int /\ play.stepIdx - 1 \in Int /\ universal \subseteq UNION Universals
  BY PlayGrows
<1>2. Grown(play, play') /\ chain' = chain \o Fresh(play', play.facts) /\ saving' = Saves(play')
  <2>1. CASE RunEvent(AdvanceTo(play, play.stepIdx + 1))
    BY <1>1, <2>1, AdvanceGrows DEF RunEvent
  <2>2. CASE Template = "physical" /\ RunEvent(PhysicalConfirm(play))
    <3>1. ~AnswerStep(play.stepIdx)
      BY <2>2 DEF Template, AnswerStep
    <3> QED BY <1>1, <2>2, <3>1, PhysicalGrows DEF RunEvent
  <2>3. CASE \E value \in Answers : RunEvent(Answer(play, value))
    BY <1>1, <2>3, AnswerGrows DEF RunEvent
  <2>4. CASE RunEvent(BuyHint(play))
    BY <1>1, <2>4, HintGrows DEF RunEvent
  <2>5. CASE RunEvent(SkipTask(play))
    BY <1>1, <2>5, SkipGrows DEF RunEvent
  <2>6. CASE RunEvent([play EXCEPT !.offer = None])
    <3>1. Grown(play, [play EXCEPT !.offer = None])
      BY <1>1, OfferGrows
    <3> QED BY <2>6, <3>1 DEF RunEvent
  <2>7. CASE RunEvent(AdvanceTo(play, play.stepIdx - 1))
    BY <1>1, <2>7, AdvanceGrows DEF RunEvent
  <2> QED BY <2>1, <2>2, <2>3, <2>4, <2>5, <2>6, <2>7 DEF Press
<1> QED BY <1>2

LEMMA ReportGrows ==
  ASSUME IInv, Report
  PROVE  Grown(play, play') /\ chain' = chain \o Fresh(play', play.facts) /\ saving' = Saves(play')
<1>1. Grown(play, play) /\ play.stepIdx \in Steps
  BY PlayGrows
<1>2. "feedback_reported" \in Kinds /\ "navigator_used" \in Kinds /\ 0 \in Int
  BY DEF Kinds
<1>3. Grown(play, play') /\ chain' = chain \o Fresh(play', play.facts) /\ saving' = Saves(play')
  <2>1. CASE \E note \in Reports :
               RunEvent(Put(play, Fact("feedback_reported", play.stepIdx, None, 0, note, TRUE)))
    <3>1. PICK note \in Reports :
            RunEvent(Put(play, Fact("feedback_reported", play.stepIdx, None, 0, note, TRUE)))
      BY <2>1
    <3> DEFINE f == Fact("feedback_reported", play.stepIdx, None, 0, note, TRUE)
    <3>2. f \in FactType
      BY <1>1, <1>2, FactTyped
    <3>3. f.kind = "feedback_reported" /\ f.coins = 0
      BY DEF Fact
    <3> HIDE DEF f
    <3>4. Grown(play, Put(play, f))
      BY <1>1, <3>2, <3>3, PlainGrows
    <3> QED BY <3>1, <3>4 DEF f, RunEvent
  <2>2. CASE RunEvent(Put(play, Fact("navigator_used", play.stepIdx, None, 0, None, TRUE)))
    <3> DEFINE f == Fact("navigator_used", play.stepIdx, None, 0, None, TRUE)
    <3>2. f \in FactType
      BY <1>1, <1>2, FactTyped
    <3>3. f.kind = "navigator_used" /\ f.coins = 0
      BY DEF Fact
    <3> HIDE DEF f
    <3>4. Grown(play, Put(play, f))
      BY <1>1, <3>2, <3>3, PlainGrows
    <3> QED BY <2>2, <3>4 DEF f, RunEvent
  <2> QED BY <2>1, <2>2 DEF Report
<1> QED BY <1>3

LEMMA PressKeeps ==
  ASSUME IInv, Press
  PROVE  IInv' /\ Pays
<1>1. UNCHANGED <<disk, visit, rating>> /\ rating \in Scores \cup {0}
  BY DEF Press, IInv, Typed
<1> QED BY <1>1, PressGrows, EventKeeps

LEMMA ReportKeeps ==
  ASSUME IInv, Report
  PROVE  IInv' /\ Pays
<1>1. UNCHANGED <<disk, visit, rating>> /\ rating \in Scores \cup {0}
  BY DEF Report, IInv, Typed
<1> QED BY <1>1, ReportGrows, EventKeeps

LEMMA StarsKeep ==
  ASSUME IInv, NEW score \in Scores, TapStars(score)
  PROVE  IInv' /\ Pays
<1>1. Grown(play, play)
  BY PlayGrows
<1>2. rating' = score /\ UNCHANGED <<disk, visit>>
  BY DEF TapStars
<1>3. CASE LatestRating(play.facts) = 0
  <2>1. RunEvent(Rate(play, score, None))
    BY <1>3 DEF TapStars
  <2>2. Grown(play, Rate(play, score, None))
    BY <1>1, RateGrows
  <2> QED BY <1>2, <2>1, <2>2, EventKeeps DEF RunEvent
<1>4. CASE LatestRating(play.facts) # 0
  <2>1. play' = play /\ chain' = chain /\ saving' = saving
    BY <1>4 DEF TapStars
  <2>2. Quiet(Len(play.facts), play')
    BY <2>1, PlayQuiet
  <2>3. IInv'
    BY <1>1, <1>2, <2>1, <2>2, ViewKeeps DEF disk, visit
  <2> QED BY <2>1, <2>3 DEF Pays, ToSet
<1> QED BY <1>3, <1>4

LEMMA FinishKeeps ==
  ASSUME IInv, Finish
  PROVE  IInv' /\ Pays
<1>1. Grown(play, play) /\ play \in PlayType
  BY PlayGrows
<1> DEFINE shown == IF rating # 0 THEN rating ELSE LatestRating(play.facts)
<1>2. UNCHANGED <<disk, visit, rating>> /\ rating \in Scores \cup {0}
  BY DEF Finish, IInv, Typed
<1>3. shown \in Answers \cup Scores \cup {None, 0}
  BY <1>1, <1>2, PlayFields, LatestRatingTyped
<1>4. PICK review \in Reviews \cup {None} : RunEvent(Rate(play, shown, review))
  BY DEF Finish
<1> HIDE DEF shown
<1>5. Grown(play, Rate(play, shown, review))
  BY <1>1, <1>3, RateGrows
<1> QED BY <1>2, <1>4, <1>5, EventKeeps DEF RunEvent

LEMMA GoToKeeps ==
  ASSUME IInv, NEW to \in 0 .. LastStep, GoToStep(to)
  PROVE  IInv' /\ Pays
<1>1. Grown(play, play) /\ to \in Int
  BY PlayGrows
<1>2. /\ play' = AdvanceTo(play, to) /\ saving' = Saves(play')
      /\ UNCHANGED <<chain, disk, visit, rating>>
  BY DEF GoToStep, View
<1>3. Grown(play, play')
  BY <1>1, <1>2, AdvanceGrows
<1>4. rating' \in Scores \cup {0}
  BY <1>2 DEF IInv, Typed
<1>5. Quiet(Len(play.facts), play')
  BY <1>1, <1>2, PlayQuiet, AdvanceQuiet
<1>6. IInv'
  BY <1>2, <1>3, <1>4, <1>5, ViewKeeps DEF disk, visit
<1> QED BY <1>2, <1>6 DEF Pays, ToSet

LEMMA LoadKeeps ==
  ASSUME IInv, LoadFeatures
  PROVE  IInv' /\ Pays
<1>1. /\ universal' \in Universals
      /\ UNCHANGED <<play, chain, stored, resume, saving, rating, dropped, lost, visits>>
  BY DEF LoadFeatures, disk
<1>2. universal' \subseteq Answers /\ universal' \subseteq UNION Universals
  BY <1>1, UniversalsAssumption
<1>3. Typed'
  BY <1>1, <1>2 DEF IInv, Typed
<1>4. IInv'
  BY <1>1, <1>3 DEF IInv, OneKeyEach, ChainEarned, Ordered, Continues, Follows, KeptWrongs
<1> QED BY <1>1, <1>4 DEF Pays, ToSet

LEMMA SaveKeeps ==
  ASSUME IInv, SavePosition \/ PutRow
  PROVE  IInv' /\ Pays
<1>1. UNCHANGED <<play, chain, stored, universal, rating, dropped, lost, visits>>
  BY DEF SavePosition, PutRow, visit
<1>2. resume' \in Steps /\ saving' \in Seq(Steps)
  <2>1. resume \in Steps /\ saving \in Seq(Steps)
    BY DEF IInv, Typed
  <2>2. CASE SavePosition
    <3>1. saving # <<>> /\ resume' = Head(saving) /\ saving' = Tail(saving)
      BY <2>2 DEF SavePosition
    <3> QED BY <2>1, <3>1
  <2>3. CASE PutRow
    BY <2>1, <2>3, StepsAre DEF PutRow, Steps
  <2> QED BY <2>2, <2>3
<1>3. Typed'
  BY <1>1, <1>2 DEF IInv, Typed
<1>4. IInv'
  BY <1>1, <1>3 DEF IInv, OneKeyEach, ChainEarned, Ordered, Continues, Follows, KeptWrongs
<1> QED BY <1>1, <1>4 DEF Pays, ToSet

\* The first fact of the chain and the rest of it.
LEMMA ChainHead ==
  ASSUME NEW c \in Seq(FactType), c # <<>>
  PROVE  /\ Head(c) = c[1] /\ Head(c) \in FactType /\ Tail(c) \in Seq(FactType)
         /\ Len(c) \in Nat /\ 1 \in DOMAIN c /\ DOMAIN c = 1 .. Len(c)
         /\ DOMAIN Tail(c) = 1 .. Len(c) - 1
         /\ \A i \in DOMAIN Tail(c) : i + 1 \in DOMAIN c /\ Tail(c)[i] = c[i + 1]
<1>1. /\ Tail(c) \in Seq(FactType) /\ Len(Tail(c)) = Len(c) - 1
      /\ \A i \in 1 .. Len(Tail(c)) : Tail(c)[i] = c[i + 1]
  BY HeadTailProperties
<1>2. Head(c) = c[1] /\ Len(c) \in Nat /\ DOMAIN c = 1 .. Len(c) /\ Len(c) # 0
  OBVIOUS
<1>3. DOMAIN Tail(c) = 1 .. Len(c) - 1
  BY <1>1
<1>4. 1 \in DOMAIN c /\ \A i \in 1 .. Len(c) - 1 : i + 1 \in 1 .. Len(c)
  BY <1>2
<1>5. Head(c) \in FactType
  BY <1>2, <1>4
<1> QED BY <1>1, <1>2, <1>3, <1>4, <1>5

LEMMA TailPays ==
  ASSUME IInv, chain # <<>>, chain' = Tail(chain)
  PROVE  Pays
<1>1. chain \in Seq(FactType)
  BY DEF IInv, Typed
<1>2. \A i \in DOMAIN chain' : chain'[i] \in ToSet(chain)
  BY <1>1, ChainHead DEF ToSet
<1> QED BY <1>2 DEF Pays

LEMMA FailKeeps ==
  ASSUME IInv, WriteFails
  PROVE  IInv' /\ Pays
<1>1. /\ chain # <<>> /\ dropped' = TRUE /\ lost' = TRUE /\ chain' = Tail(chain)
      /\ UNCHANGED <<play, stored, resume, saving, universal, rating, visits>>
  BY DEF WriteFails, disk
<1>2. chain \in Seq(FactType)
  BY DEF IInv, Typed
<1>3. Typed'
  BY <1>1, <1>2, ChainHead DEF IInv, Typed
<1>4. Among(chain', play'.facts)
  BY <1>1, <1>2, ChainHead DEF IInv, Among
<1>5. IInv'
  BY <1>1, <1>3, <1>4 DEF IInv, OneKeyEach
<1> QED BY <1>1, <1>5, TailPays

\* A row stands for every fact of its natural key.
LEMMA SameKey ==
  ASSUME NEW f, NEW g, Key(f) = Key(g)
  PROVE  f.kind = g.kind /\ f.step = g.step /\ f.value = g.value
         /\ \A p : Finds(f, p) => Finds(g, p)
<1>1. f.kind = g.kind /\ f.step = g.step /\ f.value = g.value
  BY DEF Key
<1> QED BY <1>1 DEF Finds

LEMMA AbsorbIs ==
  ASSUME NEW log \in Seq(FactType), NEW f \in FactType
  PROVE  /\ Absorb(log, f) \in Seq(FactType)
         /\ \A i \in DOMAIN log : i \in DOMAIN Absorb(log, f) /\ Absorb(log, f)[i] = log[i]
         /\ \A i \in DOMAIN Absorb(log, f) : i \in DOMAIN log \/ Absorb(log, f)[i] = f
         /\ \E i \in DOMAIN Absorb(log, f) : Key(Absorb(log, f)[i]) = Key(f)
<1>1. CASE \E i \in DOMAIN log : Key(log[i]) = Key(f)
  <2>1. Absorb(log, f) = log
    BY <1>1 DEF Absorb
  <2> QED BY <1>1, <2>1
<1>2. CASE ~\E i \in DOMAIN log : Key(log[i]) = Key(f)
  <2>1. Absorb(log, f) = Append(log, f)
    BY <1>2 DEF Absorb
  <2>2. Append(log, f) \in Seq(FactType) /\ Len(Append(log, f)) = Len(log) + 1 /\ Len(log) \in Nat
    BY AppendAt
  <2>3. DOMAIN log = 1 .. Len(log) /\ DOMAIN Append(log, f) = 1 .. Len(log) + 1
    BY <2>2
  <2>4. \A i \in 1 .. Len(log) : Append(log, f)[i] = log[i]
    BY AppendAt
  <2>5. Append(log, f)[Len(log) + 1] = f
    BY AppendAt
  <2>6. \A i \in 1 .. Len(log) + 1 : i \in 1 .. Len(log) \/ i = Len(log) + 1
    BY <2>2
  <2>7. Len(log) + 1 \in 1 .. Len(log) + 1 /\ \A i \in 1 .. Len(log) : i \in 1 .. Len(log) + 1
    BY <2>2
  <2> QED BY <2>1, <2>2, <2>3, <2>4, <2>5, <2>6, <2>7
<1> QED BY <1>1, <1>2

LEMMA AbsorbKeys ==
  ASSUME NEW log \in Seq(FactType), NEW f \in FactType,
         \A i, j \in DOMAIN log : Key(log[i]) = Key(log[j]) => i = j
  PROVE  \A i, j \in DOMAIN Absorb(log, f) : Key(Absorb(log, f)[i]) = Key(Absorb(log, f)[j]) => i = j
<1>1. CASE \E i \in DOMAIN log : Key(log[i]) = Key(f)
  <2>1. Absorb(log, f) = log
    BY <1>1 DEF Absorb
  <2> QED BY <2>1
<1>2. CASE ~\E i \in DOMAIN log : Key(log[i]) = Key(f)
  <2>1. Absorb(log, f) = Append(log, f)
    BY <1>2 DEF Absorb
  <2>2. /\ Append(log, f) \in Seq(FactType) /\ Len(Append(log, f)) = Len(log) + 1
        /\ Len(log) \in Nat /\ DOMAIN log = 1 .. Len(log)
    BY AppendAt
  <2>3. DOMAIN Append(log, f) = 1 .. Len(log) + 1
    BY <2>2
  <2>4. /\ \A i \in 1 .. Len(log) : Append(log, f)[i] = log[i]
        /\ Append(log, f)[Len(log) + 1] = f
    BY AppendAt
  <2>5. \A i \in 1 .. Len(log) + 1 : i \in 1 .. Len(log) \/ i = Len(log) + 1
    BY <2>2
  <2> HIDE DEF Key
  <2> QED BY <1>2, <2>1, <2>2, <2>3, <2>4, <2>5
<1> QED BY <1>1, <1>2

\* A mistake is never taken for one that is stored, and takes the next number there.
LEMMA WriteOrders ==
  ASSUME IInv, Ordered, WriteFact
  PROVE  Ordered'
<1> DEFINE f == chain[1]
           m == Len(stored)
<1>1. /\ chain # <<>> /\ stored' = Absorb(stored, Head(chain)) /\ chain' = Tail(chain)
      /\ play' = play
  BY DEF WriteFact
<1>2. chain \in Seq(FactType) /\ stored \in Seq(FactType) /\ m \in Nat /\ DOMAIN stored = 1 .. m
  <2>1. chain \in Seq(FactType) /\ stored \in Seq(FactType)
    BY DEF IInv, Typed
  <2> QED BY <2>1
<1>3. f \in FactType /\ stored' = Absorb(stored, f) /\ 1 \in DOMAIN chain
  BY <1>1, <1>2, ChainHead
<1>4. \* what follows the head keeps its place
      /\ Len(chain) \in Nat /\ DOMAIN chain = 1 .. Len(chain) /\ DOMAIN chain' = 1 .. Len(chain) - 1
      /\ \A i \in DOMAIN chain' : i + 1 \in DOMAIN chain /\ chain'[i] = chain[i + 1]
  BY <1>1, <1>2, ChainHead
<1>5. /\ \A i \in DOMAIN stored : i \in DOMAIN stored' /\ stored'[i] = stored[i]
      /\ \A i \in DOMAIN stored' : i \in DOMAIN stored \/ stored'[i] = f
  <2> HIDE DEF f
  <2> QED BY <1>2, <1>3, AbsorbIs
<1>6. Wrong(f) => Follows(1)
  BY <1>3 DEF Ordered, Continues
<1>7. ASSUME Wrong(f)
      PROVE  ~\E i \in DOMAIN stored : Key(stored[i]) = Key(f)
  <2> SUFFICES ASSUME NEW i \in DOMAIN stored, Key(stored[i]) = Key(f)
               PROVE  FALSE
    OBVIOUS
  <2>1. stored[i].kind = "answer_submitted" /\ SameText(stored[i], f) /\ stored[i].note = f.note
    BY <1>7 DEF Key, SameText, Wrong
  <2>2. Precedes(stored[i], f) /\ Rank(f) \in Nat \ {0}
    BY <1>6, <1>7 DEF Follows
  <2>3. Rank(stored[i]) < Rank(f) /\ Rank(stored[i]) = Rank(f)
    BY <2>1, <2>2 DEF Precedes, Rank
  <2> QED BY <2>2, <2>3
<1>8. ASSUME Wrong(f)
      PROVE  /\ stored' = Append(stored, f) /\ stored'[m + 1] = f
             /\ m + 1 \in DOMAIN stored' /\ \A i \in DOMAIN stored' : i \in 1 .. m \/ i = m + 1
  <2>1. stored' = Append(stored, f)
    BY <1>3, <1>7, <1>8 DEF Absorb
  <2> HIDE DEF f
  <2>2. /\ Append(stored, f) \in Seq(FactType) /\ Len(Append(stored, f)) = m + 1
        /\ Append(stored, f)[m + 1] = f
    BY <1>2, <1>3, AppendAt
  <2>3. DOMAIN Append(stored, f) = 1 .. m + 1
    BY <2>2
  <2> QED BY <1>2, <2>1, <2>2, <2>3
<1> HIDE DEF f, m
<1>9. Numbered(stored')
  <2> SUFFICES ASSUME NEW i \in DOMAIN stored', Wrong(stored'[i])
               PROVE  Rank(stored'[i]) = Cardinality(Repeats(stored', i - 1, stored'[i])) + 1
    BY DEF Numbered
  <2>1. CASE i \in DOMAIN stored
    <3>1. stored'[i] = stored[i] /\ \A j \in 1 .. i - 1 : stored'[j] = stored[j]
      BY <1>2, <1>5, <2>1
    <3>2. Repeats(stored', i - 1, stored'[i]) = Repeats(stored, i - 1, stored[i])
      BY <3>1 DEF Repeats
    <3> QED BY <2>1, <3>1, <3>2 DEF Ordered, Numbered
  <2>2. CASE i \notin DOMAIN stored
    <3>1. stored'[i] = f /\ Wrong(f)
      BY <1>5, <2>2
    <3>2. i = m + 1 /\ i - 1 = m
      BY <1>2, <1>8, <2>2, <3>1
    <3>3. Repeats(stored', m, f) = Repeats(stored, m, f)
      BY <1>2, <1>5 DEF Repeats
    <3>4. /\ Rank(f) \in Nat \ {0}
          /\ \A j \in DOMAIN stored : Precedes(stored[j], f)
          /\ Rank(f) # 1 => \E j \in DOMAIN stored : Leads(stored[j], f)
      BY <1>6, <3>1 DEF Follows, f
    <3>5. Rank(f) = Cardinality(Repeats(stored, m, f)) + 1
      BY <1>2, <3>4, RankNext DEF Ordered, m
    <3> QED BY <3>1, <3>2, <3>3, <3>5
  <2> QED BY <2>1, <2>2
<1>10. ASSUME NEW i \in DOMAIN chain', Wrong(chain'[i])
       PROVE  Follows(i)'
  <2> DEFINE g == chain[i + 1]
  <2>1. /\ chain'[i] = g /\ i + 1 \in DOMAIN chain /\ (i + 1) - 1 = i /\ 1 \in 1 .. i
        /\ \A j \in 1 .. i : j = 1 \/ (j - 1 \in 1 .. i - 1 /\ (j - 1) + 1 = j)
        /\ \A j \in 1 .. i - 1 : j \in DOMAIN chain' /\ j + 1 \in 1 .. i /\ chain'[j] = chain[j + 1]
    BY <1>4
  <2>2. /\ Rank(g) \in Nat \ {0}
        /\ \A j \in DOMAIN stored : Precedes(stored[j], g)
        /\ \A j \in 1 .. i : Precedes(chain[j], g)
        /\ Rank(g) # 1 => \/ \E j \in DOMAIN stored : Leads(stored[j], g)
                          \/ \E j \in 1 .. i : Leads(chain[j], g)
    <3>1. Follows(i + 1)
      BY <1>10, <2>1 DEF Ordered, Continues
    <3> QED BY <2>1, <3>1 DEF Follows
  <2> HIDE DEF g
  <2>3. \A j \in DOMAIN stored' : Precedes(stored'[j], g)
    BY <1>5, <2>1, <2>2 DEF f
  <2>4. \A j \in 1 .. i - 1 : Precedes(chain'[j], g)
    BY <2>1, <2>2
  <2>5. ASSUME Rank(g) # 1
        PROVE  \/ \E j \in DOMAIN stored' : Leads(stored'[j], g)
               \/ \E j \in 1 .. i - 1 : Leads(chain'[j], g)
    <3>1. CASE \E j \in DOMAIN stored : Leads(stored[j], g)
      BY <1>5, <3>1
    <3>2. CASE \E j \in 1 .. i : Leads(chain[j], g)
      <4>1. PICK j \in 1 .. i : Leads(chain[j], g)
        BY <3>2
      <4>2. CASE j = 1
        <5>1. Leads(f, g) /\ Wrong(f)
          BY <4>1, <4>2 DEF f, Leads
        <5> QED BY <1>8, <5>1
      <4>3. CASE j # 1
        <5>1. j - 1 \in 1 .. i - 1 /\ (j - 1) + 1 = j
          BY <2>1, <4>3
        <5>2. chain'[j - 1] = chain[j]
          BY <2>1, <5>1
        <5> QED BY <4>1, <5>1, <5>2
      <4> QED BY <4>2, <4>3
    <3> QED BY <2>2, <2>5, <3>1, <3>2
  <2> QED BY <2>1, <2>2, <2>3, <2>4, <2>5 DEF Follows
<1>11. ASSUME NEW i \in DOMAIN play.facts, Wrong(play.facts[i])
       PROVE  \/ \E j \in DOMAIN stored' : stored'[j] = play.facts[i]
              \/ \E j \in DOMAIN chain' : chain'[j] = play.facts[i]
  <2>1. CASE \E j \in DOMAIN stored : stored[j] = play.facts[i]
    BY <1>5, <2>1
  <2>2. CASE \E j \in DOMAIN chain : chain[j] = play.facts[i]
    <3>1. PICK j \in DOMAIN chain : chain[j] = play.facts[i]
      BY <2>2
    <3>2. CASE j = 1
      <4>1. f = play.facts[i]
        BY <3>1, <3>2 DEF f
      <4> QED BY <1>8, <1>11, <4>1
    <3>3. CASE j # 1
      <4>1. j - 1 \in DOMAIN chain' /\ (j - 1) + 1 = j
        BY <1>4, <3>3
      <4>2. chain'[j - 1] = chain[j]
        BY <1>4, <4>1
      <4> QED BY <3>1, <4>1, <4>2
    <3> QED BY <3>2, <3>3
  <2> QED BY <1>11, <2>1, <2>2 DEF Ordered, KeptWrongs
<1>12. Continues' /\ KeptWrongs'
  BY <1>1, <1>10, <1>11 DEF Continues, KeptWrongs
<1>13. Numbered(play'.facts)
  BY <1>1 DEF Ordered
<1> QED BY <1>9, <1>12, <1>13 DEF Ordered

\* A fact reaches storage after the answer it is for.
LEMMA WriteKeeps ==
  ASSUME IInv, WriteFact
  PROVE  IInv' /\ Pays
<1> DEFINE f == chain[1]
<1>1. /\ chain # <<>> /\ stored' = Absorb(stored, Head(chain)) /\ chain' = Tail(chain)
      /\ UNCHANGED <<play, resume, saving, universal, rating, dropped, visits>>
      /\ lost' \in BOOLEAN
  BY DEF WriteFact
<1>2. chain \in Seq(FactType) /\ stored \in Seq(FactType)
  BY DEF IInv, Typed
<1>3. f \in FactType /\ stored' = Absorb(stored, f) /\ 1 \in DOMAIN chain /\ chain' \in Seq(FactType)
  BY <1>1, <1>2, ChainHead
<1>4. /\ stored' \in Seq(FactType)
      /\ \A i \in DOMAIN stored : i \in DOMAIN stored' /\ stored'[i] = stored[i]
      /\ \A i \in DOMAIN stored' : i \in DOMAIN stored \/ stored'[i] = f
      /\ \E i \in DOMAIN stored' : Key(stored'[i]) = Key(f)
  <2> HIDE DEF f
  <2> QED BY <1>2, <1>3, AbsorbIs
<1>5. \A i \in DOMAIN chain' : i + 1 \in DOMAIN chain /\ chain'[i] = chain[i + 1]
  BY <1>1, <1>2, ChainHead
<1>6. Typed'
  BY <1>1, <1>3, <1>4 DEF IInv, Typed
<1>7. OneKeyEach'
  <2>1. \A i, j \in DOMAIN stored : Key(stored[i]) = Key(stored[j]) => i = j
    BY DEF IInv, OneKeyEach
  <2> HIDE DEF f
  <2>2. \A i, j \in DOMAIN Absorb(stored, f) :
          Key(Absorb(stored, f)[i]) = Key(Absorb(stored, f)[j]) => i = j
    BY <1>2, <1>3, <2>1, AbsorbKeys
  <2> QED BY <1>3, <2>2 DEF OneKeyEach
<1>8. Among(chain', play'.facts) /\ Among(stored', play'.facts)
  BY <1>1, <1>3, <1>4, <1>5 DEF IInv, Among
<1>9. Single(play'.facts) /\ Priced(play'.facts)
  BY <1>1 DEF IInv
<1>10. ASSUME ~dropped'
       PROVE  Earned(play'.facts) /\ Earned(stored') /\ ChainEarned'
  <2>1. Earned(play.facts) /\ Earned(stored) /\ ChainEarned
    BY <1>1, <1>10 DEF IInv
  <2>2. \A p : Finds(f, p) => \E j \in DOMAIN stored' : Finds(stored'[j], p)
    BY <1>4, SameKey
  <2>3. \A p : (\E j \in DOMAIN stored : Finds(stored[j], p))
                 => \E j \in DOMAIN stored' : Finds(stored'[j], p)
    BY <1>4
  <2>4. Earned(stored')
    <3>1. Gifts(f) => \E j \in DOMAIN stored : Finds(stored[j], f.step)
      BY <1>3, <2>1 DEF ChainEarned
    <3>2. \A i \in DOMAIN stored : Gifts(stored[i]) =>
            \E j \in DOMAIN stored : Finds(stored[j], stored[i].step)
      BY <2>1 DEF Earned
    <3> HIDE DEF f
    <3>3. ASSUME NEW i \in DOMAIN stored', Gifts(stored'[i])
          PROVE  \E j \in DOMAIN stored' : Finds(stored'[j], stored'[i].step)
      <4>1. CASE i \in DOMAIN stored
        BY <1>4, <2>3, <3>2, <3>3, <4>1
      <4>2. CASE stored'[i] = f
        BY <2>3, <3>1, <3>3, <4>2
      <4> QED BY <1>4, <4>1, <4>2
    <3> QED BY <3>3 DEF Earned
  <2>5. ChainEarned'
    <3> SUFFICES ASSUME NEW i \in DOMAIN chain', Gifts(chain'[i])
                 PROVE  \/ \E j \in DOMAIN stored' : Finds(stored'[j], chain'[i].step)
                        \/ \E j \in 1 .. i - 1 : Finds(chain'[j], chain'[i].step)
      BY DEF ChainEarned
    <3>1. i + 1 \in DOMAIN chain /\ chain'[i] = chain[i + 1] /\ i \in Nat /\ (i + 1) - 1 = i
      <4>1. DOMAIN chain' = 1 .. Len(chain) - 1
        BY <1>1, <1>2, ChainHead
      <4> QED BY <1>5, <4>1
    <3>2. \/ \E j \in DOMAIN stored : Finds(stored[j], chain[i + 1].step)
          \/ \E j \in 1 .. i : Finds(chain[j], chain[i + 1].step)
      BY <2>1, <3>1 DEF ChainEarned
    <3>3. CASE \E j \in DOMAIN stored : Finds(stored[j], chain[i + 1].step)
      BY <2>3, <3>1, <3>3
    <3>4. CASE \E j \in 1 .. i : Finds(chain[j], chain[i + 1].step)
      <4>1. PICK j \in 1 .. i : Finds(chain[j], chain[i + 1].step)
        BY <3>4
      <4>2. CASE j = 1
        BY <2>2, <3>1, <4>1, <4>2
      <4>3. CASE j # 1
        <5>1. j - 1 \in 1 .. i - 1 /\ (j - 1) + 1 = j
          BY <3>1, <4>3
        <5>2. j - 1 \in DOMAIN chain'
          <6>1. DOMAIN chain' = 1 .. Len(chain) - 1 /\ Len(chain) \in Nat
            BY <1>1, <1>2, ChainHead
          <6> QED BY <3>1, <5>1, <6>1
        <5>3. chain'[j - 1] = chain[j]
          BY <1>5, <5>1, <5>2
        <5> QED BY <3>1, <4>1, <5>1, <5>3
      <4> QED BY <4>2, <4>3
    <3> QED BY <3>2, <3>3, <3>4
  <2> QED BY <1>1, <2>1, <2>4, <2>5
<1>11. ~dropped' => Ordered'
  BY <1>1, WriteOrders DEF IInv
<1>12. IInv'
  BY <1>6, <1>7, <1>8, <1>9, <1>10, <1>11 DEF IInv
<1> QED BY <1>1, <1>12, TailPays

\* Storage holds at most one solution of a question, since the log does.
LEMMA StoredSingle ==
  ASSUME IInv
  PROVE  Single(stored)
<1> SUFFICES ASSUME NEW i \in DOMAIN stored, NEW j \in DOMAIN stored,
                    Solves(stored[i]), Solves(stored[j]), stored[i].step = stored[j].step
             PROVE  i = j
  BY DEF Single
<1>1. PICK k \in DOMAIN play.facts : stored[i] = play.facts[k]
  BY DEF IInv, Among
<1>2. PICK l \in DOMAIN play.facts : stored[j] = play.facts[l]
  BY DEF IInv, Among
<1>3. k = l
  BY <1>1, <1>2 DEF IInv, Single
<1>4. Key(stored[i]) = Key(stored[j])
  BY <1>1, <1>2, <1>3
<1> QED BY <1>4 DEF IInv, OneKeyEach

\* A page opened on what was stored.
LEMMA ReopenKeeps ==
  ASSUME IInv, Reopen
  PROVE  IInv' /\ Pays
<1>1. PICK known \in SUBSET Elsewhere :
        LET opened == NewPlay(stored, resume, known)
            begun  == IF Quest[resume].template = "finale" THEN CompleteAttempt(opened)
                      ELSE opened
        IN play' = begun /\ chain' = Fresh(begun, stored)
  BY DEF Reopen
<1> DEFINE opened == NewPlay(stored, resume, known)
           begun  == IF Quest[resume].template = "finale" THEN CompleteAttempt(opened) ELSE opened
<1>2. /\ visits < MaxVisits /\ visits' = visits + 1 /\ universal' = {} /\ rating' = 0
      /\ stored' = stored /\ resume' = resume /\ saving' = <<resume>>
      /\ dropped' = dropped /\ lost' = (lost \/ chain # <<>>)
  BY DEF Reopen, disk
<1>3. /\ stored \in Seq(FactType) /\ resume \in Steps /\ visits \in 0 .. MaxVisits
      /\ dropped \in BOOLEAN /\ lost \in BOOLEAN
  BY DEF IInv, Typed
<1>4. /\ opened \in PlayType /\ opened.facts = stored /\ opened.stepIdx = resume
      /\ opened.maxStepIdx = resume
  <2>1. known \subseteq Once
    BY LimitsAssumption
  <2> QED BY <1>3, <2>1 DEF NewPlay, PlayType
<1> HIDE DEF opened
<1>5. Grown(opened, opened)
  BY <1>3, <1>4, GrownSelf DEF Steps
<1>6. Grown(opened, begun)
  <2>1. Quest[resume].template = "finale" => opened.stepIdx = LastStep
    BY <1>3, <1>4, QuestTypes
  <2> QED BY <1>5, <2>1, CompleteGrows
<1>7. play' = begun /\ chain' = Fresh(begun, opened.facts)
  BY <1>1, <1>4 DEF opened
<1> HIDE DEF begun
<1>8. Grown(opened, play') /\ chain' = Fresh(play', opened.facts)
  BY <1>6, <1>7
<1>9. /\ chain' \in Seq(FactType)
      /\ DOMAIN chain' = 1 .. Len(play'.facts) - Len(opened.facts)
  <2>1. /\ Fresh(play', opened.facts) \in Seq(FactType)
        /\ Len(Fresh(play', opened.facts)) = Len(play'.facts) - Len(opened.facts)
    BY <1>8, FreshIs
  <2>2. chain' \in Seq(FactType) /\ Len(chain') = Len(play'.facts) - Len(opened.facts)
    BY <1>8, <2>1
  <2>3. \A c \in Seq(FactType) : DOMAIN c = 1 .. Len(c)
    OBVIOUS
  <2> QED BY <2>2, <2>3
<1>10. Typed'
  <2>1. play' \in PlayType /\ play'.stepIdx <= play'.maxStepIdx
    BY <1>8 DEF Grown
  <2>2. saving' \in Seq(Steps)
    BY <1>2, <1>3
  <2>3. visits' \in 0 .. MaxVisits
    BY <1>2, <1>3, LimitsAssumption
  <2> QED BY <1>2, <1>3, <1>9, <2>1, <2>2, <2>3 DEF Typed
<1>11. OneKeyEach'
  BY <1>2 DEF IInv, OneKeyEach
<1>12. Among(chain', play'.facts)
  <2> DEFINE n == Len(opened.facts)
  <2>1. \A i \in DOMAIN chain' :
          chain'[i] = play'.facts[n + i] /\ n + i \in DOMAIN play'.facts
    BY <1>8, <1>9, FreshIs
  <2> HIDE DEF n
  <2> QED BY <2>1 DEF Among
<1>13. Among(stored', play'.facts)
  <2>1. Among(stored, opened.facts)
    BY <1>4 DEF Among
  <2> QED BY <1>2, <1>8, <2>1, GrownAmong
<1>14. Single(play'.facts) /\ Priced(play'.facts)
  <2>1. Priced(stored)
    <3>1. stored \in Seq(FactType)
      BY <1>3
    <3>2. \A i, j \in DOMAIN stored : i < j => i # j
      BY <3>1
    <3> QED BY <3>2 DEF IInv, OneKeyEach, Priced
  <2> QED BY <1>4, <1>8, <2>1, StoredSingle, GrownSingle, GrownPriced
<1>15. ASSUME ~dropped'
       PROVE  Earned(play'.facts) /\ Earned(stored') /\ ChainEarned'
  <2>1. Earned(stored)
    BY <1>2, <1>15 DEF IInv
  <2>2. Earned(play'.facts)
    BY <1>4, <1>8, <2>1, GrownEarned
  <2>3. \A i \in DOMAIN chain' : Gifts(chain'[i]) =>
          \E k \in 1 .. i - 1 : Finds(chain'[k], chain'[i].step)
    BY <1>8, <1>9, AddedEarned
  <2> QED BY <1>2, <2>1, <2>2, <2>3 DEF ChainEarned
<1>16. ASSUME ~dropped'
       PROVE  Ordered'
  <2> DEFINE n == Len(opened.facts)
  <2>1. Numbered(stored)
    BY <1>2, <1>16 DEF IInv, Ordered
  <2>2. Numbered(play'.facts) /\ Numbered(stored')
    BY <1>2, <1>4, <1>8, <2>1, GrownNumbered
  <2>3. Quiet(n, play')
    <3>1. n \in Nat /\ DOMAIN opened.facts = 1 .. n
      BY <1>5, GrownLogs
    <3>2. Quiet(n, opened)
      BY <1>4, <3>1 DEF Quiet
    <3>3. Quest[resume].template = "finale" => ~Gate(opened.stepIdx)
      BY <1>4 DEF Gate
    <3> HIDE DEF n
    <3> QED BY <1>7, <3>2, <3>3, CompleteQuiet DEF begun
  <2>4. \A i \in DOMAIN play'.facts : Wrong(play'.facts[i]) =>
          i \in DOMAIN opened.facts /\ play'.facts[i] = opened.facts[i]
    BY <1>8, <2>3, GrownLogs DEF Quiet
  <2>5. KeptWrongs'
    BY <1>2, <1>4, <2>4 DEF KeptWrongs
  <2>6. \A i \in DOMAIN chain' : ~Wrong(chain'[i])
    <3>1. \A i \in 1 .. Len(play'.facts) - n :
            /\ chain'[i] = play'.facts[n + i] /\ n + i \in DOMAIN play'.facts
      BY <1>8, FreshIs
    <3>2. \A i \in 1 .. Len(play'.facts) - n : n + i \notin 1 .. n
      BY <1>8, GrownLogs
    <3> QED BY <1>9, <2>3, <3>1, <3>2 DEF Quiet
  <2> QED BY <2>2, <2>5, <2>6 DEF Ordered, Continues
<1>17. IInv'
  BY <1>10, <1>11, <1>12, <1>13, <1>14, <1>15, <1>16 DEF IInv
<1>18. Pays
  <2>1. Among(stored, opened.facts)
    BY <1>4 DEF Among
  <2>2. \A i \in DOMAIN chain' : chain'[i].kind \in Once =>
          chain'[i].kind \notin play'.paid /\ ~Has(stored, chain'[i].kind)
    BY <1>8, <1>9, <2>1, RunPays
  <2> QED BY <2>2 DEF Pays
<1> QED BY <1>17, <1>18

-----------------------------------------------------------------------------
(* The invariant of every behaviour.                                        *)

LEMMA InitHolds == Init => IInv
<1> SUFFICES ASSUME Init
             PROVE  IInv
  OBVIOUS
<1>1. PICK paid \in SUBSET Elsewhere : play = NewPlay(<<>>, 0, paid)
  BY DEF Init
<1>2. /\ chain = <<>> /\ stored = <<>> /\ resume = 0
      /\ saving = <<0>> /\ lost = FALSE
      /\ universal = {} /\ rating = 0 /\ dropped = FALSE /\ visits = 0
  BY DEF Init
<1>3. /\ play \in PlayType /\ play.facts = <<>> /\ play.stepIdx = 0 /\ play.maxStepIdx = 0
  BY <1>1, StepsAre, LimitsAssumption DEF NewPlay, PlayType
<1>4. Typed
  <2>1. play.stepIdx <= play.maxStepIdx /\ resume \in Steps /\ saving \in Seq(Steps)
    BY <1>2, <1>3, StepsAre
  <2>2. chain \in Seq(FactType) /\ stored \in Seq(FactType)
    BY <1>2
  <2>3. visits \in 0 .. MaxVisits
    BY <1>2, LimitsAssumption
  <2> QED BY <1>2, <1>3, <2>1, <2>2, <2>3 DEF Typed
<1>5. OneKeyEach
  BY <1>2 DEF OneKeyEach
<1>6. /\ Among(chain, play.facts) /\ Among(stored, play.facts)
      /\ Single(play.facts) /\ Priced(play.facts)
  BY <1>2, <1>3 DEF Among, Single, Priced
<1>7. Earned(play.facts) /\ Earned(stored) /\ ChainEarned
  BY <1>2, <1>3 DEF Earned, ChainEarned
<1>8. Ordered
  BY <1>2, <1>3 DEF Ordered, Numbered, Continues, KeptWrongs
<1> QED BY <1>4, <1>5, <1>6, <1>7, <1>8 DEF IInv

LEMMA NextKeeps ==
  ASSUME IInv, Next
  PROVE  IInv' /\ Pays
<1>1. CASE Press      BY <1>1, PressKeeps
<1>2. CASE Report     BY <1>2, ReportKeeps
<1>3. CASE Finish     BY <1>3, FinishKeeps
<1>4. CASE \E score \in Scores : TapStars(score)
  BY <1>4, StarsKeep
<1>5. CASE \E to \in 0 .. LastStep : GoToStep(to)
  BY <1>5, GoToKeeps
<1>6. CASE LoadFeatures  BY <1>6, LoadKeeps
<1>7. CASE WriteFact     BY <1>7, WriteKeeps
<1>8. CASE WriteFails    BY <1>8, FailKeeps
<1>9. CASE SavePosition \/ PutRow  BY <1>9, SaveKeeps
<1>10. CASE Reopen       BY <1>10, ReopenKeeps
<1> QED BY <1>1, <1>2, <1>3, <1>4, <1>5, <1>6, <1>7, <1>8, <1>9, <1>10 DEF Next

LEMMA StutterKeeps ==
  ASSUME IInv, UNCHANGED vars
  PROVE  IInv'
BY DEF vars, IInv, Typed, OneKeyEach, ChainEarned, Ordered, Continues, Follows, KeptWrongs

LEMMA Inductive == Spec => []IInv
<1>1. IInv /\ [Next]_vars => IInv'
  BY NextKeeps, StutterKeeps
<1> QED BY InitHolds, <1>1, PTL DEF Spec

-----------------------------------------------------------------------------
\* Every variable keeps its type, and no natural key is stored twice, for every quest.
THEOREM TypeCorrect == Spec => []TypeOK
<1>1. IInv => TypeOK
  <2> SUFFICES ASSUME IInv
               PROVE  TypeOK
    OBVIOUS
  <2>1. /\ play.facts \in Seq(FactType) /\ play.stepIdx \in Steps /\ play.maxStepIdx \in Steps
        /\ play.offer \in Steps \cup {None} /\ play.paid \subseteq Once
        /\ play.stepIdx <= play.maxStepIdx
    BY PlayFields DEF IInv, Typed
  <2>2. IsLog(play.facts) /\ IsLog(chain) /\ IsLog(stored)
    BY <2>1 DEF IInv, Typed, IsLog
  <2>3. play.maxStepIdx \in play.stepIdx .. LastStep
    BY <2>1 DEF Steps
  <2>4. ToSet(saving) \subseteq 0 .. LastStep
    <3>1. saving \in Seq(Steps)
      BY DEF IInv, Typed
    <3>2. \A i \in DOMAIN saving : saving[i] \in Steps
      BY <3>1
    <3> QED BY <3>2 DEF ToSet, Steps
  <2>5. \A i, j \in DOMAIN stored : Key(stored[i]) = Key(stored[j]) => i = j
    BY DEF IInv, OneKeyEach
  <2>6. /\ resume \in 0 .. LastStep /\ universal \subseteq Answers
        /\ rating \in Scores \cup {0} /\ visits \in 0 .. MaxVisits
        /\ dropped \in BOOLEAN /\ lost \in BOOLEAN
    BY DEF IInv, Typed, Steps
  <2> QED BY <2>1, <2>2, <2>3, <2>4, <2>5, <2>6 DEF TypeOK, Steps
<1> QED BY Inductive, <1>1, PTL

\* A set whose elements are all the same has one at most.
LEMMA AtMostOne ==
  ASSUME NEW S, \A x, y \in S : x = y
  PROVE  Cardinality(S) \in {0, 1}
<1>1. CASE S = {}
  BY <1>1, FS_EmptySet
<1>2. CASE S # {}
  <2>1. PICK x \in S : S = {x}
    BY <1>2
  <2> QED BY <2>1, FS_Singleton
<1> QED BY <1>1, <1>2

\* An answer step has one solution, found or bought, and its gift is for an accepted
\* answer, whatever is pressed in whatever order, and however often the page is
\* reopened on what was written so far.
THEOREM SolvedOnce == Spec => []OneSolution
<1>1. IInv => OneSolution
  <2> SUFFICES ASSUME IInv, NEW p \in 0 .. LastStep, Quest[p].template = "answer"
               PROVE  LET log == play.facts
                          solutions == {i \in DOMAIN log : log[i].step = p /\ CompletesStep(log[i])}
                          accepted  == Quest[p].accept \cup UNION Universals
                          found     == {i \in DOMAIN log :
                                          /\ log[i].kind = "answer_submitted"
                                          /\ log[i].step = p /\ log[i].value \in accepted}
                      IN /\ Cardinality(solutions) <= 1
                         /\ HasAt(log, p, "gift_claimed") /\ ~dropped => found # {}
    BY DEF OneSolution
  <2> DEFINE log == play.facts
             solutions == {i \in DOMAIN log : log[i].step = p /\ CompletesStep(log[i])}
             found == {i \in DOMAIN log :
                         /\ log[i].kind = "answer_submitted" /\ log[i].step = p
                         /\ log[i].value \in Quest[p].accept \cup UNION Universals}
  <2>1. \A i, j \in solutions : i = j
    BY DEF IInv, Single, Solves, AnswerStep
  <2>2. Cardinality(solutions) <= 1
    <3> HIDE DEF solutions
    <3>1. Cardinality(solutions) \in {0, 1}
      BY <2>1, AtMostOne
    <3> QED BY <3>1
  <2>3. ASSUME HasAt(log, p, "gift_claimed"), ~dropped
        PROVE  found # {}
    <3>1. PICK i \in DOMAIN log : log[i].kind = "gift_claimed" /\ log[i].step = p
      BY <2>3 DEF HasAt
    <3>2. PICK j \in DOMAIN log : Finds(log[j], p)
      BY <2>3, <3>1 DEF IInv, Earned, Gifts, AnswerStep
    <3> QED BY <3>2 DEF Finds
  <2> QED BY <2>2, <2>3
<1> QED BY Inductive, <1>1, PTL

\* No step of the page hands the sink a once-ever bonus that another attempt is
\* known to have earned, or that is already in storage.
THEOREM BonusesPayOnce == Spec => PaysOnce
<1>1. IInv /\ [Next]_vars =>
        [\A i \in DOMAIN chain' :
           chain'[i].kind \in Once /\ chain'[i] \notin ToSet(chain)
             => chain'[i].kind \notin play'.paid /\ ~Has(stored, chain'[i].kind)]_vars
  BY NextKeeps DEF Pays
<1> QED BY <1>1, Inductive, PTL DEF Spec, PaysOnce

-----------------------------------------------------------------------------
(* The stored position.  A page only gets past a gate with the fact that opens it   *)
(* (Climbs, one lemma per operator of the engine again), and while nothing is lost  *)
(* that fact is in storage or on its way there.                                     *)

\* b gets no further than a, but past gates it has opened; its popup is for a step
\* that was reached.
Climbs(a, b) ==
  /\ b \in PlayType /\ (b.offer = None \/ b.offer <= b.maxStepIdx)
  /\ \A q \in Steps : a.maxStepIdx <= q /\ q < b.maxStepIdx /\ Gate(q) => Solved(b.facts, q)

\* Everything before p that had to be solved is, in storage or on the way there.
Cleared(p) == \A q \in Steps : q < p /\ Gate(q) => Solved(stored, q) \/ Solved(chain, q)

\* What opened a gate is in one of the two.
OpenersKept ==
  \A i \in DOMAIN play.facts : Opens(play.facts[i]) =>
    \/ \E j \in DOMAIN stored : stored[j] = play.facts[i]
    \/ \E j \in DOMAIN chain : chain[j] = play.facts[i]

AllCleared == \A i \in DOMAIN saving : Cleared(saving[i])

EInv ==
  /\ play.offer = None \/ play.offer <= play.maxStepIdx
  /\ ~lost => /\ OpenersKept /\ Cleared(play.maxStepIdx) /\ Cleared(resume)
              /\ AllCleared

LEMMA PutClimbs ==
  ASSUME NEW a, NEW b, Climbs(a, b), NEW f \in FactType
  PROVE  /\ Climbs(a, Put(b, f)) /\ Put(b, f).stepIdx = b.stepIdx
         /\ Put(b, f).maxStepIdx = b.maxStepIdx /\ Put(b, f).offer = b.offer
         /\ \A q : Solved(b.facts, q) => Solved(Put(b, f).facts, q)
         /\ CompletesStep(f) => Solved(Put(b, f).facts, f.step)
<1> DEFINE c == Put(b, f)
<1>1. b \in PlayType /\ b.facts \in Seq(FactType)
  BY PlayFields DEF Climbs
<1>2. /\ c \in PlayType /\ c.facts = Append(b.facts, f) /\ c.stepIdx = b.stepIdx
      /\ c.maxStepIdx = b.maxStepIdx /\ c.offer = b.offer
  BY <1>1, PutFields
<1> HIDE DEF c
<1>3. /\ \A i \in DOMAIN b.facts : i \in DOMAIN c.facts /\ c.facts[i] = b.facts[i]
      /\ Len(b.facts) + 1 \in DOMAIN c.facts /\ c.facts[Len(b.facts) + 1] = f
  BY <1>1, <1>2
<1>4. \A q : Solved(b.facts, q) => Solved(c.facts, q)
  BY <1>3 DEF Solved
<1>5. CompletesStep(f) => Solved(c.facts, f.step)
  BY <1>3 DEF Solved
<1>6. Climbs(a, c)
  BY <1>2, <1>4 DEF Climbs
<1> QED BY <1>2, <1>4, <1>5, <1>6 DEF c

LEMMA AwardClimbs ==
  ASSUME NEW a, NEW b, Climbs(a, b), NEW kind \in Once
  PROVE  Climbs(a, AwardOnce(b, kind)) /\ AwardOnce(b, kind).stepIdx = b.stepIdx
<1> DEFINE f == Fact(kind, b.stepIdx, None, Bonus, None, TRUE)
<1>1. b.stepIdx \in Steps /\ kind \in Kinds /\ Bonus \in Int
  BY PlayFields DEF Climbs, Kinds, Bonus
<1>2. f \in FactType
  BY <1>1, FactTyped
<1>3. AwardOnce(b, kind) = IF kind \in b.paid \/ Has(b.facts, kind) THEN b ELSE Put(b, f)
  BY DEF AwardOnce
<1> HIDE DEF f
<1> QED BY <1>2, <1>3, PutClimbs

LEMMA GiftClimbs ==
  ASSUME NEW a, NEW b, Climbs(a, b), NEW p \in Steps
  PROVE  /\ Climbs(a, ClaimGift(b, p))
         /\ \A q : Solved(b.facts, q) => Solved(ClaimGift(b, p).facts, q)
<1> DEFINE f == Fact("gift_claimed", p, None, Quest[p].gift, None, TRUE)
<1>1. CASE Quest[p].gift # None
  <2>1. Quest[p].gift \in Int /\ "gift_claimed" \in Kinds
    BY <1>1, QuestTypes DEF Kinds
  <2>2. f \in FactType
    BY <2>1, FactTyped
  <2>3. ClaimGift(b, p) = b \/ ClaimGift(b, p) = Put(b, f)
    BY DEF ClaimGift
  <2> HIDE DEF f
  <2> QED BY <2>2, <2>3, PutClimbs
<1>2. CASE Quest[p].gift = None
  BY <1>2 DEF ClaimGift
<1> QED BY <1>1, <1>2

LEMMA CompleteClimbs ==
  ASSUME NEW a, NEW b, Climbs(a, b)
  PROVE  Climbs(a, CompleteAttempt(b))
<1> DEFINE f    == Fact("attempt_completed", b.stepIdx, None, 0, None, TRUE)
           done == Put(b, f)
           paid == AwardOnce(done, "completion_bonus")
<1>1. b.stepIdx \in Steps /\ "attempt_completed" \in Kinds /\ "completion_bonus" \in Once /\ 0 \in Int
  BY PlayFields DEF Climbs, Kinds, Once
<1>2. f \in FactType
  BY <1>1, FactTyped
<1>3. CompleteAttempt(b) = b \/ CompleteAttempt(b) = ClaimGift(paid, b.stepIdx)
  BY DEF CompleteAttempt
<1> HIDE DEF f
<1>4. Climbs(a, done)
  BY <1>2, PutClimbs
<1> HIDE DEF done
<1>5. Climbs(a, paid)
  BY <1>1, <1>4, AwardClimbs
<1> HIDE DEF paid
<1> QED BY <1>1, <1>3, <1>5, GiftClimbs

LEMMA AdvanceClimbs ==
  ASSUME NEW a, NEW b, Climbs(a, b), NEW to \in Int,
         \A q \in Steps : a.maxStepIdx <= q /\ q < to /\ Gate(q) => Solved(b.facts, q)
  PROVE  Climbs(a, AdvanceTo(b, to))
<1> DEFINE clamped == IF to < 0 THEN 0 ELSE IF to > LastStep THEN LastStep ELSE to
           moved   == [b EXCEPT !.stepIdx = clamped,
                                !.maxStepIdx = IF clamped > @ THEN clamped ELSE @]
           far     == IF clamped > b.maxStepIdx THEN clamped ELSE b.maxStepIdx
<1>1. b \in PlayType /\ b.maxStepIdx \in Steps /\ b.offer \in Steps \cup {None}
  BY PlayFields DEF Climbs
<1>2. clamped \in Steps /\ (clamped <= to \/ clamped = 0)
  BY StepsAre DEF Steps
<1>3. far \in Steps /\ b.maxStepIdx <= far /\ (far = b.maxStepIdx \/ far <= to)
  <2> HIDE DEF clamped
  <2> QED BY <1>1, <1>2 DEF Steps
<1>4. /\ moved \in PlayType /\ moved.facts = b.facts /\ moved.maxStepIdx = far
      /\ moved.offer = b.offer
  <2> HIDE DEF clamped
  <2> QED BY <1>1, <1>2 DEF PlayType
<1>5. AdvanceTo(b, to) \in {b, moved, CompleteAttempt(moved)}
  BY DEF AdvanceTo
<1> HIDE DEF moved, far, clamped
<1>6. Climbs(a, moved)
  <2>1. ASSUME NEW q \in Steps, a.maxStepIdx <= q, q < far, Gate(q)
        PROVE  Solved(b.facts, q)
    <3>1. q < b.maxStepIdx \/ q < to
      BY <1>1, <1>3, <2>1 DEF Steps
    <3> QED BY <2>1, <3>1 DEF Climbs
  <2>2. moved.offer = None \/ moved.offer <= far
    <3>1. b.offer = None \/ b.offer <= b.maxStepIdx
      BY DEF Climbs
    <3> QED BY <1>1, <1>3, <1>4, <3>1 DEF Steps
  <2> QED BY <1>4, <2>1, <2>2 DEF Climbs
<1> QED BY <1>5, <1>6, CompleteClimbs

\* One step on from a step that was reached and lets go.
LEMMA NextClimbs ==
  ASSUME NEW a \in PlayType, NEW b, Climbs(a, b), NEW p \in Steps, p <= a.maxStepIdx,
         Gate(p) => Solved(b.facts, p)
  PROVE  Climbs(a, AdvanceTo(b, p + 1))
<1>1. p + 1 \in Int /\ a.maxStepIdx \in Steps
  BY PlayFields DEF Steps
<1>2. \A q \in Steps : a.maxStepIdx <= q /\ q < p + 1 => q = p
  BY <1>1 DEF Steps
<1> QED BY <1>1, <1>2, AdvanceClimbs

LEMMA OfferClimbs ==
  ASSUME NEW a, NEW b, Climbs(a, b), NEW o \in Steps \cup {None}, o = None \/ o <= b.maxStepIdx
  PROVE  /\ Climbs(a, [b EXCEPT !.offer = o])
         /\ [b EXCEPT !.offer = o].facts = b.facts
<1> DEFINE c == [b EXCEPT !.offer = o]
<1>1. b \in PlayType
  BY DEF Climbs
<1>2. c \in PlayType /\ c.facts = b.facts /\ c.maxStepIdx = b.maxStepIdx /\ c.offer = o
  BY <1>1 DEF PlayType
<1> HIDE DEF c
<1>3. Climbs(a, c)
  BY <1>2 DEF Climbs
<1> QED BY <1>2, <1>3 DEF c

\* A page where the view has got as far as the furthest step.
Ready(a) == Climbs(a, a) /\ a \in PlayType /\ a.stepIdx \in Steps /\ a.stepIdx <= a.maxStepIdx

LEMMA AnswerClimbs ==
  ASSUME NEW a, Ready(a), NEW value \in Answers
  PROVE  Climbs(a, Answer(a, value))
<1> DEFINE p    == a.stepIdx
           ok   == Accepted(value, p)
           note == IF ok THEN None ELSE WrongNote(a.facts, p, value)
           f    == Fact("answer_submitted", p, value, 0, note, ok)
           answered == Put(a, f)
           gifted   == ClaimGift(answered, p)
           popup    == IF WrongPopupAt(answered.facts, p) THEN p ELSE answered.offer
<1>1. /\ a \in PlayType /\ p \in Steps /\ p <= a.maxStepIdx /\ Climbs(a, a)
      /\ a.facts \in Seq(FactType) /\ a.offer \in Steps \cup {None}
  BY PlayFields DEF Ready
<1>2. ok \in BOOLEAN /\ "answer_submitted" \in Kinds /\ 0 \in Int
  BY DEF Accepted, Kinds
<1>3. note \in Reviews \cup Reports \cup Nat \cup {None}
  BY <1>1, WrongNoteTyped
<1>4. f \in FactType
  <2> HIDE DEF ok, note
  <2> QED BY <1>1, <1>2, <1>3, FactTyped
<1>5. f.step = p /\ (ok => CompletesStep(f))
  BY DEF Fact, CompletesStep
<1>6. Answer(a, value) =
        IF Solved(a.facts, p) THEN AdvanceTo(a, p + 1)
        ELSE IF ok THEN AdvanceTo(gifted, p + 1)
        ELSE [answered EXCEPT !.offer = popup]
  <2>1. answered \in PlayType
    <3> HIDE DEF f
    <3> QED BY <1>1, <1>4, PutFields
  <2>2. [answered EXCEPT !.offer = IF WrongPopupAt(answered.facts, p) THEN p ELSE @]
          = [answered EXCEPT !.offer = popup]
    <3> HIDE DEF answered
    <3> QED BY <2>1 DEF PlayType
  <2> QED BY <2>2 DEF Answer
<1> HIDE DEF f, ok
<1>7. /\ Climbs(a, answered) /\ (ok => Solved(answered.facts, p))
      /\ answered.offer = a.offer /\ answered.maxStepIdx = a.maxStepIdx
  BY <1>1, <1>4, <1>5, PutClimbs
<1> HIDE DEF answered
<1>8. Climbs(a, gifted) /\ (ok => Solved(gifted.facts, p))
  BY <1>1, <1>7, GiftClimbs
<1>9. Climbs(a, [answered EXCEPT !.offer = popup])
  <2>1. a.offer = None \/ a.offer <= a.maxStepIdx
    BY <1>1 DEF Climbs
  <2>2. popup \in Steps \cup {None} /\ (popup = None \/ popup <= answered.maxStepIdx)
    BY <1>1, <1>7, <2>1
  <2> HIDE DEF popup
  <2> QED BY <1>7, <2>2, OfferClimbs
<1> HIDE DEF gifted, p
<1>10. Solved(a.facts, p) => Climbs(a, AdvanceTo(a, p + 1))
  BY <1>1, NextClimbs
<1>11. ok => Climbs(a, AdvanceTo(gifted, p + 1))
  BY <1>1, <1>8, NextClimbs
<1> QED BY <1>6, <1>9, <1>10, <1>11

LEMMA PhysicalClimbs ==
  ASSUME NEW a, Ready(a)
  PROVE  Climbs(a, PhysicalConfirm(a))
<1> DEFINE p == a.stepIdx
           f == Fact("physical_confirmed", p, None, 0, None, TRUE)
           done   == Put(a, f)
           gifted == ClaimGift(done, p)
<1>1. a \in PlayType /\ p \in Steps /\ p <= a.maxStepIdx /\ Climbs(a, a)
  BY DEF Ready
<1>2. "physical_confirmed" \in Kinds /\ 0 \in Int
  BY DEF Kinds
<1>3. f \in FactType
  BY <1>1, <1>2, FactTyped
<1>4. f.step = p /\ CompletesStep(f)
  BY DEF Fact, CompletesStep
<1>5. PhysicalConfirm(a) = AdvanceTo(gifted, p + 1)
  BY DEF PhysicalConfirm
<1> HIDE DEF f
<1>6. Climbs(a, done) /\ Solved(done.facts, p)
  BY <1>1, <1>3, <1>4, PutClimbs
<1> HIDE DEF done
<1>7. Climbs(a, gifted) /\ Solved(gifted.facts, p)
  BY <1>1, <1>6, GiftClimbs
<1> HIDE DEF gifted, p
<1> QED BY <1>1, <1>5, <1>7, NextClimbs

LEMMA HintClimbs ==
  ASSUME NEW a, Ready(a)
  PROVE  Climbs(a, BuyHint(a))
<1> DEFINE p == IF a.offer # None THEN a.offer ELSE a.stepIdx
           f == Fact("hint_purchased", p, None, -Quest[p].hint, None, TRUE)
           bought == IF HasAt(a.facts, p, "hint_purchased") THEN a ELSE Put(a, f)
<1>1. Climbs(a, a) /\ p \in Steps
  BY PlayFields DEF Ready
<1>2. BuyHint(a) = IF Quest[p].hint = None THEN a ELSE [bought EXCEPT !.offer = None]
  BY DEF BuyHint
<1>3. CASE Quest[p].hint # None
  <2>1. -Quest[p].hint \in Int /\ "hint_purchased" \in Kinds
    <3> HIDE DEF p
    <3> QED BY <1>1, <1>3, QuestTypes DEF Kinds
  <2>2. f \in FactType
    <3> HIDE DEF p
    <3> QED BY <1>1, <2>1, FactTyped
  <2> HIDE DEF f
  <2>3. Climbs(a, bought)
    BY <1>1, <2>2, PutClimbs
  <2> HIDE DEF bought
  <2> QED BY <1>2, <1>3, <2>3, OfferClimbs
<1>4. CASE Quest[p].hint = None
  BY <1>1, <1>2, <1>4
<1> QED BY <1>3, <1>4

LEMMA SkipClimbs ==
  ASSUME NEW a, Ready(a)
  PROVE  Climbs(a, SkipTask(a))
<1> DEFINE p == a.offer
           answer == IF Quest[p].accept = {} THEN None ELSE CHOOSE x \in Quest[p].accept : TRUE
           f      == Fact("task_skipped", p, answer, -SkipCost, None, TRUE)
           closed == [a EXCEPT !.offer = None]
           done   == Put(closed, f)
<1>1. SkipTask(a) = IF p = None \/ ~WrongPopupAt(a.facts, p) THEN a ELSE AdvanceTo(done, p + 1)
  BY DEF SkipTask
<1>2. CASE p # None /\ WrongPopupAt(a.facts, p)
  <2>1. a \in PlayType /\ p \in Steps /\ p <= a.maxStepIdx /\ Climbs(a, a)
    BY <1>2, PlayFields DEF Ready, Climbs
  <2>2. -SkipCost \in Int /\ "task_skipped" \in Kinds
    BY CostAssumption DEF Kinds
  <2>3. answer \in Answers \cup Scores \cup {None}
    BY <2>1, QuestTypes
  <2>4. f \in FactType
    <3> HIDE DEF answer
    <3> QED BY <2>1, <2>2, <2>3, FactTyped
  <2>5. f.step = p /\ CompletesStep(f)
    BY DEF Fact, CompletesStep
  <2> HIDE DEF f
  <2>6. Climbs(a, closed)
    BY <2>1, OfferClimbs
  <2> HIDE DEF closed
  <2>7. Climbs(a, done) /\ Solved(done.facts, p)
    BY <2>4, <2>5, <2>6, PutClimbs
  <2> HIDE DEF done, p
  <2> QED BY <1>1, <1>2, <2>1, <2>7, NextClimbs
<1>3. CASE ~(p # None /\ WrongPopupAt(a.facts, p))
  BY <1>1, <1>3 DEF Ready
<1> QED BY <1>2, <1>3

LEMMA RateClimbs ==
  ASSUME NEW a, Ready(a), NEW score \in Answers \cup Scores \cup {None, 0},
         NEW review \in Reviews \cup {None}
  PROVE  Climbs(a, Rate(a, score, review))
<1> DEFINE f       == Fact("quest_rated", a.stepIdx, score, 0, review, TRUE)
           rated   == Put(a, f)
           starred == AwardOnce(rated, "rating_bonus")
           both    == AwardOnce(starred, "comment_bonus")
           idle    == score <= 0 \/ (LatestRating(a.facts) = score /\ review = None)
<1>1. Climbs(a, a) /\ a.stepIdx \in Steps
  BY DEF Ready
<1>2. Rate(a, score, review) = IF idle THEN a ELSE IF review = None THEN starred ELSE both
  BY DEF Rate
<1>3. CASE idle
  BY <1>1, <1>2, <1>3
<1>4. CASE ~idle
  <2>1. score # 0
    BY <1>4
  <2>2. f \in FactType
    <3>1. "quest_rated" \in Kinds /\ 0 \in Int /\ score \in Answers \cup Scores \cup {None}
      BY <2>1 DEF Kinds
    <3>2. review \in Reviews \cup Reports \cup Nat \cup {None}
      OBVIOUS
    <3> QED BY <1>1, <3>1, <3>2, FactTyped
  <2>3. "rating_bonus" \in Once /\ "comment_bonus" \in Once
    BY DEF Once
  <2> HIDE DEF f
  <2>4. Climbs(a, rated)
    BY <1>1, <2>2, PutClimbs
  <2> HIDE DEF rated
  <2>5. Climbs(a, starred)
    BY <2>3, <2>4, AwardClimbs
  <2> HIDE DEF starred
  <2>6. Climbs(a, both)
    BY <2>3, <2>5, AwardClimbs
  <2> HIDE DEF both
  <2> QED BY <1>2, <1>4, <2>5, <2>6
<1> QED BY <1>3, <1>4

\* The page is ready for an event, whatever was lost.
LEMMA PlayReady ==
  ASSUME IInv, EInv
  PROVE  Ready(play)
<1>1. play \in PlayType /\ play.stepIdx \in Steps /\ play.stepIdx <= play.maxStepIdx
  BY PlayGrows DEF IInv, Typed
<1>2. \A q \in Steps : ~(play.maxStepIdx <= q /\ q < play.maxStepIdx)
  BY <1>1, PlayFields DEF Steps
<1> QED BY <1>1, <1>2 DEF Ready, Climbs, EInv

\* A page that has moved on, and whose openers are in storage or on their way.
LEMMA MovedEarns ==
  ASSUME IInv, EInv, Climbs(play, play'), ~lost => OpenersKept',
         \A q : Solved(chain, q) => Solved(chain', q),
         UNCHANGED <<stored, resume, lost>>, saving' \in {saving, Saves(play')}
  PROVE  EInv'
<1>1. play'.offer = None \/ play'.offer <= play'.maxStepIdx
  BY DEF Climbs
<1>2. ASSUME ~lost
      PROVE  /\ Cleared(play.maxStepIdx)' /\ Cleared(resume)'
             /\ AllCleared'
  <2>1. \A p : Cleared(p) => Cleared(p)'
    BY DEF Cleared
  <2>2. Cleared(play.maxStepIdx) /\ Cleared(resume) /\ \A i \in DOMAIN saving : Cleared(saving[i])
    BY <1>2 DEF EInv, AllCleared
  <2>3. Cleared(play.maxStepIdx)'
    <3> SUFFICES ASSUME NEW q \in Steps, q < play'.maxStepIdx, Gate(q)
                 PROVE  Solved(stored', q) \/ Solved(chain', q)
      BY DEF Cleared
    <3>1. q < play.maxStepIdx \/ play.maxStepIdx <= q
      BY PlayGrows, PlayFields DEF Steps
    <3>2. CASE q < play.maxStepIdx
      BY <2>2, <3>2 DEF Cleared
    <3>3. CASE play.maxStepIdx <= q
      <4>1. PICK i \in DOMAIN play'.facts :
              play'.facts[i].step = q /\ CompletesStep(play'.facts[i])
        BY <3>3 DEF Climbs, Solved
      <4>2. Opens(play'.facts[i])
        BY <4>1 DEF Opens
      <4> QED BY <1>2, <4>1, <4>2 DEF OpenersKept, Solved
    <3> QED BY <3>1, <3>2, <3>3
  <2>4. Cleared(resume)'
    BY <2>1, <2>2 DEF Cleared
  <2>5. AllCleared'
    <3> SUFFICES ASSUME NEW i \in DOMAIN saving', NEW q \in Steps, q < saving'[i], Gate(q)
                 PROVE  Solved(stored', q) \/ Solved(chain', q)
      BY DEF AllCleared, Cleared
    <3>1. \/ i \in DOMAIN saving /\ saving'[i] = saving[i]
          \/ saving'[i] = play'.maxStepIdx
      <4>1. saving \in Seq(Steps)
        BY DEF IInv, Typed
      <4>2. CASE saving' = saving
        BY <4>2
      <4>3. CASE saving' = Append(saving, play'.maxStepIdx)
        BY <4>1, <4>3
      <4> QED BY <4>2, <4>3 DEF Saves
    <3>2. CASE i \in DOMAIN saving /\ saving'[i] = saving[i]
      BY <2>1, <2>2, <3>2 DEF Cleared
    <3>3. CASE saving'[i] = play'.maxStepIdx
      BY <2>3, <3>3 DEF Cleared
    <3> QED BY <3>1, <3>2, <3>3
  <2> QED BY <2>3, <2>4, <2>5
<1> QED BY <1>1, <1>2 DEF EInv

\* An event of the page: what it adds to the log is handed to the sink.
LEMMA EventEarns ==
  ASSUME IInv, EInv, Grown(play, play'), Climbs(play, play'),
         chain' = chain \o Fresh(play', play.facts), saving' = Saves(play'),
         UNCHANGED <<stored, resume, lost>>
  PROVE  EInv'
<1> DEFINE c == Len(chain)
           n == Len(play.facts)
           d == Len(play'.facts) - n
<1>1. /\ c \in Nat /\ n \in Nat /\ d \in Nat
      /\ DOMAIN chain = 1 .. c /\ DOMAIN chain' = 1 .. c + d
      /\ \A i \in 1 .. c : chain'[i] = chain[i]
      /\ \A k \in 1 .. d : chain'[c + k] = play'.facts[n + k]
  BY ChainGrows
<1>2. /\ DOMAIN play.facts = 1 .. n /\ DOMAIN play'.facts = 1 .. n + d
      /\ \A i \in 1 .. n : play'.facts[i] = play.facts[i]
  BY GrownLogs
<1> HIDE DEF c, n, d
<1>3. \A i \in 1 .. c : i \in 1 .. c + d
  BY <1>1
<1>4. \A q : Solved(chain, q) => Solved(chain', q)
  BY <1>1, <1>3 DEF Solved
<1>5. ASSUME ~lost
      PROVE  OpenersKept'
  <2> SUFFICES ASSUME NEW i \in DOMAIN play'.facts, Opens(play'.facts[i])
               PROVE  \/ \E j \in DOMAIN stored' : stored'[j] = play'.facts[i]
                      \/ \E j \in DOMAIN chain' : chain'[j] = play'.facts[i]
    BY DEF OpenersKept
  <2>1. OpenersKept
    BY <1>5 DEF EInv
  <2>2. i \in 1 .. n \/ (i - n \in 1 .. d /\ n + (i - n) = i /\ c + (i - n) \in 1 .. c + d)
    BY <1>1, <1>2
  <2>3. CASE i \in 1 .. n
    BY <1>1, <1>2, <1>3, <2>1, <2>3 DEF OpenersKept
  <2>4. CASE i - n \in 1 .. d /\ n + (i - n) = i /\ c + (i - n) \in 1 .. c + d
    BY <1>1, <2>4
  <2> QED BY <2>2, <2>3, <2>4
<1> QED BY <1>4, <1>5, MovedEarns

LEMMA PressClimbs ==
  ASSUME IInv, EInv, Press
  PROVE  Climbs(play, play')
<1>1. /\ Ready(play) /\ Climbs(play, play) /\ play \in PlayType
      /\ play.stepIdx \in Steps /\ play.stepIdx <= play.maxStepIdx
  BY PlayReady DEF Ready
<1>2. CASE Template = "next" /\ RunEvent(AdvanceTo(play, play.stepIdx + 1))
  <2>1. ~Gate(play.stepIdx)
    BY <1>2 DEF Gate, Template
  <2> QED BY <1>1, <1>2, <2>1, NextClimbs DEF RunEvent
<1>3. CASE RunEvent(PhysicalConfirm(play))
  BY <1>1, <1>3, PhysicalClimbs DEF RunEvent
<1>4. CASE \E value \in Answers : RunEvent(Answer(play, value))
  BY <1>1, <1>4, AnswerClimbs DEF RunEvent
<1>5. CASE RunEvent(BuyHint(play))
  BY <1>1, <1>5, HintClimbs DEF RunEvent
<1>6. CASE RunEvent(SkipTask(play))
  BY <1>1, <1>6, SkipClimbs DEF RunEvent
<1>7. CASE RunEvent([play EXCEPT !.offer = None])
  BY <1>1, <1>7, OfferClimbs DEF RunEvent
<1>8. CASE RunEvent(AdvanceTo(play, play.stepIdx - 1))
  <2>1. play.stepIdx - 1 \in Int
    BY <1>1 DEF Steps
  <2>2. \A q \in Steps : ~(play.maxStepIdx <= q /\ q < play.stepIdx - 1)
    BY <1>1, PlayFields DEF Steps
  <2> QED BY <1>1, <1>8, <2>1, <2>2, AdvanceClimbs DEF RunEvent
<1> QED BY <1>2, <1>3, <1>4, <1>5, <1>6, <1>7, <1>8 DEF Press

\* The growth of the log at an event of the page, from the lemmas on the engine.
LEMMA EventGrows ==
  ASSUME IInv, EInv, Press \/ Report \/ Finish \/ (\E score \in Scores : TapStars(score))
  PROVE  EInv'
<1>1. /\ Ready(play) /\ Climbs(play, play) /\ Grown(play, play) /\ play \in PlayType
      /\ play.stepIdx \in Steps /\ play.facts \in Seq(FactType)
  BY PlayReady, PlayGrows, PlayFields DEF Ready
<1>2. CASE Press
  <2>1. Grown(play, play') /\ chain' = chain \o Fresh(play', play.facts) /\ saving' = Saves(play')
    BY <1>2, PressGrows
  <2>2. UNCHANGED <<stored, resume, lost>>
    BY <1>2 DEF Press, disk, visit
  <2> QED BY <1>2, <2>1, <2>2, PressClimbs, EventEarns
<1>3. CASE Report
  <2>1. Grown(play, play') /\ chain' = chain \o Fresh(play', play.facts) /\ saving' = Saves(play')
    BY <1>3, ReportGrows
  <2>2. UNCHANGED <<stored, resume, lost>>
    BY <1>3 DEF Report, disk, visit
  <2>3. \E f \in FactType : play' = Put(play, f)
    <3>1. "feedback_reported" \in Kinds /\ "navigator_used" \in Kinds /\ 0 \in Int
      BY DEF Kinds
    <3>2. \A note \in Reports : Fact("feedback_reported", play.stepIdx, None, 0, note, TRUE) \in FactType
      BY <1>1, <3>1, FactTyped
    <3>3. Fact("navigator_used", play.stepIdx, None, 0, None, TRUE) \in FactType
      BY <1>1, <3>1, FactTyped
    <3> QED BY <1>3, <3>2, <3>3 DEF Report, RunEvent
  <2>4. Climbs(play, play')
    BY <1>1, <2>3, PutClimbs
  <2> QED BY <2>1, <2>2, <2>4, EventEarns
<1>4. CASE Finish
  <2> DEFINE shown == IF rating # 0 THEN rating ELSE LatestRating(play.facts)
  <2>1. UNCHANGED <<stored, resume, lost>> /\ rating \in Scores \cup {0}
    BY <1>4 DEF Finish, disk, visit, IInv, Typed
  <2>2. shown \in Answers \cup Scores \cup {None, 0}
    BY <1>1, <2>1, LatestRatingTyped
  <2>3. PICK review \in Reviews \cup {None} : RunEvent(Rate(play, shown, review))
    BY <1>4 DEF Finish
  <2> HIDE DEF shown
  <2>4. Grown(play, play') /\ Climbs(play, play')
    BY <1>1, <2>2, <2>3, RateGrows, RateClimbs DEF RunEvent
  <2> QED BY <2>1, <2>3, <2>4, EventEarns DEF RunEvent
<1>5. CASE \E score \in Scores : TapStars(score)
  <2>1. PICK score \in Scores : TapStars(score)
    BY <1>5
  <2>2. UNCHANGED <<stored, resume, lost>>
    BY <2>1 DEF TapStars, disk, visit
  <2>3. CASE LatestRating(play.facts) = 0
    <3>1. RunEvent(Rate(play, score, None))
      BY <2>1, <2>3 DEF TapStars
    <3>2. Grown(play, play') /\ Climbs(play, play')
      BY <1>1, <3>1, RateGrows, RateClimbs DEF RunEvent
    <3> QED BY <2>2, <3>1, <3>2, EventEarns DEF RunEvent
  <2>4. CASE LatestRating(play.facts) # 0
    <3>1. UNCHANGED <<play, chain, saving>>
      BY <2>1, <2>4 DEF TapStars
    <3> QED BY <2>2, <3>1 DEF EInv, OpenersKept, AllCleared, Cleared
  <2> QED BY <2>3, <2>4
<1> QED BY <1>2, <1>3, <1>4, <1>5

LEMMA GoToEarns ==
  ASSUME IInv, EInv, NEW to \in 0 .. LastStep, GoToStep(to)
  PROVE  EInv'
<1>1. /\ play' = AdvanceTo(play, to) /\ saving' = Saves(play') /\ to <= play.maxStepIdx
      /\ UNCHANGED <<chain, stored, resume, lost>>
  BY DEF GoToStep, View, disk, visit
<1>2. Grown(play, play) /\ Climbs(play, play) /\ to \in Int /\ play.maxStepIdx \in Steps
  BY PlayGrows, PlayReady, PlayFields DEF Ready
<1>3. Grown(play, play') /\ Quiet(Len(play.facts), play')
  BY <1>1, <1>2, AdvanceGrows, PlayQuiet, AdvanceQuiet
<1>4. Climbs(play, play')
  <2>1. \A q \in Steps : ~(play.maxStepIdx <= q /\ q < to)
    BY <1>1, <1>2 DEF Steps
  <2> QED BY <1>1, <1>2, <2>1, AdvanceClimbs
<1>5. ~lost => OpenersKept'
  <2>1. \A i \in DOMAIN play'.facts : Opens(play'.facts[i]) =>
          i \in DOMAIN play.facts /\ play'.facts[i] = play.facts[i]
    BY <1>3, GrownLogs DEF Quiet
  <2> QED BY <1>1, <2>1 DEF EInv, OpenersKept
<1> QED BY <1>1, <1>4, <1>5, MovedEarns

LEMMA WriteEarns ==
  ASSUME IInv, EInv, WriteFact
  PROVE  EInv'
<1> DEFINE f == chain[1]
<1>1. /\ chain # <<>> /\ stored' = Absorb(stored, Head(chain)) /\ chain' = Tail(chain)
      /\ lost' = (lost \/ Head(chain) \notin ToSet(stored'))
      /\ UNCHANGED <<play, resume, saving>>
  BY DEF WriteFact
<1>2. chain \in Seq(FactType) /\ stored \in Seq(FactType)
  BY DEF IInv, Typed
<1>3. /\ f \in FactType /\ Head(chain) = f /\ chain' \in Seq(FactType)
      /\ \A i \in DOMAIN chain : i = 1 \/ (i - 1 \in DOMAIN chain' /\ chain'[i - 1] = chain[i])
  <2>1. /\ Head(chain) = chain[1] /\ Head(chain) \in FactType /\ Tail(chain) \in Seq(FactType)
        /\ Len(chain) \in Nat /\ DOMAIN chain = 1 .. Len(chain)
        /\ DOMAIN Tail(chain) = 1 .. Len(chain) - 1
        /\ \A i \in DOMAIN Tail(chain) : Tail(chain)[i] = chain[i + 1]
    BY <1>1, <1>2, ChainHead
  <2>2. \A i \in 1 .. Len(chain) : i = 1 \/ (i - 1 \in 1 .. Len(chain) - 1 /\ (i - 1) + 1 = i)
    BY <2>1
  <2> QED BY <1>1, <2>1, <2>2
<1> HIDE DEF f
<1>4. \A i \in DOMAIN stored : i \in DOMAIN stored' /\ stored'[i] = stored[i]
  <2>1. stored' = Absorb(stored, f) /\ f \in FactType
    BY <1>1, <1>3
  <2>2. \A i \in DOMAIN stored : i \in DOMAIN Absorb(stored, f) /\ Absorb(stored, f)[i] = stored[i]
    BY <1>2, <2>1, AbsorbIs
  <2> QED BY <2>1, <2>2
<1>5. ASSUME ~lost'
      PROVE  EInv'
  <2>1. ~lost /\ \E j \in DOMAIN stored' : stored'[j] = f
    BY <1>1, <1>3, <1>5 DEF ToSet
  <2>2. \A i \in DOMAIN chain : \/ \E j \in DOMAIN stored' : stored'[j] = chain[i]
                                \/ \E j \in DOMAIN chain' : chain'[j] = chain[i]
    BY <1>3, <2>1 DEF f
  <2>3. OpenersKept'
    BY <1>1, <1>4, <2>1, <2>2 DEF EInv, OpenersKept
  <2>4. \A q : Solved(stored, q) \/ Solved(chain, q) => Solved(stored', q) \/ Solved(chain', q)
    BY <1>4, <2>2 DEF Solved
  <2>5. \A p : Cleared(p) => Cleared(p)'
    BY <2>4 DEF Cleared
  <2>6. /\ Cleared(play.maxStepIdx) /\ Cleared(resume) /\ AllCleared
        /\ play.offer = None \/ play.offer <= play.maxStepIdx
    BY <2>1 DEF EInv
  <2>7. Cleared(play.maxStepIdx)' /\ Cleared(resume)' /\ AllCleared'
    BY <1>1, <2>5, <2>6 DEF AllCleared, Cleared
  <2> QED BY <1>1, <2>3, <2>6, <2>7 DEF EInv
<1>6. CASE lost'
  BY <1>1, <1>6 DEF EInv
<1> QED BY <1>5, <1>6

LEMMA SaveEarns ==
  ASSUME IInv, EInv, SavePosition \/ PutRow
  PROVE  EInv'
<1>1. UNCHANGED <<play, chain, stored, lost>>
  BY DEF SavePosition, PutRow, visit
<1>2. \A p : Cleared(p) => Cleared(p)'
  BY <1>1 DEF Cleared
<1>3. ASSUME ~lost
      PROVE  Cleared(resume)' /\ AllCleared'
  <2>1. Cleared(resume) /\ \A i \in DOMAIN saving : Cleared(saving[i])
    BY <1>3 DEF EInv, AllCleared
  <2>2. resume \in Steps /\ saving \in Seq(Steps)
    BY DEF IInv, Typed
  <2>3. CASE SavePosition
    <3>1. saving # <<>> /\ resume' = Head(saving) /\ saving' = Tail(saving)
      BY <2>3 DEF SavePosition
    <3>2. /\ 1 \in DOMAIN saving /\ resume' = saving[1]
          /\ \A i \in DOMAIN saving' : i + 1 \in DOMAIN saving /\ saving'[i] = saving[i + 1]
      BY <2>2, <3>1
    <3>3. Cleared(resume') /\ \A i \in DOMAIN saving' : Cleared(saving'[i])
      BY <2>1, <3>2
    <3> QED BY <1>1, <3>3 DEF AllCleared, Cleared
  <2>4. CASE PutRow
    <3>1. resume' \in 0 .. resume /\ saving' = saving
      BY <2>4 DEF PutRow
    <3>2. \A q \in Steps : q < resume' => q < resume
      BY <2>2, <3>1 DEF Steps
    <3>3. Cleared(resume') /\ \A i \in DOMAIN saving' : Cleared(saving'[i])
      BY <2>1, <3>1, <3>2 DEF Cleared
    <3> QED BY <1>1, <3>3 DEF AllCleared, Cleared
  <2> QED BY <2>3, <2>4
<1>4. ~lost => OpenersKept' /\ Cleared(play.maxStepIdx)'
  BY <1>1 DEF EInv, OpenersKept, Cleared
<1> QED BY <1>1, <1>3, <1>4 DEF EInv

\* A page opened on what was stored: nothing is lost only when nothing was under way.
LEMMA ReopenEarns ==
  ASSUME IInv, EInv, Reopen
  PROVE  EInv'
<1>1. PICK known \in SUBSET Elsewhere :
        LET opened == NewPlay(stored, resume, known)
            begun  == IF Quest[resume].template = "finale" THEN CompleteAttempt(opened)
                      ELSE opened
        IN play' = begun /\ chain' = Fresh(begun, stored)
  BY DEF Reopen
<1> DEFINE opened == NewPlay(stored, resume, known)
           begun  == IF Quest[resume].template = "finale" THEN CompleteAttempt(opened) ELSE opened
<1>2. /\ stored' = stored /\ resume' = resume /\ saving' = <<resume>>
      /\ lost' = (lost \/ chain # <<>>)
  BY DEF Reopen, disk
<1>3. stored \in Seq(FactType) /\ resume \in Steps
  BY DEF IInv, Typed
<1>4. /\ opened \in PlayType /\ opened.facts = stored /\ opened.stepIdx = resume
      /\ opened.maxStepIdx = resume /\ opened.offer = None
  <2>1. known \subseteq Once
    BY LimitsAssumption
  <2> QED BY <1>3, <2>1 DEF NewPlay, PlayType
<1> HIDE DEF opened
<1>5. Grown(opened, begun)
  <2>1. Quest[resume].template = "finale" => opened.stepIdx = LastStep
    BY <1>3, <1>4, QuestTypes
  <2>2. Grown(opened, opened)
    BY <1>3, <1>4, GrownSelf DEF Steps
  <2> QED BY <2>1, <2>2, CompleteGrows
<1>6. Climbs(opened, begun)
  <2>1. \A q \in Steps : ~(resume <= q /\ q < resume)
    BY <1>3 DEF Steps
  <2>2. Climbs(opened, opened)
    BY <1>4, <2>1 DEF Climbs
  <2> QED BY <2>2, CompleteClimbs
<1>7. play' = begun /\ chain' = Fresh(begun, opened.facts)
  BY <1>1, <1>4 DEF opened
<1> HIDE DEF begun
<1>8. Grown(opened, play') /\ Climbs(opened, play') /\ chain' = Fresh(play', opened.facts)
  BY <1>5, <1>6, <1>7
<1>9. \A i \in DOMAIN play'.facts : \/ \E j \in DOMAIN stored' : stored'[j] = play'.facts[i]
                                    \/ \E j \in DOMAIN chain' : chain'[j] = play'.facts[i]
  <2> DEFINE n == Len(opened.facts)
             m == Len(play'.facts)
  <2>1. /\ n \in Nat /\ m \in Nat /\ DOMAIN opened.facts = 1 .. n /\ DOMAIN play'.facts = 1 .. m
        /\ \A i \in 1 .. n : play'.facts[i] = stored[i]
    BY <1>4, <1>8, GrownLogs
  <2>2. /\ chain' \in Seq(FactType) /\ Len(chain') = m - n
        /\ \A i \in 1 .. m - n : chain'[i] = play'.facts[n + i]
    BY <1>8, FreshIs
  <2>3. DOMAIN chain' = 1 .. Len(chain')
    <3>1. chain' \in Seq(FactType)
      BY <2>2
    <3> QED BY <3>1
  <2> HIDE DEF n, m
  <2>4. \A i \in 1 .. m : i \in 1 .. n \/ (i - n \in 1 .. m - n /\ n + (i - n) = i)
    BY <2>1
  <2> QED BY <1>2, <1>4, <2>1, <2>2, <2>3, <2>4
<1>10. ASSUME ~lost'
       PROVE  /\ OpenersKept' /\ Cleared(play.maxStepIdx)' /\ Cleared(resume)'
              /\ AllCleared'
  <2>1. Cleared(resume) /\ chain = <<>>
    BY <1>2, <1>10 DEF EInv
  <2>2. \A q \in Steps : q < resume /\ Gate(q) => Solved(stored, q)
    BY <2>1 DEF Cleared, Solved
  <2>3. Cleared(resume)' /\ AllCleared'
    BY <1>2, <2>2 DEF AllCleared, Cleared
  <2>4. OpenersKept'
    BY <1>9 DEF OpenersKept
  <2>5. Cleared(play.maxStepIdx)'
    <3> SUFFICES ASSUME NEW q \in Steps, q < play'.maxStepIdx, Gate(q)
                 PROVE  Solved(stored', q) \/ Solved(chain', q)
      BY DEF Cleared
    <3>1. q < resume \/ resume <= q
      BY <1>3 DEF Steps
    <3>2. CASE q < resume
      BY <1>2, <2>2, <3>2
    <3>3. CASE resume <= q
      <4>1. Solved(play'.facts, q)
        BY <1>4, <1>8, <3>3 DEF Climbs
      <4> QED BY <1>9, <4>1 DEF Solved
    <3> QED BY <3>1, <3>2, <3>3
  <2> QED BY <2>3, <2>4, <2>5
<1>11. play'.offer = None \/ play'.offer <= play'.maxStepIdx
  BY <1>8 DEF Climbs
<1> QED BY <1>10, <1>11 DEF EInv

LEMMA EarnsInitially == Init => EInv
<1> SUFFICES ASSUME Init
             PROVE  EInv
  OBVIOUS
<1>1. PICK paid \in SUBSET Elsewhere : play = NewPlay(<<>>, 0, paid)
  BY DEF Init
<1>2. play.offer = None /\ play.maxStepIdx = 0 /\ play.facts = <<>>
  BY <1>1 DEF NewPlay
<1>3. resume = 0 /\ saving = <<0>>
  BY DEF Init
<1>4. Cleared(0)
  BY DEF Cleared, Steps
<1>5. OpenersKept
  BY <1>2 DEF OpenersKept
<1> QED BY <1>2, <1>3, <1>4, <1>5 DEF EInv, AllCleared

LEMMA NextEarns ==
  ASSUME IInv, EInv, Next
  PROVE  EInv'
<1>1. CASE Press \/ Report \/ Finish \/ (\E score \in Scores : TapStars(score))
  BY <1>1, EventGrows
<1>2. CASE \E to \in 0 .. LastStep : GoToStep(to)
  BY <1>2, GoToEarns
<1>3. CASE LoadFeatures
  BY <1>3 DEF LoadFeatures, disk, EInv, OpenersKept, AllCleared, Cleared
<1>4. CASE WriteFact  BY <1>4, WriteEarns
<1>5. CASE WriteFails
  BY <1>5 DEF WriteFails, disk, EInv
<1>6. CASE SavePosition \/ PutRow  BY <1>6, SaveEarns
<1>7. CASE Reopen  BY <1>7, ReopenEarns
<1> QED BY <1>1, <1>2, <1>3, <1>4, <1>5, <1>6, <1>7 DEF Next

\* Nobody resumes beyond a question or a place whose solution is neither in storage nor
\* on its way there, whichever copy of the row is put back and however often the page
\* is left, as long as no fact was lost.
THEOREM PositionIsEarned == Spec => []ResumeIsEarned
<1>1. IInv /\ EInv => ResumeIsEarned
  <2> SUFFICES ASSUME IInv, EInv, ~lost, NEW p \in 0 .. resume - 1, Gate(p)
               PROVE  Solved(stored, p) \/ Solved(chain, p)
    BY DEF ResumeIsEarned
  <2>1. resume \in Steps
    BY DEF IInv, Typed
  <2>2. p \in Steps /\ p < resume
    BY <2>1, StepsAre DEF Steps
  <2> QED BY <2>2 DEF EInv, Cleared
<1>2. IInv /\ EInv /\ [Next]_vars => EInv'
  <2>1. IInv /\ EInv /\ UNCHANGED vars => EInv'
    BY DEF vars, EInv, OpenersKept, AllCleared, Cleared
  <2> QED BY <2>1, NextEarns
<1> QED BY Inductive, EarnsInitially, <1>1, <1>2, PTL DEF Spec

-----------------------------------------------------------------------------
(* Folds over a log.  FoldLeft folds the set of indices, the last one first;  *)
(* the lemmas below read ProjectBalance and AbsorbAll as functions on the     *)
(* front parts of the log, each one fact longer than the one before.          *)

\* Induction up to n, over a set of numbers.
LEMMA StepUp ==
  ASSUME NEW n \in Nat, NEW S, 0 \in S, \A m \in 0 .. n - 1 : m \in S => m + 1 \in S
  PROVE  0 .. n \subseteq S
<1> DEFINE bad == {m \in 0 .. n : m \notin S}
<1> SUFFICES ASSUME bad # {}
             PROVE  FALSE
  OBVIOUS
<1>1. bad \subseteq Nat /\ IsWellFoundedOn(OpToRel(<, Nat), Nat)
  <2>1. \A m \in 0 .. n : m \in Nat
    OBVIOUS
  <2> QED BY <2>1, NatLessThanWellFounded
<1>2. PICK m \in bad : \A k \in bad : ~(<<k, m>> \in OpToRel(<, Nat))
  <2> HIDE DEF bad
  <2> QED BY <1>1, WFMin
<1>3. m \in 0 .. n /\ m \notin S /\ m # 0
  OBVIOUS
<1>4. m - 1 \in 0 .. n - 1 /\ m - 1 \in 0 .. n /\ m - 1 \in Nat /\ m - 1 < m /\ (m - 1) + 1 = m /\ m \in Nat
  BY <1>3
<1>5. m - 1 \notin bad
  BY <1>2, <1>4 DEF OpToRel
<1> QED BY <1>3, <1>4, <1>5

\* The last index of a set of indices.
LEMMA MaxIs ==
  ASSUME NEW s, NEW m \in s, \A i \in s : i \in Int /\ i <= m
  PROVE  Max(s) = m
<1>1. m \in Int /\ \A i \in s : m >= i
  OBVIOUS
<1>2. \A x \in s : (\A i \in s : x >= i) => x = m
  OBVIOUS
<1> QED BY <1>1, <1>2 DEF Max

\* g folds the indices of a set, the last one first.
FoldsOver(n, T, base, step, g) ==
  /\ g \in [SUBSET (1 .. n) -> T]
  /\ \A s \in SUBSET (1 .. n) :
       g[s] = IF s = {} THEN base ELSE step[Max(s), g[s \ {Max(s)}]]

LEMMA FoldExists ==
  ASSUME NEW n \in Nat, NEW T, NEW base \in T, NEW step \in [(1 .. n) \X T -> T]
  PROVE  \E g : FoldsOver(n, T, base, step, g)
<1> DEFINE S == {m \in 0 .. n : \E g : FoldsOver(m, T, base, step, g)}
<1>1. 0 \in S
  <2> DEFINE g == [s \in SUBSET (1 .. 0) |-> base]
  <2>1. 1 .. 0 = {}
    OBVIOUS
  <2>2. SUBSET (1 .. 0) = {{}}
    BY <2>1
  <2>3. FoldsOver(0, T, base, step, g)
    BY <2>2 DEF FoldsOver
  <2> QED BY <2>3
<1>2. ASSUME NEW m \in 0 .. n - 1, m \in S
      PROVE  m + 1 \in S
  <2>1. PICK g : FoldsOver(m, T, base, step, g)
    BY <1>2
  <2> DEFINE l == m + 1
             h == [s \in SUBSET (1 .. l) |-> IF l \in s THEN step[l, g[s \ {l}]] ELSE g[s]]
  <2>2. l \in 1 .. n /\ l \in Nat /\ l \in 0 .. n /\ \A s \in SUBSET (1 .. l) : s \ {l} \in SUBSET (1 .. m)
    OBVIOUS
  <2>3. \A s \in SUBSET (1 .. l) : l \notin s => s \in SUBSET (1 .. m)
    <3>1. \A s \in SUBSET (1 .. l) : l \notin s => s \ {l} = s
      OBVIOUS
    <3> QED BY <2>2, <3>1
  <2>4. h \in [SUBSET (1 .. l) -> T]
    <3> SUFFICES ASSUME NEW s \in SUBSET (1 .. l)
                 PROVE  (IF l \in s THEN step[l, g[s \ {l}]] ELSE g[s]) \in T
      OBVIOUS
    <3>1. g \in [SUBSET (1 .. m) -> T]
      BY <2>1 DEF FoldsOver
    <3> HIDE DEF l
    <3>2. g[s \ {l}] \in T
      BY <2>2, <3>1
    <3>3. <<l, g[s \ {l}]>> \in (1 .. n) \X T
      BY <2>2, <3>2
    <3>4. step[l, g[s \ {l}]] \in T
      BY <3>3
    <3>5. l \notin s => g[s] \in T
      BY <2>3, <3>1
    <3> QED BY <3>4, <3>5
  <2>5. ASSUME NEW s \in SUBSET (1 .. l)
        PROVE  h[s] = IF s = {} THEN base ELSE step[Max(s), h[s \ {Max(s)}]]
    <3>1. CASE l \in s
      <4>1. Max(s) = l
        <5>1. \A i \in s : i \in Int /\ i <= l
          BY <2>2
        <5> HIDE DEF l
        <5> QED BY <3>1, <5>1, MaxIs
      <4>2. h[s \ {l}] = g[s \ {l}]
        BY <2>2
      <4> QED BY <3>1, <4>1, <4>2
    <3>2. CASE l \notin s
      <4>1. s \in SUBSET (1 .. m) /\ h[s] = g[s]
        BY <2>3, <3>2
      <4>2. g[s] = IF s = {} THEN base ELSE step[Max(s), g[s \ {Max(s)}]]
        BY <2>1, <4>1 DEF FoldsOver
      <4>3. s \ {Max(s)} \in SUBSET (1 .. l) /\ l \notin s \ {Max(s)}
        BY <3>2
      <4>4. h[s \ {Max(s)}] = g[s \ {Max(s)}]
        BY <4>3
      <4> QED BY <4>1, <4>2, <4>4
    <3> QED BY <3>1, <3>2
  <2>6. FoldsOver(l, T, base, step, h)
    <3> HIDE DEF h, l
    <3> QED BY <2>4, <2>5 DEF FoldsOver
  <2> HIDE DEF h
  <2> QED BY <2>2, <2>6
<1>3. 0 .. n \subseteq S
  <2> HIDE DEF S
  <2> QED BY <1>1, <1>2, StepUp
<1>4. n \in S
  BY <1>3
<1> QED BY <1>4

\* Read along the prefixes, a fold takes the elements in their order.
LEMMA FrontIndices ==
  ASSUME NEW n \in Nat, NEW m \in 1 .. n
  PROVE  /\ 1 .. m \in SUBSET (1 .. n) /\ 1 .. m # {}
         /\ Max(1 .. m) = m /\ (1 .. m) \ {m} = 1 .. m - 1
<1>1. m \in 1 .. m /\ \A i \in 1 .. m : i \in Int /\ i <= m
  OBVIOUS
<1>2. Max(1 .. m) = m
  BY <1>1, MaxIs
<1>3. 1 .. m \in SUBSET (1 .. n) /\ 1 .. m # {}
  BY <1>1
<1>4. (1 .. m) \ {m} = 1 .. m - 1
  OBVIOUS
<1> QED BY <1>2, <1>3, <1>4

Balances(log, g) ==
  g = [s \in SUBSET DOMAIN log |->
         IF s = {} THEN 0 ELSE g[s \ {Max(s)}] + log[Max(s)].coins]

LEMMA BalanceChosen ==
  ASSUME NEW log
  PROVE  ProjectBalance(log) = (CHOOSE g : Balances(log, g))[DOMAIN log]
BY DEF ProjectBalance, FoldLeft, MapThenFoldSet, Balances

Absorbs(log, g) ==
  g = [s \in SUBSET DOMAIN log |->
         IF s = {} THEN <<>> ELSE Absorb(g[s \ {Max(s)}], log[Max(s)])]

LEMMA AbsorbChosen ==
  ASSUME NEW log
  PROVE  AbsorbAll(<<>>, log) = (CHOOSE g : Absorbs(log, g))[DOMAIN log]
BY DEF AbsorbAll, FoldLeft, MapThenFoldSet, Absorbs

LEMMA MaxAmong ==
  ASSUME NEW n \in Nat, NEW s \in SUBSET (1 .. n), s # {}
  PROVE  Max(s) \in s
<1>1. \E i \in s : \A j \in s : j <= i
  BY LastIndex
<1>2. PICK i \in s : \A j \in s : j <= i
  BY <1>1
<1>3. \A j \in s : j \in Int /\ j <= i
  BY <1>2
<1> QED BY <1>2, <1>3, MaxIs

\* balanceSteps[i] is the balance of the first i facts.
LEMMA BalanceSteps ==
  ASSUME NEW log \in Seq(FactType)
  PROVE  \E c \in [0 .. Len(log) -> Int] :
           /\ c[0] = 0 /\ ProjectBalance(log) = c[Len(log)]
           /\ \A i \in 1 .. Len(log) : c[i] = c[i - 1] + log[i].coins
<1> DEFINE n == Len(log)
           step == [x \in (1 .. n) \X Int |-> x[2] + log[x[1]].coins]
<1>1. n \in Nat /\ DOMAIN log = 1 .. n /\ \A i \in 1 .. n : log[i].coins \in Int
  <2>1. \A i \in 1 .. n : log[i] \in FactType
    OBVIOUS
  <2> QED BY <2>1 DEF FactType
<1>2. step \in [(1 .. n) \X Int -> Int]
  BY <1>1
<1>3. PICK g : FoldsOver(n, Int, 0, step, g)
  <2>1. 0 \in Int
    OBVIOUS
  <2> HIDE DEF step, n
  <2> QED BY <1>1, <1>2, <2>1, FoldExists
<1>4. Balances(log, g)
  <2>1. g \in [SUBSET (1 .. n) -> Int]
    BY <1>3 DEF FoldsOver
  <2>2. ASSUME NEW s \in SUBSET (1 .. n), s # {}
        PROVE  g[s] = g[s \ {Max(s)}] + log[Max(s)].coins
    <3>1. Max(s) \in 1 .. n /\ s \ {Max(s)} \in SUBSET (1 .. n)
      BY <1>1, <2>2, MaxAmong
    <3>2. g[s] = step[Max(s), g[s \ {Max(s)}]]
      BY <1>3, <2>2 DEF FoldsOver
    <3>3. <<Max(s), g[s \ {Max(s)}]>> \in (1 .. n) \X Int
      BY <2>1, <3>1
    <3> QED BY <3>2, <3>3
  <2>3. \A s \in SUBSET (1 .. n) : s = {} => g[s] = 0
    BY <1>3 DEF FoldsOver
  <2> QED BY <1>1, <2>1, <2>2, <2>3 DEF Balances
<1> DEFINE b == CHOOSE h : Balances(log, h)
           c == [i \in 0 .. n |-> b[1 .. i]]
<1>5. Balances(log, b)
  BY <1>4
<1> HIDE DEF b, step
<1>6. b[1 .. 0] = 0 /\ \A i \in 1 .. n : b[1 .. i] = b[1 .. i - 1] + log[i].coins
  <2>1. \A s \in SUBSET (1 .. n) : b[s] = IF s = {} THEN 0 ELSE b[s \ {Max(s)}] + log[Max(s)].coins
    BY <1>1, <1>5 DEF Balances
  <2>2. 1 .. 0 = {} /\ 1 .. 0 \in SUBSET (1 .. n)
    OBVIOUS
  <2>3. b[1 .. 0] = 0
    BY <2>1, <2>2
  <2> HIDE DEF n
  <2>4. ASSUME NEW i \in 1 .. n
        PROVE  b[1 .. i] = b[1 .. i - 1] + log[i].coins
    <3>1. /\ 1 .. i \in SUBSET (1 .. n) /\ 1 .. i # {}
          /\ Max(1 .. i) = i /\ (1 .. i) \ {i} = 1 .. i - 1
      BY <1>1, FrontIndices
    <3>2. b[1 .. i] = b[(1 .. i) \ {Max(1 .. i)}] + log[Max(1 .. i)].coins
      BY <2>1, <3>1
    <3> QED BY <3>1, <3>2
  <2> QED BY <2>3, <2>4
<1>7. \A i \in 0 .. n : c[i] = b[1 .. i]
  OBVIOUS
<1>8. c[0] = 0 /\ \A i \in 1 .. n : c[i] = c[i - 1] + log[i].coins
  <2>1. 0 \in 0 .. n /\ \A i \in 1 .. n : i \in 0 .. n /\ i - 1 \in 0 .. n
    BY <1>1
  <2> HIDE DEF c, n
  <2> QED BY <1>6, <1>7, <2>1
<1>9. ProjectBalance(log) = c[n]
  <2>1. n \in 0 .. n
    BY <1>1
  <2> QED BY <1>1, <1>7, <2>1, BalanceChosen DEF b
<1>10. \A i \in 0 .. n : c[i] \in Int
  <2> DEFINE S == {i \in 0 .. n : c[i] \in Int}
  <2>1. 0 \in S
    BY <1>1, <1>8
  <2>2. ASSUME NEW i \in 0 .. n - 1, i \in S
        PROVE  i + 1 \in S
    <3>1. i + 1 \in 1 .. n /\ i + 1 \in 0 .. n /\ (i + 1) - 1 = i
      BY <1>1
    <3>2. c[i + 1] = c[(i + 1) - 1] + log[i + 1].coins
      BY <1>8, <3>1
    <3>3. c[i] \in Int /\ log[i + 1].coins \in Int
      BY <1>1, <2>2, <3>1
    <3> HIDE DEF c
    <3> QED BY <3>1, <3>2, <3>3
  <2>3. 0 .. n \subseteq S
    <3> HIDE DEF S, n
    <3> QED BY <1>1, <2>1, <2>2, StepUp
  <2> QED BY <2>3
<1>11. c \in [0 .. n -> Int]
  BY <1>10
<1> QED BY <1>8, <1>9, <1>11
\* ... and absorbed after the first i facts it is a[i].
LEMMA AbsorbSteps ==
  ASSUME NEW log \in Seq(FactType)
  PROVE  \E c \in [0 .. Len(log) -> Seq(FactType)] :
           /\ c[0] = <<>> /\ AbsorbAll(<<>>, log) = c[Len(log)]
           /\ \A i \in 1 .. Len(log) : c[i] = Absorb(c[i - 1], log[i])
<1> DEFINE n == Len(log)
           step == [x \in (1 .. n) \X Seq(FactType) |-> Absorb(x[2], log[x[1]])]
<1>1. n \in Nat /\ DOMAIN log = 1 .. n /\ \A i \in 1 .. n : log[i] \in FactType
  OBVIOUS
<1>2. step \in [(1 .. n) \X Seq(FactType) -> Seq(FactType)]
  BY <1>1, AbsorbIs
<1>3. PICK g : FoldsOver(n, Seq(FactType), <<>>, step, g)
  <2>1. <<>> \in Seq(FactType)
    OBVIOUS
  <2> HIDE DEF step, n
  <2> QED BY <1>1, <1>2, <2>1, FoldExists
<1>4. Absorbs(log, g)
  <2>1. g \in [SUBSET (1 .. n) -> Seq(FactType)]
    BY <1>3 DEF FoldsOver
  <2>2. ASSUME NEW s \in SUBSET (1 .. n), s # {}
        PROVE  g[s] = Absorb(g[s \ {Max(s)}], log[Max(s)])
    <3>1. Max(s) \in 1 .. n /\ s \ {Max(s)} \in SUBSET (1 .. n)
      BY <1>1, <2>2, MaxAmong
    <3>2. g[s] = step[Max(s), g[s \ {Max(s)}]]
      BY <1>3, <2>2 DEF FoldsOver
    <3>3. <<Max(s), g[s \ {Max(s)}]>> \in (1 .. n) \X Seq(FactType)
      BY <2>1, <3>1
    <3> QED BY <3>2, <3>3
  <2>3. \A s \in SUBSET (1 .. n) : s = {} => g[s] = <<>>
    BY <1>3 DEF FoldsOver
  <2> QED BY <1>1, <2>1, <2>2, <2>3 DEF Absorbs
<1> DEFINE b == CHOOSE h : Absorbs(log, h)
           c == [i \in 0 .. n |-> b[1 .. i]]
<1>5. Absorbs(log, b)
  BY <1>4
<1> HIDE DEF b, step
<1>6. b[1 .. 0] = <<>> /\ \A i \in 1 .. n : b[1 .. i] = Absorb(b[1 .. i - 1], log[i])
  <2>1. \A s \in SUBSET (1 .. n) : b[s] = IF s = {} THEN <<>> ELSE Absorb(b[s \ {Max(s)}], log[Max(s)])
    BY <1>1, <1>5 DEF Absorbs
  <2>2. 1 .. 0 = {} /\ 1 .. 0 \in SUBSET (1 .. n)
    OBVIOUS
  <2>3. b[1 .. 0] = <<>>
    BY <2>1, <2>2
  <2> HIDE DEF n
  <2>4. ASSUME NEW i \in 1 .. n
        PROVE  b[1 .. i] = Absorb(b[1 .. i - 1], log[i])
    <3>1. /\ 1 .. i \in SUBSET (1 .. n) /\ 1 .. i # {}
          /\ Max(1 .. i) = i /\ (1 .. i) \ {i} = 1 .. i - 1
      BY <1>1, FrontIndices
    <3>2. b[1 .. i] = Absorb(b[(1 .. i) \ {Max(1 .. i)}], log[Max(1 .. i)])
      BY <2>1, <3>1
    <3> QED BY <3>1, <3>2
  <2> QED BY <2>3, <2>4
<1>7. \A i \in 0 .. n : c[i] = b[1 .. i]
  OBVIOUS
<1>8. c[0] = <<>> /\ \A i \in 1 .. n : c[i] = Absorb(c[i - 1], log[i])
  <2>1. 0 \in 0 .. n /\ \A i \in 1 .. n : i \in 0 .. n /\ i - 1 \in 0 .. n
    BY <1>1
  <2> HIDE DEF c, n
  <2> QED BY <1>6, <1>7, <2>1
<1>9. AbsorbAll(<<>>, log) = c[n]
  <2>1. n \in 0 .. n
    BY <1>1
  <2> QED BY <1>1, <1>7, <2>1, AbsorbChosen DEF b
<1>10. \A i \in 0 .. n : c[i] \in Seq(FactType)
  <2> DEFINE S == {i \in 0 .. n : c[i] \in Seq(FactType)}
  <2>1. 0 \in S
    <3>1. 0 \in 0 .. n /\ <<>> \in Seq(FactType)
      BY <1>1
    <3>2. c[0] = <<>>
      BY <1>8
    <3> HIDE DEF c, n
    <3> QED BY <3>1, <3>2
  <2>2. ASSUME NEW i \in 0 .. n - 1, i \in S
        PROVE  i + 1 \in S
    <3>1. i + 1 \in 1 .. n /\ i + 1 \in 0 .. n /\ (i + 1) - 1 = i
      BY <1>1
    <3>2. c[i + 1] = Absorb(c[(i + 1) - 1], log[i + 1])
      BY <1>8, <3>1
    <3>3. c[i] \in Seq(FactType) /\ log[i + 1] \in FactType
      BY <1>1, <2>2, <3>1
    <3>4. \A r \in Seq(FactType), f \in FactType : Absorb(r, f) \in Seq(FactType)
      BY AbsorbIs
    <3>5. c[i + 1] \in Seq(FactType)
      BY <3>1, <3>2, <3>3, <3>4
    <3> QED BY <3>1, <3>5
  <2>3. 0 .. n \subseteq S
    <3> HIDE DEF S, n
    <3> QED BY <1>1, <2>1, <2>2, StepUp
  <2> QED BY <2>3
<1>11. c \in [0 .. n -> Seq(FactType)]
  BY <1>10
<1> QED BY <1>8, <1>9, <1>11

-----------------------------------------------------------------------------
(* Collapsing a log by natural key.                                         *)

LEMMA BalanceAppend ==
  ASSUME NEW log \in Seq(FactType), NEW f \in FactType
  PROVE  ProjectBalance(Append(log, f)) = ProjectBalance(log) + f.coins
<1> DEFINE new == Append(log, f)
           n   == Len(log)
<1>1. /\ new \in Seq(FactType) /\ n \in Nat /\ Len(new) = n + 1
      /\ new[n + 1] = f /\ \A i \in 1 .. n : new[i] = log[i]
  BY AppendAt
<1>2. PICK c \in [0 .. n -> Int] :
        /\ c[0] = 0 /\ ProjectBalance(log) = c[n]
        /\ \A i \in 1 .. n : c[i] = c[i - 1] + log[i].coins
  BY BalanceSteps
<1> HIDE DEF new
<1>3. PICK d \in [0 .. n + 1 -> Int] :
        /\ d[0] = 0 /\ ProjectBalance(new) = d[n + 1]
        /\ \A i \in 1 .. n + 1 : d[i] = d[i - 1] + new[i].coins
  <2>1. \E d \in [0 .. Len(new) -> Int] :
          /\ d[0] = 0 /\ ProjectBalance(new) = d[Len(new)]
          /\ \A i \in 1 .. Len(new) : d[i] = d[i - 1] + new[i].coins
    BY <1>1, BalanceSteps
  <2> QED BY <1>1, <2>1
<1> HIDE DEF n
<1> DEFINE S == {i \in 0 .. n : c[i] = d[i]}
<1>4. 0 \in S
  BY <1>1, <1>2, <1>3
<1>5. ASSUME NEW i \in 0 .. n - 1, i \in S
      PROVE  i + 1 \in S
  <2>1. i + 1 \in 1 .. n /\ i + 1 \in 1 .. n + 1 /\ (i + 1) - 1 = i /\ i + 1 \in 0 .. n
    BY <1>1
  <2>2. c[i + 1] = c[i] + log[i + 1].coins
    BY <1>2, <2>1
  <2>3. d[i + 1] = d[i] + log[i + 1].coins
    BY <1>1, <1>3, <2>1
  <2> QED BY <1>5, <2>1, <2>2, <2>3
<1>6. 0 .. n \subseteq S
  <2> HIDE DEF S
  <2> QED BY <1>1, <1>4, <1>5, StepUp
<1>7. c[n] = d[n]
  BY <1>1, <1>6
<1>8. d[n + 1] = d[n] + f.coins
  <2>1. n + 1 \in 1 .. n + 1 /\ (n + 1) - 1 = n
    BY <1>1
  <2> QED BY <1>1, <1>3, <2>1
<1> QED BY <1>2, <1>3, <1>7, <1>8 DEF new

\* Mistakes are told apart by their natural keys.
Apart(log) ==
  \A i, j \in DOMAIN log : Wrong(log[i]) /\ Wrong(log[j]) /\ Key(log[i]) = Key(log[j]) => i = j

\* r is what the first m facts of the log collapse to.
Reduced(log, m, r) ==
  /\ \A i, j \in DOMAIN r : Key(r[i]) = Key(r[j]) => i = j
  /\ \A i \in DOMAIN r : \E k \in 1 .. m : r[i] = log[k]
  /\ \A k \in 1 .. m : \E i \in DOMAIN r : Key(r[i]) = Key(log[k])

LEMMA ReducedStep ==
  ASSUME NEW log \in Seq(FactType), Priced(log), NEW m \in 0 .. Len(log) - 1,
         NEW r \in Seq(FactType), Reduced(log, m, r)
  PROVE  LET f == log[m + 1]
         IN  /\ Absorb(r, f) \in Seq(FactType) /\ Reduced(log, m + 1, Absorb(r, f))
             /\ ProjectBalance(Absorb(r, f)) = ProjectBalance(r) + f.coins
<1> DEFINE f == log[m + 1]
           q == Absorb(r, f)
<1>1. /\ Len(log) \in Nat /\ DOMAIN log = 1 .. Len(log) /\ m + 1 \in 1 .. Len(log)
      /\ \A k \in 1 .. m + 1 : k \in 1 .. m \/ k = m + 1
      /\ \A k \in 1 .. m : k \in 1 .. m + 1 /\ k < m + 1 /\ k \in DOMAIN log
      /\ m + 1 \in 1 .. m + 1
  OBVIOUS
<1>2. f \in FactType
  BY <1>1
<1>3. /\ q \in Seq(FactType)
      /\ \A i \in DOMAIN r : i \in DOMAIN q /\ q[i] = r[i]
      /\ \A i \in DOMAIN q : i \in DOMAIN r \/ q[i] = f
      /\ \E i \in DOMAIN q : Key(q[i]) = Key(f)
  <2> HIDE DEF f
  <2> QED BY <1>2, AbsorbIs
<1>4. \A i, j \in DOMAIN q : Key(q[i]) = Key(q[j]) => i = j
  <2> HIDE DEF f
  <2> QED BY <1>2, AbsorbKeys DEF Reduced
<1>5. \A i \in DOMAIN q : \E k \in 1 .. m + 1 : q[i] = log[k]
  <2> HIDE DEF q
  <2> QED BY <1>1, <1>3 DEF Reduced
<1>6. \A k \in 1 .. m + 1 : \E i \in DOMAIN q : Key(q[i]) = Key(log[k])
  <2> HIDE DEF q
  <2> QED BY <1>1, <1>3 DEF Reduced
<1>7. ProjectBalance(q) = ProjectBalance(r) + f.coins
  <2>1. CASE \E i \in DOMAIN r : Key(r[i]) = Key(f)
    <3>1. q = r
      BY <2>1 DEF Absorb
    <3>2. PICK i \in DOMAIN r : Key(r[i]) = Key(f)
      BY <2>1
    <3>3. PICK k \in 1 .. m : r[i] = log[k]
      BY DEF Reduced
    <3>4. f.coins = 0
      BY <1>1, <3>2, <3>3 DEF Priced
    <3>5. ProjectBalance(r) \in Int
      <4>1. PICK c \in [0 .. Len(r) -> Int] : ProjectBalance(r) = c[Len(r)]
        BY BalanceSteps
      <4>2. Len(r) \in 0 .. Len(r)
        OBVIOUS
      <4> QED BY <4>1, <4>2
    <3> QED BY <3>1, <3>4, <3>5
  <2>2. CASE ~\E i \in DOMAIN r : Key(r[i]) = Key(f)
    <3>1. q = Append(r, f)
      BY <2>2 DEF Absorb
    <3> QED BY <1>2, <3>1, BalanceAppend
  <2> QED BY <2>1, <2>2
<1> QED BY <1>3, <1>4, <1>5, <1>6, <1>7 DEF Reduced

\* A log and what it collapses to hold the same keys and the same balance.
LEMMA CollapsedLog ==
  ASSUME NEW log \in Seq(FactType), Priced(log)
  PROVE  /\ AbsorbAll(<<>>, log) \in Seq(FactType)
         /\ Reduced(log, Len(log), AbsorbAll(<<>>, log))
         /\ ProjectBalance(AbsorbAll(<<>>, log)) = ProjectBalance(log)
<1> DEFINE n == Len(log)
<1>1. n \in Nat
  OBVIOUS
<1>2. PICK a \in [0 .. n -> Seq(FactType)] :
        /\ a[0] = <<>> /\ AbsorbAll(<<>>, log) = a[n]
        /\ \A i \in 1 .. n : a[i] = Absorb(a[i - 1], log[i])
  BY AbsorbSteps
<1>3. PICK c \in [0 .. n -> Int] :
        /\ c[0] = 0 /\ ProjectBalance(log) = c[n]
        /\ \A i \in 1 .. n : c[i] = c[i - 1] + log[i].coins
  BY BalanceSteps
<1> DEFINE S == {m \in 0 .. n : Reduced(log, m, a[m]) /\ ProjectBalance(a[m]) = c[m]}
<1>4. 0 \in S
  <2>1. 0 \in 0 .. n /\ 1 .. 0 = {} /\ <<>> \in Seq(FactType) /\ Len(<<>>) = 0 /\ DOMAIN <<>> = {}
    BY <1>1
  <2>2. Reduced(log, 0, <<>>)
    BY <2>1 DEF Reduced
  <2>3. ProjectBalance(<<>>) = 0
    BY <2>1, BalanceSteps
  <2> QED BY <1>2, <1>3, <2>1, <2>2, <2>3
<1>5. ASSUME NEW m \in 0 .. n - 1, m \in S
      PROVE  m + 1 \in S
  <2>1. m + 1 \in 1 .. n /\ m + 1 \in 0 .. n /\ (m + 1) - 1 = m /\ m \in 0 .. n
    BY <1>1
  <2>2. a[m + 1] = Absorb(a[m], log[m + 1]) /\ c[m + 1] = c[m] + log[m + 1].coins
    BY <1>2, <1>3, <2>1
  <2>3. a[m] \in Seq(FactType) /\ Reduced(log, m, a[m]) /\ ProjectBalance(a[m]) = c[m]
    BY <1>5, <2>1
  <2>4. /\ Reduced(log, m + 1, Absorb(a[m], log[m + 1]))
        /\ ProjectBalance(Absorb(a[m], log[m + 1])) = ProjectBalance(a[m]) + log[m + 1].coins
    BY <2>3, ReducedStep
  <2> QED BY <2>1, <2>2, <2>3, <2>4
<1>6. n \in S
  <2>1. 0 .. n \subseteq S
    <3> HIDE DEF S, n
    <3> QED BY <1>1, <1>4, <1>5, StepUp
  <2> QED BY <1>1, <2>1
<1>7. a[n] \in Seq(FactType)
  BY <1>1
<1> QED BY <1>2, <1>3, <1>6, <1>7

\* A fact of the log and the one its key stands for say the same of a step.
LEMMA SameVerdict ==
  ASSUME NEW log, JudgedOnce(log), NEW i \in DOMAIN log, NEW j \in DOMAIN log,
         Key(log[i]) = Key(log[j])
  PROVE  /\ log[i].kind = log[j].kind /\ log[i].step = log[j].step
         /\ CompletesStep(log[i]) <=> CompletesStep(log[j])
         /\ Wrong(log[i]) <=> Wrong(log[j])
<1>1. log[i].kind = log[j].kind /\ log[i].step = log[j].step
  BY SameKey
<1>2. log[i].kind = "answer_submitted" => log[i].ok = log[j].ok
  BY DEF JudgedOnce
<1> QED BY <1>1, <1>2 DEF CompletesStep, Wrong

\* v is the score of the last rating among the first n facts, 0 without one.
LastScore(log, n, v) ==
  \/ v = 0 /\ \A j \in 1 .. n : log[j].kind # "quest_rated"
  \/ \E i \in 1 .. n :
       /\ log[i].kind = "quest_rated" /\ log[i].value = v
       /\ \A j \in i + 1 .. n : log[j].kind # "quest_rated"

LEMMA LatestIsLast ==
  ASSUME NEW log \in Seq(FactType), NEW v, LastScore(log, Len(log), v)
  PROVE  LatestRating(log) = v
<1> DEFINE rated == {i \in DOMAIN log : log[i].kind = "quest_rated"}
           last  == CHOOSE i \in rated : \A j \in rated : j <= i
<1>1. Len(log) \in Nat /\ DOMAIN log = 1 .. Len(log)
  OBVIOUS
<1>2. LatestRating(log) = IF rated = {} THEN 0 ELSE log[last].value
  BY DEF LatestRating
<1>3. CASE v = 0 /\ \A j \in 1 .. Len(log) : log[j].kind # "quest_rated"
  BY <1>1, <1>2, <1>3
<1>4. CASE \E i \in 1 .. Len(log) :
             /\ log[i].kind = "quest_rated" /\ log[i].value = v
             /\ \A j \in i + 1 .. Len(log) : log[j].kind # "quest_rated"
  <2>1. PICK i \in 1 .. Len(log) :
          /\ log[i].kind = "quest_rated" /\ log[i].value = v
          /\ \A j \in i + 1 .. Len(log) : log[j].kind # "quest_rated"
    BY <1>4
  <2>2. i \in rated /\ rated \subseteq Int /\ \A j \in rated : j <= i
    BY <1>1, <2>1
  <2>3. last = i
    <3> HIDE DEF rated
    <3>1. \A k \in rated : (\A j \in rated : j <= k) => k = i
      BY <2>2
    <3> QED BY <2>2, <3>1
  <2> HIDE DEF rated, last
  <2> QED BY <1>2, <2>1, <2>2, <2>3
<1> QED BY <1>3, <1>4 DEF LastScore

\* The last score of a log that grows by one fact.
LEMMA LastScoreGrows ==
  ASSUME NEW log, NEW new, NEW n \in Nat, NEW v, NEW f,
         new[n + 1] = f, \A i \in 1 .. n : new[i] = log[i]
  PROVE  /\ f.kind = "quest_rated" => LastScore(new, n + 1, f.value)
         /\ f.kind # "quest_rated" /\ LastScore(log, n, v) => LastScore(new, n + 1, v)
<1>1. /\ n + 1 \in 1 .. n + 1 /\ (n + 1) + 1 .. n + 1 = {}
      /\ \A j \in 1 .. n + 1 : j \in 1 .. n \/ j = n + 1
      /\ \A i \in 1 .. n : i \in 1 .. n + 1
      /\ \A i \in 1 .. n : \A j \in i + 1 .. n + 1 : j \in 1 .. n + 1 /\ (j \in i + 1 .. n \/ j = n + 1)
  OBVIOUS
<1>2. f.kind = "quest_rated" => LastScore(new, n + 1, f.value)
  BY <1>1 DEF LastScore
<1>3. ASSUME f.kind # "quest_rated", LastScore(log, n, v)
      PROVE  LastScore(new, n + 1, v)
  <2>1. CASE v = 0 /\ \A j \in 1 .. n : log[j].kind # "quest_rated"
    BY <1>1, <1>3, <2>1 DEF LastScore
  <2>2. CASE \E i \in 1 .. n : /\ log[i].kind = "quest_rated" /\ log[i].value = v
                              /\ \A j \in i + 1 .. n : log[j].kind # "quest_rated"
    <3>1. PICK i \in 1 .. n : /\ log[i].kind = "quest_rated" /\ log[i].value = v
                             /\ \A j \in i + 1 .. n : log[j].kind # "quest_rated"
      BY <2>2
    <3>2. \A j \in i + 1 .. n + 1 : new[j].kind # "quest_rated"
      <4>1. \A j \in i + 1 .. n : j \in 1 .. n
        OBVIOUS
      <4> QED BY <1>1, <1>3, <3>1, <4>1
    <3> QED BY <1>1, <3>1, <3>2 DEF LastScore
  <2> QED BY <1>3, <2>1, <2>2 DEF LastScore
<1> QED BY <1>2, <1>3

\* One fact more in the log and in what it collapses to: a rating that is known comes
\* right after its like, or no rating would return to it.
LEMMA RatingStep ==
  ASSUME NEW log \in Seq(FactType), RatedOnce(log), NEW m \in 0 .. Len(log) - 1,
         NEW r \in Seq(FactType), Reduced(log, m, r), NEW v,
         LastScore(log, m, v), LastScore(r, Len(r), v)
  PROVE  LET q == Absorb(r, log[m + 1])
         IN  \E w : LastScore(log, m + 1, w) /\ LastScore(q, Len(q), w)
<1> DEFINE f == log[m + 1]
           q == Absorb(r, f)
<1>1. /\ m \in Nat /\ m + 1 \in DOMAIN log /\ f \in FactType /\ Len(r) \in Nat
      /\ \A k \in 1 .. m : k \in DOMAIN log /\ k \in Int
  OBVIOUS
<1>2. /\ f.kind = "quest_rated" => LastScore(log, m + 1, f.value)
      /\ f.kind # "quest_rated" => LastScore(log, m + 1, v)
  <2> HIDE DEF f
  <2> QED BY <1>1, LastScoreGrows DEF f
<1>3. CASE \E i \in DOMAIN r : Key(r[i]) = Key(f)
  <2>1. q = r
    BY <1>3 DEF Absorb
  <2>2. ASSUME f.kind = "quest_rated"
        PROVE  v = f.value
    <3>1. PICK i \in DOMAIN r : Key(r[i]) = Key(f)
      BY <1>3
    <3>2. PICK k \in 1 .. m : r[i] = log[k]
      BY DEF Reduced
    <3>3. Key(log[k]) = Key(f) /\ log[k].kind = "quest_rated" /\ log[k].value = f.value
      BY <2>2, <3>1, <3>2 DEF Key
    <3>4. PICK l \in 1 .. m : /\ log[l].kind = "quest_rated" /\ log[l].value = v
                             /\ \A j \in l + 1 .. m : log[j].kind # "quest_rated"
      BY <3>3 DEF LastScore
    <3>5. l \in k .. m + 1
      BY <1>1, <3>3, <3>4
    <3>6. log[l].value = log[k].value
      BY <1>1, <3>3, <3>4, <3>5 DEF RatedOnce
    <3> QED BY <3>3, <3>4, <3>6
  <2> HIDE DEF f, q
  <2> QED BY <1>2, <2>1, <2>2 DEF q, f
<1>4. CASE ~\E i \in DOMAIN r : Key(r[i]) = Key(f)
  <2>1. q = Append(r, f)
    BY <1>4 DEF Absorb
  <2> HIDE DEF f
  <2>2. /\ Len(q) = Len(r) + 1 /\ q[Len(r) + 1] = f
        /\ \A i \in 1 .. Len(r) : q[i] = r[i]
    BY <1>1, <2>1, AppendAt
  <2> HIDE DEF q
  <2>3. /\ f.kind = "quest_rated" => LastScore(q, Len(q), f.value)
        /\ f.kind # "quest_rated" => LastScore(q, Len(q), v)
    BY <1>1, <2>2, LastScoreGrows
  <2> QED BY <1>2, <2>3 DEF q, f
<1> QED BY <1>3, <1>4

\* A log where no rating returns and what it collapses to end on one score.
LEMMA CollapsedRating ==
  ASSUME NEW log \in Seq(FactType), Priced(log), RatedOnce(log)
  PROVE  LatestRating(AbsorbAll(<<>>, log)) = LatestRating(log)
<1> DEFINE n == Len(log)
<1>1. n \in Nat
  OBVIOUS
<1>2. PICK a \in [0 .. n -> Seq(FactType)] :
        /\ a[0] = <<>> /\ AbsorbAll(<<>>, log) = a[n]
        /\ \A i \in 1 .. n : a[i] = Absorb(a[i - 1], log[i])
  BY AbsorbSteps
<1> DEFINE S == {m \in 0 .. n :
                   /\ Reduced(log, m, a[m])
                   /\ \E v : LastScore(log, m, v) /\ LastScore(a[m], Len(a[m]), v)}
<1>3. 0 \in S
  <2>1. 0 \in 0 .. n /\ 1 .. 0 = {} /\ Len(<<>>) = 0 /\ DOMAIN <<>> = {}
    BY <1>1
  <2>2. Reduced(log, 0, <<>>)
    BY <2>1 DEF Reduced
  <2>3. LastScore(log, 0, 0) /\ LastScore(<<>>, Len(<<>>), 0)
    BY <2>1 DEF LastScore
  <2> QED BY <1>2, <2>1, <2>2, <2>3
<1>4. ASSUME NEW m \in 0 .. n - 1, m \in S
      PROVE  m + 1 \in S
  <2>1. m + 1 \in 1 .. n /\ m + 1 \in 0 .. n /\ (m + 1) - 1 = m /\ m \in 0 .. n
    BY <1>1
  <2>2. a[m + 1] = Absorb(a[m], log[m + 1])
    BY <1>2, <2>1
  <2>3. a[m] \in Seq(FactType) /\ Reduced(log, m, a[m])
    BY <1>4, <2>1
  <2>4. PICK v : LastScore(log, m, v) /\ LastScore(a[m], Len(a[m]), v)
    BY <1>4
  <2>5. Reduced(log, m + 1, a[m + 1])
    BY <2>2, <2>3, ReducedStep
  <2>6. \E w : LastScore(log, m + 1, w) /\ LastScore(a[m + 1], Len(a[m + 1]), w)
    BY <2>2, <2>3, <2>4, RatingStep
  <2> QED BY <2>1, <2>5, <2>6
<1>5. n \in S
  <2>1. 0 .. n \subseteq S
    <3> HIDE DEF S, n
    <3> QED BY <1>1, <1>3, <1>4, StepUp
  <2> QED BY <1>1, <2>1
<1>6. PICK v : LastScore(log, n, v) /\ LastScore(a[n], Len(a[n]), v)
  BY <1>5
<1>7. a[n] \in Seq(FactType)
  BY <1>1
<1> QED BY <1>2, <1>6, <1>7, LatestIsLast

LEMMA Replays ==
  ASSUME NEW log \in Seq(FactType), Priced(log), Apart(log), JudgedOnce(log), RatedOnce(log)
  PROVE  Behaviour(AbsorbAll(<<>>, log)) = Behaviour(log)
<1> DEFINE r == AbsorbAll(<<>>, log)
<1>1. /\ r \in Seq(FactType) /\ ProjectBalance(r) = ProjectBalance(log)
      /\ \A i, j \in DOMAIN r : Key(r[i]) = Key(r[j]) => i = j
      /\ \A i \in DOMAIN r : \E k \in DOMAIN log : r[i] = log[k]
      /\ \A k \in DOMAIN log : \E i \in DOMAIN r : Key(r[i]) = Key(log[k])
  <2>1. DOMAIN log = 1 .. Len(log)
    OBVIOUS
  <2> QED BY <2>1, CollapsedLog DEF Reduced
<1> HIDE DEF r
<1>2. \* the fact that stands for another is one of the log
      ASSUME NEW k \in DOMAIN log
      PROVE  \E i \in DOMAIN r :
               /\ Key(r[i]) = Key(log[k])
               /\ r[i].kind = log[k].kind /\ r[i].step = log[k].step
               /\ CompletesStep(r[i]) <=> CompletesStep(log[k])
               /\ Wrong(r[i]) <=> Wrong(log[k])
  <2>1. PICK i \in DOMAIN r : Key(r[i]) = Key(log[k])
    BY <1>1
  <2>2. PICK l \in DOMAIN log : r[i] = log[l]
    BY <1>1
  <2> QED BY <2>1, <2>2, SameVerdict
<1>3. {r[i].step : i \in {j \in DOMAIN r : CompletesStep(r[j])}}
        = {log[i].step : i \in {j \in DOMAIN log : CompletesStep(log[j])}}
  BY <1>1, <1>2
<1>4. {r[i].step : i \in {j \in DOMAIN r : r[j].kind = "hint_purchased"}}
        = {log[i].step : i \in {j \in DOMAIN log : log[j].kind = "hint_purchased"}}
  BY <1>1, <1>2
<1>5. ProjectState(r) = ProjectState(log)
  BY <1>1, <1>3, <1>4 DEF ProjectState
<1>6. ASSUME NEW p
      PROVE  Cardinality(Wrongs(r, p)) = Cardinality(Wrongs(log, p))
  <2> DEFINE A == Wrongs(r, p)
             B == Wrongs(log, p)
             match == [i \in A |-> CHOOSE k \in DOMAIN log : r[i] = log[k]]
  <2>1. A \subseteq DOMAIN r /\ \A i \in A : Wrong(r[i]) /\ r[i].step = p
    BY DEF Wrongs, Wrong
  <2>2. \A k \in DOMAIN log : k \in B <=> Wrong(log[k]) /\ log[k].step = p
    BY DEF Wrongs, Wrong
  <2>3. \A i \in A : match[i] \in DOMAIN log /\ r[i] = log[match[i]]
    BY <1>1, <2>1
  <2> HIDE DEF match
  <2>4. \A i \in A : match[i] \in B
    BY <2>1, <2>2, <2>3
  <2>5. match \in [A -> B]
    BY <2>4 DEF match
  <2>6. \A i, j \in A : match[i] = match[j] => i = j
    BY <1>1, <2>1, <2>3
  <2>7. ASSUME NEW k \in B
        PROVE  \E i \in A : match[i] = k
    <3>1. k \in DOMAIN log /\ Wrong(log[k]) /\ log[k].step = p
      BY <2>2 DEF Wrongs
    <3>2. PICK i \in DOMAIN r : /\ Key(r[i]) = Key(log[k]) /\ r[i].step = log[k].step
                                /\ Wrong(r[i]) <=> Wrong(log[k])
      BY <1>2, <3>1
    <3>3. i \in A
      BY <3>1, <3>2 DEF Wrongs, Wrong
    <3>4. match[i] = k
      BY <2>3, <3>1, <3>2, <3>3 DEF Apart
    <3> QED BY <3>3, <3>4
  <2>8. match \in Bijection(A, B)
    BY <2>5, <2>6, <2>7 DEF Bijection, Injection, Surjection, IsInjective
  <2>9. IsFiniteSet(A)
    <3>1. Len(r) \in Nat /\ DOMAIN r = 1 .. Len(r)
      BY <1>1
    <3>2. A \subseteq 1 .. Len(r) /\ IsFiniteSet(1 .. Len(r))
      BY <3>1, FS_Interval DEF Wrongs
    <3> QED BY <3>2, FS_Subset
  <2>10. ExistsBijection(A, B)
    BY <2>8 DEF ExistsBijection
  <2> HIDE DEF A, B
  <2>11. Cardinality(A) = Cardinality(B)
    BY <2>9, <2>10, FS_Bijection
  <2> QED BY <2>11 DEF A, B
<1>7. LatestRating(r) = LatestRating(log)
  BY CollapsedRating DEF r
<1> QED BY <1>5, <1>6, <1>7 DEF Behaviour, Mistakes, r

LEMMA NumberedApart ==
  ASSUME NEW log \in Seq(FactType), Numbered(log)
  PROVE  Apart(log)
<1>1. Len(log) \in Nat /\ DOMAIN log = 1 .. Len(log)
  OBVIOUS
<1>2. ASSUME NEW i \in DOMAIN log, NEW j \in DOMAIN log, i < j,
             Wrong(log[i]), Wrong(log[j]), Key(log[i]) = Key(log[j])
      PROVE  FALSE
  <2> DEFINE T == Repeats(log, j - 1, log[j])
  <2>1. i \in 1 .. j - 1 /\ j - 1 \in Nat /\ 1 .. j - 1 \subseteq DOMAIN log
    BY <1>1, <1>2
  <2>2. i \in T /\ Rank(log[i]) = Rank(log[j])
    BY <1>2, <2>1 DEF Repeats, SameText, Key, Rank
  <2>3. Rank(log[i]) <= Cardinality(T) /\ Cardinality(T) \in Nat
    BY <2>1, <2>2, RankBound, RepeatsFinite
  <2>4. Rank(log[j]) = Cardinality(T) + 1
    BY <1>2 DEF Numbered
  <2> HIDE DEF T
  <2> QED BY <2>2, <2>3, <2>4
<1>3. \A i, j \in DOMAIN log : i < j \/ j < i \/ i = j
  BY <1>1
<1> QED BY <1>2, <1>3 DEF Apart

\* What a restore from the queue keeps even of a text that was judged wrong first and
\* right later, and of facts whose write failed: the coins and the bought hints.
CoinsReplay ==
  LET restored == ProjectState(AbsorbAll(<<>>, play.facts))
      played   == ProjectState(play.facts)
  IN  restored.balance = played.balance /\ restored.hints = played.hints

\* Collapsing the log of a page by natural key changes no coin and no bought hint,
\* whatever was judged and whichever writes failed.
THEOREM CoinsAlwaysReplay == Spec => []CoinsReplay
<1>1. IInv => CoinsReplay
  <2> SUFFICES ASSUME IInv
               PROVE  CoinsReplay
    OBVIOUS
  <2> DEFINE log == play.facts
             r   == AbsorbAll(<<>>, log)
  <2>1. log \in Seq(FactType) /\ Priced(log)
    BY PlayFields DEF IInv, Typed
  <2>2. /\ ProjectBalance(r) = ProjectBalance(log)
        /\ \A i \in DOMAIN r : \E k \in DOMAIN log : r[i] = log[k]
        /\ \A k \in DOMAIN log : \E i \in DOMAIN r : Key(r[i]) = Key(log[k])
    <3>1. DOMAIN log = 1 .. Len(log)
      BY <2>1
    <3> HIDE DEF log
    <3> QED BY <2>1, <3>1, CollapsedLog DEF Reduced
  <2> HIDE DEF r
  <2>3. {r[i].step : i \in {j \in DOMAIN r : r[j].kind = "hint_purchased"}}
          = {log[i].step : i \in {j \in DOMAIN log : log[j].kind = "hint_purchased"}}
    BY <2>2, SameKey
  <2> QED BY <2>2, <2>3 DEF CoinsReplay, ProjectState, r
<1> QED BY Inductive, <1>1, PTL

\* What was played and its restore from the queue, where a natural key is kept once,
\* agree on the balance, the steps, the hints, the mistakes of every step and the latest
\* rating, as long as every write was made, no text was judged wrong first and right
\* later, and no rating was given again after another score.
THEOREM LogAlwaysReplays == Spec => []LogReplays
<1>1. IInv => LogReplays
  <2> SUFFICES ASSUME IInv, ~dropped, JudgedOnce(play.facts), RatedOnce(play.facts)
               PROVE  Behaviour(AbsorbAll(<<>>, play.facts)) = Behaviour(play.facts)
    BY DEF LogReplays
  <2>1. play.facts \in Seq(FactType) /\ Priced(play.facts)
    BY PlayFields DEF IInv, Typed
  <2>2. Apart(play.facts)
    BY <2>1, NumberedApart DEF IInv, Ordered
  <2> QED BY <2>1, <2>2, Replays
<1> QED BY Inductive, <1>1, PTL
=============================================================================
