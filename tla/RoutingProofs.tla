---------------------------- MODULE RoutingProofs -----------------------------
(***************************************************************************)
(* What holds of Routing whatever the flows, the texts and the provider's  *)
(* answers are.                                                            *)
(***************************************************************************)
EXTENDS Routing, SequenceTheorems, FiniteSetTheorems, TLAPS

Fits(slot, text) ==
  /\ slot.mode = "paraphrased" => Kept(text, slot.source)
  /\ slot.mode = "llm" => text # slot.source /\ Drawn(text, slot.source)

\* The matches accepted so far: flows on offer, each once, with a fitting text for
\* each of their slots.
PlanSound ==
  /\ \A i, j \in DOMAIN plan : plan[i].flow = plan[j].flow => i = j
  /\ \A i \in DOMAIN plan :
       /\ plan[i].flow \in offered
       /\ plan[i].replies \in [DOMAIN Slots[plan[i].flow] -> Text]
       /\ \A s \in DOMAIN Slots[plan[i].flow] :
            Fits(Slots[plan[i].flow][s], plan[i].replies[s])
  /\ op = "route" => Len(plan) <= MaxMatches

IInv ==
  /\ TypeOK
  /\ PlanSound
  /\ OneChoice
  /\ RankingWhole
  /\ verdict # "raised"
  /\ AuthorsWordsKept

\* Slots are addressed by their positions.
LEMMA SlotTyping ==
  ASSUME NEW f \in Flow
  PROVE  /\ DOMAIN Slots[f] \subseteq Nat
         /\ \A s \in DOMAIN Slots[f] : Slots[f][s] \in Slot
         /\ \A g \in [DOMAIN Slots[f] -> Text] : g \in Seq(Text) /\ DOMAIN g = DOMAIN Slots[f]
<1>1. Slots[f] \in Seq(Slot)
  BY RoutingAssumption DEF RoutingAssumption
<1>2. PICK n \in Nat : DOMAIN Slots[f] = 1..n
  BY <1>1
<1>3. \A s \in DOMAIN Slots[f] : Slots[f][s] \in Slot
  BY <1>1
<1>4. \A g \in [1..n -> Text] : g \in Seq(Text) /\ DOMAIN g = 1..n
  BY SeqDef
<1> QED BY <1>2, <1>3, <1>4

\* _normalize_match keeps what the authors wrote, whatever it is given.
LEMMA NormalizedFits ==
  ASSUME NEW f \in Flow, NEW replies \in Replies, Sound(f, replies)
  PROVE  /\ Normalized(f, replies) \in [DOMAIN Slots[f] -> Text]
         /\ \A s \in DOMAIN Slots[f] : Fits(Slots[f][s], Normalized(f, replies)[s])
<1> DEFINE idx(s) == CHOOSE i \in DOMAIN replies : replies[i].slot = s
           text(s) == replies[idx(s)].text
<1>1. \A i \in DOMAIN replies : replies[i] \in [slot : 1..MaxReplies, text : Text]
  BY DEF Replies
<1>2. ASSUME NEW s \in DOMAIN Slots[f]
      PROVE  /\ idx(s) \in DOMAIN replies /\ replies[idx(s)].slot = s
             /\ text(s) \in Text
  <2>1. \E i \in DOMAIN replies : replies[i].slot = s
    BY DEF Sound, Answered
  <2> QED BY <2>1, <1>1
<1>3. ASSUME NEW s \in DOMAIN Slots[f]
      PROVE  /\ Normalized(f, replies)[s]
                  = IF Permitted(Slots[f][s], text(s)) THEN text(s) ELSE Slots[f][s].source
             /\ Normalized(f, replies)[s] \in Text
  <2>1. Slots[f][s].source \in Text
    BY SlotTyping DEF Slot
  <2> QED BY <2>1, <1>2 DEF Normalized
<1>4. ASSUME NEW s \in DOMAIN Slots[f]
      PROVE  Fits(Slots[f][s], Normalized(f, replies)[s])
  <2>1. CASE Permitted(Slots[f][s], text(s))
    BY <2>1, <1>3 DEF Permitted, Fits
  <2>2. CASE ~Permitted(Slots[f][s], text(s))
    <3>1. Slots[f][s].mode # "llm"
      <4>1. Slots[f][s].mode = "llm" => Permitted(Slots[f][replies[idx(s)].slot], replies[idx(s)].text)
        BY <1>2 DEF Sound
      <4> QED BY <4>1, <1>2, <2>2
    <3> QED BY <2>2, <3>1, <1>3 DEF Fits, Kept
  <2> QED BY <2>1, <2>2
<1>5. Normalized(f, replies) \in [DOMAIN Slots[f] -> Text]
  <2>1. Normalized(f, replies) = [s \in DOMAIN Slots[f] |-> Normalized(f, replies)[s]]
    BY DEF Normalized
  <2> QED BY <2>1, <1>3
<1> QED BY <1>4, <1>5

\* The texts of a flow whose replies fit, and its authored copy.
LEMMA TextsFit ==
  ASSUME NEW f \in Flow
  PROVE  /\ \A r \in Authored(f) :
              /\ r \in [flow : Flow, slot : Nat, text : Text]
              /\ r.slot \in DOMAIN Slots[r.flow] /\ Fits(Slots[r.flow][r.slot], r.text)
         /\ \A g \in [DOMAIN Slots[f] -> Text] :
              (\A s \in DOMAIN Slots[f] : Fits(Slots[f][s], g[s])) =>
                \A r \in Texts(f, g) :
                  /\ r \in [flow : Flow, slot : Nat, text : Text]
                  /\ r.slot \in DOMAIN Slots[r.flow] /\ Fits(Slots[r.flow][r.slot], r.text)
<1>1. \A s \in DOMAIN Slots[f] : s \in Nat /\ Slots[f][s].source \in Text
  BY SlotTyping DEF Slot
<1>2. ASSUME NEW r \in Authored(f)
      PROVE  /\ r \in [flow : Flow, slot : Nat, text : Text]
             /\ r.slot \in DOMAIN Slots[r.flow] /\ Fits(Slots[r.flow][r.slot], r.text)
  <2>1. PICK s \in DOMAIN Slots[f] :
          Slots[f][s].mode = "paraphrased" /\ r = [flow |-> f, slot |-> s, text |-> Slots[f][s].source]
    BY DEF Authored
  <2> QED BY <2>1, <1>1 DEF Fits, Kept
<1>3. ASSUME NEW g \in [DOMAIN Slots[f] -> Text],
             \A s \in DOMAIN Slots[f] : Fits(Slots[f][s], g[s]),
             NEW r \in Texts(f, g)
      PROVE  /\ r \in [flow : Flow, slot : Nat, text : Text]
             /\ r.slot \in DOMAIN Slots[r.flow] /\ Fits(Slots[r.flow][r.slot], r.text)
  <2>1. PICK s \in DOMAIN Slots[f] : r = [flow |-> f, slot |-> s, text |-> g[s]]
    BY DEF Texts
  <2>2. r.flow = f /\ r.slot = s /\ r.text = g[s]
    BY <2>1
  <2>3. r \in [flow : Flow, slot : Nat, text : Text]
    BY <2>1, <1>1
  <2>4. Fits(Slots[f][s], g[s])
    BY <1>3
  <2> QED BY <2>2, <2>3, <2>4
<1> QED BY <1>2, <1>3

\* A sound plan is one that the router binds and the policy splits.
LEMMA PlanIsBindable == PlanSound => ~Refused(plan)
  BY DEF PlanSound, Refused

\* Of the interactive matches of a plan, one runs at most.
LEMMA OneRuns ==
  ASSUME TypeOK, PlanSound,
         NEW i \in Run(plan), NEW j \in Run(plan),
         plan[i].flow \notin Answers, plan[j].flow \notin Answers
  PROVE  i = j
<1>1. i \in DOMAIN plan /\ j \in DOMAIN plan /\ DOMAIN plan \subseteq Nat
  BY DEF Run, Interactive, TypeOK
<1>2. CASE \E k \in DOMAIN plan : plan[k].flow = Safety
  <2>1. plan[i].flow = Safety /\ plan[j].flow = Safety
    BY <1>2 DEF Run
  <2> QED BY <1>1, <2>1 DEF PlanSound
<1>3. CASE ~\E k \in DOMAIN plan : plan[k].flow = Safety
  <2>1. i \in Interactive(plan) /\ j \in Interactive(plan)
    BY <1>1 DEF Interactive
  <2>2. i <= j /\ j <= i
    BY <1>3, <2>1 DEF Run, Interactive
  <2> QED BY <1>1, <2>2
<1> QED BY <1>2, <1>3
-----------------------------------------------------------------------------
\* A request names flows and has no matches yet.
LEMMA Posts ==
  ASSUME NEW kind \in {"route", "known", "rank"}, NEW F \in SUBSET Flow, Post(kind, F)
  PROVE  /\ PlanSound'
         /\ op' \in {"none", "route", "known", "rank"} /\ offered' \subseteq Flow
         /\ tries' \in 0..(MaxAttempts - 1) /\ plan' \in Seq(Match)
<1>1. op' = kind /\ offered' = F /\ tries' = 0 /\ plan' = <<>>
  BY DEF Post
<1>2. DOMAIN plan' = {} /\ Len(plan') = 0
  BY <1>1
<1>3. PlanSound'
  BY <1>2, RoutingAssumption DEF PlanSound, RoutingAssumption
<1>4. tries' \in 0..(MaxAttempts - 1)
  BY <1>1, RoutingAssumption DEF RoutingAssumption
<1> QED BY <1>1, <1>3, <1>4

\* A plan stays sound while its request stays as it is.
LEMMA PlanStays ==
  ASSUME PlanSound, UNCHANGED <<offered, plan>>, op' = op \/ op' # "route"
  PROVE  PlanSound'
  BY DEF PlanSound

\* A known flow: at once or by a request.
LEMMA KnownKeeps ==
  ASSUME TypeOK, PlanSound, NEW f \in Flow, Known(f)
  PROVE  /\ PlanSound'
         /\ op' \in {"none", "route", "known", "rank"} /\ offered' \subseteq Flow
         /\ tries' \in 0..(MaxAttempts - 1) /\ plan' \in Seq(Match)
         /\ verdict' \in {"none", "selected"}
<1>1. CASE Slots[f] # <<>>
  <2>1. Post("known", {f}) /\ verdict' = "none"
    BY <1>1 DEF Known
  <2> QED BY <2>1, Posts
<1>2. CASE Slots[f] = <<>>
  <2>1. op' = "none" /\ verdict' = "selected" /\ UNCHANGED <<offered, tries, plan>>
    BY <1>2 DEF Known, Finish
  <2>2. PlanSound'
    BY <2>1, PlanStays
  <2> QED BY <2>1, <2>2 DEF TypeOK
<1> QED BY <1>1, <1>2

\* What the guest reads stays theirs when fitting texts are added.
LEMMA SaidStays ==
  ASSUME NEW X, said' = said \cup X, said \subseteq [flow : Flow, slot : Nat, text : Text],
         AuthorsWordsKept,
         \A r \in X : /\ r \in [flow : Flow, slot : Nat, text : Text]
                     /\ r.slot \in DOMAIN Slots[r.flow] /\ Fits(Slots[r.flow][r.slot], r.text)
  PROVE  said' \subseteq [flow : Flow, slot : Nat, text : Text] /\ AuthorsWordsKept'
<1>1. \A r \in said' : r \in said \/ r \in X
  OBVIOUS
<1>2. said' \subseteq [flow : Flow, slot : Nat, text : Text]
  BY <1>1
<1>3. AuthorsWordsKept'
  BY <1>1 DEF AuthorsWordsKept, Fits, Kept, Drawn, NoMoreOften, Count
<1> QED BY <1>2, <1>3

\* A new operation forgets the last.
LEMMA FreshKeeps ==
  ASSUME NEW A \in SUBSET Candidate, Fresh(A), A = {} \/ verdict' # "ranked"
  PROVE  /\ OneChoice' /\ RankingWhole' /\ AuthorsWordsKept'
         /\ ran' \subseteq Flow /\ deferred' \subseteq Flow
         /\ said' \subseteq [flow : Flow, slot : Nat, text : Text]
         /\ asked' \subseteq Candidate /\ remaining' \subseteq asked' /\ ranked' \in Seq(asked')
<1>1. /\ ran' = {} /\ deferred' = {} /\ said' = {}
      /\ asked' = A /\ remaining' = A /\ ranked' = <<>>
  BY DEF Fresh
<1>2. DOMAIN ranked' = {}
  BY <1>1
<1> QED BY <1>1, <1>2 DEF OneChoice, RankingWhole, AuthorsWordsKept

\* What an operation leaves alone stays as it was.
LEMMA ChoicesStay ==
  ASSUME OneChoice, UNCHANGED <<ran, deferred>>
  PROVE  OneChoice'
  BY DEF OneChoice

\* What an operation other than a ranking comes to.
Ends == {"selected", "failed", "no_match", "clarified"}

LEMMA RankingStays ==
  ASSUME RankingWhole, UNCHANGED ranking, verdict' \in {verdict} \cup ({"none", "raised"} \cup Ends)
  PROVE  RankingWhole'
  BY DEF RankingWhole, ranking, Ends

LEMMA WordsStay ==
  ASSUME AuthorsWordsKept, UNCHANGED said
  PROVE  AuthorsWordsKept'
  BY DEF AuthorsWordsKept, Kept, Drawn, NoMoreOften, Count

LEMMA GiveUpKeeps == IInv /\ GiveUp => IInv'
<1> SUFFICES ASSUME IInv, GiveUp
             PROVE  IInv'
  OBVIOUS
<1>1. UNCHANGED <<offered, tries, plan, ran, deferred, ranking>> /\ op' = "none"
      /\ verdict' \in {"selected", "failed"}
  BY DEF GiveUp, Finish
<1>2. said' \subseteq [flow : Flow, slot : Nat, text : Text] /\ AuthorsWordsKept'
  <2>1. CASE op = "known"
    <3>1. PICK f \in offered : said' = said \cup Authored(f)
      BY <2>1 DEF GiveUp
    <3>2. f \in Flow
      BY DEF IInv, TypeOK
    <3> QED BY <3>1, <3>2, SaidStays, TextsFit DEF IInv, TypeOK
  <2>2. CASE op # "known"
    <3>1. said' = said
      BY <2>2 DEF GiveUp
    <3> QED BY <3>1, WordsStay DEF IInv, TypeOK
  <2> QED BY <2>1, <2>2
<1>3. PlanSound' /\ OneChoice' /\ RankingWhole'
  BY <1>1, PlanStays, ChoicesStay, RankingStays DEF IInv, Ends
<1>4. TypeOK'
  BY <1>1, <1>2 DEF IInv, TypeOK, ranking
<1> QED BY <1>1, <1>2, <1>3, <1>4 DEF IInv
-----------------------------------------------------------------------------
\* The steps that ask.
LEMMA AskKeeps == ASSUME IInv, NEW F \in SUBSET Flow, Ask(F) PROVE IInv'
<1>1. OneChoice' /\ RankingWhole' /\ AuthorsWordsKept'
      /\ ran' \subseteq Flow /\ deferred' \subseteq Flow
      /\ said' \subseteq [flow : Flow, slot : Nat, text : Text]
      /\ asked' \subseteq Candidate /\ remaining' \subseteq asked' /\ ranked' \in Seq(asked')
  BY FreshKeeps DEF Ask
<1>2. CASE F # {}
  <2>1. Post("route", F) /\ verdict' = "none"
    BY <1>2 DEF Ask
  <2> QED BY <1>1, <2>1, Posts DEF IInv, TypeOK
<1>3. CASE F = {}
  <2>1. op' = "none" /\ verdict' = "no_match" /\ UNCHANGED <<offered, tries, plan>>
    BY <1>3 DEF Ask, Finish
  <2>2. PlanSound'
    BY <2>1, PlanStays DEF IInv
  <2> QED BY <1>1, <2>1, <2>2 DEF IInv, TypeOK
<1> QED BY <1>2, <1>3

LEMMA PressKeeps == ASSUME IInv, NEW f \in Flow, Press(f) PROVE IInv'
  BY FreshKeeps, KnownKeeps DEF Press, IInv, TypeOK

LEMMA RankKeeps == ASSUME IInv, NEW A \in SUBSET Candidate, Rank(A) PROVE IInv'
  BY FreshKeeps, Posts DEF Rank, IInv, TypeOK

\* The steps that read an answer.
LEMMA LostKeeps == ASSUME IInv, Lost PROVE IInv'
<1>1. CASE tries + 1 < MaxAttempts
  <2>1. tries' = tries + 1 /\ UNCHANGED <<op, offered, plan, outcome, ranking>>
    BY <1>1 DEF Lost
  <2>2. UNCHANGED <<ran, deferred, said, verdict, asked, remaining, ranked>>
    BY <2>1 DEF outcome, ranking
  <2>3. PlanSound' /\ OneChoice' /\ RankingWhole' /\ AuthorsWordsKept'
    BY <2>1, <2>2, PlanStays, ChoicesStay, RankingStays, WordsStay DEF IInv
  <2>4. tries' \in 0..(MaxAttempts - 1)
    BY <1>1, <2>1, RoutingAssumption DEF IInv, TypeOK, RoutingAssumption
  <2> QED BY <2>1, <2>2, <2>3, <2>4 DEF IInv, TypeOK
<1>2. CASE ~(tries + 1 < MaxAttempts)
  BY <1>2, GiveUpKeeps DEF Lost
<1> QED BY <1>1, <1>2

LEMMA TerminalKeeps ==
  ASSUME IInv, NEW t \in {"no_match", "clarified"}, Terminal(t)
  PROVE  IInv'
<1>1. op' = "none" /\ verdict' = t
      /\ UNCHANGED <<offered, tries, plan, ran, deferred, said, ranking>>
  BY DEF Terminal, Finish
<1>2. PlanSound' /\ OneChoice' /\ RankingWhole' /\ AuthorsWordsKept'
  BY <1>1, PlanStays, ChoicesStay, RankingStays, WordsStay DEF IInv, Ends
<1> QED BY <1>1, <1>2 DEF IInv, TypeOK, ranking

LEMMA ReadMatchKeeps ==
  ASSUME IInv, NEW f \in Named, NEW replies \in Replies, ReadMatch(f, replies)
  PROVE  IInv'
<1>1. CASE ~Acceptable(f, replies)
  BY <1>1, GiveUpKeeps DEF ReadMatch
<1>2. CASE Acceptable(f, replies)
  <2> DEFINE m == [flow |-> f, replies |-> Normalized(f, replies)]
  <2>1. f \in offered /\ f \in Flow /\ Sound(f, replies)
    BY <1>2 DEF Acceptable, IInv, TypeOK
  <2>2. /\ m.replies \in [DOMAIN Slots[f] -> Text]
        /\ \A s \in DOMAIN Slots[f] : Fits(Slots[f][s], m.replies[s])
    BY <2>1, NormalizedFits
  <2>3. m \in Match
    BY <2>1, <2>2, SlotTyping DEF Match
  <2>4. plan' = Append(plan, m) /\ op = "route" /\ Len(plan) < MaxMatches
        /\ UNCHANGED <<op, offered, tries, outcome, ranking>>
    BY <1>2 DEF ReadMatch
  <2>5. plan \in Seq(Match)
    BY DEF IInv, TypeOK
  <2> HIDE DEF m
  <2>6. /\ plan' \in Seq(Match) /\ Len(plan') = Len(plan) + 1
        /\ DOMAIN plan = 1..Len(plan) /\ DOMAIN plan' = 1..(Len(plan) + 1)
        /\ plan'[Len(plan) + 1] = m
        /\ \A i \in DOMAIN plan : plan'[i] = plan[i]
    BY <2>3, <2>4, <2>5
  <2>7. m.flow = f /\ \A i \in DOMAIN plan : plan[i].flow # f
    BY <1>2 DEF m, Acceptable
  <2>8. Len(plan') <= MaxMatches
    BY <2>4, <2>5, <2>6, RoutingAssumption DEF RoutingAssumption
  <2>9. \A i \in DOMAIN plan' : i = Len(plan) + 1 \/ i \in DOMAIN plan
    BY <2>5, <2>6
  <2>10. \A i, j \in DOMAIN plan' : plan'[i].flow = plan'[j].flow => i = j
    BY <2>6, <2>7, <2>9 DEF IInv, PlanSound
  <2>11. ASSUME NEW i \in DOMAIN plan'
         PROVE  /\ plan'[i].flow \in offered'
                /\ plan'[i].replies \in [DOMAIN Slots[plan'[i].flow] -> Text]
                /\ \A s \in DOMAIN Slots[plan'[i].flow] :
                     Fits(Slots[plan'[i].flow][s], plan'[i].replies[s])
    <3>1. CASE i \in DOMAIN plan
      <4>1. plan'[i] = plan[i] /\ offered' = offered
        BY <3>1, <2>4, <2>6
      <4> QED BY <3>1, <4>1 DEF IInv, PlanSound
    <3>2. CASE i = Len(plan) + 1
      <4>1. plan'[i] = m /\ offered' = offered
        BY <3>2, <2>4, <2>6
      <4> QED BY <4>1, <2>1, <2>2, <2>7
    <3> QED BY <3>1, <3>2, <2>9
  <2>12. PlanSound'
    <3>1. \A i \in DOMAIN plan' :
            /\ plan'[i].flow \in offered'
            /\ plan'[i].replies \in [DOMAIN Slots[plan'[i].flow] -> Text]
            /\ \A s \in DOMAIN Slots[plan'[i].flow] :
                 Fits(Slots[plan'[i].flow][s], plan'[i].replies[s])
      BY <2>11
    <3> QED BY <3>1, <2>8, <2>10 DEF PlanSound, Fits, Kept, Drawn, NoMoreOften, Count
  <2>13. UNCHANGED <<op, offered, tries, ran, deferred, said, verdict, asked, remaining, ranked>>
    BY <2>4 DEF outcome, ranking
  <2>14. OneChoice' /\ RankingWhole' /\ AuthorsWordsKept'
    BY <2>4, <2>13, ChoicesStay, RankingStays, WordsStay DEF IInv
  <2> QED BY <2>6, <2>12, <2>13, <2>14 DEF IInv, TypeOK
<1> QED BY <1>1, <1>2

LEMMA ReadKnownKeeps ==
  ASSUME IInv, NEW f \in Named, NEW replies \in Replies, ReadKnown(f, replies)
  PROVE  IInv'
<1>1. CASE ~(f \in offered /\ Sound(f, replies) /\ f \notin Foreign)
  BY <1>1, GiveUpKeeps DEF ReadKnown
<1>2. CASE f \in offered /\ Sound(f, replies) /\ f \notin Foreign
  <2>1. f \in Flow
    BY <1>2 DEF IInv, TypeOK
  <2>2. /\ said' = said \cup Texts(f, Normalized(f, replies))
        /\ op' = "none" /\ verdict' = "selected"
        /\ UNCHANGED <<offered, tries, plan, ran, deferred, ranking>>
    BY <1>2 DEF ReadKnown, Finish
  <2>3. /\ Normalized(f, replies) \in [DOMAIN Slots[f] -> Text]
        /\ \A s \in DOMAIN Slots[f] : Fits(Slots[f][s], Normalized(f, replies)[s])
    BY <1>2, <2>1, NormalizedFits
  <2>4. \A r \in Texts(f, Normalized(f, replies)) :
          /\ r \in [flow : Flow, slot : Nat, text : Text]
          /\ r.slot \in DOMAIN Slots[r.flow] /\ Fits(Slots[r.flow][r.slot], r.text)
    BY <2>1, <2>3, TextsFit
  <2>5. said' \subseteq [flow : Flow, slot : Nat, text : Text] /\ AuthorsWordsKept'
    BY <2>2, <2>4, SaidStays DEF IInv, TypeOK
  <2>6. PlanSound' /\ OneChoice' /\ RankingWhole'
    BY <2>2, PlanStays, ChoicesStay, RankingStays DEF IInv, Ends
  <2> QED BY <2>2, <2>5, <2>6 DEF IInv, TypeOK, ranking
<1> QED BY <1>1, <1>2

\* What is run and what is put off, as partition leaves it.
LEMMA SplitIsOneChoice ==
  ASSUME TypeOK, PlanSound,
         ran' = {plan[i].flow : i \in Run(plan)},
         deferred' = {plan[i].flow : i \in PutOff(plan)}
  PROVE  OneChoice' /\ ran' \subseteq Flow /\ deferred' \subseteq Flow
<1>1. Run(plan) \subseteq DOMAIN plan /\ PutOff(plan) \subseteq DOMAIN plan
  BY DEF Run, PutOff, Interactive
<1>2. \A i \in DOMAIN plan : plan[i].flow \in Flow
  BY DEF TypeOK, PlanSound
<1>3. ASSUME NEW f \in ran' \ Answers, NEW g \in ran' \ Answers
      PROVE  f = g
  <2>1. PICK i \in Run(plan) : f = plan[i].flow
    OBVIOUS
  <2>2. PICK j \in Run(plan) : g = plan[j].flow
    OBVIOUS
  <2> QED BY <2>1, <2>2, OneRuns
<1>4. ASSUME Safety \in ran'
      PROVE  ran' = {Safety} /\ deferred' = {}
  <2>1. PICK i \in Run(plan) : plan[i].flow = Safety
    BY <1>4
  <2>2. Run(plan) = {k \in DOMAIN plan : plan[k].flow = Safety} /\ PutOff(plan) = {}
    BY <2>1, <1>1 DEF Run, PutOff
  <2> QED BY <2>1, <2>2
<1>5. ASSUME NEW f \in deferred'
      PROVE  f \notin ran' /\ f \notin Answers
  <2>1. PICK i \in PutOff(plan) : f = plan[i].flow
    OBVIOUS
  <2>2. i \in Interactive(plan) \ Run(plan)
    BY <2>1 DEF PutOff
  <2>3. ASSUME NEW j \in Run(plan), plan[j].flow = f
        PROVE  FALSE
    BY <2>1, <2>2, <2>3, <1>1 DEF PlanSound
  <2> QED BY <2>1, <2>2, <2>3 DEF Interactive
<1>6. OneChoice'
  BY <1>3, <1>4, <1>5 DEF OneChoice
<1> QED BY <1>1, <1>2, <1>6

LEMMA EndPlanKeeps == ASSUME IInv, EndPlan PROVE IInv'
<1>1. ~Refused(plan)
  BY PlanIsBindable DEF IInv
<1>2. /\ ran' = {plan[i].flow : i \in Run(plan)}
      /\ deferred' = {plan[i].flow : i \in PutOff(plan)}
      /\ said' = UNION {Texts(plan[i].flow, plan[i].replies) : i \in Run(plan)}
      /\ UNCHANGED ranking
  BY <1>1 DEF EndPlan
<1>3. OneChoice' /\ ran' \subseteq Flow /\ deferred' \subseteq Flow
  BY <1>2, SplitIsOneChoice DEF IInv
<1>4. ASSUME NEW r \in said'
      PROVE  /\ r \in [flow : Flow, slot : Nat, text : Text]
             /\ r.slot \in DOMAIN Slots[r.flow] /\ Fits(Slots[r.flow][r.slot], r.text)
  <2>1. PICK i \in Run(plan) : r \in Texts(plan[i].flow, plan[i].replies)
    BY <1>2
  <2>2. i \in DOMAIN plan
    BY DEF Run, Interactive
  <2>3. /\ plan[i].flow \in Flow
        /\ plan[i].replies \in [DOMAIN Slots[plan[i].flow] -> Text]
        /\ \A s \in DOMAIN Slots[plan[i].flow] :
             Fits(Slots[plan[i].flow][s], plan[i].replies[s])
    BY <2>2 DEF IInv, TypeOK, PlanSound
  <2> QED BY <2>1, <2>3, TextsFit
<1>5. said' \subseteq [flow : Flow, slot : Nat, text : Text] /\ AuthorsWordsKept'
  <2>1. said' \subseteq [flow : Flow, slot : Nat, text : Text]
    BY <1>4
  <2>2. AuthorsWordsKept'
    BY <1>4 DEF AuthorsWordsKept, Fits, Kept, Drawn, NoMoreOften, Count
  <2> QED BY <2>1, <2>2
<1>6. /\ PlanSound'
      /\ op' \in {"none", "route", "known", "rank"} /\ offered' \subseteq Flow
      /\ tries' \in 0..(MaxAttempts - 1) /\ plan' \in Seq(Match)
      /\ verdict' \in {"none", "selected"}
  <2>1. CASE Finish("selected") /\ UNCHANGED <<offered, tries, plan>>
    <3>1. op' = "none" /\ verdict' = "selected"
      BY <2>1 DEF Finish
    <3> QED BY <2>1, <3>1, PlanStays DEF IInv, TypeOK
  <2>2. CASE \E f \in Flow \ Answers : Known(f)
    BY <2>2, KnownKeeps DEF IInv
  <2> QED BY <1>1, <2>1, <2>2 DEF EndPlan
<1>7. /\ RankingWhole'
      /\ asked' \subseteq Candidate /\ remaining' \subseteq asked' /\ ranked' \in Seq(asked')
  BY <1>2, <1>6, RankingStays DEF IInv, TypeOK, ranking, Ends
<1> QED BY <1>3, <1>5, <1>6, <1>7 DEF IInv, TypeOK

LEMMA ReadRankKeeps == ASSUME IInv, NEW a \in Candidate, ReadRank(a) PROVE IInv'
<1>1. /\ a \in remaining /\ remaining' = remaining \ {a} /\ ranked' = Append(ranked, a)
      /\ tries' = 0 /\ op' \in {op, "none"}
      /\ \/ verdict' = verdict
         \/ verdict' = "ranked" /\ remaining' = {}
      /\ UNCHANGED <<offered, plan, ran, deferred, said, asked>>
  BY DEF ReadRank, Finish
<1>2. ranked \in Seq(asked) /\ remaining \subseteq asked /\ asked \subseteq Candidate
  BY DEF IInv, TypeOK
<1>3. /\ ranked' \in Seq(asked) /\ DOMAIN ranked = 1..Len(ranked) /\ Len(ranked) \in Nat
      /\ DOMAIN ranked' = 1..(Len(ranked) + 1) /\ ranked'[Len(ranked) + 1] = a
      /\ \A i \in DOMAIN ranked : ranked'[i] = ranked[i]
  BY <1>1, <1>2
<1>4. \A i \in DOMAIN ranked' : i = Len(ranked) + 1 \/ i \in DOMAIN ranked
  BY <1>2, <1>3
<1>5. /\ \A i \in DOMAIN ranked : ranked[i] # a
      /\ {ranked[i] : i \in DOMAIN ranked} = asked \ remaining
      /\ verdict = "ranked" => remaining = {}
  BY <1>1 DEF IInv, RankingWhole
<1>6. RankingWhole'
  <2>1. \A i, j \in DOMAIN ranked' : ranked'[i] = ranked'[j] => i = j
    BY <1>3, <1>4, <1>5 DEF IInv, RankingWhole
  <2>2. {ranked'[i] : i \in DOMAIN ranked'} = {ranked[i] : i \in DOMAIN ranked} \cup {a}
    <3>1. Len(ranked) + 1 \in DOMAIN ranked' /\ DOMAIN ranked \subseteq DOMAIN ranked'
      BY <1>3
    <3> QED BY <1>3, <1>4, <3>1
  <2>3. {ranked'[i] : i \in DOMAIN ranked'} = asked' \ remaining'
    BY <1>1, <1>2, <1>5, <2>2
  <2> QED BY <1>1, <1>5, <2>1, <2>3 DEF RankingWhole
<1>7. PlanSound' /\ OneChoice' /\ AuthorsWordsKept'
  BY <1>1, PlanStays, ChoicesStay, WordsStay DEF IInv
<1>8. tries' \in 0..(MaxAttempts - 1)
  BY <1>1, RoutingAssumption DEF RoutingAssumption
<1> QED BY <1>1, <1>2, <1>3, <1>6, <1>7, <1>8 DEF IInv, TypeOK

LEMMA RankDoneKeeps == ASSUME IInv, RankDone PROVE IInv'
<1>1. /\ op' = "none" /\ verdict' = "ranked" /\ remaining' = {}
      /\ UNCHANGED <<offered, tries, plan, ran, deferred, said, asked>>
  BY DEF RankDone, Finish
<1>2. PICK rest \in [1..Cardinality(remaining) -> remaining] :
        InOrder(rest, remaining) /\ ranked' = ranked \o rest
  BY DEF RankDone
<1>3. /\ ranked \in Seq(asked) /\ remaining \subseteq asked /\ asked \subseteq Candidate
      /\ {ranked[i] : i \in DOMAIN ranked} = asked \ remaining
      /\ \A i, j \in DOMAIN ranked : ranked[i] = ranked[j] => i = j
  BY DEF IInv, TypeOK, RankingWhole
<1>4. /\ {rest[i] : i \in DOMAIN rest} = remaining
      /\ \A i, j \in DOMAIN rest : rest[i] = rest[j] => i = j
      /\ rest \in Seq(asked)
  <2>1. remaining \subseteq 0..(MaxCandidates - 1) /\ MaxCandidates \in Nat
    BY <1>3, RoutingAssumption DEF Candidate, RoutingAssumption
  <2>2. IsFiniteSet(remaining)
    <3>1. IsFiniteSet(0..(MaxCandidates - 1))
      BY <2>1, FS_Interval
    <3> QED BY <2>1, <3>1, FS_Subset
  <2>3. Cardinality(remaining) \in Nat
    BY <2>2, FS_CardinalityType
  <2>4. rest \in Seq(remaining) /\ DOMAIN rest = 1..Cardinality(remaining)
    BY <2>3, SeqDef
  <2>5. rest \in Seq(asked)
    BY <1>3, <2>4
  <2>6. ASSUME NEW i \in DOMAIN rest, NEW j \in DOMAIN rest, rest[i] = rest[j] PROVE i = j
    <3>0. i \in 1..Cardinality(remaining) /\ j \in 1..Cardinality(remaining)
      BY <2>4
    <3>1. i \in Int /\ j \in Int /\ rest[i] \in Int /\ rest[j] \in Int
      <4>1. rest[i] \in remaining /\ rest[j] \in remaining
        BY <3>0
      <4>2. \A n \in Nat : 0..(n - 1) \subseteq Int /\ 1..n \subseteq Int
        OBVIOUS
      <4>3. remaining \subseteq Int
        BY <2>1, <4>2
      <4> QED BY <2>3, <3>0, <4>1, <4>2, <4>3
    <3>2. ~(i < j) /\ ~(j < i)
      BY <1>2, <2>6, <3>1 DEF InOrder
    <3>3. \A m, n \in Int : ~(m < n) /\ ~(n < m) => m = n
      OBVIOUS
    <3> QED BY <3>1, <3>2, <3>3
  <2> QED BY <1>2, <2>5, <2>6 DEF InOrder
<1>5. /\ ranked' \in Seq(asked) /\ Len(ranked) \in Nat /\ Len(rest) \in Nat
      /\ DOMAIN ranked = 1..Len(ranked) /\ DOMAIN rest = 1..Len(rest)
      /\ DOMAIN ranked' = 1..(Len(ranked) + Len(rest))
      /\ \A i \in 1..Len(ranked) : ranked'[i] = ranked[i]
      /\ \A i \in 1..Len(rest) : ranked'[Len(ranked) + i] = rest[i]
  BY <1>2, <1>3, <1>4
<1>6. ASSUME NEW i \in DOMAIN ranked'
      PROVE  \/ i \in DOMAIN ranked /\ ranked'[i] = ranked[i] /\ ranked'[i] \notin remaining
             \/ /\ i - Len(ranked) \in DOMAIN rest /\ ranked'[i] = rest[i - Len(ranked)]
                /\ ranked'[i] \in remaining
  <2>1. CASE i \in 1..Len(ranked)
    BY <1>3, <1>5, <2>1
  <2>2. CASE i \notin 1..Len(ranked)
    <3>1. i - Len(ranked) \in 1..Len(rest) /\ i = Len(ranked) + (i - Len(ranked))
      BY <1>5, <2>2
    <3>2. ranked'[i] = rest[i - Len(ranked)]
      BY <1>5, <3>1
    <3> QED BY <1>4, <1>5, <3>1, <3>2
  <2> QED BY <2>1, <2>2
<1>7. RankingWhole'
  <2>1. ASSUME NEW i \in DOMAIN ranked', NEW j \in DOMAIN ranked', ranked'[i] = ranked'[j]
        PROVE  i = j
    <3>1. CASE ranked'[i] \in remaining
      <4>1. /\ i - Len(ranked) \in DOMAIN rest /\ j - Len(ranked) \in DOMAIN rest
            /\ rest[i - Len(ranked)] = rest[j - Len(ranked)]
        BY <1>6, <2>1, <3>1
      <4>2. i - Len(ranked) = j - Len(ranked)
        BY <1>4, <4>1
      <4> QED BY <1>5, <4>2
    <3>2. CASE ranked'[i] \notin remaining
      BY <1>3, <1>6, <2>1, <3>2
    <3> QED BY <3>1, <3>2
  <2>2. {ranked'[i] : i \in DOMAIN ranked'} = asked
    <3>1. ASSUME NEW i \in DOMAIN ranked' PROVE ranked'[i] \in asked
      BY <1>5
    <3>2. ASSUME NEW a \in asked PROVE \E i \in DOMAIN ranked' : ranked'[i] = a
      <4>1. CASE a \in remaining
        <5>1. PICK i \in DOMAIN rest : rest[i] = a
          BY <1>4, <4>1
        <5>2. Len(ranked) + i \in DOMAIN ranked' /\ ranked'[Len(ranked) + i] = a
          BY <1>5, <5>1
        <5> QED BY <5>2
      <4>2. CASE a \notin remaining
        <5>1. PICK i \in DOMAIN ranked : ranked[i] = a
          BY <1>3, <4>2
        <5>2. i \in DOMAIN ranked' /\ ranked'[i] = a
          BY <1>5, <5>1
        <5> QED BY <5>2
      <4> QED BY <4>1, <4>2
    <3> QED BY <3>1, <3>2
  <2> QED BY <1>1, <2>1, <2>2 DEF RankingWhole
<1>8. PlanSound' /\ OneChoice' /\ AuthorsWordsKept'
  BY <1>1, PlanStays, ChoicesStay, WordsStay DEF IInv
<1> QED BY <1>1, <1>3, <1>5, <1>7, <1>8 DEF IInv, TypeOK
-----------------------------------------------------------------------------
LEMMA InitInv == Init => IInv
<1> SUFFICES ASSUME Init
             PROVE  IInv
  OBVIOUS
<1>1. DOMAIN plan = {} /\ DOMAIN ranked = {} /\ Len(plan) = 0
  BY DEF Init
<1> QED BY <1>1, RoutingAssumption
        DEF Init, IInv, TypeOK, PlanSound, OneChoice, RankingWhole, AuthorsWordsKept,
            RoutingAssumption

LEMMA NextInv == IInv /\ [Next]_vars => IInv'
<1> SUFFICES ASSUME IInv, [Next]_vars
             PROVE  IInv'
  OBVIOUS
<1>1. CASE \E F \in SUBSET Flow : Ask(F)
  BY <1>1, AskKeeps
<1>2. CASE \E f \in Flow : Press(f)
  BY <1>2, PressKeeps
<1>3. CASE \E n \in 1..MaxCandidates : Rank(0..(n - 1))
  <2>1. PICK n \in 1..MaxCandidates : Rank(0..(n - 1))
    BY <1>3
  <2>2. 0..(n - 1) \subseteq Candidate
    BY RoutingAssumption DEF RoutingAssumption, Candidate
  <2> QED BY <2>1, <2>2, RankKeeps
<1>4. CASE Answer
  <2>1. CASE Lost
    BY <2>1, LostKeeps
  <2>2. CASE Malformed
    BY <2>2, GiveUpKeeps DEF Malformed
  <2>3. CASE \E t \in {"no_match", "clarified"} : Terminal(t)
    BY <2>3, TerminalKeeps
  <2>4. CASE \E f \in Named, replies \in Replies : ReadMatch(f, replies) \/ ReadKnown(f, replies)
    BY <2>4, ReadMatchKeeps, ReadKnownKeeps
  <2>5. CASE EndPlan
    BY <2>5, EndPlanKeeps
  <2>6. CASE \E a \in Candidate : ReadRank(a)
    BY <2>6, ReadRankKeeps
  <2>7. CASE RankDone
    BY <2>7, RankDoneKeeps
  <2> QED BY <1>4, <2>1, <2>2, <2>3, <2>4, <2>5, <2>6, <2>7 DEF Answer
<1>5. CASE UNCHANGED vars
  <2>1. UNCHANGED <<op, offered, tries, plan, ran, deferred, said, verdict, ranking>>
        /\ UNCHANGED <<asked, remaining, ranked>>
    BY <1>5 DEF vars, request, outcome, ranking
  <2>2. PlanSound' /\ OneChoice' /\ RankingWhole' /\ AuthorsWordsKept'
    BY <2>1, PlanStays, ChoicesStay, RankingStays, WordsStay DEF IInv
  <2> QED BY <2>1, <2>2 DEF IInv, TypeOK
<1> QED BY <1>1, <1>2, <1>3, <1>4, <1>5 DEF Next

\* The inductive invariant: the plan read so far is sound whatever was answered.
THEOREM AnswersAreChecked == Spec => []IInv
  BY InitInv, NextInv, PTL DEF Spec

\* Whatever the provider answers, nothing of it is refused after the decoder has
\* passed it, one choice runs at most, the safety flow runs alone and no candidate
\* of a ranking is lost or ranked twice: a ranking that is done has all that were asked
\* about, those that the provider left out too (_normalize_matches, _routed_matches,
\* partition, rank_aliases).
THEOREM ProviderIsHarmless == Spec => []RoutingInvariant
<1>1. IInv => RoutingInvariant
  BY PlanIsBindable DEF IInv, RoutingInvariant, PlanBindable, PlanSound
<1> QED BY <1>1, AnswersAreChecked, PTL

\* For every flow, text and answer, a guest reads the authors' tokens and URLs
\* (_reply_is_permitted, _normalize_match, ReplyPlan).
THEOREM GuestsReadAuthors == Spec => []AuthorsWordsKept
<1>1. IInv => AuthorsWordsKept
  BY DEF IInv
<1> QED BY <1>1, AnswersAreChecked, PTL
=============================================================================
