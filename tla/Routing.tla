------------------------------- MODULE Routing -------------------------------
(***************************************************************************)
(* What becomes of a guest's message between the choices on offer and the  *)
(* flows that run: the request to the external language model, its answer  *)
(* and the local checks on it (routing/router.py, openrouter_gateway.py    *)
(* and policy.py, responses/planner.py, and their callers in app.py and    *)
(* matching/service.py).                                                   *)
(*                                                                         *)
(* The provider is arbitrary: it may fail, or answer anything at all.  An  *)
(* answer is read match by match, as the decoder does, so what comes next  *)
(* in it is a choice of the moment.  A text is known by its identity and   *)
(* by the template tokens in it and by the URLs in it, in order.           *)
(***************************************************************************)
EXTENDS Naturals, Sequences, FiniteSets

CONSTANTS
  Flow,        \* flows that a message or a button can choose
  Stranger,    \* a name that is no flow's
  Safety,      \* the interruptive safety flow
  Answers,     \* flows whose multi_intent_mode is answer
  Slots,       \* reply slots of each flow and of its event children, in order
  Foreign,     \* flows whose first slot belongs to an event child
  Text,        \* texts the provider may write, and the authored ones
  Tokens,      \* template tokens of each text
  Urls,        \* URLs of each text
  Clean,       \* texts without an em dash or a stray brace
  MaxMatches,  \* matches in an answer
  MaxCandidates, \* candidates of a ranking
  MaxAttempts  \* OPENROUTER_HTTP_MAX_ATTEMPTS

Slot == [mode : {"paraphrased", "llm"}, source : Text]

ASSUME RoutingAssumption ==
  /\ Stranger \notin Flow
  /\ Safety \in Flow \ Answers /\ Answers \subseteq Flow /\ Foreign \subseteq Flow
  /\ Slots \in [Flow -> Seq(Slot)]
  /\ \A t \in Text : Tokens[t] \in Seq(STRING) /\ Urls[t] \in Seq(STRING)
  /\ Clean \subseteq Text
  /\ MaxMatches \in Nat \ {0} /\ MaxCandidates \in Nat \ {0} /\ MaxAttempts \in Nat \ {0}

VARIABLES
  op,        \* the operation under way: route, known, rank or none
  offered,   \* flows the request names
  tries,     \* posts of this operation that brought nothing
  plan,      \* matches of the answer accepted so far
  ran,       \* flows of the last message that were run
  deferred,  \* flows of the last message that were put off
  said,      \* texts planned for the slots of the flows that run
  verdict,   \* what the last operation came to
  asked,     \* candidates of the last ranking, by their position in its request
  remaining, \* those not ranked yet
  ranked     \* those ranked, the first choice first

request == <<op, offered, tries, plan>>
outcome == <<ran, deferred, said, verdict>>
ranking == <<asked, remaining, ranked>>
vars == <<request, outcome, ranking>>

Match == [flow : Flow, replies : Seq(Text)]
Candidate == 0..(MaxCandidates - 1)

Init ==
  /\ op = "none" /\ offered = {} /\ tries = 0 /\ plan = <<>>
  /\ ran = {} /\ deferred = {} /\ said = {} /\ verdict = "none"
  /\ asked = {} /\ remaining = {} /\ ranked = <<>>
-----------------------------------------------------------------------------
(* Checks on a match.                                                      *)

Count(s, x) == Cardinality({i \in DOMAIN s : s[i] = x})
NoMoreOften(s, t) == \A i \in DOMAIN s : Count(s, s[i]) <= Count(t, s[i])

Kept(text, source) == Tokens[text] = Tokens[source] /\ Urls[text] = Urls[source]
Drawn(text, source) ==
  NoMoreOften(Tokens[text], Tokens[source]) /\ NoMoreOften(Urls[text], Urls[source])

\* Mutation of Permitted: a paraphrase may leave out what an answer may.
PermittedSubset(slot, text) ==
  /\ text \in Clean
  /\ slot.mode = "llm" => text # slot.source
  /\ Drawn(text, slot.source)

\* _reply_is_permitted: a paraphrase keeps the tokens and the URLs of its source as
\* they are; an answer has no others, no more often, and does not repeat its source.
Permitted(slot, text) ==
  /\ text \in Clean
  /\ slot.mode = "paraphrased" => Kept(text, slot.source)
  /\ slot.mode = "llm" => text # slot.source /\ Drawn(text, slot.source)

\* Every slot is answered, once, and nothing else is.
Answered(f, replies) ==
  /\ \A i, j \in DOMAIN replies : replies[i].slot = replies[j].slot => i = j
  /\ {replies[i].slot : i \in DOMAIN replies} = DOMAIN Slots[f]

\* An answer that is not permitted spoils the match, a paraphrase does not.
Sound(f, replies) ==
  /\ Answered(f, replies)
  /\ \A i \in DOMAIN replies :
       LET slot == Slots[f][replies[i].slot] IN
       slot.mode = "llm" => Permitted(slot, replies[i].text)

\* _normalize_match: what is not permitted of a paraphrase gives way to its source.
Normalized(f, replies) ==
  [s \in DOMAIN Slots[f] |->
    LET text == replies[CHOOSE i \in DOMAIN replies : replies[i].slot = s].text
    IN  IF Permitted(Slots[f][s], text) THEN text ELSE Slots[f][s].source]

\* Mutation of Acceptable: a flow may be matched a second time.
AcceptableAgain(f, replies) == f \in offered /\ Sound(f, replies)

\* _normalize_matches.
Acceptable(f, replies) ==
  /\ f \in offered
  /\ \A i \in DOMAIN plan : plan[i].flow # f
  /\ Sound(f, replies)

\* What _routed_matches, _reply_plan_for and partition refuse, with errors that
\* nothing catches.
Refused(p) ==
  \/ \E i, j \in DOMAIN p : i # j /\ p[i].flow = p[j].flow
  \/ \E i \in DOMAIN p : p[i].flow \notin offered \/ DOMAIN p[i].replies # DOMAIN Slots[p[i].flow]

Interactive(p) == {i \in DOMAIN p : p[i].flow \notin Answers}

\* Mutation of Run: the safety flow is one choice among others.
RunAll(p) ==
  {i \in DOMAIN p : p[i].flow \in Answers}
    \cup {i \in Interactive(p) : \A j \in Interactive(p) : i <= j}

\* partition: the safety flow alone, or every answer and the first choice.
Run(p) ==
  LET safe == {i \in DOMAIN p : p[i].flow = Safety} IN
  IF safe # {} THEN safe
  ELSE {i \in DOMAIN p : p[i].flow \in Answers}
         \cup {i \in Interactive(p) : \A j \in Interactive(p) : i <= j}

PutOff(p) ==
  IF \E i \in DOMAIN p : p[i].flow = Safety THEN {} ELSE Interactive(p) \ Run(p)

Texts(f, replies) == {[flow |-> f, slot |-> s, text |-> replies[s]] : s \in DOMAIN replies}

\* Authored copy stands in for paraphrases, and for nothing else.
Authored(f) ==
  {[flow |-> f, slot |-> s, text |-> Slots[f][s].source] :
     s \in {s \in DOMAIN Slots[f] : Slots[f][s].mode = "paraphrased"}}
-----------------------------------------------------------------------------
Finish(v) == op' = "none" /\ verdict' = v

\* One operation is over before the next begins: the user is locked.
Fresh(A) ==
  /\ op = "none"
  /\ ran' = {} /\ deferred' = {} /\ said' = {}
  /\ asked' = A /\ remaining' = A /\ ranked' = <<>>

Post(kind, flows) == op' = kind /\ offered' = flows /\ tries' = 0 /\ plan' = <<>>

\* A message, with the choices F on offer; none are answered with no_match.
Ask(F) ==
  /\ Fresh({})
  /\ IF F # {} THEN Post("route", F) /\ verdict' = "none"
     ELSE Finish("no_match") /\ UNCHANGED <<offered, tries, plan>>

\* A flow without slots is run without asking the provider.
Known(f) ==
  IF Slots[f] # <<>> THEN Post("known", {f}) /\ verdict' = "none"
  ELSE Finish("selected") /\ UNCHANGED <<offered, tries, plan>>

\* A button, or a root that opens: the flow is known.
Press(f) == Fresh({}) /\ Known(f)

\* A search for somebody asks for one candidate after the other.
Rank(A) == Fresh(A) /\ Post("rank", {}) /\ verdict' = "none"

\* What is left of an operation without a usable answer: a message is answered
\* with the fixed failure text, a known flow runs with authored copy, and what
\* has no such copy fails, as a search does.
GiveUp ==
  /\ IF op = "known"
       THEN \E f \in offered :
              /\ said' = said \cup Authored(f)
              /\ Finish(IF \A s \in DOMAIN Slots[f] : Slots[f][s].mode = "paraphrased"
                          THEN "selected" ELSE "failed")
       ELSE Finish("failed") /\ UNCHANGED said
  /\ UNCHANGED <<offered, tries, plan, ran, deferred, ranking>>

\* No answer has begun to be read.
Waiting == op # "none" /\ plan = <<>>

\* Mutation of Lost: after the last attempt the count begins anew.
LostAndReset ==
  /\ Waiting
  /\ tries' = IF tries + 1 < MaxAttempts THEN tries + 1 ELSE 0
  /\ UNCHANGED <<op, offered, plan, outcome, ranking>>

\* _post: no answer, or one with an error status; asked again at once.
Lost ==
  /\ Waiting
  /\ IF tries + 1 < MaxAttempts
       THEN tries' = tries + 1 /\ UNCHANGED <<op, offered, plan, outcome, ranking>>
       ELSE GiveUp

\* An answer that is too long, no JSON, or not of the schema is not retried.
Malformed == Waiting /\ GiveUp

\* kind terminal.
Terminal(t) ==
  /\ op = "route" /\ Waiting
  /\ Finish(t)
  /\ UNCHANGED <<offered, tries, plan, ran, deferred, said, ranking>>

\* The next match of the answer.
ReadMatch(f, replies) ==
  /\ op = "route" /\ Len(plan) < MaxMatches
  /\ IF Acceptable(f, replies)
       THEN /\ plan' = Append(plan, [flow |-> f, replies |-> Normalized(f, replies)])
            /\ UNCHANGED <<op, offered, tries, outcome, ranking>>
       ELSE GiveUp

\* The end of the answer: the plan is bound to the candidates and split, and what
\* is to run runs.  A choice that completes resumes a deferred flow.
EndPlan ==
  /\ op = "route" /\ plan # <<>>
  /\ IF Refused(plan) THEN Finish("raised") /\ UNCHANGED <<offered, tries, plan, ran, deferred, said>>
     ELSE /\ ran' = {plan[i].flow : i \in Run(plan)}
          /\ deferred' = {plan[i].flow : i \in PutOff(plan)}
          /\ said' = UNION {Texts(plan[i].flow, plan[i].replies) : i \in Run(plan)}
          /\ \/ Finish("selected") /\ UNCHANGED <<offered, tries, plan>>
             \/ /\ Interactive(plan) \cap Run(plan) # {}
                /\ \E f \in Flow \ Answers : Known(f)
  /\ UNCHANGED ranking

\* The answer for a known flow.  The binding takes the flow for that of the first
\* slot: where it is an event child's, the answer is thrown away.
ReadKnown(f, replies) ==
  /\ op = "known"
  /\ IF f \in offered /\ Sound(f, replies) /\ f \notin Foreign
       THEN /\ said' = said \cup Texts(f, Normalized(f, replies))
            /\ Finish("selected")
            /\ UNCHANGED <<offered, tries, plan, ran, deferred, ranking>>
       ELSE GiveUp

\* One of the candidates asked about.
ReadRank(a) ==
  /\ op = "rank"
  /\ a \in remaining
  /\ remaining' = remaining \ {a} /\ ranked' = Append(ranked, a)
  /\ tries' = 0
  /\ IF remaining' = {} THEN Finish("ranked") ELSE UNCHANGED <<op, verdict>>
  /\ UNCHANGED <<offered, plan, ran, deferred, said, asked>>

\* Those of C in the order of the request.
InOrder(rest, C) ==
  /\ {rest[i] : i \in DOMAIN rest} = C
  /\ \A i, j \in DOMAIN rest : i < j => rest[i] < rest[j]

\* system.done: those that remain follow in that order.
RankDone ==
  /\ op = "rank"
  /\ \E rest \in [1..Cardinality(remaining) -> remaining] :
       InOrder(rest, remaining) /\ ranked' = ranked \o rest
  /\ remaining' = {}
  /\ Finish("ranked")
  /\ UNCHANGED <<offered, tries, plan, ran, deferred, said, asked>>

MaxReplies == 2
Named == Flow \cup {Stranger}
Replies == UNION {[1..n -> [slot : 1..MaxReplies, text : Text]] : n \in 0..MaxReplies}

Answer ==
  \/ Lost \/ Malformed
  \/ \E t \in {"no_match", "clarified"} : Terminal(t)
  \/ \E f \in Named, replies \in Replies : ReadMatch(f, replies) \/ ReadKnown(f, replies)
  \/ EndPlan
  \/ \E a \in Candidate : ReadRank(a)
  \/ RankDone

Next ==
  \/ \E F \in SUBSET Flow : Ask(F)
  \/ \E f \in Flow : Press(f)
  \/ \E n \in 1..MaxCandidates : Rank(0..(n - 1))
  \/ Answer

Spec == Init /\ [][Next]_vars /\ WF_vars(Answer)
-----------------------------------------------------------------------------
TypeOK ==
  /\ op \in {"none", "route", "known", "rank"}
  /\ offered \subseteq Flow
  /\ tries \in 0..(MaxAttempts - 1)
  /\ plan \in Seq(Match)
  /\ ran \subseteq Flow /\ deferred \subseteq Flow
  /\ said \subseteq [flow : Flow, slot : Nat, text : Text]
  /\ verdict \in {"none", "selected", "failed", "no_match", "clarified", "ranked", "raised"}
  /\ asked \subseteq Candidate /\ remaining \subseteq asked /\ ranked \in Seq(asked)

\* Whatever the provider answers, a plan has distinct flows of those on offer,
\* and a text for each of their slots.
PlanBindable ==
  op = "route" =>
    /\ ~Refused(plan)
    /\ Len(plan) <= MaxMatches

\* A message runs one choice at most, and nothing beside the safety flow.
OneChoice ==
  /\ \A f, g \in ran \ Answers : f = g
  /\ Safety \in ran => ran = {Safety} /\ deferred = {}
  /\ deferred \cap (ran \cup Answers) = {}

\* No candidate is ranked twice, or lost on the way, and a ranking that is done has
\* them all, those that the provider left out too.
RankingWhole ==
  /\ \A i, j \in DOMAIN ranked : ranked[i] = ranked[j] => i = j
  /\ {ranked[i] : i \in DOMAIN ranked} = asked \ remaining
  /\ verdict = "ranked" => remaining = {}

\* Nothing the provider answers ends in an error that takes the runtime down.
RoutingInvariant ==
  /\ TypeOK
  /\ PlanBindable
  /\ OneChoice
  /\ RankingWhole
  /\ verdict # "raised"

\* Of every text a guest is shown, tokens and URLs are those the authors wrote
\* for that very action: all of them and in order where the copy may only be
\* reworded, none but them and no more often where it is a source to draw from,
\* which itself is never shown.  So it is after retries, fallbacks and in flows that are resumed.
AuthorsWordsKept ==
  \A r \in said :
    /\ r.slot \in DOMAIN Slots[r.flow]
    /\ LET slot == Slots[r.flow][r.slot] IN
       /\ slot.mode = "paraphrased" => Kept(r.text, slot.source)
       /\ slot.mode = "llm" => r.text # slot.source /\ Drawn(r.text, slot.source)

\* Every operation comes to an end, however often the provider fails, and ends
\* in something the guest is told.
EveryTextAnswered == op # "none" ~> op = "none" /\ verdict \notin {"none", "raised"}
=============================================================================
