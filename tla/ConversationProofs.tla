------------------------- MODULE ConversationProofs -------------------------
(***************************************************************************)
(* Proofs about Conversation, for any published documents.  The rows form  *)
(* a sound and anchored set (Good), which each operation of the repository *)
(* and of the transition engine keeps; the queue is bounded and has no     *)
(* flow twice.                                                             *)
(***************************************************************************)
EXTENDS Conversation, TLAPS

Good(s) == Sound(s) /\ Anchored(s)

\* No row of a service is current.
Asleep(s) == \A f \in DOMAIN s : OfService(f) => ~s[f].current

\* A checkpoint among the rows of s that a text may still be routed from.
Refuge(s, closed) ==
  \E f \in DOMAIN s : Mode[f] = "checkpoint" /\ (OfService(f) => ~closed)

Sparse(q) ==
  /\ q \in Seq(Flow)
  /\ Len(q) <= MaxPending
  /\ \A i, j \in 1..Len(q) : q[i] = q[j] => i = j

\* What the documents give the proofs: paths lead through checkpoints of one tree.
LEMMA PathFacts ==
  ASSUME NEW f \in Flow
  PROVE  /\ Checkpoints[f] \in Seq(Flow)
         /\ \A i \in 1..Len(Checkpoints[f]) :
              /\ Checkpoints[f][i] \in Flow
              /\ Tree[Checkpoints[f][i]] = Tree[f]
              /\ Mode[Checkpoints[f][i]] = "checkpoint"
BY PathAssumption

\* Where a flow's own checkpoint stands in its path: at the end.
LEMMA OwnPath ==
  ASSUME NEW f \in Flow
  PROVE  /\ Mode[f] = "checkpoint" =>
              /\ Len(Checkpoints[f]) > 0
              /\ Checkpoints[f][Len(Checkpoints[f])] = f
         /\ f \in Root => Checkpoints[f] = Own(f)
<1>1. Above(f) \in Seq(Flow)
  BY PathAssumption, FlowAssumption DEF Above
<1>2. Checkpoints[f] = Above(f) \o Own(f)
  BY PathAssumption
<1>3. Mode[f] = "checkpoint" => Own(f) = <<f>>
  BY DEF Own
<1>4. f \in Root => Above(f) = <<>>
  BY DEF Root, Above
<1>5. Own(f) \in Seq(Flow)
  BY DEF Own
<1>6. f \in Root => Checkpoints[f] = Own(f)
  BY <1>2, <1>4, <1>5
<1>7. ASSUME Mode[f] = "checkpoint"
      PROVE  /\ Len(Checkpoints[f]) > 0
             /\ Checkpoints[f][Len(Checkpoints[f])] = f
  <2> DEFINE a == Above(f)
  <2>1. Checkpoints[f] = a \o <<f>>
    BY <1>2, <1>3, <1>7
  <2>2. ASSUME NEW q \in Seq(Flow)
        PROVE  Len(q \o <<f>>) = Len(q) + 1 /\ (q \o <<f>>)[Len(q) + 1] = f
    OBVIOUS
  <2> QED BY <1>1, <2>1, <2>2
<1> QED BY <1>6, <1>7

\* A child's lineage, computed from its parent's row, is its published path.
LEMMA ChildPath ==
  ASSUME NEW s, Sound(s), NEW c \in Flow, Parent[c] \in DOMAIN s
  PROVE  ChildChecks(s, c) = Checkpoints[c]
<1> DEFINE p == Parent[c]
<1>1. p \in Flow /\ p # NoFlow /\ s[p].checks = Checkpoints[p]
  BY FlowAssumption DEF Sound
<1>2. Checkpoints[p] \in Seq(Flow)
  BY <1>1, PathFacts
<1>3. Mode[p] = "checkpoint" => AppendOnce(s[p].checks, p) = Checkpoints[p]
  BY <1>1, <1>2, OwnPath DEF AppendOnce
<1>4. Checkpoints[c] = Checkpoints[p] \o Own(c)
  BY <1>1, PathAssumption DEF Above
<1>5. \A i \in 1..Len(Checkpoints[p]) : Checkpoints[p][i] # c
  BY <1>1, PathAssumption DEF Above
<1>6. AppendOnce(Checkpoints[p], c) = Append(Checkpoints[p], c)
  BY <1>5 DEF AppendOnce
<1>7. Append(Checkpoints[p], c) = Checkpoints[p] \o <<c>>
  BY <1>2
<1>8. Checkpoints[p] \o <<>> = Checkpoints[p]
  BY <1>2
<1>9. CASE Mode[c] = "checkpoint"
  BY <1>1, <1>3, <1>4, <1>6, <1>7, <1>9 DEF ChildChecks, Own
<1>10. CASE Mode[c] # "checkpoint"
  BY <1>1, <1>3, <1>4, <1>8, <1>10 DEF ChildChecks, Own
<1> QED BY <1>9, <1>10

\* The operations of the repository keep the rows good.
LEMMA DeleteGood ==
  ASSUME NEW s, Good(s), NEW F,
         \A f \in DOMAIN s \ F : \A i \in 1..Len(s[f].checks) : s[f].checks[i] \notin F
  PROVE  Good(Delete(s, F)) /\ DOMAIN Delete(s, F) = DOMAIN s \ F
BY DEF Good, Sound, Anchored, Delete, Row

LEMMA FocusGood ==
  ASSUME NEW s, Good(s), NEW F, NEW b \in BOOLEAN
  PROVE  Good(Focus(s, F, b)) /\ DOMAIN Focus(s, F, b) = DOMAIN s
<1>1. DOMAIN Focus(s, F, b) = DOMAIN s
  BY DEF Focus
<1>2. \A f \in DOMAIN s :
        Focus(s, F, b)[f] \in Row /\ Focus(s, F, b)[f].checks = s[f].checks
  BY DEF Focus, Good, Sound, Row
<1>3. Focus(s, F, b) \in [DOMAIN s -> Row]
  BY <1>2 DEF Focus
<1> QED BY <1>1, <1>2, <1>3 DEF Good, Sound, Anchored

LEMMA UpsertGood ==
  ASSUME NEW s, Good(s), NEW f \in Flow, NEW row \in Row,
         row.checks = Checkpoints[f],
         \A i \in 1..Len(Checkpoints[f]) : Checkpoints[f][i] \in DOMAIN s \cup {f}
  PROVE  Good(Upsert(s, f, row)) /\ DOMAIN Upsert(s, f, row) = DOMAIN s \cup {f}
BY DEF Good, Sound, Anchored, Upsert

LEMMA OpenRootGood ==
  ASSUME NEW s, Good(s), NEW f \in Root
  PROVE  Good(OpenRoot(s, f)) /\ DOMAIN OpenRoot(s, f) = DOMAIN s \cup {f}
<1> DEFINE row == [current |-> TRUE, checks |-> Own(f)]
<1>1. f \in Flow
  BY DEF Root
<1>2. row \in Row /\ row.checks = Checkpoints[f]
  BY <1>1, OwnPath DEF Row, Own
<1>3. \A i \in 1..Len(Checkpoints[f]) : Checkpoints[f][i] \in DOMAIN s \cup {f}
  <2>1. Checkpoints[f] = <<f>> \/ Checkpoints[f] = <<>>
    BY <1>1, OwnPath DEF Own
  <2> QED BY <2>1
<1>4. Good(Upsert(s, f, row)) /\ DOMAIN Upsert(s, f, row) = DOMAIN s \cup {f}
  BY <1>1, <1>2, <1>3, UpsertGood
<1> QED BY <1>4 DEF OpenRoot

LEMMA ResetSystemGood ==
  ASSUME NEW s, Good(s)
  PROVE  /\ Good(ResetSystem(s))
         /\ DOMAIN ResetSystem(s) = {f \in DOMAIN s : OfService(f)} \cup {System}
<1> DEFINE F == {f \in DOMAIN s : ~OfService(f)}
<1>1. ASSUME NEW f \in DOMAIN s \ F, NEW i \in 1..Len(s[f].checks)
      PROVE  s[f].checks[i] \notin F
  BY <1>1, PathFacts DEF Good, Sound, OfService
<1>2. Good(Delete(s, F)) /\ DOMAIN Delete(s, F) = DOMAIN s \ F
  BY <1>1, DeleteGood
<1>3. System \in Root
  BY FlowAssumption
<1> QED BY <1>2, <1>3, OpenRootGood DEF ResetSystem

\* A choice keeps the rows good, consumes at most the row it was made under, and
\* opens its own where it has further choices.
LEMMA ChooseGood ==
  ASSUME NEW listed, Good(listed), NEW s, Good(s), DOMAIN listed \subseteq DOMAIN s,
         NEW c \in Flow, Parent[c] \in DOMAIN listed
  PROVE  /\ Good(Choose(listed, s, c))
         /\ DOMAIN s \ Consumed(Parent[c]) \subseteq DOMAIN Choose(listed, s, c)
         /\ DOMAIN Choose(listed, s, c) \subseteq DOMAIN s \cup {c}
         /\ ~Leaf(c) => c \in DOMAIN Choose(listed, s, c)
<1> DEFINE p == Parent[c]
           kept == Delete(s, Consumed(p))
           past == Focus(kept, IF listed[p].current THEN {p} ELSE {}, FALSE)
           back == Focus(past, Target(listed, c), TRUE)
           row == [current |-> TRUE, checks |-> ChildChecks(listed, c)]
<1>1. \A f \in DOMAIN s : \A i \in 1..Len(s[f].checks) : s[f].checks[i] \notin Consumed(p)
  BY PathFacts DEF Good, Sound, Consumed
<1>2. Good(kept) /\ DOMAIN kept = DOMAIN s \ Consumed(p)
  BY <1>1, DeleteGood
<1>3. Good(past) /\ DOMAIN past = DOMAIN kept
  BY <1>2, FocusGood
<1>4. Good(back) /\ DOMAIN back = DOMAIN kept
  BY <1>3, FocusGood
<1>5. ChildChecks(listed, c) = Checkpoints[c]
  BY ChildPath DEF Good
<1>6. row \in Row /\ row.checks = Checkpoints[c]
  BY <1>5, PathFacts DEF Row
<1>7. \A i \in 1..Len(Checkpoints[c]) : Checkpoints[c][i] \in DOMAIN kept \cup {c}
  <2>1. p \in Flow /\ p # NoFlow /\ p \in DOMAIN s
    BY FlowAssumption DEF Good, Sound
  <2>2. Checkpoints[c] = Checkpoints[p] \o Own(c)
    BY <2>1, PathAssumption DEF Above
  <2>3. Checkpoints[p] \in Seq(Flow)
    BY <2>1, PathFacts
  <2>4. \A i \in 1..Len(Checkpoints[p]) : Checkpoints[p][i] \in DOMAIN kept
    <3>1. s[p].checks = Checkpoints[p]
      BY <2>1 DEF Good, Sound
    <3>2. \A i \in 1..Len(Checkpoints[p]) : Checkpoints[p][i] \in DOMAIN s
      BY <2>1, <3>1 DEF Good, Anchored
    <3> QED BY <1>1, <1>2, <2>1, <3>1, <3>2
  <2>5. Own(c) = <<c>> \/ Own(c) = <<>>
    BY DEF Own
  <2>6. ASSUME NEW q \in Seq(Flow)
        PROVE  /\ \A i \in 1..Len(q \o <<c>>) : (q \o <<c>>)[i] = c \/ (i \in 1..Len(q) /\ (q \o <<c>>)[i] = q[i])
               /\ q \o <<>> = q
    OBVIOUS
  <2> QED BY <2>2, <2>3, <2>4, <2>5, <2>6
<1>8. Choose(listed, s, c) = IF Leaf(c) THEN back ELSE Upsert(back, c, row)
  BY DEF Choose
<1>9. Good(Upsert(back, c, row)) /\ DOMAIN Upsert(back, c, row) = DOMAIN kept \cup {c}
  <2>1. \A i \in 1..Len(Checkpoints[c]) : Checkpoints[c][i] \in DOMAIN back \cup {c}
    BY <1>4, <1>7
  <2>2. DOMAIN back = DOMAIN kept
    BY <1>4
  <2>3. Good(back)
    BY <1>4
  <2>4. ASSUME NEW t, Good(t), NEW w \in Row, w.checks = Checkpoints[c],
               \A i \in 1..Len(Checkpoints[c]) : Checkpoints[c][i] \in DOMAIN t \cup {c}
        PROVE  Good(Upsert(t, c, w)) /\ DOMAIN Upsert(t, c, w) = DOMAIN t \cup {c}
    BY <2>4, UpsertGood
  <2> HIDE DEF kept, past, back, row
  <2> QED BY <1>6, <2>1, <2>2, <2>3, <2>4
<1> QED BY <1>2, <1>4, <1>8, <1>9

LEMMA ReturnGood ==
  ASSUME NEW s, Good(s), NEW p
  PROVE  Good(Return(s, p)) /\ DOMAIN Return(s, p) = DOMAIN s
<1> DEFINE q == s[p].checks
           n == Len(q)
           a == Focus(s, {q[n]}, TRUE)
           b == Focus(s, {p}, FALSE)
           d == Focus(b, {q[n - 1]}, TRUE)
           e == Focus(s, {p}, TRUE)
<1>1. Good(a) /\ DOMAIN a = DOMAIN s
  BY FocusGood
<1>2. Good(b) /\ DOMAIN b = DOMAIN s
  BY FocusGood
<1>3. Good(d) /\ DOMAIN d = DOMAIN s
  BY <1>2, FocusGood
<1>4. Good(e) /\ DOMAIN e = DOMAIN s
  BY FocusGood
<1>5. Return(s, p) \in {a, d, e, s}
  BY DEF Return
<1> QED BY <1>1, <1>3, <1>4, <1>5

\* The actions of a choice lose no row.
LEMMA ActGood ==
  ASSUME NEW s, Good(s), NEW c, NEW e
  PROVE  /\ Good(Act(s, c, e))
         /\ DOMAIN s \subseteq DOMAIN Act(s, c, e)
         /\ DOMAIN Act(s, c, e) \subseteq DOMAIN s \cup {Home}
<1> DEFINE r == IF c \in Returns THEN Return(s, Parent[c]) ELSE s
<1>1. Good(r) /\ DOMAIN r = DOMAIN s
  BY ReturnGood
<1>2. Home \in Root
  BY FlowAssumption
<1>3. Good(OpenRoot(r, Home)) /\ DOMAIN OpenRoot(r, Home) = DOMAIN r \cup {Home}
  BY <1>1, <1>2, OpenRootGood
<1> QED BY <1>1, <1>3 DEF Act

\* A whole choice, its event child included: nothing goes but once-only rows.
LEMMA ExecuteGood ==
  ASSUME NEW s, Good(s), NEW c \in Flow, Parent[c] \in DOMAIN s, NEW e \in Events(c)
  PROVE  /\ Good(Execute(s, c, e))
         /\ \A f \in DOMAIN s \ DOMAIN Execute(s, c, e) : Mode[f] = "once"
<1> DEFINE acted == Act(s, c, e)
           chosen == Choose(s, acted, c)
<1>1. Good(acted) /\ DOMAIN s \subseteq DOMAIN acted
  BY ActGood
<1>2. /\ Good(chosen)
      /\ DOMAIN acted \ Consumed(Parent[c]) \subseteq DOMAIN chosen
      /\ ~Leaf(c) => c \in DOMAIN chosen
  BY <1>1, ChooseGood
<1>3. CASE e = NoFlow
  BY <1>1, <1>2, <1>3 DEF Execute, Consumed
<1>4. CASE e # NoFlow
  <2>1. e \in Flow /\ Parent[e] = c /\ ~Leaf(c)
    BY <1>4 DEF Events, Leaf
  <2>2. /\ Good(Choose(chosen, chosen, e))
        /\ DOMAIN chosen \ Consumed(Parent[e]) \subseteq DOMAIN Choose(chosen, chosen, e)
    BY <1>2, <2>1, ChooseGood
  <2>3. Execute(s, c, e) = Choose(chosen, chosen, e)
    BY <1>4 DEF Execute
  <2> QED BY <1>1, <1>2, <2>2, <2>3 DEF Consumed
<1> QED BY <1>3, <1>4
-----------------------------------------------------------------------------
\* The rows of a closed service stay asleep while the system's are used.
LEMMA FocusAsleep ==
  ASSUME NEW s, Good(s), Asleep(s), NEW F, NEW b \in BOOLEAN,
         b => \A f \in F \cap DOMAIN s : ~OfService(f)
  PROVE  Asleep(Focus(s, F, b))
<1>1. \A f \in DOMAIN s : s[f] \in Row
  BY DEF Good, Sound
<1> QED BY <1>1 DEF Asleep, Focus, Row

LEMMA DeleteAsleep ==
  ASSUME NEW s, Asleep(s), NEW F
  PROVE  Asleep(Delete(s, F))
BY DEF Asleep, Delete

LEMMA UpsertAsleep ==
  ASSUME NEW s, Asleep(s), NEW f, ~OfService(f), NEW row
  PROVE  Asleep(Upsert(s, f, row))
BY DEF Asleep, Upsert

LEMMA ResetSystemAsleep ==
  ASSUME NEW s, Asleep(s)
  PROVE  Asleep(ResetSystem(s))
<1>1. ~OfService(System)
  BY FlowAssumption DEF OfService, Root
<1> QED BY <1>1, DeleteAsleep, UpsertAsleep DEF ResetSystem, OpenRoot

LEMMA ChooseAsleep ==
  ASSUME NEW listed, Good(listed), NEW s, Good(s), Asleep(s), NEW c \in Flow,
         Parent[c] \in DOMAIN listed, ~OfService(c), ~NoWayBack(listed, c)
  PROVE  Asleep(Choose(listed, s, c))
<1> DEFINE p == Parent[c]
           kept == Delete(s, Consumed(p))
           past == Focus(kept, IF listed[p].current THEN {p} ELSE {}, FALSE)
           back == Focus(past, Target(listed, c), TRUE)
<1>1. \A f \in DOMAIN s : \A i \in 1..Len(s[f].checks) : s[f].checks[i] \notin Consumed(p)
  BY PathFacts DEF Good, Sound, Consumed
<1>2. Good(kept) /\ Asleep(kept)
  BY <1>1, DeleteGood, DeleteAsleep
<1>3. Good(past) /\ Asleep(past)
  BY <1>2, FocusGood, FocusAsleep
<1>4. \A f \in Target(listed, c) : ~OfService(f)
  <2>1. ChildChecks(listed, c) = Checkpoints[c]
    BY ChildPath DEF Good
  <2>2. Checkpoints[c] \in Seq(Flow)
    BY PathFacts
  <2>3. Leaf(c) /\ c \notin Returns => Len(Checkpoints[c]) \in 1..Len(Checkpoints[c])
    BY <2>1, <2>2 DEF NoWayBack
  <2>4. Leaf(c) /\ c \notin Returns => ~OfService(Checkpoints[c][Len(Checkpoints[c])])
    BY <2>3, PathFacts DEF OfService
  <2> QED BY <2>1, <2>4 DEF Target
<1>5. Asleep(back)
  BY <1>3, <1>4, FocusAsleep
<1> QED BY <1>5, UpsertAsleep DEF Choose

LEMMA ReturnAsleep ==
  ASSUME NEW s, Good(s), Asleep(s), NEW p \in DOMAIN s, ~OfService(p)
  PROVE  Asleep(Return(s, p))
<1> DEFINE q == s[p].checks
           n == Len(q)
           a == Focus(s, {q[n]}, TRUE)
           b == Focus(s, {p}, FALSE)
           d == Focus(b, {q[n - 1]}, TRUE)
           e == Focus(s, {p}, TRUE)
<1>1. p \in Flow /\ q = Checkpoints[p]
  BY DEF Good, Sound
<1>2. \A i \in 1..n : ~OfService(q[i])
  BY <1>1, PathFacts DEF OfService
<1>3. n \in Nat
  BY <1>1, PathFacts
<1> HIDE DEF q, n
<1>4. ASSUME n > 0
      PROVE  Asleep(a)
  <2>1. ~OfService(q[n])
    BY <1>2, <1>3, <1>4
  <2> QED BY <2>1, FocusAsleep
<1>5. Good(b) /\ Asleep(b)
  BY FocusGood, FocusAsleep
<1>6. ASSUME n > 1
      PROVE  Asleep(d)
  <2>1. ~OfService(q[n - 1])
    BY <1>2, <1>3, <1>6
  <2> HIDE DEF b
  <2> QED BY <1>5, <2>1, FocusAsleep
<1>7. Asleep(e)
  BY FocusAsleep
<1>8. Return(s, p) = CASE n > 0 /\ q[n] # p -> a
                       [] n > 1 /\ q[n] = p -> d
                       [] n = 1 /\ q[n] = p /\ ~OfService(p) -> e
                       [] OTHER -> s
  BY DEF Return, q, n
<1> HIDE DEF a, b, d, e
<1>9. CASE n > 0 /\ q[n] # p
  BY <1>3, <1>4, <1>8, <1>9
<1>10. CASE n > 1 /\ q[n] = p
  BY <1>3, <1>6, <1>8, <1>10
<1>11. CASE n = 1 /\ q[n] = p
  BY <1>7, <1>8, <1>11
<1>12. CASE n = 0
  BY <1>8, <1>12
<1> QED BY <1>3, <1>9, <1>10, <1>11, <1>12

LEMMA ExecuteAsleep ==
  ASSUME over, NEW s, Good(s), Asleep(s), NEW c \in Flow, NEW e \in Events(c),
         Parent[c] \in DOMAIN s, ~OfService(Parent[c]), ~Raises(s, c, e)
  PROVE  Asleep(Execute(s, c, e))
<1> DEFINE acted == Act(s, c, e)
           chosen == Choose(s, acted, c)
<1>1. Parent[c] # NoFlow /\ ~OfService(c)
  BY FlowAssumption DEF OfService, Good, Sound
<1>2. Good(acted) /\ DOMAIN s \subseteq DOMAIN acted
  BY ActGood
<1>3. Asleep(acted)
  BY ReturnAsleep DEF Act
<1>4. Good(chosen) /\ (~Leaf(c) => c \in DOMAIN chosen)
  BY <1>2, ChooseGood
<1>5. ~NoWayBack(s, c) /\ (e # NoFlow => ~NoWayBack(chosen, e))
  BY DEF Raises
<1>6. Asleep(chosen)
  BY <1>1, <1>2, <1>3, <1>5, ChooseAsleep
<1>7. CASE e = NoFlow
  BY <1>6, <1>7 DEF Execute
<1>8. CASE e # NoFlow
  <2>1. e \in Flow /\ Parent[e] = c /\ ~Leaf(c)
    BY <1>8 DEF Events, Leaf
  <2>2. ~OfService(e)
    BY <1>1, <2>1, FlowAssumption DEF OfService
  <2>3. Asleep(Choose(chosen, chosen, e))
    BY <1>4, <1>5, <1>6, <1>8, <2>1, <2>2, ChooseAsleep
  <2> QED BY <1>8, <2>3 DEF Execute
<1> QED BY <1>7, <1>8
-----------------------------------------------------------------------------
\* The queue.
LEMMA EnqueueSparse ==
  ASSUME NEW q, Sparse(q), NEW f \in Flow
  PROVE  Sparse(Enqueue(q, f))
<1>0. q \in Seq(Flow) /\ Len(q) \in Nat /\ Len(q) <= MaxPending /\ MaxPending \in Nat \ {0}
  BY FlowAssumption DEF Sparse
<1>1. CASE \E i \in 1..Len(q) : q[i] = f
  <2> DEFINE i == CHOOSE i \in 1..Len(q) : q[i] = f
             a == SubSeq(q, 1, i - 1)
             b == SubSeq(q, i + 1, Len(q))
             r == Append(a \o b, f)
  <2>1. i \in 1..Len(q) /\ q[i] = f
    BY <1>1
  <2> HIDE DEF i
  <2>2. a \in Seq(Flow) /\ Len(a) = i - 1 /\ \A k \in 1..(i - 1) : a[k] = q[k]
    BY <1>0, <2>1
  <2>3. /\ b \in Seq(Flow) /\ Len(b) = Len(q) - i
        /\ \A k \in 1..(Len(q) - i) : b[k] = q[k + i]
    BY <1>0, <2>1
  <2> HIDE DEF a, b
  <2>4. /\ a \o b \in Seq(Flow) /\ Len(a \o b) = Len(q) - 1
        /\ \A k \in 1..(Len(q) - 1) : (a \o b)[k] = IF k < i THEN q[k] ELSE q[k + 1]
    <3>1. ASSUME NEW x \in Seq(Flow), NEW y \in Seq(Flow)
          PROVE  /\ x \o y \in Seq(Flow) /\ Len(x \o y) = Len(x) + Len(y)
                 /\ \A k \in 1..Len(x) : (x \o y)[k] = x[k]
                 /\ \A k \in (Len(x) + 1)..(Len(x) + Len(y)) : (x \o y)[k] = y[k - Len(x)]
      OBVIOUS
    <3>2. a \o b \in Seq(Flow) /\ Len(a \o b) = Len(q) - 1
      <4>1. Len(a \o b) = Len(a) + Len(b) /\ a \o b \in Seq(Flow)
        BY <2>2, <2>3, <3>1
      <4> QED BY <1>0, <2>1, <2>2, <2>3, <4>1
    <3>3. \A k \in 1..(i - 1) : (a \o b)[k] = q[k]
      BY <2>2, <2>3, <3>1
    <3>4. ASSUME NEW k \in i..(Len(q) - 1)
          PROVE  (a \o b)[k] = q[k + 1]
      <4>1. (a \o b)[k] = b[k - (i - 1)] /\ k - (i - 1) \in 1..(Len(q) - i)
        BY <1>0, <2>1, <2>2, <2>3, <3>1
      <4>2. b[k - (i - 1)] = q[k - (i - 1) + i] /\ k - (i - 1) + i = k + 1
        BY <1>0, <2>1, <2>3, <4>1
      <4> QED BY <4>1, <4>2
    <3> QED BY <1>0, <2>1, <3>2, <3>3, <3>4
  <2>5. /\ r \in Seq(Flow) /\ Len(r) = Len(q) /\ r[Len(q)] = f
        /\ \A k \in 1..(Len(q) - 1) : r[k] = IF k < i THEN q[k] ELSE q[k + 1]
    BY <1>0, <2>1, <2>4
  <2> HIDE DEF r
  <2>6. \A k \in 1..Len(q) : r[k] = q[IF k = Len(q) THEN i ELSE IF k < i THEN k ELSE k + 1]
    BY <1>0, <2>1, <2>5
  <2>7. \A k, m \in 1..Len(r) : r[k] = r[m] => k = m
    BY <1>0, <2>1, <2>5, <2>6 DEF Sparse
  <2>8. Enqueue(q, f) = r
    BY <1>1 DEF Enqueue, r, a, b, i
  <2> QED BY <1>0, <2>5, <2>7, <2>8 DEF Sparse
<1>2. CASE ~\E i \in 1..Len(q) : q[i] = f
  <2> DEFINE m == IF Len(q) < MaxPending THEN 1 ELSE Len(q) - MaxPending + 2
             a == SubSeq(q, m, Len(q))
             r == Append(a, f)
  <2>1. m \in 1..(Len(q) + 1) /\ Len(q) - m + 2 <= MaxPending
    BY <1>0
  <2> HIDE DEF m
  <2>2. /\ a \in Seq(Flow) /\ Len(a) = Len(q) - m + 1
        /\ \A k \in 1..Len(a) : a[k] = q[k + m - 1]
    BY <1>0, <2>1
  <2> HIDE DEF a
  <2>3. /\ r \in Seq(Flow) /\ Len(r) = Len(a) + 1 /\ r[Len(a) + 1] = f
        /\ \A k \in 1..Len(a) : r[k] = q[k + m - 1]
    BY <2>2
  <2> HIDE DEF r
  <2>4. \A j, k \in 1..Len(r) : r[j] = r[k] => j = k
    <3>1. \A k \in 1..Len(a) : k + m - 1 \in 1..Len(q) /\ r[k] = q[k + m - 1] /\ r[k] # f
      BY <1>0, <1>2, <2>1, <2>2, <2>3
    <3>2. ASSUME NEW j \in 1..Len(a), NEW k \in 1..Len(a), r[j] = r[k]
          PROVE  j = k
      <4>1. j + m - 1 = k + m - 1
        BY <3>1, <3>2 DEF Sparse
      <4> QED BY <1>0, <2>1, <2>2, <4>1
    <3>3. \A k \in 1..Len(r) : k \in 1..Len(a) \/ k = Len(a) + 1
      BY <1>0, <2>1, <2>2, <2>3
    <3> QED BY <2>3, <3>1, <3>2, <3>3
  <2>5. Enqueue(q, f) = r
    BY <1>2 DEF Enqueue, Room, r, a, m
  <2>6. r \in Seq(Flow) /\ Len(r) <= MaxPending
    BY <1>0, <2>1, <2>2, <2>3
  <2>7. Sparse(r)
    BY <2>4, <2>6 DEF Sparse
  <2> QED BY <2>5, <2>7
<1> QED BY <1>1, <1>2

LEMMA RestSparse ==
  ASSUME NEW q, Sparse(q), NEW i \in 1..Len(q)
  PROVE  Sparse(SubSeq(q, i + 1, Len(q)))
<1> DEFINE r == SubSeq(q, i + 1, Len(q))
<1>1. q \in Seq(Flow) /\ Len(q) \in Nat /\ Len(q) <= MaxPending /\ MaxPending \in Nat
  BY FlowAssumption DEF Sparse
<1>2. /\ r \in Seq(Flow) /\ Len(r) = Len(q) - i
      /\ \A k \in 1..Len(r) : r[k] = q[k + i]
  BY <1>1
<1> HIDE DEF r
<1>3. ASSUME NEW j \in 1..Len(r), NEW k \in 1..Len(r), r[j] = r[k]
      PROVE  j = k
  <2>1. j + i \in 1..Len(q) /\ k + i \in 1..Len(q) /\ q[j + i] = q[k + i]
    BY <1>1, <1>2, <1>3
  <2>2. j + i = k + i
    BY <2>1 DEF Sparse
  <2> QED BY <1>1, <1>2, <2>2
<1> QED BY <1>1, <1>2, <1>3 DEF Sparse, r
-----------------------------------------------------------------------------
\* The rows, with what is known of the guest and of the service.
Healthy(s) ==
  /\ Good(s)
  /\ over => Asleep(s)
  /\ named => Refuge(s, over)

Types ==
  /\ named \in BOOLEAN /\ over \in BOOLEAN /\ running \in BOOLEAN
  /\ announced \subseteq Root

LEMMA InvariantParts ==
  ConversationInvariant <=> Types /\ Healthy(selections) /\ Sparse(pending)
BY DEF ConversationInvariant, TypeOK, ReturnTargetOpen, NeverStranded, ClosedRowsRest,
       PendingBounded, Types, Healthy, Good, Asleep, Refuge, Sparse, Listed

\* Resetting the system branch touches no service's, and leaves a refuge.
LEMMA ResetHealthy ==
  ASSUME NEW s, Healthy(s)
  PROVE  /\ Healthy(ResetSystem(s))
         /\ Refuge(ResetSystem(s), over)
         /\ \A f \in DOMAIN s \ DOMAIN ResetSystem(s) : ~OfService(f)
<1>1. /\ Good(ResetSystem(s))
      /\ DOMAIN ResetSystem(s) = {f \in DOMAIN s : OfService(f)} \cup {System}
  BY ResetSystemGood DEF Healthy
<1>2. over => Asleep(ResetSystem(s))
  BY ResetSystemAsleep DEF Healthy
<1>3. Mode[System] = "checkpoint" /\ ~OfService(System)
  BY FlowAssumption DEF OfService, Root
<1> QED BY <1>1, <1>2, <1>3 DEF Healthy, Refuge

LEMMA PreparedHealthy ==
  ASSUME Healthy(selections)
  PROVE  Healthy(Prepared) /\ \A f \in DOMAIN selections \ DOMAIN Prepared : ~OfService(f)
BY ResetHealthy DEF Prepared

LEMMA OpenRootHealthy ==
  ASSUME NEW s, Healthy(s), NEW f \in Root, ~over
  PROVE  Healthy(OpenRoot(s, f)) /\ DOMAIN OpenRoot(s, f) = DOMAIN s \cup {f}
BY OpenRootGood DEF Healthy, Refuge

LEMMA ExecuteHealthy ==
  ASSUME NEW s, Healthy(s), NEW c \in Flow, Parent[c] \in Listed(s),
         NEW e \in Events(c), ~Raises(s, c, e)
  PROVE  /\ Healthy(Execute(s, c, e))
         /\ \A f \in DOMAIN s \ DOMAIN Execute(s, c, e) : Mode[f] = "once"
<1>1. Parent[c] \in DOMAIN s /\ (over => ~OfService(Parent[c]))
  BY DEF Listed
<1>2. /\ Good(Execute(s, c, e))
      /\ \A f \in DOMAIN s \ DOMAIN Execute(s, c, e) : Mode[f] = "once"
  BY <1>1, ExecuteGood DEF Healthy
<1>3. over => Asleep(Execute(s, c, e))
  BY <1>1, ExecuteAsleep DEF Healthy
<1>4. named => Refuge(Execute(s, c, e), over)
  BY <1>2 DEF Healthy, Refuge
<1> QED BY <1>2, <1>3, <1>4 DEF Healthy

\* Closing sends the guest back to the system if it ends a row of theirs.
LEMMA ExpireHealthy ==
  ASSUME NEW s, Healthy(s)
  PROVE  /\ Good(Expire(s)) /\ Asleep(Expire(s))
         /\ named => Refuge(Expire(s), TRUE)
         /\ DOMAIN s \subseteq DOMAIN Expire(s)
<1> DEFINE ended == {f \in DOMAIN s : OfService(f)}
           slept == Focus(s, ended, FALSE)
<1>1. Mode[System] = "checkpoint" /\ ~OfService(System) /\ System \in Root
  BY FlowAssumption DEF OfService, Root
<1>2. CASE ended = {}
  BY <1>2 DEF Expire, Healthy, Asleep, Refuge
<1>3. CASE ended # {}
  <2>1. Good(slept) /\ DOMAIN slept = DOMAIN s
    BY FocusGood DEF Healthy
  <2>2. Asleep(slept)
    <3>1. \A f \in DOMAIN s : s[f] \in Row
      BY DEF Healthy, Good, Sound
    <3> QED BY <3>1 DEF Asleep, Focus, Row
  <2>3. Expire(s) = OpenRoot(slept, System)
    BY <1>3 DEF Expire
  <2>4. Good(Expire(s)) /\ DOMAIN Expire(s) = DOMAIN s \cup {System}
    BY <1>1, <2>1, <2>3, OpenRootGood
  <2>5. Asleep(Expire(s))
    BY <1>1, <2>2, <2>3, UpsertAsleep DEF OpenRoot
  <2> QED BY <1>1, <2>4, <2>5 DEF Refuge
<1> QED BY <1>2, <1>3

LEMMA DeferredSparse ==
  ASSUME Sparse(pending), NEW d \in Flow \cup {NoFlow}
  PROVE  Sparse(Deferred(pending, d))
BY EnqueueSparse DEF Deferred

LEMMA EmptySparse == Sparse(<<>>)
BY FlowAssumption DEF Sparse

LEMMA InitInvariant == Init => ConversationInvariant
<1> SUFFICES ASSUME Init PROVE Types /\ Healthy(selections) /\ Sparse(pending)
  BY InvariantParts
<1>1. DOMAIN selections = {} /\ ~over /\ ~named
  BY DEF Init
<1>2. Good(selections)
  BY <1>1 DEF Init, Good, Sound, Anchored
<1> QED BY <1>1, <1>2, EmptySparse DEF Init, Types, Healthy

\* What a step may do to the rows: a service's go only by their one choice.
Spared == \A f \in DOMAIN selections \ DOMAIN selections' : OfService(f) => Mode[f] = "once"

LEMMA TextStep ==
  ASSUME Types, Healthy(selections), Sparse(pending),
         NEW c \in Offered, NEW d \in (Offered \cup {NoFlow}) \ {c},
         (\E e \in Events(c) : Say(c, d, e)) \/ SayAndResume(c, d) \/ SayRaises(c, d)
  PROVE  Types' /\ Healthy(selections)' /\ Sparse(pending)' /\ Spared
<1>1. /\ Healthy(Prepared)
      /\ \A f \in DOMAIN selections \ DOMAIN Prepared : ~OfService(f)
  BY PreparedHealthy
<1>2. c \in Flow /\ Parent[c] \in Listed(Prepared) /\ d \in Flow \cup {NoFlow}
  BY DEF Offered, Choices
<1>3. Sparse(Deferred(pending, d))
  BY <1>2, DeferredSparse
<1>4. ASSUME NEW e \in Events(c), Say(c, d, e)
      PROVE  Types' /\ Healthy(selections)' /\ Sparse(pending)' /\ Spared
  <2>1. selections' = Execute(Prepared, c, e) /\ ~Raises(Prepared, c, e)
    BY <1>4 DEF Say
  <2>2. /\ Healthy(selections')
        /\ \A f \in DOMAIN Prepared \ DOMAIN selections' : Mode[f] = "once"
    BY <1>1, <1>2, <2>1, ExecuteHealthy
  <2>3. UNCHANGED <<named, announced, over, running>>
    BY <1>4 DEF Say
  <2>4. Healthy(selections)'
    BY <2>2, <2>3 DEF Healthy
  <2>5. pending' \in {<<>>, Deferred(pending, d)}
    BY <1>4 DEF Say
  <2>6. Sparse(pending')
    BY <1>3, <2>5, EmptySparse
  <2> QED BY <1>1, <2>2, <2>3, <2>4, <2>6 DEF Types, Spared, Sparse
<1>5. ASSUME SayAndResume(c, d)
      PROVE  Types' /\ Healthy(selections)' /\ Sparse(pending)' /\ Spared
  <2> DEFINE q == Deferred(pending, d)
             s == Execute(Prepared, c, NoFlow)
  <2>1. UNCHANGED <<named, announced, over, running>> /\ ~Raises(Prepared, c, NoFlow)
    BY <1>5 DEF SayAndResume
  <2>2. NoFlow \in Events(c)
    BY DEF Events
  <2>3. Healthy(s) /\ \A f \in DOMAIN Prepared \ DOMAIN s : Mode[f] = "once"
    BY <1>1, <1>2, <2>1, <2>2, ExecuteHealthy
  <2>4. PICK i \in Resumable(q, s) : \E e \in Events(q[i]) :
          /\ ~Raises(s, q[i], e)
          /\ selections' = Execute(s, q[i], e)
          /\ pending' = SubSeq(q, i + 1, Len(q))
    BY <1>5 DEF SayAndResume
  <2>5. PICK e \in Events(q[i]) :
          /\ ~Raises(s, q[i], e)
          /\ selections' = Execute(s, q[i], e)
          /\ pending' = SubSeq(q, i + 1, Len(q))
    BY <2>4
  <2>6. i \in 1..Len(q) /\ q[i] \in Flow /\ Parent[q[i]] \in Listed(s)
    BY DEF Resumable, Choices
  <2>7. /\ Healthy(selections')
        /\ \A f \in DOMAIN s \ DOMAIN selections' : Mode[f] = "once"
    BY <2>3, <2>5, <2>6, ExecuteHealthy
  <2>8. Healthy(selections)'
    BY <2>1, <2>7 DEF Healthy
  <2>9. Sparse(pending')
    BY <1>3, <2>5, <2>6, RestSparse
  <2> QED BY <1>1, <2>1, <2>3, <2>7, <2>8, <2>9 DEF Types, Spared, Sparse
<1>6. ASSUME SayRaises(c, d)
      PROVE  Types' /\ Healthy(selections)' /\ Sparse(pending)' /\ Spared
  BY <1>6 DEF SayRaises, Types, Healthy, Sparse, Spared
<1> QED BY <1>4, <1>5, <1>6

LEMMA ButtonStep ==
  ASSUME Types, Healthy(selections), Sparse(pending),
         NEW c \in Choices(selections, "button"), NEW e \in Events(c),
         Press(c, e) \/ PressRaises(c, e)
  PROVE  Types' /\ Healthy(selections)' /\ Sparse(pending)' /\ Spared
<1>1. c \in Flow /\ Parent[c] \in Listed(selections)
  BY DEF Choices
<1>2. ASSUME Press(c, e)
      PROVE  Types' /\ Healthy(selections)' /\ Sparse(pending)' /\ Spared
  <2>1. /\ selections' = Execute(selections, c, e) /\ ~Raises(selections, c, e)
        /\ UNCHANGED <<pending, named, announced, over, running>>
    BY <1>2 DEF Press
  <2>2. /\ Healthy(selections')
        /\ \A f \in DOMAIN selections \ DOMAIN selections' : Mode[f] = "once"
    BY <1>1, <2>1, ExecuteHealthy
  <2> QED BY <2>1, <2>2 DEF Types, Healthy, Sparse, Spared
<1>3. ASSUME PressRaises(c, e)
      PROVE  Types' /\ Healthy(selections)' /\ Sparse(pending)' /\ Spared
  BY <1>3 DEF PressRaises, Types, Healthy, Sparse, Spared
<1> QED BY <1>2, <1>3

LEMMA StepInvariant ==
  ASSUME ConversationInvariant, [Next]_vars
  PROVE  ConversationInvariant' /\ Spared
<1>0. Types /\ Healthy(selections) /\ Sparse(pending)
  BY InvariantParts
<1> SUFFICES Types' /\ Healthy(selections)' /\ Sparse(pending)' /\ Spared
  <2>1. Types' /\ Healthy(selections)' /\ Sparse(pending)' => ConversationInvariant'
    BY InvariantParts, PTL
  <2> QED BY <2>1
<1>1. CASE CaptureName
  <2>1. Home \in Root
    BY FlowAssumption
  <2>2. ASSUME ~over, selections' = OpenRoot(selections, Home)
        PROVE  Healthy(selections)' /\ Spared
    <3>1. /\ Good(selections') /\ DOMAIN selections' = DOMAIN selections \cup {Home}
      BY <1>0, <2>1, <2>2, OpenRootGood DEF Healthy
    <3>2. Mode[Home] = "checkpoint" /\ ~over'
      BY <1>1, <2>2, FlowAssumption DEF CaptureName
    <3> QED BY <3>1, <3>2 DEF Healthy, Refuge, Spared
  <2>3. ASSUME selections' = ResetSystem(selections)
        PROVE  Healthy(selections)' /\ Spared
    BY <1>0, <1>1, <2>3, ResetHealthy DEF CaptureName, Healthy, Spared
  <2> QED BY <1>0, <1>1, <2>2, <2>3 DEF CaptureName, Types, Sparse
<1>2. CASE StartAgain
  BY <1>0, <1>2, ResetHealthy DEF StartAgain, Types, Healthy, Sparse, Spared
<1>3. ASSUME NEW f \in Flow, OpenTimestamp(f)
      PROVE  Types' /\ Healthy(selections)' /\ Sparse(pending)' /\ Spared
  <2>1. f \in Root /\ ~over /\ selections' = OpenRoot(selections, f)
    BY <1>3 DEF OpenTimestamp
  <2>2. Healthy(selections') /\ DOMAIN selections' = DOMAIN selections \cup {f}
    BY <1>0, <2>1, OpenRootHealthy
  <2> QED BY <1>0, <1>3, <2>1, <2>2 DEF OpenTimestamp, Types, Healthy, Sparse, Spared
<1>4. CASE CloseService
  <2>1. over' = TRUE /\ selections' = Expire(selections)
    BY <1>4 DEF CloseService
  <2>2. Healthy(selections)' /\ DOMAIN selections \subseteq DOMAIN selections'
    BY <1>0, <1>4, <2>1, ExpireHealthy DEF CloseService, Healthy
  <2> QED BY <1>0, <1>4, <2>2 DEF CloseService, Types, Sparse, Spared
<1>5. CASE Chat
  BY <1>0, <1>5, PreparedHealthy DEF Chat, Types, Healthy, Sparse, Spared
<1>6. CASE Lapse
  <2>1. 1 \in 1..Len(pending) /\ pending' = SubSeq(pending, 1 + 1, Len(pending))
    BY <1>0, <1>6 DEF Lapse, Sparse
  <2>2. Sparse(pending')
    BY <1>0, <2>1, RestSparse
  <2> QED BY <1>0, <1>6, <2>2 DEF Lapse, Types, Healthy, Sparse, Spared
<1>7. CASE Restart
  BY <1>0, <1>7 DEF Restart, Types, Healthy, Sparse, Spared
<1>8. ASSUME NEW c \in Offered, NEW d \in (Offered \cup {NoFlow}) \ {c},
             (\E e \in Events(c) : Say(c, d, e)) \/ SayAndResume(c, d) \/ SayRaises(c, d)
      PROVE  Types' /\ Healthy(selections)' /\ Sparse(pending)' /\ Spared
  BY <1>0, <1>8, TextStep
<1>9. ASSUME NEW c \in Choices(selections, "button"), NEW e \in Events(c),
             Press(c, e) \/ PressRaises(c, e)
      PROVE  Types' /\ Healthy(selections)' /\ Sparse(pending)' /\ Spared
  BY <1>0, <1>9, ButtonStep
<1>10. CASE UNCHANGED vars
  BY <1>0, <1>10 DEF vars, Types, Healthy, Sparse, Spared
<1> QED
  BY <1>1, <1>2, <1>3, <1>4, <1>5, <1>6, <1>7, <1>8, <1>9, <1>10 DEF Next

\* The inductive invariant: sound and anchored rows, a refuge, sleeping rows of a
\* closed service and a bounded queue, for any documents and any queue bound.
THEOREM Invariant == Spec => []ConversationInvariant
<1>1. ConversationInvariant /\ [Next]_vars => ConversationInvariant'
  BY StepInvariant
<1> QED BY InitInvariant, <1>1, PTL DEF Spec

\* A return always has a row to focus, in whatever order branches were opened,
\* consumed, reset and expired.
THEOREM ReturnsLand == Spec => []ReturnTargetOpen
BY Invariant, PTL DEF ConversationInvariant

\* A guest with a name always has a checkpoint on offer.
THEOREM AlwaysRefuge == Spec => []NeverStranded
BY Invariant, PTL DEF ConversationInvariant

\* Nothing wakes the rows of a closed service.
THEOREM ClosedSleeps == Spec => []ClosedRowsRest
BY Invariant, PTL DEF ConversationInvariant

\* The queue of deferred intents has no flow twice and keeps its bound.
THEOREM QueueBounded == Spec => []PendingBounded
BY Invariant, PTL DEF ConversationInvariant

\* Whatever the guest says, a service's branch goes only by its one choice.
THEOREM BranchesKept == Spec => OnlyOnceConsumed
<1>1. ConversationInvariant /\ [Next]_vars =>
        [\A f \in DOMAIN selections \ DOMAIN selections' : OfService(f) => Mode[f] = "once"]_vars
  BY StepInvariant DEF Spared
<1> QED BY Invariant, <1>1, PTL DEF Spec, OnlyOnceConsumed
=============================================================================
