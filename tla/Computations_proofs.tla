------------------------- MODULE Computations_proofs -------------------------
(***************************************************************************)
(* Proofs about computations that share nothing, for all of their inputs:  *)
(* what Agent 4 can answer, so that the pipeline model may choose a        *)
(* verdict, how a text is cut into chunks, and how the results of a search *)
(* are ranked.  Induction over finite sets and least numbers come from the *)
(* proofs about batches.                                                   *)
(***************************************************************************)
EXTENDS Assessing, Chunking, RankFusion, StoryBatching_proofs

-----------------------------------------------------------------------------
(* The verdict of Agent 4                                                  *)

(* A verdict that wants a review or a retry has a failed story or an       *)
(* upstream issue behind it.                                               *)
LEMMA TargetCases ==
  ASSUME NEW a
  PROVE  /\ RegenerationTarget(a) = "NONE" <=>
               FailedStories(a) = {} /\ ~ \E c \in UpstreamCategories : HasCategory(a, c)
         /\ RegenerationTarget(a) = "HUMAN_REVIEW" <=> FailedStories(a) \cap a.exhausted # {}
         /\ RegenerationTarget(a) \in AgentTargets \cup {"NONE", "HUMAN_REVIEW"}
  BY DEF RegenerationTarget, AgentTargets

(* Every well-formed assessment leads to a feasible verdict: the pipeline  *)
(* model may replace Agent 4 by a choice among these.                      *)
THEOREM VerdictsAreFeasible ==
  ASSUME NEW a \in Assessments, WellFormed(a)
  PROVE  Verdict(a) \in FeasibleVerdicts(a.stories # {},
                                         \E i \in a.issues : i.story # NoStory)
  <1>1. Verdict(a) \in VerdictType
    BY DEF Verdict, VerdictType, Passed
  <1>2. ~(Verdict(a).retry_required /\ Verdict(a).review_required)
    BY DEF Verdict, AgentTargets
  <1>3. ASSUME a.stories = {} PROVE ~Verdict(a).passed /\ ~Verdict(a).review_required
    <2>1. FailedStories(a) = {}
      BY <1>3 DEF FailedStories
    <2>2. RegenerationTarget(a) # "HUMAN_REVIEW"
      BY <2>1, TargetCases
    <2> QED
      BY <1>3, <2>2 DEF Verdict, Passed, WellFormed
  <1>4. ASSUME NEW i \in a.issues, i.story # NoStory
        PROVE  Verdict(a).retry_required \/ Verdict(a).review_required
    <2>1. i.story \in FailedStories(a)
      BY <1>4 DEF WellFormed, FailedStories
    <2>2. RegenerationTarget(a) # "NONE"
      BY <2>1, TargetCases
    <2> QED
      BY <2>2, TargetCases DEF Verdict
  <1> QED
    BY <1>1, <1>2, <1>3, <1>4 DEF FeasibleVerdicts

(* A further issue leaves every failed story failed and every category     *)
(* raised.                                                                 *)
LEMMA AddIssueGrows ==
  ASSUME AddIssue
  PROVE  /\ assessment'.exhausted = assessment.exhausted
         /\ assessment.issues \subseteq assessment'.issues
         /\ FailedStories(assessment) \subseteq FailedStories(assessment')
         /\ \A c \in Categories : HasCategory(assessment, c) => HasCategory(assessment', c)
  BY DEF AddIssue, FailedStories, HasCategory

(* Finding one more problem never relaxes the verdict.                     *)
THEOREM IssuesNeverRelax == AssessSpec => MoreIssuesNeverRelax
  <1> DEFINE a == assessment
  <1>1. ASSUME [AddIssue]_assessment
        PROVE  [ /\ Severity(Verdict(a')) >= Severity(Verdict(a))
                 /\ Verdict(a').passed => Verdict(a).passed ]_assessment
    <2> SUFFICES ASSUME AddIssue
                 PROVE  /\ Severity(Verdict(a')) >= Severity(Verdict(a))
                        /\ Verdict(a').passed => Verdict(a).passed
      BY <1>1
    <2>1. Verdict(a').passed => Verdict(a).passed
      BY AddIssueGrows DEF Verdict, Passed
    <2>2. Verdict(a).review_required => Verdict(a').review_required
      <3>1. Verdict(a).review_required <=> FailedStories(a) \cap a.exhausted # {}
        BY TargetCases DEF Verdict
      <3>2. Verdict(a').review_required <=> FailedStories(a') \cap a'.exhausted # {}
        BY TargetCases DEF Verdict
      <3> QED
        BY <3>1, <3>2, AddIssueGrows
    <2>3. Verdict(a).retry_required
             => Verdict(a').retry_required \/ Verdict(a').review_required
      <3> SUFFICES ASSUME Verdict(a).retry_required
                   PROVE  Verdict(a').retry_required \/ Verdict(a').review_required
        OBVIOUS
      <3>1. RegenerationTarget(a) # "NONE"
        BY DEF Verdict, AgentTargets
      <3>2. \/ FailedStories(a) # {}
            \/ \E c \in UpstreamCategories : HasCategory(a, c)
        BY <3>1, TargetCases
      <3>3. \/ FailedStories(a') # {}
            \/ \E c \in UpstreamCategories : HasCategory(a', c)
        BY <3>2, AddIssueGrows DEF Categories
      <3>4. RegenerationTarget(a') \in AgentTargets \cup {"HUMAN_REVIEW"}
        BY <3>3, TargetCases
      <3> QED
        BY <3>4 DEF Verdict
    <2> QED
      BY <2>1, <2>2, <2>3 DEF Severity
  <1> QED
    BY <1>1, PTL DEF AssessSpec, MoreIssuesNeverRelax

-----------------------------------------------------------------------------
(* Stretches of tokens *)

(* The stretches of a list tile the tokens after one number up to another, *)
(* each within the limit.                                                  *)
Tiles(list, from, upto) ==
    /\ list \in Seq(Stretches)
    /\ from <= upto
    /\ list = << >> => from = upto
    /\ list # << >> => list[1].first = from + 1 /\ list[Len(list)].last = upto
    /\ \A i \in DOMAIN list : Tokens(list[i]) \in 1..MaxTokens /\ from < list[i].first /\ list[i].last <= upto
    /\ \A i \in 2..Len(list) : list[i].first = list[i - 1].last + 1

LEMMA EmptyTiles ==
    ASSUME NEW from \in Nat
    PROVE  Tiles(<< >>, from, from)
<1>1. << >> \in Seq(Stretches) /\ DOMAIN << >> = {} /\ 2..Len(<< >>) = {} /\ from <= from
  OBVIOUS
<1> QED
  BY <1>1 DEF Tiles

LEMMA OneTile ==
    ASSUME NEW one \in Stretches, Tokens(one) \in 1..MaxTokens
    PROVE  Tiles(<< one >>, one.first - 1, one.last)
<1>1. one.first \in Nat /\ one.last \in Nat /\ MaxTokens \in Nat
  BY ChunkLimitsAssumption DEF Stretches
<1>2. one.first <= one.last
  BY <1>1 DEF Tokens
<1>3. /\ << one >> \in Seq(Stretches) /\ Len(<< one >>) = 1 /\ << one >>[1] = one
      /\ DOMAIN << one >> = {1} /\ << one >> # << >> /\ 2..1 = {}
  OBVIOUS
<1> QED
  BY <1>1, <1>2, <1>3 DEF Tiles

LEMMA TilesJoined ==
    ASSUME NEW from \in Nat, NEW middle \in Nat, NEW upto \in Nat,
           NEW left, NEW right, Tiles(left, from, middle), Tiles(right, middle, upto)
    PROVE  Tiles(left \o right, from, upto)
<1>1. /\ left \in Seq(Stretches) /\ right \in Seq(Stretches)
      /\ Len(left) \in Nat /\ Len(right) \in Nat /\ from <= middle /\ middle <= upto
      /\ DOMAIN left = 1..Len(left) /\ DOMAIN right = 1..Len(right)
  BY DEF Tiles
<1> DEFINE all == left \o right
<1>2. /\ all \in Seq(Stretches) /\ Len(all) = Len(left) + Len(right)
      /\ DOMAIN all = 1..(Len(left) + Len(right))
      /\ \A i \in 1..Len(left) : all[i] = left[i]
      /\ \A i \in 1..Len(right) : all[Len(left) + i] = right[i]
  BY <1>1
<1> HIDE DEF all
<1>3. CASE left = << >>
  <2>1. all = right /\ from = middle
    BY <1>1, <1>3 DEF all, Tiles
  <2> QED
    BY <2>1, Zenon DEF all
<1>4. CASE right = << >>
  <2>1. all = left /\ upto = middle
    BY <1>1, <1>4 DEF all, Tiles
  <2> QED
    BY <2>1, Zenon DEF all
<1>5. CASE left # << >> /\ right # << >>
  <2>1. Len(left) \in Nat \ {0} /\ Len(right) \in Nat \ {0}
    BY <1>1, <1>5
  <2>2. /\ left[1].first = from + 1 /\ left[Len(left)].last = middle
        /\ right[1].first = middle + 1 /\ right[Len(right)].last = upto
    BY <1>5 DEF Tiles
  <2>3. all # << >> /\ all[1].first = from + 1 /\ all[Len(all)].last = upto
    BY <1>2, <2>1, <2>2
  <2>4. ASSUME NEW i \in DOMAIN all
        PROVE  /\ Tokens(all[i]) \in 1..MaxTokens /\ from < all[i].first /\ all[i].last <= upto
               /\ i \in 2..Len(all) => all[i].first = all[i - 1].last + 1
    <3>1. CASE i \in 1..Len(left)
      <4>1. /\ all[i] = left[i] /\ left[i] \in Stretches /\ Tokens(left[i]) \in 1..MaxTokens
            /\ from < left[i].first /\ left[i].last <= middle
        BY <1>1, <1>2, <3>1 DEF Tiles
      <4>2. left[i].last <= upto
        BY <1>1, <4>1 DEF Stretches
      <4>3. ASSUME i \in 2..Len(all)
            PROVE  all[i].first = all[i - 1].last + 1
        <5>1. i \in 2..Len(left) /\ i - 1 \in 1..Len(left)
          BY <2>1, <3>1, <4>3
        <5> QED
          BY <1>2, <4>1, <5>1 DEF Tiles
      <4> QED
        BY <4>1, <4>2, <4>3
    <3>2. CASE i \notin 1..Len(left)
      <4> DEFINE k == i - Len(left)
      <4>1. k \in 1..Len(right) /\ i = Len(left) + k /\ all[i] = right[k]
        BY <1>1, <1>2, <3>2
      <4> HIDE DEF k
      <4>2. /\ right[k] \in Stretches /\ Tokens(right[k]) \in 1..MaxTokens
            /\ middle < right[k].first /\ right[k].last <= upto
        BY <1>1, <4>1 DEF Tiles
      <4>3. from < right[k].first
        BY <1>1, <4>2 DEF Stretches
      <4>4. CASE k = 1
        <5>1. i - 1 = Len(left) /\ all[i - 1] = left[Len(left)]
          BY <1>2, <2>1, <4>1, <4>4
        <5> QED
          BY <2>2, <4>1, <4>2, <4>3, <4>4, <5>1
      <4>5. CASE k # 1
        <5>1. k \in 2..Len(right) /\ k - 1 \in 1..Len(right) /\ i - 1 = Len(left) + (k - 1)
          BY <2>1, <4>1, <4>5
        <5>2. all[i - 1] = right[k - 1] /\ right[k].first = right[k - 1].last + 1
          BY <1>2, <5>1 DEF Tiles
        <5> QED
          BY <4>1, <4>2, <4>3, <5>2
      <4> QED
        BY <4>4, <4>5
    <3> QED
      BY <3>1, <3>2
  <2>5. 2..Len(all) \subseteq DOMAIN all
    BY <1>1, <1>2
  <2>6. from <= upto
    BY <1>1
  <2> QED
    BY <1>2, <2>3, <2>4, <2>5, <2>6 DEF Tiles, all
<1> QED
  BY <1>3, <1>4, <1>5

(* Merging a piece with the next leaves the tokens in place.               *)
LEMMA MergedTiles ==
    ASSUME NEW from \in Nat, NEW upto \in Nat, Tiles(pieces, from, upto),
           NEW i \in DOMAIN pieces, MayMerge(i, i + 1)
    PROVE  /\ Tiles(MergedAt(i), from, upto)
           /\ Len(MergedAt(i)) = Len(pieces) - 1
           /\ Tokens(MergedAt(i)[i]) = Tokens(pieces[i]) + Tokens(pieces[i + 1])
           /\ \A k \in 1..(i - 1) : MergedAt(i)[k] = pieces[k]
<1> DEFINE n == Len(pieces)
           new == MergedAt(i)
           joint == Join(pieces[i], pieces[i + 1])
<1>1. /\ pieces \in Seq(Stretches) /\ n \in Nat /\ DOMAIN pieces = 1..n /\ i \in 1..n
      /\ i + 1 \in 1..n /\ Tokens(pieces[i]) + Tokens(pieces[i + 1]) <= MaxTokens
  BY DEF Tiles, MayMerge
<1>2. n - 1 \in Nat /\ i \in 1..(n - 1)
  BY <1>1
<1>3. /\ pieces[i] \in Stretches /\ pieces[i + 1] \in Stretches
      /\ Tokens(pieces[i]) \in 1..MaxTokens /\ Tokens(pieces[i + 1]) \in 1..MaxTokens
      /\ pieces[i + 1].first = pieces[i].last + 1
      /\ from < pieces[i].first /\ pieces[i + 1].last <= upto
  <2>1. i + 1 \in 2..n /\ (i + 1) - 1 = i
    BY <1>1
  <2>2. pieces[i + 1].first = pieces[(i + 1) - 1].last + 1
    BY <2>1 DEF Tiles
  <2> QED
    BY <1>1, <2>1, <2>2 DEF Tiles
<1>4. /\ joint \in Stretches /\ joint.first = pieces[i].first /\ joint.last = pieces[i + 1].last
      /\ Tokens(joint) = Tokens(pieces[i]) + Tokens(pieces[i + 1])
      /\ Tokens(joint) \in 1..MaxTokens
  <2>1. /\ pieces[i].first \in Nat /\ pieces[i].last \in Nat
        /\ pieces[i + 1].first \in Nat /\ pieces[i + 1].last \in Nat
    BY <1>3 DEF Stretches
  <2>2. /\ joint.first = pieces[i].first /\ joint.last = pieces[i + 1].last
        /\ joint \in Stretches
    BY <2>1 DEF Join, Stretches
  <2> HIDE DEF joint
  <2>3. Tokens(joint) = Tokens(pieces[i]) + Tokens(pieces[i + 1])
    BY <1>3, <2>1, <2>2 DEF Tokens
  <2>4. Tokens(joint) \in 1..MaxTokens
    BY <1>1, <1>3, <2>3, ChunkLimitsAssumption
  <2> QED
    BY <2>2, <2>3, <2>4
<1> HIDE DEF joint
<1>5. /\ \A k \in 1..(i - 1) : new[k] = pieces[k] /\ k \in 1..n
      /\ new[i] = joint
      /\ \A k \in (i + 1)..(n - 1) : new[k] = pieces[k + 1] /\ k + 1 \in 1..n
  <2>1. \A k \in 1..(i - 1) : k \in 1..(n - 1) /\ k < i /\ k \in 1..n
    BY <1>1
  <2>2. \A k \in (i + 1)..(n - 1) : k \in 1..(n - 1) /\ k > i /\ k # i /\ ~(k < i) /\ k + 1 \in 1..n
    BY <1>1
  <2>3. i \in 1..(n - 1) /\ ~(i < i)
    BY <1>2
  <2> QED
    BY <2>1, <2>2, <2>3 DEF MergedAt, joint
<1>6. \A k \in 1..(n - 1) : k \in 1..(i - 1) \/ k = i \/ k \in (i + 1)..(n - 1)
  BY <1>1
<1>7. new \in Seq(Stretches) /\ Len(new) = n - 1 /\ DOMAIN new = 1..(n - 1)
  <2>1. \A k \in 1..(n - 1) : new[k] \in Stretches
    BY <1>1, <1>4, <1>5, <1>6
  <2>2. new = [k \in 1..(n - 1) |-> new[k]]
    BY DEF MergedAt
  <2> HIDE DEF new
  <2>3. new \in [1..(n - 1) -> Stretches]
    BY <2>1, <2>2
  <2> QED
    BY <1>2, <2>3
<1> HIDE DEF new
<1>8. new # << >> /\ new[1].first = from + 1 /\ new[Len(new)].last = upto
  <2>1. pieces # << >> /\ pieces[1].first = from + 1 /\ pieces[n].last = upto
    BY <1>1 DEF Tiles
  <2>2. new[1].first = pieces[1].first
    <3>1. CASE i = 1
      BY <1>4, <1>5, <3>1
    <3>2. CASE i # 1
      <4>1. 1 \in 1..(i - 1)
        BY <1>1, <3>2
      <4> QED
        BY <1>5, <4>1
    <3> QED
      BY <3>1, <3>2
  <2>3. new[n - 1].last = pieces[n].last
    <3>1. CASE i = n - 1
      <4>1. i + 1 = n
        BY <1>1, <3>1
      <4> QED
        BY <1>4, <1>5, <3>1, <4>1
    <3>2. CASE i # n - 1
      <4>1. n - 1 \in (i + 1)..(n - 1) /\ (n - 1) + 1 = n
        BY <1>1, <1>2, <3>2
      <4> QED
        BY <1>5, <4>1
    <3> QED
      BY <3>1, <3>2
  <2> QED
    BY <1>2, <1>7, <2>1, <2>2, <2>3
<1>9. \A k \in DOMAIN new : Tokens(new[k]) \in 1..MaxTokens /\ from < new[k].first /\ new[k].last <= upto
  <2> SUFFICES ASSUME NEW k \in 1..(n - 1)
               PROVE  Tokens(new[k]) \in 1..MaxTokens /\ from < new[k].first /\ new[k].last <= upto
    BY <1>7
  <2>1. CASE k = i
    BY <1>3, <1>4, <1>5, <2>1
  <2>2. CASE k # i
    <3>1. \E j \in 1..n : new[k] = pieces[j]
      BY <1>5, <1>6, <2>2
    <3> QED
      BY <1>1, <3>1 DEF Tiles
  <2> QED
    BY <2>1, <2>2
<1>10. \A k \in 2..(n - 1) : new[k].first = new[k - 1].last + 1
  <2> SUFFICES ASSUME NEW k \in 2..(n - 1)
               PROVE  new[k].first = new[k - 1].last + 1
    OBVIOUS
  <2>1. CASE k \in 1..(i - 1)
    <3>1. k \in 2..n /\ k - 1 \in 1..(i - 1)
      BY <1>1, <2>1
    <3> QED
      BY <1>5, <2>1, <3>1 DEF Tiles
  <2>2. CASE k = i
    <3>1. k \in 2..n /\ k - 1 \in 1..(i - 1)
      BY <1>1, <2>2
    <3> QED
      BY <1>4, <1>5, <2>2, <3>1 DEF Tiles
  <2>3. CASE k = i + 1
    <3>1. k \in (i + 1)..(n - 1) /\ k - 1 = i /\ k + 1 \in 2..n /\ (k + 1) - 1 = k
      BY <1>1, <2>3
    <3>2. pieces[k + 1].first = pieces[(k + 1) - 1].last + 1
      BY <3>1 DEF Tiles
    <3> QED
      BY <1>4, <1>5, <2>3, <3>1, <3>2
  <2>4. CASE k > i + 1
    <3>1. /\ k \in (i + 1)..(n - 1) /\ k - 1 \in (i + 1)..(n - 1) /\ k + 1 \in 2..n
          /\ (k + 1) - 1 = k /\ (k - 1) + 1 = k
      BY <1>1, <2>4
    <3>2. pieces[k + 1].first = pieces[(k + 1) - 1].last + 1
      BY <3>1 DEF Tiles
    <3> QED
      BY <1>5, <3>1, <3>2
  <2>5. k \in 1..(i - 1) \/ k = i \/ k = i + 1 \/ k > i + 1
    BY <1>1
  <2> QED
    BY <2>1, <2>2, <2>3, <2>4, <2>5
<1>11. from <= upto
  BY DEF Tiles
<1>12. Tiles(new, from, upto)
  BY <1>7, <1>8, <1>9, <1>10, <1>11 DEF Tiles
<1> QED
  BY <1>4, <1>5, <1>7, <1>12 DEF new

(* A sentence beyond the limit becomes full pieces and a last one.         *)
LEMMA PartsTile ==
    ASSUME NEW s \in Stretches, s.first # 0, s.first <= s.last
    PROVE  Tiles(Parts(s), s.first - 1, s.last)
<1> DEFINE total == Tokens(s)
           n == (total + MaxTokens - 1) \div MaxTokens
           Ends(k) == IF s.first + k * MaxTokens - 1 < s.last
                      THEN s.first + k * MaxTokens - 1 ELSE s.last
           list == Parts(s)
<1>1. /\ s.first \in Nat \ {0} /\ s.last \in Nat /\ total \in Nat \ {0}
      /\ s.last = s.first + total - 1 /\ MaxTokens \in Nat \ {0}
  BY ChunkLimitsAssumption DEF Stretches, Tokens
<1> HIDE DEF total
<1>2. n \in Nat \ {0} /\ (n - 1) * MaxTokens < total /\ total <= n * MaxTokens
  BY <1>1
<1>3. list = [k \in 1..n |-> [first |-> s.first + (k - 1) * MaxTokens, last |-> Ends(k)]]
  BY DEF Parts, total
<1> HIDE DEF n, list
<1>4. ASSUME NEW k \in 1..n
      PROVE  /\ (k - 1) * MaxTokens \in Nat /\ k * MaxTokens = (k - 1) * MaxTokens + MaxTokens
             /\ (k - 1) * MaxTokens < total
             /\ k # n => k * MaxTokens < total
  <2>1. k - 1 \in Nat /\ k - 1 <= n - 1 /\ (k # n => k <= n - 1)
    BY <1>2
  <2>2. \A a, b, m \in Nat : a <= b => a * m <= b * m /\ a * m \in Nat
    OBVIOUS
  <2>3. /\ (k - 1) * MaxTokens <= (n - 1) * MaxTokens /\ (k - 1) * MaxTokens \in Nat
        /\ k # n => k * MaxTokens <= (n - 1) * MaxTokens
    BY <1>1, <1>2, <2>1, <2>2
  <2>4. k * MaxTokens = (k - 1) * MaxTokens + MaxTokens
    BY <1>1
  <2>5. (n - 1) * MaxTokens \in Nat
    BY <1>1, <1>2, <2>2
  <2>6. k * MaxTokens \in Nat
    BY <1>1, <1>2, <2>2
  <2> QED
    BY <1>1, <1>2, <2>3, <2>4, <2>5, <2>6
<1>5. ASSUME NEW k \in 1..n
      PROVE  /\ Ends(k) \in Nat /\ Ends(k) <= s.last
             /\ Ends(k) - (s.first + (k - 1) * MaxTokens) + 1 \in 1..MaxTokens
             /\ k # n => Ends(k) + 1 = s.first + k * MaxTokens
             /\ k = n => Ends(k) = s.last
  <2> DEFINE before == (k - 1) * MaxTokens
             after == k * MaxTokens
  <2>1. /\ before \in Nat /\ after = before + MaxTokens /\ before < total
        /\ k # n => after < total
        /\ k = n => total <= after
    BY <1>2, <1>4
  <2> HIDE DEF before, after
  <2>2. Ends(k) = IF s.first + after - 1 < s.last THEN s.first + after - 1 ELSE s.last
    BY DEF after
  <2> HIDE DEF Ends
  <2>3. /\ Ends(k) \in Nat /\ Ends(k) <= s.last
        /\ Ends(k) - (s.first + before) + 1 \in 1..MaxTokens
        /\ k # n => Ends(k) + 1 = s.first + after
        /\ k = n => Ends(k) = s.last
    BY <1>1, <2>1, <2>2
  <2> QED
    BY <2>3 DEF before, after
<1> HIDE DEF Ends
<1>6. ASSUME NEW k \in 1..n
      PROVE  /\ list[k].first = s.first + (k - 1) * MaxTokens /\ list[k].last = Ends(k)
             /\ list[k] \in Stretches
  <2>1. list[k] = [first |-> s.first + (k - 1) * MaxTokens, last |-> Ends(k)]
    BY <1>3
  <2>2. s.first + (k - 1) * MaxTokens \in Nat
    BY <1>1, <1>4
  <2> QED
    BY <1>5, <2>1, <2>2 DEF Stretches
<1>7. list \in Seq(Stretches) /\ Len(list) = n /\ DOMAIN list = 1..n /\ list # << >>
  <2>1. list \in [1..n -> Stretches]
    BY <1>3, <1>6
  <2> QED
    BY <1>2, <2>1
<1>8. list[1].first = (s.first - 1) + 1 /\ list[n].last = s.last
  <2>1. 1 \in 1..n /\ n \in 1..n /\ (1 - 1) * MaxTokens = 0
    BY <1>1, <1>2
  <2>2. list[1].first = s.first + (1 - 1) * MaxTokens
    BY <1>6, <2>1
  <2> QED
    BY <1>1, <1>5, <1>6, <2>1, <2>2
<1>9. \A k \in 1..n : Tokens(list[k]) \in 1..MaxTokens
                      /\ s.first - 1 < list[k].first /\ list[k].last <= s.last
  <2> SUFFICES ASSUME NEW k \in 1..n
               PROVE  Tokens(list[k]) \in 1..MaxTokens
                      /\ s.first - 1 < list[k].first /\ list[k].last <= s.last
    OBVIOUS
  <2>1. Tokens(list[k]) \in 1..MaxTokens
    BY <1>5, <1>6 DEF Tokens
  <2>2. s.first - 1 < s.first + (k - 1) * MaxTokens
    BY <1>1, <1>4
  <2> QED
    BY <1>5, <1>6, <2>1, <2>2
<1>10. \A k \in 2..n : list[k].first = list[k - 1].last + 1
  <2> SUFFICES ASSUME NEW k \in 2..n PROVE list[k].first = list[k - 1].last + 1
    OBVIOUS
  <2>1. k \in 1..n /\ k - 1 \in 1..n /\ k - 1 # n
    BY <1>2
  <2>2. list[k].first = s.first + (k - 1) * MaxTokens
    BY <1>6, <2>1
  <2>3. list[k - 1].last + 1 = s.first + (k - 1) * MaxTokens
    BY <1>5, <1>6, <2>1
  <2> QED
    BY <2>2, <2>3
<1>11. s.first - 1 <= s.last
  BY <1>1
<1>12. Tiles(list, s.first - 1, s.last)
  BY <1>7, <1>8, <1>9, <1>10, <1>11 DEF Tiles
<1> QED
  BY <1>12 DEF list

-----------------------------------------------------------------------------
(* What is cut *)

(* Chunks, pieces and the waiting sentences tile what is read.             *)
TiledAt(middle, end) ==
    /\ Tiles(chunks, 0, middle)
    /\ Tiles(pieces, middle, end)
    /\ current = NoPiece => end = read
    /\ current # NoPiece =>
         /\ current \in Stretches /\ Tokens(current) \in 1..MaxTokens
         /\ current.first = end + 1 /\ current.last = read

(* The inductive invariant: nothing waits while pieces are merged, and the *)
(* merging has left no piece behind that a neighbour has room for.         *)
CutInOrder ==
    /\ text \in Seq(Sentences)
    /\ next \in 1..(Len(text) + 1)
    /\ read \in Nat
    /\ index \in 0..(Len(pieces) + 1)
    /\ index > 0 => current = NoPiece
    /\ \E middle, end \in Nat : TiledAt(middle, end)
    /\ SmallOnlyWhereNothingFits

(* The pieces with what waits                                              *)
LEMMA FlushedTiles ==
    ASSUME NEW middle \in Nat, NEW end \in Nat, read \in Nat, TiledAt(middle, end)
    PROVE  Tiles(Flushed, middle, read)
<1>1. CASE current = NoPiece
  BY <1>1 DEF Flushed, TiledAt
<1>2. CASE current # NoPiece
  <2>1. Tiles(<< current >>, current.first - 1, current.last) /\ pieces \in Seq(Stretches)
    BY <1>2, OneTile DEF TiledAt, Tiles
  <2>2. current.first - 1 = end /\ current.last = read /\ current \in Stretches
    BY <1>2 DEF TiledAt
  <2>3. Tiles(pieces \o << current >>, middle, read)
    BY <2>1, <2>2, TilesJoined DEF TiledAt
  <2>4. Append(pieces, current) = pieces \o << current >>
    BY <2>1
  <2> QED
    BY <1>2, <2>3, <2>4 DEF Flushed
<1> QED
  BY <1>1, <1>2

LEMMA CutIsInOrder ==
    ASSUME CutInOrder
    PROVE  ChunkInvariant
<1>1. PICK middle \in Nat, end \in Nat : TiledAt(middle, end)
  BY DEF CutInOrder
<1>2. read \in Nat /\ Tiles(Flushed, middle, read)
  BY <1>1, FlushedTiles DEF CutInOrder
<1>3. Tiles(Cut, 0, read)
  BY <1>1, <1>2, TilesJoined DEF TiledAt, Cut
<1>4. Cut \in Seq(Stretches) /\ DOMAIN Cut = 1..Len(Cut) /\ Len(Cut) \in Nat
  BY <1>3 DEF Tiles
<1>5. Cut # << >> => read # 0
  <2> SUFFICES ASSUME Cut # << >> PROVE read # 0
    OBVIOUS
  <2>1. Len(Cut) \in DOMAIN Cut /\ Cut[Len(Cut)] \in Stretches
    BY <1>4
  <2>2. Cut[Len(Cut)].first > 0 /\ Cut[Len(Cut)].last <= read /\ Tokens(Cut[Len(Cut)]) >= 1
    BY <1>3, <2>1 DEF Tiles
  <2> QED
    BY <1>2, <2>1, <2>2 DEF Stretches, Tokens
<1>6. ChunksPartition
  BY <1>3, <1>5 DEF Tiles, ChunksPartition
<1>7. WithinLimit
  BY <1>3 DEF Tiles, WithinLimit
<1>8. ChunkTypes
  BY <1>1 DEF CutInOrder, TiledAt, Tiles, ChunkTypes
<1> QED
  BY <1>6, <1>7, <1>8 DEF ChunkInvariant

(* The sentence that is read comes next in the document.                   *)
LEMMA SentenceIsNext ==
    ASSUME CutInOrder, Read
    PROVE  /\ Sentence \in Stretches /\ Sentence.first = read + 1 /\ Sentence.last = read'
           /\ read' \in Nat /\ read' > read /\ Tokens(Sentence) \in Nat \ {0}
           /\ next' \in 1..(Len(text') + 1) /\ text' \in Seq(Sentences)
<1>1. /\ text \in Seq(Sentences) /\ next \in 1..Len(text) /\ read \in Nat /\ Len(text) \in Nat
      /\ read' = read + text[next].tokens /\ next' = next + 1 /\ text' = text
  BY DEF CutInOrder, Read, GroupGoesOn
<1>2. text[next].tokens \in Nat \ {0}
  <2>1. text[next] \in Sentences
    BY <1>1
  <2> QED
    BY <2>1, SentencesAssumption DEF Sentences
<1>3. Sentence \in Stretches /\ Sentence.first = read + 1 /\ Sentence.last = read + text[next].tokens
  BY <1>1, <1>2 DEF Sentence, Stretches
<1>4. Tokens(Sentence) = text[next].tokens
  BY <1>1, <1>2, <1>3 DEF Tokens
<1> QED
  BY <1>1, <1>2, <1>3, <1>4

LEMMA ReadInOrder ==
    ASSUME CutInOrder, ReadOversized \/ ReadOverflowing \/ ReadFitting
    PROVE  CutInOrder'
<1> DEFINE s == Sentence
<1>1. /\ s \in Stretches /\ s.first = read + 1 /\ s.last = read'
      /\ read' \in Nat /\ read' > read /\ Tokens(s) \in Nat \ {0} /\ read \in Nat
      /\ next' \in 1..(Len(text') + 1) /\ text' \in Seq(Sentences)
      /\ index = 0 /\ index' = 0 /\ chunks' = chunks
  BY SentenceIsNext DEF ReadOversized, ReadOverflowing, ReadFitting, Read, CutInOrder
<1>2. PICK middle \in Nat, end \in Nat : TiledAt(middle, end)
  BY DEF CutInOrder
<1>3. Tiles(Flushed, middle, read) /\ MaxTokens \in Nat \ {0}
  BY <1>1, <1>2, FlushedTiles, ChunkLimitsAssumption
<1> HIDE DEF s
<1>4. CASE ReadOversized
  <2>1. pieces' = Flushed \o Parts(s) /\ current' = NoPiece
    BY <1>4 DEF ReadOversized, s
  <2>2. s.first # 0 /\ s.first <= s.last /\ s.first - 1 = read
    BY <1>1
  <2>3. Tiles(Parts(s), read, read')
    BY <1>1, <2>2, PartsTile
  <2>4. Tiles(pieces', middle, read')
    BY <1>1, <1>3, <2>1, <2>3, TilesJoined
  <2>5. PICK e \in Nat : e = read'
    BY <1>1
  <2>6. TiledAt(middle, e)'
    BY <1>1, <1>2, <2>1, <2>4, <2>5 DEF TiledAt
  <2>7. index' \in 0..(Len(pieces') + 1) /\ 1..(index' - 1) = {}
    BY <1>1, <2>4 DEF Tiles
  <2> QED
    BY <1>1, <2>1, <2>6, <2>7 DEF CutInOrder, SmallOnlyWhereNothingFits
<1>5. CASE ReadOverflowing
  <2>1. /\ pieces' = Append(pieces, current) /\ current' = s /\ current # NoPiece
        /\ Tokens(s) <= MaxTokens
    BY <1>5 DEF ReadOverflowing, s
  <2>2. pieces' = Flushed
    BY <2>1 DEF Flushed
  <2>3. PICK e \in Nat : e = read
    BY <1>1
  <2>4. s # NoPiece /\ Tokens(s) \in 1..MaxTokens
    BY <1>1, <1>3, <2>1, NoPieceAssumption
  <2>5. Tokens(current') \in 1..MaxTokens
    BY <2>1, <2>4
  <2>6. TiledAt(middle, e)'
    BY <1>1, <1>2, <1>3, <2>1, <2>2, <2>3, <2>4, <2>5 DEF TiledAt, Tokens
  <2>7. index' \in 0..(Len(pieces') + 1) /\ 1..(index' - 1) = {}
    BY <1>1, <1>3, <2>2 DEF Tiles
  <2> QED
    BY <1>1, <2>6, <2>7 DEF CutInOrder, SmallOnlyWhereNothingFits
<1>6. CASE ReadFitting
  <2>1. /\ pieces' = pieces /\ Tokens(s) <= MaxTokens
        /\ current # NoPiece => Tokens(current) + Tokens(s) <= MaxTokens
        /\ current' = IF current = NoPiece THEN s ELSE Join(current, s)
    BY <1>6 DEF ReadFitting, s
  <2>2. CASE current = NoPiece
    <3>1. current' = s /\ end = read
      BY <1>2, <2>1, <2>2 DEF TiledAt
    <3>2. s # NoPiece /\ Tokens(s) \in 1..MaxTokens
      BY <1>1, <1>3, <2>1, NoPieceAssumption
    <3>3. Tokens(current') \in 1..MaxTokens
      BY <3>1, <3>2
    <3>4. TiledAt(middle, end)'
      BY <1>1, <1>2, <1>3, <2>1, <3>1, <3>2, <3>3 DEF TiledAt, Tokens
    <3> QED
      BY <1>1, <2>1, <3>4 DEF CutInOrder, SmallOnlyWhereNothingFits
  <2>3. CASE current # NoPiece
    <3>1. /\ current \in Stretches /\ Tokens(current) \in 1..MaxTokens
          /\ current.first = end + 1 /\ current.last = read
      BY <1>2, <2>3 DEF TiledAt
    <3>2. /\ current' \in Stretches /\ current'.first = end + 1 /\ current'.last = read'
      BY <1>1, <2>1, <2>3, <3>1 DEF Join, Stretches
    <3>3. Tokens(current') = Tokens(current) + Tokens(s)
      BY <1>1, <3>1, <3>2 DEF Tokens
    <3>4. Tokens(current') \in 1..MaxTokens
      BY <1>1, <1>3, <2>1, <2>3, <3>1, <3>3
    <3>5. TiledAt(middle, end)'
      <4>1. current' # NoPiece
        BY <3>2, NoPieceAssumption
      <4> QED
        BY <1>1, <1>2, <2>1, <3>2, <3>4, <4>1 DEF TiledAt, Tokens
    <3>6. current' # NoPiece
      BY <3>2, NoPieceAssumption
    <3> QED
      BY <1>1, <2>1, <3>5 DEF CutInOrder, SmallOnlyWhereNothingFits
  <2> QED
    BY <2>2, <2>3
<1> QED
  BY <1>4, <1>5, <1>6

LEMMA EndGroupInOrder ==
    ASSUME CutInOrder, EndGroup \/ AppendChunks
    PROVE  CutInOrder'
<1>1. PICK middle \in Nat, end \in Nat : TiledAt(middle, end)
  BY DEF CutInOrder
<1>2. /\ UNCHANGED <<text, next, read>> /\ read \in Nat /\ text \in Seq(Sentences)
      /\ next \in 1..(Len(text) + 1) /\ index \in 0..(Len(pieces) + 1)
      /\ index > 0 => current = NoPiece
  BY DEF CutInOrder, EndGroup, AppendChunks
<1>3. CASE EndGroup
  <2>1. pieces' = Flushed /\ current' = NoPiece /\ index' = 1 /\ chunks' = chunks
    BY <1>3 DEF EndGroup
  <2>2. Tiles(pieces', middle, read)
    BY <1>1, <1>2, <2>1, FlushedTiles
  <2>3. TiledAt(middle, read)'
    BY <1>1, <1>2, <2>1, <2>2 DEF TiledAt
  <2>4. index' \in 0..(Len(pieces') + 1)
    BY <2>1, <2>2 DEF Tiles
  <2> QED
    BY <1>2, <2>1, <2>3, <2>4 DEF CutInOrder, SmallOnlyWhereNothingFits
<1>4. CASE AppendChunks
  <2>1. chunks' = chunks \o pieces /\ pieces' = << >> /\ index' = 0 /\ current' = current
    BY <1>4 DEF AppendChunks
  <2>2. current = NoPiece /\ end = read
    <3>1. pieces \in Seq(Stretches) /\ index > Len(pieces)
      BY <1>1, <1>4 DEF TiledAt, Tiles, AppendChunks
    <3>2. index > 0
      BY <1>2, <3>1
    <3> QED
      BY <1>1, <1>2, <3>2 DEF TiledAt
  <2>3. Tiles(chunks', 0, read)
    BY <1>1, <1>2, <2>1, <2>2, TilesJoined DEF TiledAt
  <2>4. TiledAt(read, read)'
    BY <1>2, <2>1, <2>2, <2>3, EmptyTiles DEF TiledAt
  <2>5. Len(<< >>) = 0 /\ 0 \in 0..(0 + 1)
    OBVIOUS
  <2> QED
    BY <1>2, <2>1, <2>4, <2>5 DEF CutInOrder, SmallOnlyWhereNothingFits
<1> QED
  BY <1>3, <1>4

(* Moving on from a piece: it is large, or nothing has room for it.        *)
LEMMA MoveOnInOrder ==
    ASSUME CutInOrder, MoveOn
    PROVE  CutInOrder'
<1>1. /\ UNCHANGED <<text, next, read, current, chunks, pieces>> /\ index' = index + 1
      /\ index \in 1..Len(pieces) /\ Len(pieces) \in Nat /\ pieces \in Seq(Stretches)
  <2>1. pieces \in Seq(Stretches)
    BY DEF CutInOrder, TiledAt, Tiles
  <2> QED
    BY <2>1 DEF MoveOn, Merging
<1>2. IsSmall(index) => ~MayMerge(index, index - 1) /\ ~MayMerge(index, index + 1)
  BY DEF MoveOn, GoesLeft, GoesRight
<1>3. \A i \in 1..(index' - 1) : i = index \/ i \in 1..(index - 1)
  BY <1>1
<1>4. SmallOnlyWhereNothingFits'
  <2> SUFFICES ASSUME NEW i \in 1..(index' - 1), i \in DOMAIN pieces, IsSmall(i)
               PROVE  ~MayMerge(i, i - 1) /\ ~MayMerge(i, i + 1)
    BY <1>1 DEF SmallOnlyWhereNothingFits, IsSmall, MayMerge
  <2> QED
    BY <1>2, <1>3 DEF CutInOrder, SmallOnlyWhereNothingFits
<1>5. \E middle, end \in Nat : TiledAt(middle, end)'
  BY <1>1 DEF CutInOrder, TiledAt
<1> QED
  BY <1>1, <1>4, <1>5 DEF CutInOrder

(* A merge changes no piece that the loop has left behind, and a merged    *)
(* piece has no more room than its first half had.                         *)
LEMMA MergeInOrder ==
    ASSUME CutInOrder, MergeLeft \/ MergeRight
    PROVE  CutInOrder'
<1> DEFINE i == IF MergeLeft THEN index - 1 ELSE index
<1>1. PICK middle \in Nat, end \in Nat : TiledAt(middle, end)
  BY DEF CutInOrder
<1>2. /\ UNCHANGED <<text, next, read, current, chunks>>
      /\ index \in 1..Len(pieces) /\ Len(pieces) \in Nat /\ pieces \in Seq(Stretches)
      /\ DOMAIN pieces = 1..Len(pieces) /\ current = NoPiece
  <2>1. pieces \in Seq(Stretches)
    BY <1>1 DEF TiledAt, Tiles
  <2> QED
    BY <2>1 DEF MergeLeft, MergeRight, Merging, CutInOrder
<1>3. /\ i \in 1..(Len(pieces) - 1) /\ MayMerge(i, i + 1) /\ pieces' = MergedAt(i)
      /\ index' \in 1..index /\ index' <= i
  <2>1. CASE MergeLeft
    <3>1. /\ MayMerge(index, index - 1) /\ pieces' = MergedAt(index - 1) /\ i = index - 1
          /\ index' = IF index > 2 THEN index - 2 ELSE 1
      BY <2>1 DEF MergeLeft, GoesLeft
    <3>2. index - 1 \in 1..Len(pieces) /\ (index - 1) + 1 = index
      BY <1>2, <3>1 DEF MayMerge
    <3>3. Tokens(pieces[index - 1]) + Tokens(pieces[index]) <= MaxTokens
      <4>1. pieces[index] \in Stretches /\ pieces[index - 1] \in Stretches
        BY <1>2, <3>2
      <4>2. Tokens(pieces[index]) \in Int /\ Tokens(pieces[index - 1]) \in Int
        BY <4>1 DEF Tokens, Stretches
      <4> QED
        BY <3>1, <4>2 DEF MayMerge
    <3> QED
      BY <1>2, <3>1, <3>2, <3>3 DEF MayMerge
  <2>2. CASE ~MergeLeft
    <3>1. MayMerge(index, index + 1) /\ pieces' = MergedAt(index) /\ i = index /\ index' = index
      BY <2>2 DEF MergeRight, GoesRight
    <3>2. index + 1 \in 1..Len(pieces)
      BY <1>2, <3>1 DEF MayMerge
    <3> QED
      BY <1>2, <3>1, <3>2
  <2> QED
    BY <2>1, <2>2
<1> HIDE DEF i
<1>4. i \in DOMAIN pieces
  BY <1>2, <1>3
<1>5. /\ Tiles(pieces', middle, end) /\ Len(pieces') = Len(pieces) - 1
      /\ Tokens(pieces'[i]) = Tokens(pieces[i]) + Tokens(pieces[i + 1])
      /\ \A k \in 1..(i - 1) : pieces'[k] = pieces[k]
  BY <1>1, <1>3, <1>4, MergedTiles DEF TiledAt
<1>6. TiledAt(middle, end)'
  BY <1>1, <1>2, <1>5 DEF TiledAt
<1>7. index' \in 0..(Len(pieces') + 1)
  BY <1>2, <1>3, <1>5
<1>8. SmallOnlyWhereNothingFits'
  <2> SUFFICES ASSUME NEW k \in 1..(index' - 1), Tokens(pieces'[k]) < MinTokens
               PROVE  /\ ~MayMerge(k, k - 1)'
                      /\ ~MayMerge(k, k + 1)'
    BY DEF SmallOnlyWhereNothingFits, IsSmall
  <2>1. /\ k \in 1..(i - 1) /\ k \in 1..(index - 1) /\ k \in DOMAIN pieces
        /\ k + 1 \in 1..i /\ k + 1 \in DOMAIN pieces
    <3> DEFINE n == Len(pieces)
               j == index'
    <3>1. /\ n \in Nat /\ j \in 1..index /\ j <= i /\ i \in 1..(n - 1) /\ index \in 1..n
          /\ DOMAIN pieces = 1..n /\ k \in 1..(j - 1)
      BY <1>2, <1>3
    <3> HIDE DEF n, j
    <3> QED
      BY <3>1
  <2>2. pieces'[k] = pieces[k]
    BY <1>5, <2>1
  <2>3. ~MayMerge(k, k - 1) /\ ~MayMerge(k, k + 1)
    BY <2>1, <2>2 DEF CutInOrder, SmallOnlyWhereNothingFits, IsSmall
  <2>4. DOMAIN pieces' = 1..(Len(pieces) - 1)
    BY <1>5 DEF Tiles
  <2>5. k - 1 \in DOMAIN pieces' => k - 1 \in DOMAIN pieces /\ pieces'[k - 1] = pieces[k - 1]
    <3>1. k - 1 \in DOMAIN pieces' => k - 1 \in 1..(i - 1) /\ k - 1 \in 1..Len(pieces)
      <4> DEFINE n == Len(pieces)
      <4>1. n \in Nat /\ i \in 1..(n - 1) /\ k \in 1..(i - 1) /\ DOMAIN pieces' = 1..(n - 1)
        BY <1>2, <1>3, <2>1, <2>4
      <4> HIDE DEF n
      <4>2. k - 1 \in DOMAIN pieces' => k - 1 \in 1..(i - 1) /\ k - 1 \in 1..n
        BY <4>1
      <4> QED
        BY <4>2 DEF n
    <3> QED
      BY <1>2, <1>5, <3>1
  <2>6. ~MayMerge(k, k - 1)'
    BY <2>2, <2>3, <2>5 DEF MayMerge
  <2>7. Tokens(pieces[k]) + Tokens(pieces[k + 1]) > MaxTokens /\ Tokens(pieces[k]) \in Int
        /\ Tokens(pieces[k + 1]) \in Int
    <3>1. pieces[k] \in Stretches /\ pieces[k + 1] \in Stretches
      BY <1>2, <2>1
    <3>2. Tokens(pieces[k]) \in Int /\ Tokens(pieces[k + 1]) \in Int
      BY <3>1 DEF Tokens, Stretches
    <3>3. ~(Tokens(pieces[k]) + Tokens(pieces[k + 1]) <= MaxTokens)
      BY <2>1, <2>3 DEF MayMerge
    <3> QED
      BY <3>2, <3>3, ChunkLimitsAssumption
  <2>8. Tokens(pieces'[k + 1]) >= Tokens(pieces[k + 1]) /\ Tokens(pieces'[k + 1]) \in Int
    <3>1. CASE k + 1 \in 1..(i - 1)
      <4>1. pieces'[k + 1] = pieces[k + 1]
        BY <1>5, <3>1
      <4> QED
        BY <2>7, <4>1
    <3>2. CASE k + 1 = i
      <4>1. i + 1 \in DOMAIN pieces /\ pieces[i + 1] \in Stretches
        BY <1>2, <1>3
      <4>2. Tokens(pieces[i + 1]) \in 1..MaxTokens
        BY <1>1, <4>1 DEF TiledAt, Tiles
      <4>3. Tokens(pieces'[k + 1]) = Tokens(pieces[k + 1]) + Tokens(pieces[i + 1])
        BY <1>5, <3>2
      <4> QED
        BY <2>7, <4>2, <4>3
    <3> QED
      BY <1>3, <2>1, <3>1, <3>2
  <2>9. ~(Tokens(pieces'[k]) + Tokens(pieces'[k + 1]) <= MaxTokens)
    BY <2>2, <2>7, <2>8, ChunkLimitsAssumption
  <2>10. ~MayMerge(k, k + 1)'
    BY <2>9 DEF MayMerge, Tokens
  <2> QED
    BY <2>6, <2>10
<1> QED
  BY <1>2, <1>6, <1>7, <1>8 DEF CutInOrder

LEMMA CutInOrderHolds == ChunkSpec => []CutInOrder
<1>1. ChunkInit => CutInOrder
  <2> SUFFICES ASSUME ChunkInit PROVE CutInOrder
    OBVIOUS
  <2>1. PICK n \in 0..MaxSentences : text \in [1..n -> Sentences]
    BY DEF ChunkInit
  <2>2. n \in Nat
    BY <2>1, SentencesAssumption
  <2>3. text \in Seq(Sentences) /\ Len(text) \in Nat
    BY <2>1, <2>2
  <2>4. /\ next = 1 /\ read = 0 /\ current = NoPiece /\ pieces = << >> /\ index = 0
        /\ chunks = << >>
    BY DEF ChunkInit
  <2>5. TiledAt(0, 0)
    BY <2>4, EmptyTiles DEF TiledAt
  <2>6. next \in 1..(Len(text) + 1) /\ index \in 0..(Len(pieces) + 1)
    BY <2>3, <2>4
  <2> QED
    BY <2>3, <2>4, <2>5, <2>6 DEF CutInOrder, SmallOnlyWhereNothingFits
<1>2. CutInOrder /\ [ChunkNext]_chunkVars => CutInOrder'
  <2> SUFFICES ASSUME CutInOrder, [ChunkNext]_chunkVars PROVE CutInOrder'
    OBVIOUS
  <2>1. CASE UNCHANGED chunkVars
    BY <2>1 DEF chunkVars, CutInOrder, TiledAt, SmallOnlyWhereNothingFits, IsSmall, MayMerge
  <2> QED
    BY <2>1, ReadInOrder, EndGroupInOrder, MoveOnInOrder, MergeInOrder DEF ChunkNext
<1> QED
  BY <1>1, <1>2, PTL DEF ChunkSpec

(* What is cut is a partition of what is read, in its order, into chunks   *)
(* that are neither empty nor beyond the limit, through any splitting and  *)
(* merging.                                                                *)
THEOREM ChunkInvariantHolds == ChunkSpec => []ChunkInvariant
BY CutIsInOrder, CutInOrderHolds, PTL

(* A small piece that is left behind has no neighbour with room for it.    *)
THEOREM SmallStaysOnlyWhereNothingFits == ChunkSpec => []SmallOnlyWhereNothingFits
<1>1. CutInOrder => SmallOnlyWhereNothingFits
  BY DEF CutInOrder
<1> QED
  BY <1>1, CutInOrderHolds, PTL

-----------------------------------------------------------------------------
(* The ranking of a search: sequences without a double, and their heads    *)

(* A head of a sequence without a double has none.                         *)
LEMMA HeadOf ==
    ASSUME NEW S, NEW s \in Seq(S), IsInjective(s), NEW n \in Nat
    PROVE  /\ First(s, n) \in Seq(S) /\ IsInjective(First(s, n))
           /\ Len(First(s, n)) = IF n < Len(s) THEN n ELSE Len(s)
           /\ DOMAIN First(s, n) \subseteq DOMAIN s
           /\ \A i \in DOMAIN First(s, n) : First(s, n)[i] = s[i]
           /\ ToSet(First(s, n)) \subseteq ToSet(s)
<1> DEFINE m == IF n < Len(s) THEN n ELSE Len(s)
           h == SubSeq(s, 1, m)
<1>1. Len(s) \in Nat /\ m \in Nat /\ m <= Len(s) /\ DOMAIN s = 1..Len(s)
  OBVIOUS
<1>2. First(s, n) = h
  BY DEF First
<1> HIDE DEF m
<1>3. h \in Seq(S) /\ Len(h) = m /\ DOMAIN h = 1..m /\ \A i \in 1..m : h[i] = s[i]
  BY <1>1
<1> HIDE DEF h
<1>4. 1..m \subseteq 1..Len(s)
  BY <1>1
<1>5. IsInjective(h)
  BY <1>1, <1>3, <1>4 DEF IsInjective
<1>6. ToSet(h) \subseteq ToSet(s)
  BY <1>1, <1>3, <1>4 DEF ToSet
<1> QED
  BY <1>1, <1>2, <1>3, <1>4, <1>5, <1>6 DEF m

(* An arrangement of a finite set is a sequence of its members.            *)
LEMMA Arrangements ==
    ASSUME NEW S, IsFiniteSet(S), NEW s \in SetToSeqs(S)
    PROVE  s \in Seq(S) /\ IsInjective(s) /\ Len(s) = Cardinality(S) /\ ToSet(s) = S
<1> DEFINE n == Cardinality(S)
<1>1. n \in Nat
  BY FS_CardinalityType
<1>2. s \in [1..n -> S] /\ \A i, j \in 1..n : i # j => s[i] # s[j]
  BY DEF SetToSeqs
<1>3. s \in Seq(S) /\ Len(s) = n /\ IsInjective(s)
  BY <1>1, <1>2 DEF IsInjective
<1>4. IsFiniteSet(1..n) /\ Cardinality(1..n) = n
  BY <1>1, FS_Interval
<1>5. s \in Injection(1..n, S)
  BY <1>2, <1>3 DEF Injection
<1>6. s \in Surjection(1..n, S)
  BY <1>4, <1>5, FS_Injection
<1>7. \A v \in S : \E i \in 1..n : s[i] = v
  BY <1>6 DEF Surjection
<1> QED
  BY <1>2, <1>3, <1>7 DEF ToSet

(* As many members as places                                               *)
LEMMA MembersOf ==
    ASSUME NEW S, NEW s \in Seq(S), IsInjective(s)
    PROVE  IsFiniteSet(ToSet(s)) /\ Cardinality(ToSet(s)) = Len(s)
<1>1. Len(s) \in Nat /\ DOMAIN s = 1..Len(s) /\ s \in [1..Len(s) -> ToSet(s)]
  BY DEF ToSet
<1>2. s \in Surjection(1..Len(s), ToSet(s))
  BY <1>1 DEF Surjection, ToSet
<1>3. s \in Injection(1..Len(s), ToSet(s))
  BY <1>1 DEF Injection
<1>4. IsFiniteSet(1..Len(s)) /\ Cardinality(1..Len(s)) = Len(s)
  BY <1>1, FS_Interval
<1> QED
  BY <1>2, <1>3, <1>4, FS_Surjection

(* A finite set can be arranged along any total order of its members: each *)
(* takes the place after those before it.                                  *)
LEMMA Sortable ==
    ASSUME NEW S, IsFiniteSet(S), NEW R,
           \A p \in S : <<p, p>> \notin R,
           \A p, q, r \in S : <<p, q>> \in R /\ <<q, r>> \in R => <<p, r>> \in R,
           \A p, q \in S : p = q \/ <<p, q>> \in R \/ <<q, p>> \in R
    PROVE  \E s \in SetToSeqs(S) : \A i, j \in DOMAIN s : i < j => <<s[i], s[j]>> \in R
<1> DEFINE Before(p) == { q \in S : <<q, p>> \in R }
           n == Cardinality(S)
           place == [p \in S |-> Cardinality(Before(p)) + 1]
<1>1. n \in Nat
  BY FS_CardinalityType
<1>2. ASSUME NEW p \in S
      PROVE  /\ IsFiniteSet(Before(p)) /\ Cardinality(Before(p)) \in Nat
             /\ place[p] = Cardinality(Before(p)) + 1 /\ place[p] \in 1..n
  <2>1. Before(p) \in SUBSET (S \ {p}) /\ IsFiniteSet(S \ {p}) /\ Cardinality(S \ {p}) = n - 1
    <3>1. Before(p) \in SUBSET (S \ {p})
      OBVIOUS
    <3> QED
      BY <3>1, FS_RemoveElement
  <2> DEFINE k == Cardinality(Before(p))
  <2>2. IsFiniteSet(Before(p)) /\ k <= n - 1
    <3> HIDE DEF Before, n
    <3> QED
      BY <2>1, FS_Subset
  <2>3. k \in Nat
    BY <2>2, FS_CardinalityType
  <2>4. place[p] = k + 1
    OBVIOUS
  <2> HIDE DEF k, n, place
  <2>5. k + 1 \in 1..n
    BY <1>1, <2>2, <2>3
  <2> QED
    BY <2>2, <2>3, <2>4, <2>5 DEF k
<1>3. ASSUME NEW p \in S, NEW q \in S, <<p, q>> \in R
      PROVE  place[p] < place[q]
  <2>1. Before(p) \in SUBSET Before(q) /\ p \in Before(q) /\ p \notin Before(p)
    BY <1>3
  <2>2. IsFiniteSet(Before(p)) /\ IsFiniteSet(Before(q))
    BY <1>2
  <2>3. Cardinality(Before(p)) <= Cardinality(Before(q)) /\ Cardinality(Before(p)) # Cardinality(Before(q))
    <3> HIDE DEF Before
    <3> QED
      BY <2>1, <2>2, FS_Subset
  <2>4. /\ Cardinality(Before(p)) \in Nat /\ Cardinality(Before(q)) \in Nat
        /\ place[p] = Cardinality(Before(p)) + 1 /\ place[q] = Cardinality(Before(q)) + 1
    BY <1>2
  <2> HIDE DEF Before, place
  <2> QED
    BY <2>3, <2>4
<1>4. place \in [S -> 1..n]
  <2>1. \A p \in S : place[p] \in 1..n
    BY <1>2
  <2>2. place = [p \in S |-> place[p]]
    OBVIOUS
  <2> HIDE DEF place
  <2> QED
    BY <2>1, <2>2
<1> HIDE DEF place, n
<1>5. \A p, q \in S : place[p] = place[q] => p = q
  <2>1. \A p \in S : place[p] \in Nat
    BY <1>4
  <2>2. \A p, q \in S : <<p, q>> \in R => place[p] < place[q]
    BY <1>3
  <2>3. \A a, b \in Nat : a < b => a # b /\ b # a
    OBVIOUS
  <2> QED
    BY <2>1, <2>2, <2>3
<1>6. place \in Injection(S, 1..n)
  BY <1>4, <1>5 DEF Injection, IsInjective
<1>7. IsFiniteSet(1..n) /\ Cardinality(1..n) = Cardinality(S)
  BY <1>1, FS_Interval DEF n
<1>8. place \in Surjection(S, 1..n)
  BY <1>6, <1>7, FS_Injection
<1>9. \A i \in 1..n : \E p \in S : place[p] = i
  BY <1>8 DEF Surjection
<1> DEFINE s == [i \in 1..n |-> CHOOSE p \in S : place[p] = i]
<1>10. \A i \in 1..n : s[i] \in S /\ place[s[i]] = i
  BY <1>9
<1>11. s \in [1..n -> S]
  BY <1>9
<1> HIDE DEF s
<1>12. \A i, j \in 1..n : i # j => s[i] # s[j]
  BY <1>10
<1>13. s \in SetToSeqs(S)
  BY <1>11, <1>12 DEF SetToSeqs, n
<1>14. ASSUME NEW i \in DOMAIN s, NEW j \in DOMAIN s, i < j
       PROVE  <<s[i], s[j]>> \in R
  <2>1. /\ i \in Nat /\ j \in Nat /\ s[i] \in S /\ s[j] \in S
        /\ place[s[i]] = i /\ place[s[j]] = j
    BY <1>10, <1>11
  <2>2. s[i] # s[j]
    BY <1>14, <2>1
  <2>3. CASE <<s[j], s[i]>> \in R
    <3>1. j < i
      BY <1>3, <2>1, <2>3
    <3> QED
      BY <1>14, <2>1, <3>1
  <2> QED
    BY <2>1, <2>2, <2>3
<1> QED
  BY <1>13, <1>14

-----------------------------------------------------------------------------
(* Ranks, and the parts of the whole                                       *)

LEMMA RankingTypes ==
    ASSUME NEW list \in Rankings
    PROVE  /\ list \in Seq(Passages) /\ IsInjective(list)
           /\ Len(list) \in 0..TopK /\ DOMAIN list = 1..Len(list)
<1>1. PICK n \in 0..TopK : list \in [1..n -> Passages]
  BY DEF Rankings
<1>2. IsInjective(list)
  BY DEF Rankings
<1>3. n \in Nat
  BY FusionAssumption
<1> QED
  BY <1>1, <1>2, <1>3

(* A passage is found at its rank, and nowhere else.                       *)
LEMMA RankOf ==
    ASSUME NEW list \in Seq(Passages), NEW p
    PROVE  /\ RankIn(list, p) \in 0..Len(list)
           /\ RankIn(list, p) = 0 <=> p \notin ToSet(list)
           /\ p \in ToSet(list) => RankIn(list, p) \in 1..Len(list) /\ list[RankIn(list, p)] = p
           /\ IsInjective(list) => \A i \in 1..Len(list) : list[i] = p => RankIn(list, p) = i
<1> DEFINE I == { i \in 1..Len(list) : list[i] = p }
<1>1. RankIn(list, p) = IF I # {} THEN Min(I) ELSE 0
  BY DEF RankIn, SelectInSeq
<1>2. Len(list) \in Nat /\ DOMAIN list = 1..Len(list)
  OBVIOUS
<1>3. p \in ToSet(list) <=> I # {}
  BY <1>2 DEF ToSet
<1>4. I \in SUBSET Nat
  BY <1>2
<1>5. I # {} => Min(I) \in I
  <2> HIDE DEF I
  <2> QED
    BY <1>4, MinIsOne
<1>6. I # {} => Min(I) \in 1..Len(list) /\ list[Min(I)] = p
  BY <1>5
<1>7. \A i \in 1..Len(list) : list[i] = p => I # {} /\ i \in I
  OBVIOUS
<1> HIDE DEF I
<1>8. IsInjective(list) => \A i \in 1..Len(list) : list[i] = p => RankIn(list, p) = i
  BY <1>1, <1>2, <1>6, <1>7 DEF IsInjective
<1>9. 0 \in 0..Len(list) /\ \A r \in 1..Len(list) : r \in 0..Len(list) /\ r # 0
  BY <1>2
<1> QED
  BY <1>1, <1>3, <1>6, <1>8, <1>9

(* The whole is a product, by the definition of the fold.                  *)
Factors == [r \in 1..TopK |-> K + r]
Multiplied(g, S) ==
    g = [s \in SUBSET S |-> IF s = {} THEN 1 ELSE Factors[Picked(s)] * g[s \ {Picked(s)}]]

LEMMA WholeByProduct == Whole = (CHOOSE g : Multiplied(g, DOMAIN Factors))[DOMAIN Factors]
BY DEF Whole, FoldFunction, FoldFunctionOnSet, MapThenFoldSet, Multiplied, Picked, Factors

Multiplies(g, s) == g[s] = IF s = {} THEN 1 ELSE Factors[Picked(s)] * g[s \ {Picked(s)}]

LEMMA FactorTypes ==
    /\ K \in Nat /\ TopK \in Nat /\ IsFiniteSet(1..TopK) /\ DOMAIN Factors = 1..TopK
    /\ \A r \in 1..TopK : Factors[r] = K + r /\ Factors[r] \in Nat \ {0}
<1>1. K \in Nat /\ TopK \in Nat
  BY FusionAssumption
<1>2. \A r \in 1..TopK : K + r \in Nat \ {0}
  BY <1>1
<1> QED
  BY <1>1, <1>2, FS_Interval DEF Factors

LEMMA PositiveProduct ==
    ASSUME NEW a \in Nat \ {0}, NEW b \in Nat \ {0}
    PROVE  a * b \in Nat \ {0}
OBVIOUS

(* The recursion of the product has a solution.                            *)
LEMMA ProductExists == \E g \in [SUBSET (1..TopK) -> Nat \ {0}] : Multiplied(g, 1..TopK)
<1> DEFINE S == 1..TopK
           Positive == Nat \ {0}
           Solves(n, g) == \A s \in SUBSET S : Cardinality(s) <= n => Multiplies(g, s)
           Bad == { n \in Nat : ~\E g \in [SUBSET S -> Positive] : Solves(n, g) }
<1>1. \A s \in SUBSET S : IsFiniteSet(s) /\ Cardinality(s) \in Nat
  BY FactorTypes, FS_Subset, FS_CardinalityType
<1>2. \A s \in SUBSET S : s # {} =>
          /\ Picked(s) \in s /\ s \ {Picked(s)} \in SUBSET S
          /\ Factors[Picked(s)] \in Positive
          /\ Cardinality(s \ {Picked(s)}) = Cardinality(s) - 1
  BY <1>1, PickedIsOne, FactorTypes, FS_RemoveElement
<1>3. Bad = {}
  <2> SUFFICES ASSUME Bad # {} PROVE FALSE
    OBVIOUS
  <2>1. Bad \in SUBSET Nat
    OBVIOUS
  <2>2. PICK n \in Bad : \A k \in Bad : n <= k
    BY <2>1, LeastOf
  <2>3. n \in Nat /\ ~\E g \in [SUBSET S -> Positive] : Solves(n, g)
    OBVIOUS
  <2>4. CASE n = 0
    <3> DEFINE g == [s \in SUBSET S |-> 1]
    <3>1. \A s \in SUBSET S : Cardinality(s) <= 0 => s = {}
      BY <1>1, FS_EmptySet
    <3>2. g \in [SUBSET S -> Positive] /\ Solves(0, g)
      BY <3>1 DEF Multiplies
    <3> QED
      BY <2>3, <2>4, <3>2
  <2>5. CASE n # 0
    <3>1. n - 1 \in Nat /\ n - 1 \notin Bad
      <4> HIDE DEF Bad
      <4> QED
        BY <2>2, <2>3, <2>5
    <3>2. PICK g \in [SUBSET S -> Positive] : Solves(n - 1, g)
      BY <3>1
    <3> DEFINE h == [s \in SUBSET S |->
                        IF s = {} THEN 1 ELSE Factors[Picked(s)] * g[s \ {Picked(s)}]]
    <3>3. h \in [SUBSET S -> Positive]
      <4>1. ASSUME NEW s \in SUBSET S, s # {}
            PROVE  Factors[Picked(s)] * g[s \ {Picked(s)}] \in Positive
        <5>1. g[s \ {Picked(s)}] \in Positive /\ Factors[Picked(s)] \in Positive
          BY <1>2, <4>1
        <5> QED
          BY <5>1, PositiveProduct
      <4>2. 1 \in Positive
        OBVIOUS
      <4> HIDE DEF Positive
      <4> QED
        BY <4>1, <4>2
    <3>4. ASSUME NEW s \in SUBSET S, Cardinality(s) <= n
          PROVE  Multiplies(h, s)
      <4>1. CASE s = {}
        BY <4>1 DEF Multiplies
      <4>2. CASE s # {}
        <5> DEFINE t == s \ {Picked(s)}
        <5>1. t \in SUBSET S /\ Cardinality(t) <= n - 1
          <6>1. t \in SUBSET S /\ Cardinality(t) = Cardinality(s) - 1
            BY <1>2, <4>2
          <6>2. Cardinality(s) \in Nat
            BY <1>1
          <6> HIDE DEF t
          <6> QED
            BY <2>3, <3>4, <6>1, <6>2
        <5>2. g[t] = h[t]
          BY <3>2, <5>1 DEF Multiplies
        <5>3. h[s] = Factors[Picked(s)] * g[t]
          BY <4>2
        <5> HIDE DEF h
        <5> QED
          BY <4>2, <5>2, <5>3 DEF Multiplies
      <4> QED
        BY <4>1, <4>2
    <3>5. Solves(n, h)
      BY <3>4
    <3> HIDE DEF Solves, h
    <3> QED
      BY <2>3, <3>3, <3>5
  <2> QED
    BY <2>4, <2>5
<1>4. IsFiniteSet(S) /\ Cardinality(S) \in Nat
  BY <1>1
<1>5. PICK g \in [SUBSET S -> Positive] : Solves(Cardinality(S), g)
  BY <1>3, <1>4
<1>6. \A s \in SUBSET S : Multiplies(g, s)
  BY <1>4, <1>5, FS_Subset
<1>7. Multiplied(g, S)
  BY <1>6 DEF Multiplies, Multiplied
<1> QED
  BY <1>7

(* Each factor divides the product.                                        *)
LEMMA FactorsDivide ==
    ASSUME NEW g, Multiplied(g, 1..TopK), g \in [SUBSET (1..TopK) -> Nat \ {0}]
    PROVE  \A s \in SUBSET (1..TopK) : \A r \in s : \E x \in Nat \ {0} : g[s] = (K + r) * x
<1> DEFINE S == 1..TopK
           Divides(a, b) == \E x \in Nat \ {0} : b = a * x
           Good == { s \in SUBSET S : \A r \in s : Divides(K + r, g[s]) }
<1>1. {} \in Good
  OBVIOUS
<1>2. ASSUME NEW s \in SUBSET S, s # {}, \A x \in s : s \ {x} \in Good
      PROVE  s \in Good
  <2> DEFINE x == Picked(s)
             rest == g[s \ {x}]
  <2>1. x \in s /\ x \in S /\ s \ {x} \in Good /\ s \ {x} \in SUBSET S
    BY <1>2, PickedIsOne
  <2>2. g[s] = (K + x) * rest
    BY <1>2, <2>1, FactorTypes DEF Multiplied
  <2>3. rest \in Nat \ {0} /\ K \in Nat /\ x \in Nat /\ K + x \in Nat \ {0}
    BY <2>1, FactorTypes
  <2>4. ASSUME NEW r \in s PROVE Divides(K + r, g[s])
    <3>1. CASE r = x
      BY <2>2, <2>3, <3>1
    <3>2. CASE r # x
      <4>1. PICK y \in Nat \ {0} : rest = (K + r) * y
        BY <2>1, <3>2
      <4>2. K + r \in Nat
        BY FactorTypes
      <4> DEFINE a == K + x
                 b == K + r
      <4>3. (K + x) * y \in Nat \ {0}
        BY <2>3, PositiveProduct
      <4>4. a \in Nat /\ b \in Nat /\ y \in Nat
        BY <2>3, <4>2
      <4> HIDE DEF a, b
      <4>5. a * (b * y) = b * (a * y)
        BY <4>4
      <4> HIDE DEF x, rest
      <4>6. g[s] = (K + r) * ((K + x) * y)
        BY <2>2, <4>1, <4>5, Zenon DEF a, b
      <4> QED
        BY <4>3, <4>6, Zenon
    <3> QED
      BY <3>1, <3>2
  <2> QED
    BY <2>4
<1>3. IsFiniteSet(S)
  BY FactorTypes
<1> HIDE DEF Good
<1>4. \A s \in SUBSET S : s \in Good
  BY <1>1, <1>2, <1>3, SubsetInduction
<1> QED
  BY <1>4 DEF Good

(* The whole can be cut into as many equal parts as any divisor of a rank. *)
LEMMA WholeDivides ==
    /\ Whole \in Nat \ {0}
    /\ \A r \in 1..TopK : \E x \in Nat \ {0} : Whole = (K + r) * x
<1> DEFINE g == CHOOSE g : Multiplied(g, 1..TopK)
<1>1. Whole = g[1..TopK]
  BY WholeByProduct, FactorTypes
<1>2. PICK h \in [SUBSET (1..TopK) -> Nat \ {0}] : Multiplied(h, 1..TopK)
  BY ProductExists
<1>3. Multiplied(g, 1..TopK)
  BY <1>2
<1> HIDE DEF g
<1>4. \A s \in SUBSET (1..TopK) : g[s] = h[s]
  <2> DEFINE Good == { s \in SUBSET (1..TopK) : g[s] = h[s] }
  <2>1. \A s \in SUBSET (1..TopK) : Multiplies(g, s) /\ Multiplies(h, s)
    BY <1>2, <1>3 DEF Multiplied, Multiplies
  <2>2. {} \in Good
    BY <2>1 DEF Multiplies
  <2>3. ASSUME NEW s \in SUBSET (1..TopK), s # {}, \A x \in s : s \ {x} \in Good
        PROVE  s \in Good
    <3>1. g[s \ {Picked(s)}] = h[s \ {Picked(s)}]
      BY <2>3, PickedIsOne
    <3> QED
      BY <2>1, <2>3, <3>1 DEF Multiplies
  <2> HIDE DEF Good
  <2>4. \A s \in SUBSET (1..TopK) : s \in Good
    BY <2>2, <2>3, FactorTypes, SubsetInduction
  <2> QED
    BY <2>4 DEF Good
<1>5. Whole = h[1..TopK]
  BY <1>1, <1>4
<1>6. h[1..TopK] \in Nat \ {0} /\ \A r \in 1..TopK : \E x \in Nat \ {0} : h[1..TopK] = (K + r) * x
  <2>1. \A s \in SUBSET (1..TopK) : \A r \in s : \E x \in Nat \ {0} : h[s] = (K + r) * x
    BY <1>2, FactorsDivide
  <2>2. 1..TopK \in SUBSET (1..TopK)
    OBVIOUS
  <2> QED
    BY <1>2, <2>1, <2>2
<1> QED
  BY <1>5, <1>6

LEMMA Quotient ==
    ASSUME NEW a \in Nat \ {0}, NEW x \in Nat
    PROVE  (a * x) \div a = x
OBVIOUS

(* Of two divisors of a number, the larger has the smaller quotient.       *)
LEMMA SmallerQuotient ==
    ASSUME NEW a \in Nat \ {0}, NEW b \in Nat \ {0}, NEW x \in Nat \ {0}, NEW y \in Nat \ {0},
           a * x = b * y, a < b
    PROVE  y < x
<1> SUFFICES ASSUME x <= y PROVE FALSE
  OBVIOUS
<1>1. PICK d \in Nat : y = x + d
  <2>1. y - x \in Nat /\ y = x + (y - x)
    OBVIOUS
  <2> QED
    BY <2>1
<1>2. PICK e \in Nat \ {0} : b = a + e
  <2>1. b - a \in Nat \ {0} /\ b = a + (b - a)
    OBVIOUS
  <2> QED
    BY <2>1
<1>3. b * y = a * x + a * d + e * y
  BY <1>1, <1>2
<1>4. a * d \in Nat /\ e * y \in Nat /\ a * x \in Nat
  BY <1>1, <1>2
<1>5. e * y # 0
  BY <1>2, PositiveProduct
<1> QED
  BY <1>3, <1>4, <1>5

(* The parts of the whole that a list gives to a passage.                  *)
LEMMA Shares ==
    ASSUME NEW list \in Rankings, NEW p
    PROVE  /\ RankIn(list, p) \in Nat /\ RankIn(list, p) <= TopK
           /\ RankIn(list, p) = 0 => Share(list, p) = 0
           /\ RankIn(list, p) # 0 =>
                  Share(list, p) \in Nat \ {0} /\ Whole = (K + RankIn(list, p)) * Share(list, p)
           /\ Share(list, p) \in Nat
<1> DEFINE r == RankIn(list, p)
<1>1. r \in Nat /\ r <= TopK
  <2>1. r \in 0..Len(list) /\ Len(list) \in 0..TopK /\ TopK \in Nat
    BY RankingTypes, RankOf, FactorTypes
  <2> HIDE DEF r
  <2> QED
    BY <2>1
<1>2. r = 0 => Share(list, p) = 0
  BY DEF Share
<1>3. ASSUME r # 0
      PROVE  Share(list, p) \in Nat \ {0} /\ Whole = (K + r) * Share(list, p)
  <2>1. Share(list, p) = Whole \div (K + r)
    BY <1>3 DEF Share
  <2> HIDE DEF r
  <2>2. r \in 1..TopK
    BY <1>1, <1>3, FactorTypes
  <2>3. PICK x \in Nat \ {0} : Whole = (K + r) * x
    BY <2>2, WholeDivides
  <2>4. K + r \in Nat \ {0}
    BY <2>2, FactorTypes
  <2>5. Share(list, p) = x
    BY <2>1, <2>3, <2>4, Quotient
  <2> QED
    BY <2>3, <2>5
<1> QED
  BY <1>1, <1>2, <1>3

(* Who is ahead has more of the whole.                                     *)
LEMMA AheadHasMore ==
    ASSUME NEW list \in Rankings, NEW p, NEW q, RanksAhead(list, p, q)
    PROVE  Share(list, p) > Share(list, q)
<1> DEFINE r == RankIn(list, p)
           t == RankIn(list, q)
           x == Share(list, p)
           y == Share(list, q)
<1>1. r > 0 /\ (t = 0 \/ r < t)
  BY DEF RanksAhead
<1>2. r \in Nat /\ t \in Nat /\ x \in Nat /\ y \in Nat
  BY Shares
<1>3. r # 0 => x \in Nat \ {0} /\ Whole = (K + r) * x
  BY Shares
<1>4. t = 0 => y = 0
  BY Shares
<1>5. t # 0 => y \in Nat \ {0} /\ Whole = (K + t) * y
  BY Shares
<1> HIDE DEF r, t, x, y
<1>6. ASSUME t = 0 PROVE x > y
  BY <1>1, <1>2, <1>3, <1>4, <1>6
<1>7. ASSUME t # 0 PROVE x > y
  <2>1. K + r \in Nat \ {0} /\ K + t \in Nat \ {0} /\ K + r < K + t
    BY <1>1, <1>2, <1>7, FactorTypes
  <2>2. y < x
    BY <1>1, <1>2, <1>3, <1>5, <1>7, <2>1, SmallerQuotient
  <2> QED
    BY <1>2, <2>2
<1> QED
  BY <1>6, <1>7 DEF x, y

(* With a K that is large for the lists, two shares are more than one.     *)
LEMMA TwoAreMore ==
    ASSUME NEW a \in Nat \ {0}, NEW b \in Nat \ {0}, NEW c \in Nat \ {0},
           NEW x \in Nat \ {0}, NEW y \in Nat \ {0}, NEW z \in Nat \ {0},
           a * x = c * z, b * y = c * z, a < 2 * c, b < 2 * c
    PROVE  x + y > z
<1> SUFFICES ASSUME x + y <= z PROVE FALSE
  OBVIOUS
<1>1. z < 2 * x /\ z < 2 * y
  <2>1. a < 2 * c /\ 2 * c \in Nat \ {0} /\ a * (2 * x) = (2 * c) * z
    <3>1. a * (2 * x) = 2 * (a * x) /\ (2 * c) * z = 2 * (c * z)
      OBVIOUS
    <3> QED
      BY <3>1
  <2>2. z < 2 * x
    <3>1. 2 * x \in Nat \ {0}
      OBVIOUS
    <3> QED
      BY <2>1, <3>1, SmallerQuotient
  <2>3. b < 2 * c /\ b * (2 * y) = (2 * c) * z
    <3>1. b * (2 * y) = 2 * (b * y) /\ (2 * c) * z = 2 * (c * z)
      OBVIOUS
    <3> QED
      BY <3>1
  <2>4. z < 2 * y
    <3>1. 2 * y \in Nat \ {0}
      OBVIOUS
    <3> QED
      BY <2>1, <2>3, <3>1, SmallerQuotient
  <2> QED
    BY <2>2, <2>4
<1> QED
  BY <1>1

-----------------------------------------------------------------------------
(* The order in which passages are ranked                                  *)

BothReported == sparse \in Rankings /\ dense \in Rankings

LEMMA FoundOnce ==
    ASSUME BothReported
    PROVE  /\ IsFiniteSet(Found) /\ Found \subseteq Passages
           /\ \A p : RankIn(sparse, p) \in Nat /\ RankIn(dense, p) \in Nat /\ Score(p) \in Nat
           /\ \A p \in Found : RankIn(sparse, p) > 0 \/ RankIn(dense, p) > 0
           /\ \A p : RankIn(sparse, p) > 0 \/ RankIn(dense, p) > 0 => p \in Found
           /\ \A p, q : RankIn(sparse, p) > 0 /\ RankIn(sparse, p) = RankIn(sparse, q) => p = q
           /\ \A p, q : RankIn(dense, p) > 0 /\ RankIn(dense, p) = RankIn(dense, q) => p = q
<1>1. /\ sparse \in Seq(Passages) /\ IsInjective(sparse)
      /\ dense \in Seq(Passages) /\ IsInjective(dense)
  BY RankingTypes DEF BothReported
<1>2. IsFiniteSet(ToSet(sparse)) /\ IsFiniteSet(ToSet(dense))
  BY <1>1, MembersOf
<1>3. IsFiniteSet(Found)
  BY <1>2, FS_Union DEF Found
<1>4. ToSet(sparse) \subseteq Passages /\ ToSet(dense) \subseteq Passages
  BY <1>1 DEF ToSet
<1>5. \A p : /\ RankIn(sparse, p) \in Nat /\ RankIn(dense, p) \in Nat
             /\ Share(sparse, p) \in Nat /\ Share(dense, p) \in Nat
  BY Shares DEF BothReported
<1>6. \A p : Score(p) \in Nat
  BY <1>5 DEF Score
<1>7. \A p : /\ RankIn(sparse, p) = 0 <=> p \notin ToSet(sparse)
             /\ RankIn(dense, p) = 0 <=> p \notin ToSet(dense)
             /\ p \in ToSet(sparse) => sparse[RankIn(sparse, p)] = p
             /\ p \in ToSet(dense) => dense[RankIn(dense, p)] = p
  BY <1>1, RankOf
<1>8. \A p, q : RankIn(sparse, p) > 0 /\ RankIn(sparse, p) = RankIn(sparse, q) => p = q
  <2> SUFFICES ASSUME NEW p, NEW q, RankIn(sparse, p) > 0, RankIn(sparse, p) = RankIn(sparse, q)
               PROVE  p = q
    OBVIOUS
  <2>1. RankIn(sparse, p) # 0
    BY <1>5
  <2> QED
    BY <1>7, <2>1
<1>9. \A p, q : RankIn(dense, p) > 0 /\ RankIn(dense, p) = RankIn(dense, q) => p = q
  <2> SUFFICES ASSUME NEW p, NEW q, RankIn(dense, p) > 0, RankIn(dense, p) = RankIn(dense, q)
               PROVE  p = q
    OBVIOUS
  <2>1. RankIn(dense, p) # 0
    BY <1>5
  <2> QED
    BY <1>7, <2>1
<1>10. \A p : (RankIn(sparse, p) > 0 <=> p \in ToSet(sparse)) /\ (RankIn(dense, p) > 0 <=> p \in ToSet(dense))
  BY <1>5, <1>7
<1> QED
  BY <1>3, <1>4, <1>5, <1>6, <1>8, <1>9, <1>10 DEF Found

(* Precedes is a total order of the passages found.                        *)
LEMMA PrecedesIsAnOrder ==
    ASSUME BothReported
    PROVE  /\ \A p \in Found : ~Precedes(p, p)
           /\ \A p, q, r \in Found : Precedes(p, q) /\ Precedes(q, r) => Precedes(p, r)
           /\ \A p, q \in Found : p = q \/ Precedes(p, q) \/ Precedes(q, p)
<1>1. ASSUME NEW p \in Found PROVE ~Precedes(p, p)
  <2> DEFINE a == RankIn(sparse, p)
             b == RankIn(dense, p)
             c == Score(p)
  <2>1. a \in Nat /\ b \in Nat /\ c \in Nat
    BY FoundOnce
  <2> HIDE DEF a, b, c
  <2>2. ~(c > c) /\ ~(a > 0 /\ (a = 0 \/ a < a)) /\ ~(b > 0 /\ (b = 0 \/ b < b))
    BY <2>1
  <2> QED
    BY <2>2 DEF Precedes, InsertedBefore, RanksAhead, a, b, c
<1>2. ASSUME NEW p \in Found, NEW q \in Found, NEW r \in Found, Precedes(p, q), Precedes(q, r)
      PROVE  Precedes(p, r)
  <2> DEFINE a(x) == RankIn(sparse, x)
             b(x) == RankIn(dense, x)
             c(x) == Score(x)
             Earlier(x, y) == \/ a(x) > 0 /\ (a(y) = 0 \/ a(x) < a(y))
                              \/ a(y) = 0 /\ b(x) > 0 /\ (b(y) = 0 \/ b(x) < b(y))
  <2>1. \A x : a(x) \in Nat /\ b(x) \in Nat /\ c(x) \in Nat
    BY FoundOnce
  <2>2. \A x, y : Precedes(x, y) <=> c(x) > c(y) \/ (c(x) = c(y) /\ Earlier(x, y))
    BY DEF Precedes, InsertedBefore, RanksAhead
  <2>3. Earlier(p, q) /\ Earlier(q, r) => Earlier(p, r)
    <3>1. a(p) \in Nat /\ a(q) \in Nat /\ a(r) \in Nat /\ b(p) \in Nat /\ b(q) \in Nat /\ b(r) \in Nat
      BY <2>1
    <3> HIDE DEF a, b
    <3> QED
      BY <3>1
  <2>4. /\ c(p) > c(q) \/ (c(p) = c(q) /\ Earlier(p, q))
        /\ c(q) > c(r) \/ (c(q) = c(r) /\ Earlier(q, r))
    BY <1>2, <2>2
  <2>5. c(p) \in Nat /\ c(q) \in Nat /\ c(r) \in Nat
    BY <2>1
  <2>6. c(p) > c(r) \/ (c(p) = c(r) /\ Earlier(p, r))
    <3> HIDE DEF c, Earlier
    <3> QED
      BY <2>3, <2>4, <2>5
  <2> QED
    BY <2>2, <2>6
<1>3. ASSUME NEW p \in Found, NEW q \in Found, p # q
      PROVE  Precedes(p, q) \/ Precedes(q, p)
  <2> DEFINE a(x) == RankIn(sparse, x)
             b(x) == RankIn(dense, x)
             c(x) == Score(x)
             Earlier(x, y) == \/ a(x) > 0 /\ (a(y) = 0 \/ a(x) < a(y))
                              \/ a(y) = 0 /\ b(x) > 0 /\ (b(y) = 0 \/ b(x) < b(y))
  <2>1. a(p) \in Nat /\ b(p) \in Nat /\ c(p) \in Nat /\ a(q) \in Nat /\ b(q) \in Nat /\ c(q) \in Nat
    BY FoundOnce
  <2>2. \A x, y : Precedes(x, y) <=> c(x) > c(y) \/ (c(x) = c(y) /\ Earlier(x, y))
    BY DEF Precedes, InsertedBefore, RanksAhead
  <2>3. /\ a(p) > 0 \/ b(p) > 0
        /\ a(q) > 0 \/ b(q) > 0
        /\ ~(a(p) > 0 /\ a(p) = a(q))
        /\ ~(b(p) > 0 /\ b(p) = b(q))
    BY <1>3, FoundOnce
  <2>4. Earlier(p, q) \/ Earlier(q, p)
    <3> HIDE DEF a, b
    <3> QED
      BY <2>1, <2>3
  <2>5. c(p) > c(q) \/ c(q) > c(p) \/ c(p) = c(q)
    <3> HIDE DEF c
    <3> QED
      BY <2>1
  <2> HIDE DEF c, Earlier
  <2> QED
    BY <2>2, <2>4, <2>5
<1> QED
  BY <1>1, <1>2, <1>3

(* The ranking lists what was found, each once, along that order.          *)
LEMMA RankingIsSorted ==
    ASSUME BothReported
    PROVE  /\ Ranking \in Seq(Passages) /\ IsInjective(Ranking) /\ ToSet(Ranking) = Found
           /\ \A i, j \in DOMAIN Ranking : i < j => Precedes(Ranking[i], Ranking[j])
<1> DEFINE R == { e \in Found \X Found : Precedes(e[1], e[2]) }
<1>1. IsFiniteSet(Found) /\ Found \subseteq Passages
  BY FoundOnce
<1>2. \A p, q \in Found : <<p, q>> \in R <=> Precedes(p, q)
  OBVIOUS
<1> HIDE DEF R
<1>3. \E s \in SetToSeqs(Found) : \A i, j \in DOMAIN s : i < j => <<s[i], s[j]>> \in R
  <2>1. \A p \in Found : <<p, p>> \notin R
    BY <1>2, PrecedesIsAnOrder
  <2>2. \A p, q, r \in Found : <<p, q>> \in R /\ <<q, r>> \in R => <<p, r>> \in R
    BY <1>2, PrecedesIsAnOrder
  <2>3. \A p, q \in Found : p = q \/ <<p, q>> \in R \/ <<q, p>> \in R
    BY <1>2, PrecedesIsAnOrder
  <2> QED
    BY <1>1, <2>1, <2>2, <2>3, Sortable
<1>4. PICK s \in SetToSeqs(Found) : \A i, j \in DOMAIN s : i < j => <<s[i], s[j]>> \in R
  BY <1>3
<1>5. s \in Seq(Found) /\ \A i \in DOMAIN s : s[i] \in Found
  BY <1>1, Arrangements
<1>6. \A i, j \in DOMAIN s : i < j => Precedes(s[i], s[j])
  BY <1>2, <1>4, <1>5
<1>7. /\ Ranking \in SetToSeqs(Found)
      /\ \A i, j \in DOMAIN Ranking : i < j => Precedes(Ranking[i], Ranking[j])
  BY <1>6, Zenon DEF Ranking
<1>8. Ranking \in Seq(Found) /\ IsInjective(Ranking) /\ ToSet(Ranking) = Found
  BY <1>1, <1>7, Arrangements
<1>9. Ranking \in Seq(Passages)
  BY <1>1, <1>8
<1> QED
  BY <1>7, <1>8, <1>9

LEMMA ScoreIsSum == \A p : Score(p) = Share(sparse, p) + Share(dense, p)
BY DEF Score

(* A passage that no arm has behind another, and one has ahead             *)
LEMMA AheadPrecedes ==
    ASSUME BothReported, NEW p, NEW q,
           NotBehind(sparse, p, q), NotBehind(dense, p, q),
           RanksAhead(sparse, p, q) \/ RanksAhead(dense, p, q)
    PROVE  p \in Found /\ Score(p) > Score(q)
<1>1. ASSUME NEW list \in Rankings
      PROVE  /\ Share(list, p) \in Nat /\ Share(list, q) \in Nat
             /\ RanksAhead(list, p, q) => Share(list, p) > Share(list, q)
             /\ NotBehind(list, p, q) => Share(list, p) >= Share(list, q)
  <2>1. Share(list, p) \in Nat /\ Share(list, q) \in Nat /\ (RankIn(list, q) = 0 => Share(list, q) = 0)
    BY Shares
  <2>2. RanksAhead(list, p, q) => Share(list, p) > Share(list, q)
    BY AheadHasMore
  <2>3. RankIn(list, q) = 0 => Share(list, p) >= Share(list, q)
    BY <2>1
  <2>4. RanksAhead(list, p, q) => Share(list, p) >= Share(list, q)
    BY <2>1, <2>2
  <2> QED
    BY <2>1, <2>2, <2>3, <2>4 DEF NotBehind
<1>2. /\ Share(sparse, p) \in Nat /\ Share(sparse, q) \in Nat
      /\ Share(dense, p) \in Nat /\ Share(dense, q) \in Nat
      /\ Share(sparse, p) >= Share(sparse, q) /\ Share(dense, p) >= Share(dense, q)
      /\ Share(sparse, p) > Share(sparse, q) \/ Share(dense, p) > Share(dense, q)
  BY <1>1 DEF BothReported
<1>3. Score(p) > Score(q)
  BY <1>2, ScoreIsSum
<1>4. p \in Found
  BY FoundOnce DEF RanksAhead
<1> QED
  BY <1>3, <1>4

(* What both arms have found, with a K that is large for the lists         *)
LEMMA KnownPrecedes ==
    ASSUME BothReported, K > TopK - 2, NEW p \in Known, NEW q \in Found, q \notin Known
    PROVE  p \in Found /\ Score(p) > Score(q)
<1> DEFINE a == RankIn(sparse, p)
           b == RankIn(dense, p)
           x == Share(sparse, p)
           y == Share(dense, p)
<1>1. /\ \A v \in ToSet(sparse) : RankIn(sparse, v) # 0
      /\ \A v \in ToSet(dense) : RankIn(dense, v) # 0
      /\ \A v : v \notin ToSet(sparse) => RankIn(sparse, v) = 0
      /\ \A v : v \notin ToSet(dense) => RankIn(dense, v) = 0
  <2>1. sparse \in Seq(Passages) /\ dense \in Seq(Passages)
    BY RankingTypes DEF BothReported
  <2> QED
    BY <2>1, RankOf
<1>2. a # 0 /\ b # 0
  BY <1>1 DEF Known
<1>3. /\ a \in Nat /\ a <= TopK /\ x \in Nat \ {0} /\ Whole = (K + a) * x
      /\ b \in Nat /\ b <= TopK /\ y \in Nat \ {0} /\ Whole = (K + b) * y
  BY <1>2, Shares DEF BothReported
<1>4. PICK list \in {sparse, dense} : RankIn(list, q) # 0 /\ Score(q) = Share(list, q)
  <2>1. Share(sparse, q) \in Nat /\ Share(dense, q) \in Nat
    BY Shares DEF BothReported
  <2>2. CASE q \in ToSet(sparse)
    <3>1. RankIn(dense, q) = 0 /\ RankIn(sparse, q) # 0
      BY <1>1, <2>2 DEF Known
    <3>2. Share(dense, q) = 0
      BY <3>1, Shares DEF BothReported
    <3>3. Score(q) = Share(sparse, q)
      BY <2>1, <3>2, ScoreIsSum
    <3> QED
      BY <3>1, <3>3
  <2>3. CASE q \notin ToSet(sparse)
    <3>1. RankIn(sparse, q) = 0 /\ RankIn(dense, q) # 0
      BY <1>1, <2>3 DEF Found
    <3>2. Share(sparse, q) = 0
      BY <3>1, Shares DEF BothReported
    <3>3. Score(q) = Share(dense, q)
      BY <2>1, <3>2, ScoreIsSum
    <3> QED
      BY <3>1, <3>3
  <2> QED
    BY <2>2, <2>3
<1> DEFINE c == RankIn(list, q)
           z == Share(list, q)
<1>5. c \in Nat /\ c # 0 /\ z \in Nat \ {0} /\ Whole = (K + c) * z
  <2>1. list \in Rankings
    BY DEF BothReported
  <2> QED
    BY <1>4, <2>1, Shares
<1>6. Score(p) = x + y /\ Score(q) = z
  BY <1>4, ScoreIsSum
<1> HIDE DEF a, b, c, x, y, z
<1>7. K \in Nat /\ TopK \in Nat
  BY FactorTypes
<1>8. /\ K + a \in Nat \ {0} /\ K + b \in Nat \ {0} /\ K + c \in Nat \ {0}
      /\ K + a < 2 * (K + c) /\ K + b < 2 * (K + c)
  BY <1>2, <1>3, <1>5, <1>7
<1>9. (K + a) * x = (K + c) * z /\ (K + b) * y = (K + c) * z
  BY <1>3, <1>5
<1>10. x + y > z
  BY <1>3, <1>5, <1>8, <1>9, TwoAreMore
<1> QED
  BY <1>6, <1>10 DEF Known, Found

(* Who precedes one of the head of the ranking is ahead of it there.       *)
LEMMA PrecedesIsAhead ==
    ASSUME BothReported, NEW n \in Nat, fused = First(Ranking, n),
           NEW p \in Found, NEW q \in ToSet(fused), Precedes(p, q)
    PROVE  IsAhead(p, q)
<1>1. /\ Ranking \in Seq(Passages) /\ IsInjective(Ranking) /\ ToSet(Ranking) = Found
      /\ \A i, j \in DOMAIN Ranking : i < j => Precedes(Ranking[i], Ranking[j])
  BY RankingIsSorted
<1>2. /\ fused \in Seq(Passages) /\ IsInjective(fused)
      /\ Len(fused) = IF n < Len(Ranking) THEN n ELSE Len(Ranking)
      /\ DOMAIN fused \subseteq DOMAIN Ranking
      /\ \A i \in DOMAIN fused : fused[i] = Ranking[i]
  BY <1>1, HeadOf
<1>3. PICK j \in DOMAIN fused : fused[j] = q
  BY DEF ToSet
<1>4. PICK i \in DOMAIN Ranking : Ranking[i] = p
  BY <1>1 DEF ToSet
<1>5. j \in DOMAIN Ranking /\ Ranking[j] = q /\ q \in Found
  BY <1>1, <1>2, <1>3 DEF ToSet
<1>6. /\ Len(Ranking) \in Nat /\ DOMAIN Ranking = 1..Len(Ranking) /\ Len(fused) \in Nat
      /\ DOMAIN fused = 1..Len(fused)
  BY <1>1, <1>2
<1>7. i < j
  <2>1. ~(j < i)
    <3>1. ASSUME j < i PROVE Precedes(q, p)
      BY <1>1, <1>4, <1>5, <3>1
    <3>2. ~Precedes(q, p)
      BY <1>5, PrecedesIsAnOrder
    <3> QED
      BY <3>1, <3>2
  <2>2. i # j
    BY <1>4, <1>5, PrecedesIsAnOrder
  <2> QED
    BY <1>4, <1>5, <1>6, <2>1, <2>2
<1>8. i \in 1..Len(fused) /\ fused[i] = p
  <2>1. i \in 1..Len(fused)
    BY <1>3, <1>4, <1>6, <1>7
  <2> QED
    BY <1>2, <1>4, <1>6, <2>1
<1>9. RankIn(fused, p) = i /\ RankIn(fused, q) = j
  BY <1>2, <1>3, <1>6, <1>8, RankOf
<1>10. p \in ToSet(fused)
  BY <1>6, <1>8 DEF ToSet
<1> QED
  BY <1>7, <1>9, <1>10 DEF IsAhead

LEMMA AgreesOnHeads ==
    ASSUME BothReported, NEW n \in Nat, fused = First(Ranking, n)
    PROVE  FusionAgrees
<1> SUFFICES ASSUME NEW p \in Passages, NEW q \in ToSet(fused),
                    \/ /\ NotBehind(sparse, p, q) /\ NotBehind(dense, p, q)
                       /\ RanksAhead(sparse, p, q) \/ RanksAhead(dense, p, q)
                    \/ K > TopK - 2 /\ p \in Known /\ q \notin Known
             PROVE  IsAhead(p, q)
  BY DEF FusionAgrees
<1>1. q \in Found
  BY RankingIsSorted, HeadOf
<1>2. p \in Found /\ Score(p) > Score(q)
  BY <1>1, AheadPrecedes, KnownPrecedes
<1>3. Precedes(p, q)
  BY <1>2 DEF Precedes
<1> QED
  BY <1>2, <1>3, PrecedesIsAhead

-----------------------------------------------------------------------------
(* One search                                                              *)

TopIsGrounded ==
    /\ top \in Seq(Passages) /\ IsInjective(top) /\ ToSet(top) \subseteq ToSet(fused)
    /\ endpoint # "search" => Len(top) = IF FinalCount < Len(fused) THEN FinalCount ELSE Len(fused)

(* The inductive invariant: what is fused is a head of the ranking, and of *)
(* the first candidates while they wait to be ordered again.               *)
FusionInvariant ==
    /\ sparse \in Rankings \cup {Awaited} /\ dense \in Rankings \cup {Awaited}
    /\ stage = "retrieve" => support = {}
    /\ stage # "retrieve" => BothReported /\ \E n \in Nat : fused = First(Ranking, n)
    /\ stage = "rerank" => fused = First(Ranking, CandidateCount)
    /\ stage \in {"package", "done"} => TopIsGrounded
    /\ stage = "done" => \A r \in support : r.source \subseteq ToSet(top)

LEMMA RankingStays ==
    ASSUME UNCHANGED <<sparse, dense>>
    PROVE  Ranking' = Ranking /\ (BothReported' <=> BothReported)
<1>1. \A p : RankIn(sparse, p)' = RankIn(sparse, p) /\ RankIn(dense, p)' = RankIn(dense, p)
  BY DEF RankIn, SelectInSeq
<1>2. \A p : Score(p)' = Score(p)
  BY <1>1 DEF Score, Share
<1>3. \A p, q : Precedes(p, q)' <=> Precedes(p, q)
  BY <1>1, <1>2 DEF Precedes, InsertedBefore, RanksAhead
<1>4. Found' = Found
  BY DEF Found, ToSet
<1>5. Ranking' = Ranking
  BY <1>3, <1>4 DEF Ranking
<1> QED
  BY <1>5 DEF BothReported

LEMMA WholeIsHead ==
    ASSUME NEW S, NEW s \in Seq(S)
    PROVE  First(s, Len(s)) = s
BY DEF First

LEMMA InitFuses == FusionInit => FusionInvariant
<1> SUFFICES ASSUME FusionInit PROVE FusionInvariant
  OBVIOUS
<1>1. sparse = Awaited /\ dense = Awaited /\ stage = "retrieve" /\ support = {}
  BY DEF FusionInit
<1> QED
  BY <1>1 DEF FusionInvariant

LEMMA AwaitedIsNoRanking == Awaited \notin Rankings
BY FusionAssumption, RankingTypes

(* An arm reports before the two are fused.                                *)
LEMMA ReportFuses ==
    ASSUME FusionInvariant, SparseReports \/ DenseReports
    PROVE  FusionInvariant'
<1>1. stage = "retrieve" /\ stage' = "retrieve" /\ support' = support
  BY AwaitedIsNoRanking DEF FusionInvariant, BothReported, SparseReports, DenseReports
<1>2. sparse' \in Rankings \cup {Awaited} /\ dense' \in Rankings \cup {Awaited}
  BY DEF FusionInvariant, SparseReports, DenseReports
<1> QED
  BY <1>1, <1>2 DEF FusionInvariant

LEMMA FuseFuses ==
    ASSUME FusionInvariant, Fuse
    PROVE  FusionInvariant'
<1>1. /\ stage = "retrieve" /\ support = {} /\ support' = support /\ BothReported
      /\ UNCHANGED <<sparse, dense, endpoint>>
  BY DEF FusionInvariant, Fuse, BothReported
<1>2. Ranking' = Ranking /\ BothReported'
  BY <1>1, RankingStays
<1>3. Ranking \in Seq(Passages) /\ IsInjective(Ranking)
  BY <1>1, RankingIsSorted
<1>4. sparse' \in Rankings \cup {Awaited} /\ dense' \in Rankings \cup {Awaited}
  BY <1>1 DEF FusionInvariant
<1>5. CASE endpoint = "search"
  <2>1. fused' = Ranking /\ top' = Ranking /\ stage' = "done"
    BY <1>5 DEF Fuse
  <2>2. Len(Ranking) \in Nat /\ fused' = First(Ranking', Len(Ranking))
    BY <1>2, <1>3, <2>1, WholeIsHead
  <2>3. TopIsGrounded'
    <3>1. endpoint' = "search"
      BY <1>1, <1>5
    <3> QED
      BY <1>3, <2>1, <3>1 DEF TopIsGrounded
  <2>4. \E n \in Nat : fused' = First(Ranking', n)
    BY <2>2
  <2> QED
    BY <1>1, <1>2, <1>4, <2>1, <2>3, <2>4 DEF FusionInvariant
<1>6. CASE endpoint # "search"
  <2>1. fused' = First(Ranking', CandidateCount) /\ stage' = "rerank" /\ CandidateCount \in Nat
    BY <1>2, <1>6, FusionAssumption DEF Fuse
  <2>2. \E n \in Nat : fused' = First(Ranking', n)
    BY <2>1
  <2> QED
    BY <1>1, <1>2, <1>4, <2>1, <2>2 DEF FusionInvariant
<1> QED
  BY <1>5, <1>6

(* What does not touch the ranking leaves what was fused.                  *)
LEMMA FusedStays ==
    ASSUME FusionInvariant, stage # "retrieve", UNCHANGED <<sparse, dense, fused>>
    PROVE  /\ sparse' \in Rankings \cup {Awaited} /\ dense' \in Rankings \cup {Awaited}
           /\ BothReported' /\ \E n \in Nat : fused' = First(Ranking', n)
<1>1. Ranking' = Ranking /\ BothReported'
  BY RankingStays DEF FusionInvariant
<1>2. PICK n \in Nat : fused = First(Ranking, n)
  BY DEF FusionInvariant
<1>3. fused' = First(Ranking', n)
  BY <1>1, <1>2
<1> QED
  BY <1>1, <1>3 DEF FusionInvariant

LEMMA RerankFuses ==
    ASSUME FusionInvariant, Rerank
    PROVE  FusionInvariant'
<1>1. /\ stage = "rerank" /\ stage' = "package" /\ UNCHANGED <<sparse, dense, fused, endpoint, support>>
      /\ fused = First(Ranking, CandidateCount) /\ BothReported
  BY DEF FusionInvariant, Rerank
<1>2. CandidateCount \in Nat /\ FinalCount \in Nat
  BY FusionAssumption
<1>3. /\ fused \in Seq(Passages) /\ IsInjective(fused) /\ Len(fused) \in Nat
      /\ Len(fused) <= CandidateCount
  <2>1. Ranking \in Seq(Passages) /\ IsInjective(Ranking)
    BY <1>1, RankingIsSorted
  <2>2. /\ fused \in Seq(Passages) /\ IsInjective(fused)
        /\ Len(fused) = IF CandidateCount < Len(Ranking) THEN CandidateCount ELSE Len(Ranking)
    BY <1>1, <1>2, <2>1, HeadOf
  <2>3. Len(Ranking) \in Nat /\ Len(fused) \in Nat
    BY <2>1, <2>2
  <2> QED
    BY <1>2, <2>2, <2>3
<1> DEFINE pool == First(fused, CandidateCount)
<1>4. /\ pool \in Seq(Passages) /\ IsInjective(pool) /\ Len(pool) = Len(fused)
      /\ ToSet(pool) \subseteq ToSet(fused)
  <2>1. Len(pool) = IF CandidateCount < Len(fused) THEN CandidateCount ELSE Len(fused)
    BY <1>2, <1>3, HeadOf
  <2> QED
    BY <1>2, <1>3, <2>1, HeadOf
<1>5. \E order \in SetToSeqs(ToSet(pool)) \cup {fused} : top' = First(order, FinalCount)
  BY DEF Rerank
<1> HIDE DEF pool
<1>6. PICK order \in SetToSeqs(ToSet(pool)) \cup {fused} : top' = First(order, FinalCount)
  BY <1>5
<1>7. /\ order \in Seq(Passages) /\ IsInjective(order) /\ Len(order) = Len(fused)
      /\ ToSet(order) \subseteq ToSet(fused)
  <2>1. CASE order = fused
    BY <1>3, <2>1
  <2>2. CASE order \in SetToSeqs(ToSet(pool))
    <3>1. IsFiniteSet(ToSet(pool)) /\ Cardinality(ToSet(pool)) = Len(pool)
      BY <1>4, MembersOf
    <3>2. /\ order \in Seq(ToSet(pool)) /\ IsInjective(order)
          /\ Len(order) = Len(pool) /\ ToSet(order) = ToSet(pool)
      BY <2>2, <3>1, Arrangements
    <3>3. ToSet(pool) \subseteq Passages
      BY <1>4 DEF ToSet
    <3> QED
      BY <1>4, <3>2, <3>3
  <2> QED
    BY <2>1, <2>2
<1>8. TopIsGrounded'
  <2>1. /\ top' \in Seq(Passages) /\ IsInjective(top') /\ ToSet(top') \subseteq ToSet(order)
        /\ Len(top') = IF FinalCount < Len(order) THEN FinalCount ELSE Len(order)
    BY <1>2, <1>6, <1>7, HeadOf
  <2> QED
    BY <1>1, <1>7, <2>1 DEF TopIsGrounded
<1> QED
  BY <1>1, <1>8, FusedStays DEF FusionInvariant

LEMMA SourceIsOnTop ==
    ASSUME top \in Seq(Passages), NEW id, NEW texts
    PROVE  SourceOf(id, texts) \subseteq ToSet(top)
<1> DEFINE holds == { i \in DOMAIN top : Mentions(texts[top[i]], id) }
           i == CHOOSE i \in holds : \A j \in holds : i <= j
<1>1. SourceOf(id, texts) = IF holds = {} THEN {} ELSE {top[i]}
  BY DEF SourceOf
<1>2. holds \in SUBSET Nat /\ holds \subseteq DOMAIN top
  OBVIOUS
<1> HIDE DEF holds
<1>3. holds # {} => i \in holds
  BY <1>2, LeastOf
<1> HIDE DEF i
<1> QED
  BY <1>1, <1>2, <1>3 DEF ToSet

LEMMA BuildFuses ==
    ASSUME FusionInvariant, Build
    PROVE  FusionInvariant'
<1>1. /\ stage = "package" /\ stage' = "done" /\ UNCHANGED <<endpoint, sparse, dense, fused, top>>
      /\ TopIsGrounded
  BY DEF FusionInvariant, Build
<1>2. PICK asked \in SUBSET Codes, texts \in [ToSet(top) -> SUBSET Codes] :
          support' = Requirements(asked, texts)
  BY DEF Build
<1>3. \A r \in support' : r.source \subseteq ToSet(top)
  <2>1. \A id : SourceOf(id, texts) \subseteq ToSet(top)
    BY <1>1, SourceIsOnTop DEF TopIsGrounded
  <2> QED
    BY <1>2, <2>1 DEF Requirements
<1>4. TopIsGrounded'
  BY <1>1 DEF TopIsGrounded
<1>5. \A r \in support' : r.source \subseteq ToSet(top')
  BY <1>1, <1>3
<1> QED
  BY <1>1, <1>4, <1>5, FusedStays DEF FusionInvariant

LEMMA RefuseFuses ==
    ASSUME FusionInvariant, RerankRefuses
    PROVE  FusionInvariant'
<1>1. stage = "rerank" /\ stage' = "refused" /\ UNCHANGED <<sparse, dense, fused>>
  BY DEF RerankRefuses
<1> QED
  BY <1>1, FusedStays DEF FusionInvariant

LEMMA StutterFuses ==
    ASSUME FusionInvariant, UNCHANGED fusionVars
    PROVE  FusionInvariant'
<1>1. /\ UNCHANGED <<endpoint, sparse, dense, fused, top, support, stage>>
      /\ TopIsGrounded' <=> TopIsGrounded
  BY DEF fusionVars, TopIsGrounded
<1>2. Ranking' = Ranking /\ (BothReported' <=> BothReported)
  BY <1>1, RankingStays
<1>3. (\E n \in Nat : fused' = First(Ranking', n)) <=> (\E n \in Nat : fused = First(Ranking, n))
  BY <1>1, <1>2
<1>4. (\A r \in support' : r.source \subseteq ToSet(top')) <=> (\A r \in support : r.source \subseteq ToSet(top))
  BY <1>1
<1> QED
  BY <1>1, <1>2, <1>3, <1>4 DEF FusionInvariant

LEMMA FusionInvariantHolds == FusionSpec => []FusionInvariant
<1>1. FusionInvariant /\ [FusionNext]_fusionVars => FusionInvariant'
  BY ReportFuses, FuseFuses, RerankFuses, RefuseFuses, BuildFuses, StutterFuses DEF FusionNext
<1> QED
  BY <1>1, InitFuses, PTL DEF FusionSpec

(* For any number of passages, limits and K: who is behind another in      *)
(* neither arm and ahead in one is ahead in the fused ranking, and so is   *)
(* what both arms have found, if K is large for the lists.                 *)
THEOREM FusionAlwaysAgrees == FusionSpec => []FusionAgrees
<1>1. FusionInvariant => FusionAgrees
  <2>1. stage = "retrieve" => FusionAgrees
    BY DEF FusionAgrees
  <2> QED
    BY <2>1, AgreesOnHeads DEF FusionInvariant
<1> QED
  BY <1>1, FusionInvariantHolds, PTL

(* A package has no passage twice and none that was not retrieved, as many *)
(* as its limit allows, and names only its own passages as sources.        *)
THEOREM PackagesAreGrounded == FusionSpec => []PackageIsGrounded
<1>1. FusionInvariant => PackageIsGrounded
  BY DEF FusionInvariant, TopIsGrounded, PackageIsGrounded
<1> QED
  BY <1>1, FusionInvariantHolds, PTL
=============================================================================
