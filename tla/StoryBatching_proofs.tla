------------------------- MODULE StoryBatching_proofs -------------------------
(***************************************************************************)
(* Proofs about StoryBatching, for any packs, limits, costs and budgets:   *)
(* batches partition the packs that are left through any number of         *)
(* halvings, a run asks a provider less than twice for every pack, what is *)
(* sent keeps to the limits, and no source is lost but to another that the *)
(* model answered twice.                                                   *)
(*                                                                         *)
(* What packs weigh is a sum by a fold over a set.  Its recursion is shown *)
(* to have a solution, and the only one, by a least counterexample.        *)
(***************************************************************************)
EXTENDS StoryBatching, FiniteSetTheorems, WellFoundedInduction, TLAPS

Stretch == [first : Nat, last : Nat]

(* The inductive invariant: a request is paid for by the packs that it     *)
(* leaves behind or by the batch that it splits.                           *)
Counted ==
    /\ built \in Nat /\ asks \in Nat
    /\ todo \in Seq(Stretch)
    /\ BatchesPartition
    /\ built = 0 => asks = 0 /\ todo = << >>
    /\ AsksBounded

(* The empty list has no member.                                          *)
LEMMA EmptyHasNoLength == Len(<< >>) = 0
OBVIOUS

(* Half the size of a batch, and at least one.                             *)
LEMMA MaxOfTwo ==
    ASSUME NEW m \in Nat, NEW n \in Nat
    PROVE  Max({m, n}) = IF m >= n THEN m ELSE n
<1> DEFINE top == IF m >= n THEN m ELSE n
<1>1. top \in {m, n} /\ \A y \in {m, n} : top >= y
  OBVIOUS
<1>2. ASSUME NEW x \in {m, n}, \A y \in {m, n} : x >= y
      PROVE  x = top
  BY <1>2
<1>3. Max({m, n}) = top
  BY <1>1, <1>2 DEF Max
<1> QED
  BY <1>3

(* The halves of a batch are stretches that meet.                          *)
LEMMA HalvesMeet ==
    ASSUME NEW b \in Batch, Size(b) > 1
    PROVE  \E left, right \in Stretch :
               /\ Halves(b) = << left, right >>
               /\ left.first = b.first /\ right.last = b.last
               /\ left.first <= left.last /\ left.last = right.first - 1
               /\ right.first <= right.last
<1> DEFINE half == IF 1 >= Size(b) \div 2 THEN 1 ELSE Size(b) \div 2
           middle == b.first + half
           left == [b EXCEPT !.last = middle - 1]
           right == [b EXCEPT !.first = middle]
<1>1. b \in [first : 1..MaxPacks, last : 1..MaxPacks] /\ b.first <= b.last
  BY DEF Batch
<1>2. b.first \in Nat /\ b.last \in Nat /\ Size(b) \in Nat /\ Size(b) = b.last - b.first + 1
  BY <1>1, PacksAssumption DEF Size
<1>3. Size(b) \div 2 \in Nat /\ Size(b) \div 2 < Size(b)
  BY <1>2
<1>4. Max({1, Size(b) \div 2}) = half
  BY <1>3, MaxOfTwo
<1>5. Halves(b) = << left, right >>
  BY <1>4 DEF Halves
<1>6. half \in Nat /\ 1 <= half /\ half < Size(b)
  BY <1>2, <1>3
<1>7. middle \in Nat /\ middle - 1 \in Nat /\ b.first <= middle - 1 /\ middle <= b.last
  BY <1>2, <1>6
<1>8. left = [first |-> b.first, last |-> middle - 1] /\ right = [first |-> middle, last |-> b.last]
  BY <1>1
<1>9. left \in Stretch /\ right \in Stretch
  BY <1>2, <1>7, <1>8 DEF Stretch
<1> QED
  BY <1>5, <1>7, <1>8, <1>9

(* Between the packs that are done and the others there is a number.       *)
LEMMA DoneType ==
    ASSUME Counted
    PROVE  Done \in Nat
<1>1. built \in Nat /\ todo \in Seq(Stretch) /\ 0 <= Done
  BY DEF Counted, BatchesPartition
<1>2. CASE todo = << >>
  BY <1>1, <1>2 DEF Done
<1>3. CASE todo # << >>
  <2>1. Head(todo) \in Stretch
    BY <1>1, <1>3
  <2>2. Head(todo).first \in Nat
    BY <2>1 DEF Stretch
  <2> QED
    BY <1>1, <1>3, <2>2 DEF Done
<1> QED
  BY <1>2, <1>3

(* How far the agent is                                                    *)
LEMMA AddPackDone ==
    ASSUME Counted, AddPack
    PROVE  Done' = Done
<1> DEFINE p == built + 1
           alone == [first |-> p, last |-> p]
           widened == [todo[Len(todo)] EXCEPT !.last = p]
<1>1. built \in Nat /\ todo \in Seq(Stretch)
  BY DEF Counted
<1>2. alone \in Stretch /\ alone.first = p
  BY <1>1 DEF Stretch
<1>3. ASSUME todo # << >>
      PROVE  widened \in Stretch /\ widened.first = todo[Len(todo)].first /\ Head(todo) = todo[1]
  <2>1. todo[Len(todo)] \in Stretch
    BY <1>1, <1>3
  <2> QED
    BY <1>1, <1>3, <2>1 DEF Stretch
<1>4. \/ todo' = Append(todo, alone)
      \/ todo # << >> /\ todo' = [todo EXCEPT ![Len(todo)] = widened]
  BY DEF AddPack
<1> HIDE DEF alone, widened
<1>5. CASE todo = << >>
  <2>1. todo' = << alone >>
    BY <1>4, <1>5
  <2>2. todo' # << >> /\ Head(todo') = alone
    BY <1>2, <2>1
  <2> QED
    BY <1>1, <1>2, <1>5, <2>2 DEF Done
<1>6. CASE todo # << >>
  <2>1. todo' # << >> /\ Head(todo').first = Head(todo).first
    BY <1>1, <1>2, <1>3, <1>4, <1>6
  <2> QED
    BY <1>6, <2>1 DEF Done
<1> QED
  BY <1>5, <1>6

LEMMA TakeDone ==
    ASSUME Counted, todo # << >>, todo' = Tail(todo), UNCHANGED built
    PROVE  /\ Done' = Head(todo).last /\ Done = Head(todo).first - 1
           /\ Head(todo).first <= Head(todo).last
           /\ Done \in Nat /\ Done' \in Nat
<1>1. built \in Nat /\ todo \in Seq(Stretch) /\ BatchesPartition
  BY DEF Counted
<1>2. /\ todo' \in Seq(Stretch) /\ Len(todo') = Len(todo) - 1 /\ Len(todo) \in Nat \ {0}
      /\ \A i \in DOMAIN todo' : todo'[i] = todo[i + 1] /\ i + 1 \in DOMAIN todo
  BY <1>1
<1>3. 1 \in DOMAIN todo /\ Head(todo) = todo[1] /\ todo[1] \in Stretch
  BY <1>1
<1>4. Done = todo[1].first - 1 /\ todo[1].first <= todo[1].last
  BY <1>1, <1>3 DEF Done, BatchesPartition
<1>5. Done' = todo[1].last
  <2>1. CASE todo' = << >>
    <3>0. Len(todo') = 0
      BY <2>1, EmptyHasNoLength, Zenon
    <3>1. Len(todo) = 1
      BY <1>2, <3>0
    <3> QED
      BY <1>1, <1>3, <2>1, <3>1 DEF Done, BatchesPartition
  <2>2. CASE todo' # << >>
    <3>1. Len(todo) # 1 /\ Head(todo') = todo[2]
      BY <1>2, <2>2
    <3> QED
      BY <1>1, <1>3, <2>2, <3>1 DEF Done, BatchesPartition, Stretch
  <2> QED
    BY <2>1, <2>2
<1> QED
  BY <1>3, <1>4, <1>5, DoneType DEF Stretch

LEMMA SplitDone ==
    ASSUME Counted, NEW b \in Batch, todo # << >>, b = Head(todo), Size(b) > 1,
           todo' = Halves(b) \o Tail(todo)
    PROVE  Done' = Done
<1>1. PICK left, right \in Stretch : Halves(b) = << left, right >> /\ left.first = b.first
  BY HalvesMeet
<1>2. todo \in Seq(Stretch) /\ Tail(todo) \in Seq(Stretch)
  BY DEF Counted
<1> DEFINE rest == Tail(todo)
<1>3. todo' = << left, right >> \o rest /\ rest \in Seq(Stretch)
  BY <1>1, <1>2, Zenon
<1> HIDE DEF rest
<1>4. todo' # << >> /\ Head(todo') = left
  BY <1>3
<1> QED
  BY <1>1, <1>4 DEF Done

(* One more pack, in the last batch or in one of its own.                  *)
LEMMA AddPackCounted ==
    ASSUME Counted, AddPack
    PROVE  Counted'
<1> DEFINE p == built + 1
           alone == [first |-> p, last |-> p]
           widened == [todo[Len(todo)] EXCEPT !.last = p]
<1>1. built \in Nat /\ asks \in Nat /\ todo \in Seq(Stretch) /\ BatchesPartition
  BY DEF Counted
<1>2. built' = p /\ asks' = asks
  BY DEF AddPack
<1>3. CASE todo' = Append(todo, alone)
  <2>1. alone \in Stretch /\ alone.first = p /\ alone.last = p
    BY <1>1 DEF Stretch
  <2> HIDE DEF alone
  <2>2. /\ todo' \in Seq(Stretch) /\ Len(todo') = Len(todo) + 1
        /\ \A i \in DOMAIN todo : todo'[i] = todo[i]
        /\ todo'[Len(todo) + 1] = alone /\ todo' # << >>
    BY <1>1, <1>3, <2>1
  <2>3. Done' = Done
    BY AddPackDone
  <2>4. BatchesPartition'
    <3> SUFFICES ASSUME NEW i \in DOMAIN todo'
                 PROVE  /\ todo'[i].first <= todo'[i].last
                        /\ todo'[i].last = IF i = Len(todo') THEN built' ELSE todo'[i + 1].first - 1
      BY <2>3, DoneType DEF BatchesPartition
    <3>1. Len(todo) \in Nat /\ i \in 1..(Len(todo) + 1)
      BY <1>1, <2>2
    <3>2. CASE i = Len(todo) + 1
      BY <1>1, <1>2, <2>1, <2>2, <3>2
    <3>3. CASE i = Len(todo)
      <4>1. i \in DOMAIN todo /\ todo'[i] = todo[i] /\ todo'[i + 1] = alone /\ i # Len(todo')
        BY <1>1, <2>2, <3>1, <3>3
      <4>2. todo[i].first <= todo[i].last /\ todo[i].last = built
        BY <1>1, <3>3, <4>1 DEF BatchesPartition
      <4> QED
        BY <1>1, <2>1, <4>1, <4>2
    <3>4. CASE i < Len(todo)
      <4>1. /\ i \in DOMAIN todo /\ i + 1 \in DOMAIN todo /\ i # Len(todo') /\ i # Len(todo)
            /\ todo'[i] = todo[i] /\ todo'[i + 1] = todo[i + 1]
        BY <1>1, <2>2, <3>1, <3>4
      <4>2. todo[i].first <= todo[i].last /\ todo[i].last = todo[i + 1].first - 1
        BY <1>1, <4>1 DEF BatchesPartition
      <4> QED
        BY <4>1, <4>2
    <3> QED
      BY <3>1, <3>2, <3>3, <3>4
  <2>5. AsksBounded'
    <3>1. CASE built = 0
      BY <1>1, <1>2, <2>2, <2>3, <3>1 DEF Counted, AsksBounded, Done
    <3>2. CASE built > 0
      <4>1. Done \in Nat
        BY DoneType
      <4> QED
        BY <1>1, <1>2, <2>2, <2>3, <3>2, <4>1 DEF Counted, AsksBounded
    <3> QED
      BY <1>1, <3>1, <3>2
  <2> QED
    BY <1>1, <1>2, <2>2, <2>4, <2>5 DEF Counted
<1>4. CASE todo # << >> /\ todo' = [todo EXCEPT ![Len(todo)] = widened]
  <2>1. Len(todo) \in DOMAIN todo /\ todo[Len(todo)] \in Stretch
    BY <1>1, <1>4
  <2>2. widened \in Stretch /\ widened.first = todo[Len(todo)].first /\ widened.last = p
    BY <1>1, <2>1 DEF Stretch
  <2> HIDE DEF widened
  <2>3. /\ todo' \in Seq(Stretch) /\ Len(todo') = Len(todo)
        /\ \A i \in DOMAIN todo : todo'[i] = IF i = Len(todo) THEN widened ELSE todo[i]
        /\ todo' # << >>
    BY <1>1, <1>4, <2>1, <2>2
  <2>4. \A i \in DOMAIN todo : todo'[i].first = todo[i].first
    BY <2>2, <2>3
  <2>5. Done' = Done
    BY AddPackDone
  <2>6. todo[Len(todo)].first <= built
    BY <1>1, <2>1 DEF BatchesPartition, Stretch
  <2>7. BatchesPartition'
    <3> SUFFICES ASSUME NEW i \in DOMAIN todo'
                 PROVE  /\ todo'[i].first <= todo'[i].last
                        /\ todo'[i].last = IF i = Len(todo') THEN built' ELSE todo'[i + 1].first - 1
      BY <2>5, DoneType DEF BatchesPartition
    <3>1. i \in DOMAIN todo /\ i \in Nat
      BY <1>1, <2>3
    <3>2. CASE i = Len(todo)
      <4>1. todo'[i] = widened /\ i = Len(todo')
        BY <2>3, <3>1, <3>2
      <4>2. widened.first <= p
        BY <1>1, <2>1, <2>2, <2>6 DEF Stretch
      <4> QED
        BY <1>2, <2>2, <4>1, <4>2
    <3>3. CASE i # Len(todo)
      <4>1. todo'[i] = todo[i] /\ i # Len(todo') /\ i + 1 \in DOMAIN todo
        BY <1>1, <2>3, <3>1, <3>3
      <4>2. todo[i].first <= todo[i].last /\ todo[i].last = todo[i + 1].first - 1
        BY <1>1, <3>1, <3>3 DEF BatchesPartition
      <4> QED
        BY <2>4, <4>1, <4>2
    <3> QED
      BY <3>2, <3>3
  <2>8. AsksBounded'
    <3>1. built > 0
      BY <1>1, <1>4 DEF Counted
    <3> QED
      BY <1>2, <2>3, <2>5, <3>1 DEF Counted, AsksBounded
  <2> QED
    BY <1>1, <1>2, <2>3, <2>7, <2>8 DEF Counted
<1> QED
  BY <1>3, <1>4 DEF AddPack

(* Taking the first batch leaves its packs behind.                         *)
LEMMA TakeCounted ==
    ASSUME Counted, todo # << >>, todo' = Tail(todo), UNCHANGED built,
           asks' \in {asks, asks + 1}
    PROVE  Counted'
<1>1. built \in Nat /\ asks \in Nat /\ todo \in Seq(Stretch) /\ BatchesPartition /\ built > 0
  BY DEF Counted
<1>2. /\ todo' \in Seq(Stretch) /\ Len(todo') = Len(todo) - 1 /\ Len(todo) \in Nat \ {0}
      /\ \A i \in DOMAIN todo' : todo'[i] = todo[i + 1] /\ i + 1 \in DOMAIN todo
  BY <1>1
<1>3. 1 \in DOMAIN todo /\ Head(todo) = todo[1] /\ todo[1] \in Stretch
  BY <1>1
<1>4. Done = todo[1].first - 1 /\ todo[1].first <= todo[1].last
  BY <1>1, <1>3 DEF Done, BatchesPartition
<1>5. Done' = todo[1].last
  BY <1>3, TakeDone
<1>6. Done \in Int /\ Done' \in Int /\ Done' >= Done + 1
  BY <1>3, <1>4, <1>5 DEF Stretch
<1>7. BatchesPartition'
  <2> SUFFICES ASSUME NEW i \in DOMAIN todo'
               PROVE  /\ todo'[i].first <= todo'[i].last
                      /\ todo'[i].last = IF i = Len(todo') THEN built ELSE todo'[i + 1].first - 1
    BY <1>1, <1>6 DEF BatchesPartition
  <2>1. todo'[i] = todo[i + 1] /\ i + 1 \in DOMAIN todo /\ i \in Nat
    BY <1>2
  <2>2. i = Len(todo') <=> i + 1 = Len(todo)
    BY <1>2, <2>1
  <2>3. i # Len(todo') => todo'[i + 1] = todo[(i + 1) + 1]
    BY <1>2, <2>1
  <2> QED
    BY <1>1, <2>1, <2>2, <2>3 DEF BatchesPartition
<1>8. AsksBounded'
  BY <1>1, <1>2, <1>6 DEF Counted, AsksBounded
<1> QED
  BY <1>1, <1>2, <1>7, <1>8 DEF Counted

(* Splitting puts two halves in the place of the first batch.              *)
LEMMA SplitCounted ==
    ASSUME Counted, NEW b \in Batch, todo # << >>, b = Head(todo), Size(b) > 1,
           todo' = Halves(b) \o Tail(todo), UNCHANGED built, asks' = asks + 1
    PROVE  Counted'
<1>1. built \in Nat /\ asks \in Nat /\ todo \in Seq(Stretch) /\ BatchesPartition /\ built > 0
  BY DEF Counted
<1>2. PICK left, right \in Stretch :
        /\ Halves(b) = << left, right >>
        /\ left.first = b.first /\ right.last = b.last
        /\ left.first <= left.last /\ left.last = right.first - 1
        /\ right.first <= right.last
  BY HalvesMeet
<1>3. /\ Len(todo) \in Nat \ {0} /\ Tail(todo) \in Seq(Stretch)
      /\ Len(Tail(todo)) = Len(todo) - 1 /\ b = todo[1] /\ 1 \in DOMAIN todo
      /\ \A i \in 1..(Len(todo) - 1) : Tail(todo)[i] = todo[i + 1]
  BY <1>1
<1> DEFINE rest == Tail(todo)
<1>4. todo' = << left, right >> \o rest
  BY <1>2, Zenon
<1>10. rest \in Seq(Stretch) /\ Len(rest) = Len(todo) - 1
  BY <1>3
<1>11. \A i \in 1..(Len(todo) - 1) : rest[i] = todo[i + 1]
  BY <1>3
<1> HIDE DEF rest
<1>5. /\ todo' \in Seq(Stretch) /\ Len(todo') = Len(todo) + 1
      /\ todo'[1] = left /\ todo'[2] = right
      /\ \A i \in 3..(Len(todo) + 1) : todo'[i] = rest[i - 2]
  <2>1. Len(rest) + 2 = Len(todo) + 1
    BY <1>3, <1>10
  <2> DEFINE pair == << left, right >> \o rest
  <2>2. /\ pair \in Seq(Stretch) /\ Len(pair) = Len(rest) + 2
        /\ pair[1] = left /\ pair[2] = right
        /\ \A i \in 3..(Len(rest) + 2) : pair[i] = rest[i - 2]
    <3>1. << left, right >> \in Seq(Stretch) /\ Len(<< left, right >>) = 2
      OBVIOUS
    <3>2. << left, right >>[1] = left /\ << left, right >>[2] = right
      OBVIOUS
    <3> QED
      BY <1>10, <3>1, <3>2
  <2>3. todo' = pair
    BY <1>4
  <2> HIDE DEF pair
  <2>4. /\ pair \in Seq(Stretch) /\ Len(pair) = Len(todo) + 1
        /\ pair[1] = left /\ pair[2] = right
        /\ \A i \in 3..(Len(todo) + 1) : pair[i] = rest[i - 2]
    BY <2>1, <2>2, Zenon
  <2> QED
    BY <2>3, <2>4, Zenon
<1>6. \A i \in 3..(Len(todo) + 1) : todo'[i] = todo[i - 1]
  <2> SUFFICES ASSUME NEW i \in 3..(Len(todo) + 1)
               PROVE  todo'[i] = todo[i - 1]
    OBVIOUS
  <2>1. i - 2 \in 1..(Len(todo) - 1) /\ (i - 2) + 1 = i - 1
    BY <1>3
  <2> QED
    BY <1>5, <1>11, <2>1
<1>7. Done' = Done
  BY SplitDone
<1>8. BatchesPartition'
  <2> SUFFICES ASSUME NEW i \in DOMAIN todo'
               PROVE  /\ todo'[i].first <= todo'[i].last
                      /\ todo'[i].last = IF i = Len(todo') THEN built ELSE todo'[i + 1].first - 1
    <3>1. 0 <= Done'
      BY <1>7, DoneType
    <3> QED
      BY <3>1 DEF BatchesPartition
  <2>1. i \in 1..(Len(todo) + 1)
    BY <1>5
  <2>2. CASE i = 1
    <3>1. i # Len(todo')
      BY <1>3, <1>5, <2>2
    <3> QED
      BY <1>2, <1>5, <2>2, <3>1
  <2>3. CASE i = 2
    <3>1. todo[1].last = IF 1 = Len(todo) THEN built ELSE todo[2].first - 1
      BY <1>1, <1>3 DEF BatchesPartition
    <3>2. CASE Len(todo) = 1
      BY <1>2, <1>3, <1>5, <2>3, <3>1, <3>2
    <3>3. CASE Len(todo) # 1
      <4>1. 3 \in 3..(Len(todo) + 1) /\ i # Len(todo')
        BY <1>3, <1>5, <2>3, <3>3
      <4>2. todo'[i + 1] = todo[2]
        BY <1>6, <2>3, <4>1
      <4> QED
        BY <1>2, <1>3, <1>5, <2>3, <3>1, <3>3, <4>1, <4>2
    <3> QED
      BY <3>2, <3>3
  <2>4. CASE i \in 3..(Len(todo) + 1)
    <3>1. i - 1 \in DOMAIN todo /\ (i - 1 = Len(todo) <=> i = Len(todo')) /\ (i - 1) + 1 = i
      BY <1>1, <1>3, <1>5, <2>4
    <3>2. todo'[i] = todo[i - 1]
      BY <1>6, <2>4
    <3>3. /\ todo[i - 1].first <= todo[i - 1].last
          /\ todo[i - 1].last = IF i - 1 = Len(todo) THEN built ELSE todo[i].first - 1
      BY <1>1, <3>1 DEF BatchesPartition
    <3>4. i # Len(todo') => todo'[i + 1] = todo[i]
      <4>0. Len(todo') = Len(todo) + 1 /\ Len(todo) \in Nat
        BY <1>3, <1>5
      <4> DEFINE n == Len(todo)
                 m == Len(todo')
      <4>2. m = n + 1 /\ n \in Nat /\ i \in 3..(n + 1)
        BY <4>0, <2>4
      <4> HIDE DEF n, m
      <4>3. i # m => i + 1 \in 3..(n + 1) /\ (i + 1) - 1 = i
        BY <4>2
      <4>1. i # Len(todo') => i + 1 \in 3..(Len(todo) + 1) /\ (i + 1) - 1 = i
        BY <4>3 DEF n, m
      <4> QED
        BY <1>6, <4>1
    <3> QED
      BY <3>1, <3>2, <3>3, <3>4
  <2>5. i = 1 \/ i = 2 \/ i \in 3..(Len(todo) + 1)
    BY <1>3, <2>1
  <2> QED
    BY <2>2, <2>3, <2>4, <2>5
<1>9. AsksBounded'
  <2>1. Done \in Nat /\ asks < 2 * Done + Len(todo)
    BY <1>1, DoneType DEF Counted, AsksBounded
  <2> QED
    BY <1>1, <1>3, <1>5, <1>7, <2>1 DEF AsksBounded
<1> QED
  BY <1>1, <1>5, <1>8, <1>9 DEF Counted

(* Every step keeps the account.                                           *)
LEMMA CountedKept ==
    ASSUME Counted, [BatchingNext]_batchingVars
    PROVE  Counted'
<1>1. CASE AddPack
  BY <1>1, AddPackCounted
<1>2. ASSUME NEW b \in Batch, Execute(b)
      PROVE  Counted'
  <2>1. CASE TooLarge(b) /\ Size(b) > 1
    BY <2>1, SplitCounted DEF TooLarge, IsNext, Ask
  <2>2. CASE ~(TooLarge(b) /\ Size(b) > 1)
    <3>1. /\ todo # << >> /\ todo' = Tail(todo) /\ UNCHANGED built
          /\ asks' \in {asks, asks + 1}
      BY <1>2, <2>2 DEF Execute, AnsweredFromCache, AnsweredByProvider, TooLarge, CallFails,
           IsNext, Take, Ask
    <3> QED
      BY <3>1, TakeCounted
  <2> QED
    BY <2>1, <2>2
<1>3. CASE Retry
  <2>1. built' = 0 /\ asks' = 0 /\ todo' = << >>
    BY <1>3 DEF Retry, Returned
  <2> QED
    BY <2>1 DEF Counted, BatchesPartition, AsksBounded, Done
<1>4. CASE UNCHANGED batchingVars
  BY <1>4 DEF batchingVars, Counted, BatchesPartition, AsksBounded, Done
<1> QED
  BY <1>1, <1>2, <1>3, <1>4 DEF BatchingNext

(* The batches partition the packs that are left, in order, through any    *)
(* number of halvings: none is sent twice in a run, or forgotten.          *)
THEOREM BatchesAreAPartition == BatchingSpec => []BatchesPartition
<1>1. BatchingInit => Counted
  BY DEF BatchingInit, Counted, BatchesPartition, AsksBounded, Done
<1>2. Counted => BatchesPartition
  BY DEF Counted
<1> QED
  BY <1>1, <1>2, CountedKept, PTL DEF BatchingSpec

(* A run asks a provider less than twice for every pack it has dealt with  *)
(* and once for every batch that is left.                                  *)
THEOREM AsksAreBounded == BatchingSpec => []AsksBounded
<1>1. BatchingInit => Counted
  BY DEF BatchingInit, Counted, BatchesPartition, AsksBounded, Done
<1>2. Counted => AsksBounded
  BY DEF Counted
<1> QED
  BY <1>1, <1>2, CountedKept, PTL DEF BatchingSpec

-----------------------------------------------------------------------------
(* Least and greatest numbers                                              *)

LEMMA LeastOf ==
    ASSUME NEW S \in SUBSET Nat, S # {}
    PROVE  \E m \in S : \A k \in S : m <= k
<1> DEFINE Less == OpToRel(<, Nat)
<1>1. IsWellFoundedOn(Less, Nat)
  BY NatLessThanWellFounded
<1>2. \A x, y \in Nat : << y, x >> \in Less <=> y < x
  BY DEF OpToRel
<1> HIDE DEF Less
<1>3. PICK m \in S : \A k \in S : ~(<< k, m >> \in Less)
  BY <1>1, WFMin
<1>4. \A k \in S : k \in Nat /\ m \in Nat /\ ~(k < m)
  BY <1>2, <1>3
<1> QED
  BY <1>4

LEMMA MinIsOne ==
    ASSUME NEW S \in SUBSET Nat, S # {}
    PROVE  Min(S) \in S /\ \A k \in S : Min(S) <= k
<1>1. \E m \in S : \A k \in S : m <= k
  BY LeastOf
<1>2. Min(S) = CHOOSE m \in S : \A k \in S : m <= k
  BY DEF Min
<1> QED
  BY <1>1, <1>2

LEMMA MaxIsOne ==
    ASSUME NEW n \in Nat, NEW S \in SUBSET (1..n), S # {}
    PROVE  Max(S) \in S /\ \A k \in S : Max(S) >= k
<1> DEFINE T == { n - k : k \in S }
<1>1. T \in SUBSET Nat /\ T # {}
  <2>1. \A k \in S : n - k \in Nat
    OBVIOUS
  <2>2. T \subseteq Nat
    BY <2>1
  <2>3. PICK k \in S : TRUE
    OBVIOUS
  <2>4. n - k \in T
    OBVIOUS
  <2> QED
    BY <2>2, <2>4
<1>2. PICK m \in T : \A k \in T : m <= k
  BY <1>1, LeastOf
<1>3. PICK top \in S : m = n - top
  BY <1>2
<1>4. ASSUME NEW k \in S PROVE n - k \in T /\ k \in Int
  OBVIOUS
<1> HIDE DEF T
<1>5. \A k \in S : m <= n - k
  BY <1>2, <1>4
<1>6. \A k \in S : top >= k
  BY <1>3, <1>4, <1>5
<1>7. Max(S) = CHOOSE y \in S : \A k \in S : y >= k
  BY DEF Max
<1> QED
  BY <1>6, <1>7

-----------------------------------------------------------------------------
(* Types *)

(* The inductive invariant behind the types: no batch is of packs that are *)
(* not built into batches yet.                                             *)
Kept ==
    /\ BatchingTypes
    /\ DOMAIN cache = Batch
    /\ \A i \in DOMAIN todo : todo[i].last <= built

LEMMA PackTypes ==
    ASSUME BatchingTypes, NEW p \in 1..Len(packs)
    PROVE  packs[p].source \in 1..MaxPacks /\ packs[p].cost \in Costs /\ p \in 1..MaxPacks
<1>1. packs[p] \in Packs
  BY DEF BatchingTypes
<1> QED
  BY <1>1, PacksAssumption DEF Packs, BatchingTypes

(* What a batch leaves behind, whatever becomes of it                      *)
LEMMA RecordsTyped ==
    ASSUME BatchingTypes, NEW b \in Batch, b.last <= Len(packs)
    PROVE  /\ SourcesOf(b) \subseteq 1..MaxPacks
           /\ PacksOf(b) \subseteq 1..Len(packs)
           /\ DOMAIN FailureRecords(b) = SourcesOf(b)
           /\ \A s \in SourcesOf(b) : FailureRecords(b)[s] \in StoryRecords
           /\ \A answer \in Answers(b) :
                  /\ DOMAIN Gated(b, answer) \subseteq SourcesOf(b)
                  /\ \A s \in DOMAIN Gated(b, answer) : Gated(b, answer)[s] \in StoryRecords
<1>1. b.first \in 1..MaxPacks /\ b.last \in 1..MaxPacks /\ Len(packs) \in 1..MaxPacks
  BY DEF Batch, BatchingTypes
<1>2. PacksOf(b) \subseteq 1..Len(packs) /\ PacksOf(b) \subseteq 1..MaxPacks
  BY <1>1, PacksAssumption DEF PacksOf
<1>3. SourcesOf(b) \subseteq 1..MaxPacks
  BY <1>2, PackTypes DEF SourcesOf
<1>4. ASSUME NEW s \in SourcesOf(b)
      PROVE  Min(PacksFor(b, s)) \in 1..MaxPacks /\ Max(PacksFor(b, s)) \in 1..MaxPacks
  <2>1. PacksFor(b, s) # {} /\ PacksFor(b, s) \subseteq 1..MaxPacks
    BY <1>2 DEF SourcesOf, PacksFor
  <2>2. PacksFor(b, s) \in SUBSET Nat /\ MaxPacks \in Nat
    BY <2>1, PacksAssumption
  <2> QED
    BY <2>1, <2>2, MinIsOne, MaxIsOne
<1>5. DOMAIN FailureRecords(b) = SourcesOf(b)
  BY DEF FailureRecords
<1>6. ASSUME NEW s \in SourcesOf(b)
      PROVE  FailureRecords(b)[s] \in StoryRecords
  <2>1. FailureRecords(b)[s] = [pack |-> Min(PacksFor(b, s)), failed |-> TRUE]
    BY DEF FailureRecords
  <2> QED
    BY <1>4, <2>1 DEF StoryRecords
<1>7. ASSUME NEW answer \in Answers(b)
      PROVE  /\ DOMAIN Gated(b, answer) \subseteq SourcesOf(b)
             /\ \A s \in DOMAIN Gated(b, answer) : Gated(b, answer)[s] \in StoryRecords
  <2>1. CASE answer.kind \in Unusable
    <3>1. Gated(b, answer) = FailureRecords(b)
      BY <2>1 DEF Gated
    <3> QED
      BY <1>5, <1>6, <3>1
  <2>2. CASE answer.kind \notin Unusable
    <3>1. answer.list \in Listed(b)
      BY <2>2 DEF Answers
    <3>2. Listing(answer) \subseteq SourcesOf(b)
      BY <3>1 DEF Listing, Listed
    <3>3. Gated(b, answer) =
            [s \in Listing(answer) |-> [pack |-> Max(PacksFor(b, s)), failed |-> FALSE]]
      BY <2>2 DEF Gated
    <3>4. ASSUME NEW s \in Listing(answer)
          PROVE  Gated(b, answer)[s] \in StoryRecords
      <4>1. Gated(b, answer)[s] = [pack |-> Max(PacksFor(b, s)), failed |-> FALSE]
        BY <3>3
      <4>2. Max(PacksFor(b, s)) \in 1..MaxPacks
        BY <1>4, <3>2
      <4> QED
        BY <4>1, <4>2 DEF StoryRecords
    <3> QED
      BY <3>2, <3>3, <3>4
  <2> QED
    BY <2>1, <2>2
<1> QED
  BY <1>2, <1>3, <1>5, <1>6, <1>7

(* The batch at hand                                                       *)
LEMMA NextBatch ==
    ASSUME Kept, NEW b \in Batch, IsNext(b)
    PROVE  b.last <= Len(packs) /\ b = todo[1] /\ 1 \in DOMAIN todo
<1>1. todo \in Seq(Batch) /\ todo # << >> /\ b = Head(todo) /\ built = Len(packs)
  BY DEF Kept, BatchingTypes, IsNext
<1>2. 1 \in DOMAIN todo /\ b = todo[1]
  BY <1>1
<1> QED
  BY <1>1, <1>2 DEF Kept

LEMMA TakeKept ==
    ASSUME Kept, NEW records, DOMAIN records \subseteq 1..MaxPacks,
           \A s \in DOMAIN records : records[s] \in StoryRecords,
           todo # << >>, Take(records), UNCHANGED built
    PROVE  /\ DOMAIN stories' \subseteq 1..MaxPacks
           /\ \A s \in DOMAIN stories' : stories'[s] \in StoryRecords
           /\ todo' \in Seq(Batch)
           /\ \A i \in DOMAIN todo' : todo'[i].last <= built'
<1>1. /\ todo \in Seq(Batch) /\ DOMAIN stories \subseteq 1..MaxPacks
      /\ \A s \in DOMAIN stories : stories[s] \in StoryRecords
      /\ \A i \in DOMAIN todo : todo[i].last <= built
  BY DEF Kept, BatchingTypes
<1>2. stories' = Merged(stories, records) /\ todo' = Tail(todo)
  BY DEF Take
<1>3. /\ DOMAIN stories' = DOMAIN stories \cup DOMAIN records
      /\ \A s \in DOMAIN stories' :
             stories'[s] = IF s \in DOMAIN stories THEN stories[s] ELSE records[s]
  BY <1>2 DEF Merged
<1>4. /\ todo' \in Seq(Batch)
      /\ \A i \in DOMAIN todo' : todo'[i] = todo[i + 1] /\ i + 1 \in DOMAIN todo
  BY <1>1, <1>2
<1> QED
  BY <1>1, <1>3, <1>4

LEMMA AddPackKept ==
    ASSUME Kept, Counted, AddPack
    PROVE  Kept'
<1> DEFINE p == built + 1
           alone == [first |-> p, last |-> p]
           widened == [todo[Len(todo)] EXCEPT !.last = p]
<1>1. /\ built \in 0..Len(packs) /\ built < Len(packs) /\ Len(packs) \in 1..MaxPacks
      /\ todo \in Seq(Batch)
      /\ \A i \in DOMAIN todo : todo[i].last <= built
  BY DEF Kept, BatchingTypes, AddPack
<1>2. /\ built' = p /\ cache' = cache
      /\ UNCHANGED <<limit, packs, stories, retries, sent, asks, doubled>>
  BY DEF AddPack
<1>3. p \in 1..Len(packs) /\ p \in 1..MaxPacks
  BY <1>1, PacksAssumption
<1>4. todo' \in Seq(Batch) /\ \A i \in DOMAIN todo' : todo'[i].last <= p
  <2>1. CASE todo' = Append(todo, alone)
    <3>1. alone \in Batch /\ alone.last = p
      BY <1>3 DEF Batch
    <3> HIDE DEF alone
    <3>2. /\ todo' \in Seq(Batch)
          /\ \A i \in DOMAIN todo' : (i \in DOMAIN todo /\ todo'[i] = todo[i]) \/ todo'[i] = alone
      BY <1>1, <2>1, <3>1
    <3>3. \A i \in DOMAIN todo : todo[i].last <= p
      <4>1. \A i \in DOMAIN todo : todo[i].last \in Int
        BY <1>1 DEF Batch
      <4> QED
        BY <1>1, <4>1
    <3> QED
      BY <1>3, <3>1, <3>2, <3>3
  <2>2. CASE todo # << >> /\ todo' = [todo EXCEPT ![Len(todo)] = widened]
    <3>1. Len(todo) \in DOMAIN todo /\ todo[Len(todo)] \in Batch
      BY <1>1, <2>2
    <3>2. todo[Len(todo)].first <= built /\ todo[Len(todo)].first \in 1..MaxPacks
      BY <1>1, <3>1 DEF Batch
    <3>3. widened = [first |-> todo[Len(todo)].first, last |-> p]
      BY <3>1 DEF Batch
    <3>4. widened \in Batch /\ widened.last = p
      BY <1>1, <1>3, <3>2, <3>3 DEF Batch
    <3> HIDE DEF widened
    <3>5. /\ todo' \in Seq(Batch)
          /\ \A i \in DOMAIN todo' : (i \in DOMAIN todo /\ todo'[i] = todo[i]) \/ todo'[i] = widened
      BY <1>1, <2>2, <3>1, <3>4
    <3>6. \A i \in DOMAIN todo : todo[i].last <= p
      <4>1. \A i \in DOMAIN todo : todo[i].last \in Int
        BY <1>1 DEF Batch
      <4> QED
        BY <1>1, <4>1
    <3> QED
      BY <1>3, <3>4, <3>5, <3>6
  <2> QED
    BY <2>1, <2>2 DEF AddPack
<1>5. \A b : Answers(b)' = Answers(b)
  BY <1>2 DEF Answers, Listed, SourcesOf
<1> QED
  BY <1>2, <1>3, <1>4, <1>5 DEF Kept, BatchingTypes

(* A batch is answered, from the cache or by a provider, or not at all.    *)
LEMMA AnswerKept ==
    ASSUME Kept, NEW b \in Batch,
           AnsweredFromCache(b) \/ AnsweredByProvider(b) \/ CallFails(b) \/ (TooLarge(b) /\ ~(Size(b) > 1)),
           asks' \in Nat
    PROVE  Kept'
<1>1. /\ IsNext(b) /\ b \in Batch /\ todo # << >> /\ BatchingTypes /\ DOMAIN cache = Batch
      /\ UNCHANGED <<limit, packs, built, retries>>
  BY DEF Kept, AnsweredFromCache, AnsweredByProvider, CallFails, TooLarge, IsNext
<1>2. b.last <= Len(packs)
  BY <1>1, NextBatch
<1>3. \A answer : (answer \in Answers(b))' <=> answer \in Answers(b)
  BY <1>1 DEF Answers, Listed, SourcesOf
<1>4. sent' \in {sent, sent \cup {b}}
  BY DEF AnsweredFromCache, AnsweredByProvider, CallFails, TooLarge, Ask
<1>5. /\ cache' = cache \/ \E answer \in Answers(b) : cache' = [cache EXCEPT ![b] = answer]
      /\ \E answer \in Answers(b) : Take(Gated(b, answer)) \/ Take(FailureRecords(b))
  <2>1. CASE AnsweredFromCache(b)
    <3>1. cache[b] \in Answers(b) /\ Take(Gated(b, cache[b])) /\ cache' = cache
      BY <1>1, <1>2, <2>1 DEF AnsweredFromCache, BatchingTypes
    <3> QED
      BY <3>1
  <2>2. CASE AnsweredByProvider(b)
    BY <2>2 DEF AnsweredByProvider
  <2>3. CASE CallFails(b) \/ (TooLarge(b) /\ ~(Size(b) > 1))
    <3>1. Take(FailureRecords(b)) /\ cache' = cache
      BY <2>3 DEF CallFails, TooLarge
    <3>2. [kind |-> "none", list |-> << >>] \in Answers(b)
      BY DEF Answers, Unusable
    <3> QED
      BY <3>1, <3>2
  <2> QED
    BY <2>1, <2>2, <2>3
<1>6. doubled' \in BOOLEAN
  <2>1. doubled \in BOOLEAN
    BY <1>1 DEF BatchingTypes
  <2>2. CASE AnsweredFromCache(b)
    BY <2>2 DEF AnsweredFromCache
  <2>3. CASE AnsweredByProvider(b)
    BY <2>3 DEF AnsweredByProvider
  <2>4. CASE CallFails(b) \/ TooLarge(b)
    BY <2>1, <2>4 DEF CallFails, TooLarge
  <2> QED
    BY <2>2, <2>3, <2>4
<1>7. PICK records :
        /\ Take(records)
        /\ DOMAIN records \subseteq 1..MaxPacks
        /\ \A s \in DOMAIN records : records[s] \in StoryRecords
  <2>1. PICK answer \in Answers(b) : Take(Gated(b, answer)) \/ Take(FailureRecords(b))
    BY <1>5
  <2> QED
    BY <1>1, <1>2, <2>1, RecordsTyped
<1>8. /\ DOMAIN stories' \subseteq 1..MaxPacks
      /\ \A s \in DOMAIN stories' : stories'[s] \in StoryRecords
      /\ todo' \in Seq(Batch)
      /\ \A i \in DOMAIN todo' : todo'[i].last <= built'
  BY <1>1, <1>7, TakeKept
<1>9. DOMAIN cache' = Batch
  BY <1>1, <1>5
<1>10. \A d \in Batch : d.last <= Len(packs) => cache'[d] \in Answers(d) \cup {None}
  <2> SUFFICES ASSUME NEW d \in Batch, d.last <= Len(packs)
               PROVE  cache'[d] \in Answers(d) \cup {None}
    OBVIOUS
  <2>1. cache[d] \in Answers(d) \cup {None}
    BY <1>1 DEF BatchingTypes
  <2>2. cache'[d] = cache[d] \/ (d = b /\ cache'[d] \in Answers(b))
    BY <1>1, <1>5
  <2> QED
    BY <2>1, <2>2
<1>11. \A d : Answers(d)' = Answers(d)
  BY <1>1 DEF Answers, Listed, SourcesOf
<1> QED
  BY <1>1, <1>4, <1>6, <1>8, <1>9, <1>10, <1>11 DEF Kept, BatchingTypes

(* A batch is halved.                                                      *)
LEMMA SplitKept ==
    ASSUME Kept, NEW b \in Batch, TooLarge(b), Size(b) > 1, asks' \in Nat
    PROVE  Kept'
<1>1. /\ IsNext(b) /\ todo # << >> /\ BatchingTypes /\ sent' = sent \cup {b}
      /\ todo' = Halves(b) \o Tail(todo)
      /\ UNCHANGED <<limit, packs, built, cache, retries, doubled, stories>>
  BY DEF Kept, TooLarge, IsNext, Ask
<1>2. /\ todo \in Seq(Batch) /\ b = todo[1] /\ 1 \in DOMAIN todo
      /\ \A i \in DOMAIN todo : todo[i].last <= built
  BY <1>1, NextBatch DEF Kept, BatchingTypes
<1>3. PICK left, right \in Stretch :
        /\ Halves(b) = << left, right >>
        /\ left.first = b.first /\ right.last = b.last
        /\ left.first <= left.last /\ left.last = right.first - 1
        /\ right.first <= right.last
  BY HalvesMeet
<1>4. left \in Batch /\ right \in Batch /\ left.last <= built /\ right.last <= built
  <2>1. b.first \in 1..MaxPacks /\ b.last \in 1..MaxPacks /\ MaxPacks \in Nat /\ b.last <= built
        /\ built \in Nat
    BY <1>1, <1>2, PacksAssumption DEF Batch, BatchingTypes
  <2>2. /\ left = [first |-> left.first, last |-> left.last] /\ left.last \in Nat /\ left.first \in Nat
        /\ right = [first |-> right.first, last |-> right.last] /\ right.last \in Nat /\ right.first \in Nat
    BY DEF Stretch
  <2>3. left.first \in 1..MaxPacks /\ left.last \in 1..MaxPacks
    BY <1>3, <2>1, <2>2
  <2>4. right.first \in 1..MaxPacks /\ right.last \in 1..MaxPacks
    BY <1>3, <2>1, <2>2
  <2> QED
    BY <1>3, <2>1, <2>2, <2>3, <2>4 DEF Batch
<1>5. Tail(todo) \in Seq(Batch) /\ \A i \in DOMAIN Tail(todo) : Tail(todo)[i].last <= built
  BY <1>1, <1>2
<1>6. << left, right >> \in Seq(Batch) /\ \A i \in DOMAIN << left, right >> : << left, right >>[i].last <= built
  BY <1>4
<1> DEFINE rest == Tail(todo)
           pair == << left, right >>
<1>7. todo' = pair \o rest
  BY <1>1, <1>3, Zenon
<1> HIDE DEF rest, pair
<1>8. /\ pair \in Seq(Batch) /\ rest \in Seq(Batch)
      /\ \A i \in DOMAIN rest : rest[i].last <= built
      /\ \A i \in DOMAIN pair : pair[i].last <= built
  BY <1>5, <1>6 DEF rest, pair
<1>9. /\ todo' \in Seq(Batch)
      /\ \A i \in DOMAIN todo' : (i \in DOMAIN pair /\ todo'[i] = pair[i])
                               \/ ((i - Len(pair)) \in DOMAIN rest /\ todo'[i] = rest[i - Len(pair)])
  BY <1>7, <1>8
<1>10. \A i \in DOMAIN todo' : todo'[i].last <= built
  BY <1>8, <1>9
<1>11. \A d : Answers(d)' = Answers(d)
  BY <1>1 DEF Answers, Listed, SourcesOf
<1> QED
  BY <1>1, <1>9, <1>10, <1>11 DEF Kept, BatchingTypes

LEMMA KeptInitially ==
    ASSUME BatchingInit
    PROVE  Kept
<1>1. PICK n \in 1..MaxPacks : packs \in [1..n -> Packs]
  BY DEF BatchingInit
<1>2. packs \in Seq(Packs) /\ Len(packs) = n /\ n \in Nat
  BY <1>1, PacksAssumption
<1>3. \A b \in Batch : cache[b] = None
  BY DEF BatchingInit
<1>4. 0 \in 0..MaxRetries /\ DOMAIN << >> = {} /\ << >> \in Seq(Batch)
  BY CostsAssumption
<1>5. /\ limit \in Limits /\ built = 0 /\ todo = << >> /\ stories = << >> /\ retries = 0
      /\ sent = {} /\ asks = 0 /\ doubled = FALSE /\ DOMAIN cache = Batch
  BY DEF BatchingInit
<1>6. Len(packs) \in 1..MaxPacks /\ built \in 0..Len(packs)
  BY <1>2, <1>5
<1>7. BatchingTypes
  BY <1>2, <1>3, <1>4, <1>5, <1>6 DEF BatchingTypes
<1> QED
  BY <1>4, <1>5, <1>7 DEF Kept

LEMMA KeptKept ==
    ASSUME Kept, Counted, [BatchingNext]_batchingVars
    PROVE  Kept'
<1>1. asks' \in Nat
  BY CountedKept DEF Counted
<1>2. CASE AddPack
  BY <1>2, AddPackKept
<1>3. ASSUME NEW b \in Batch, Execute(b)
      PROVE  Kept'
  BY <1>1, <1>3, AnswerKept, SplitKept DEF Execute
<1>4. CASE Retry
  <2>1. /\ UNCHANGED <<limit, packs, todo, cache>> /\ todo = << >> /\ stories' = << >> /\ built' = 0
        /\ sent' = {} /\ asks' = 0 /\ doubled' = FALSE /\ retries' = retries + 1
        /\ retries < MaxRetries
    BY <1>4 DEF Retry, Returned
  <2>2. \A d : Answers(d)' = Answers(d)
    BY <2>1 DEF Answers, Listed, SourcesOf
  <2>3. DOMAIN << >> = {} /\ << >> \in Seq(Batch) /\ MaxRetries \in Nat
    BY CostsAssumption
  <2>4. /\ Len(packs) \in 1..MaxPacks /\ packs \in Seq(Packs) /\ retries \in 0..MaxRetries
        /\ limit \in Limits /\ DOMAIN cache = Batch
        /\ \A b \in Batch : b.last <= Len(packs) => cache[b] \in Answers(b) \cup {None}
    BY DEF Kept, BatchingTypes
  <2>5. retries' \in 0..MaxRetries /\ built' \in 0..Len(packs) /\ asks' \in Nat
    BY <2>1, <2>3, <2>4, PacksAssumption
  <2> QED
    BY <2>1, <2>2, <2>3, <2>4, <2>5 DEF Kept, BatchingTypes
<1>5. CASE UNCHANGED batchingVars
  <2>1. \A d : Answers(d)' = Answers(d)
    BY <1>5 DEF batchingVars, Answers, Listed, SourcesOf
  <2> QED
    BY <1>5, <2>1 DEF batchingVars, Kept, BatchingTypes
<1> QED
  BY <1>2, <1>3, <1>4, <1>5 DEF BatchingNext

LEMMA KeptHolds == BatchingSpec => [](Counted /\ Kept)
<1>1. BatchingInit => Counted
  BY DEF BatchingInit, Counted, BatchesPartition, AsksBounded, Done
<1> QED
  BY <1>1, CountedKept, KeptInitially, KeptKept, PTL DEF BatchingSpec

(* The variables keep their types and the batches partition the packs.     *)
THEOREM BatchInvariantHolds == BatchingSpec => []BatchInvariant
<1>1. Counted /\ Kept => BatchInvariant
  BY DEF Counted, Kept, BatchInvariant
<1> QED
  BY <1>1, KeptHolds, PTL

-----------------------------------------------------------------------------
(* What packs weigh: sums over subsets, by their definition                *)

(* Induction over the subsets of a finite set, for a set of them           *)
LEMMA SubsetInduction ==
    ASSUME NEW S, IsFiniteSet(S), NEW Good,
           {} \in Good,
           \A s \in SUBSET S : s # {} /\ (\A x \in s : s \ {x} \in Good) => s \in Good
    PROVE  \A s \in SUBSET S : s \in Good
<1> DEFINE Bad == { Cardinality(s) : s \in (SUBSET S) \ Good }
<1>1. \A s \in SUBSET S : IsFiniteSet(s) /\ Cardinality(s) \in Nat
  BY FS_Subset, FS_CardinalityType
<1> SUFFICES ASSUME Bad # {} PROVE FALSE
  OBVIOUS
<1>2. Bad \in SUBSET Nat
  BY <1>1
<1>3. PICK n \in Bad : \A k \in Bad : n <= k
  BY <1>2, LeastOf
<1>4. PICK s \in (SUBSET S) \ Good : n = Cardinality(s)
  BY <1>3
<1>5. ASSUME NEW x \in s PROVE s \ {x} \in Good
  <2>1. Cardinality(s \ {x}) = n - 1 /\ n \in Nat
    BY <1>1, <1>4, FS_RemoveElement
  <2>2. Cardinality(s \ {x}) \notin Bad
    <3> HIDE DEF Bad
    <3> QED
      BY <1>3, <2>1
  <2> QED
    BY <1>4, <2>2
<1>6. s # {} /\ s \in SUBSET S /\ s \notin Good
  BY <1>4
<1> QED
  BY <1>5, <1>6, Zenon

Weight(S) == MapThenSumSet(LAMBDA p : packs[p].cost, S)
Picked(s) == CHOOSE x \in s : TRUE
Sums(g, s) == g[s] = IF s = {} THEN 0 ELSE packs[Picked(s)].cost + g[s \ {Picked(s)}]
IsWeigher(g, S) ==
    g = [s \in SUBSET S |-> IF s = {} THEN 0 ELSE packs[Picked(s)].cost + g[s \ {Picked(s)}]]

LEMMA WeightByWeigher ==
    ASSUME NEW S
    PROVE  Weight(S) = (CHOOSE g : IsWeigher(g, S))[S]
BY DEF Weight, MapThenSumSet, MapThenFoldSet, IsWeigher, Picked

LEMMA CostIsNat ==
    ASSUME BatchingTypes
    PROVE  /\ IsFiniteSet(1..Len(packs))
           /\ \A p \in 1..Len(packs) : packs[p].cost \in Nat
<1>1. Len(packs) \in Nat
  BY PacksAssumption DEF BatchingTypes
<1>2. IsFiniteSet(1..Len(packs))
  BY <1>1, FS_Interval
<1>3. \A p \in 1..Len(packs) : packs[p].cost \in Costs
  BY PackTypes
<1> QED
  BY <1>2, <1>3, CostsAssumption

LEMMA PickedIsOne ==
    ASSUME NEW s, s # {}
    PROVE  Picked(s) \in s
BY DEF Picked

(* The recursion of the sum has a solution: one for the subsets up to any  *)
(* size.                                                                   *)
LEMMA WeigherExists ==
    ASSUME BatchingTypes, NEW S \in SUBSET (1..Len(packs))
    PROVE  \E g \in [SUBSET S -> Nat] : IsWeigher(g, S)
<1> DEFINE Solves(n, g) == \A s \in SUBSET S : Cardinality(s) <= n => Sums(g, s)
           Bad == { n \in Nat : ~\E g \in [SUBSET S -> Nat] : Solves(n, g) }
<1>1. \A s \in SUBSET S : IsFiniteSet(s) /\ Cardinality(s) \in Nat
  BY CostIsNat, FS_Subset, FS_CardinalityType
<1>2. \A s \in SUBSET S : s # {} =>
          /\ Picked(s) \in s /\ s \ {Picked(s)} \in SUBSET S
          /\ packs[Picked(s)].cost \in Nat
          /\ Cardinality(s \ {Picked(s)}) = Cardinality(s) - 1
  BY <1>1, PickedIsOne, CostIsNat, FS_RemoveElement
<1>3. Bad = {}
  <2> SUFFICES ASSUME Bad # {} PROVE FALSE
    OBVIOUS
  <2>1. Bad \in SUBSET Nat
    OBVIOUS
  <2>2. PICK n \in Bad : \A k \in Bad : n <= k
    BY <2>1, LeastOf
  <2>3. n \in Nat /\ ~\E g \in [SUBSET S -> Nat] : Solves(n, g)
    OBVIOUS
  <2>4. CASE n = 0
    <3> DEFINE g == [s \in SUBSET S |-> 0]
    <3>1. \A s \in SUBSET S : Cardinality(s) <= 0 => s = {}
      BY <1>1, FS_EmptySet
    <3>2. g \in [SUBSET S -> Nat] /\ Solves(0, g)
      BY <3>1 DEF Sums
    <3> QED
      BY <2>3, <2>4, <3>2
  <2>5. CASE n # 0
    <3>1. n - 1 \in Nat /\ n - 1 \notin Bad
      <4> HIDE DEF Bad
      <4> QED
        BY <2>2, <2>3, <2>5
    <3>2. PICK g \in [SUBSET S -> Nat] : Solves(n - 1, g)
      BY <3>1
    <3> DEFINE h == [s \in SUBSET S |->
                        IF s = {} THEN 0 ELSE packs[Picked(s)].cost + g[s \ {Picked(s)}]]
    <3>3. h \in [SUBSET S -> Nat]
      <4>1. ASSUME NEW s \in SUBSET S, s # {}
            PROVE  packs[Picked(s)].cost + g[s \ {Picked(s)}] \in Nat
        <5>1. g[s \ {Picked(s)}] \in Nat /\ packs[Picked(s)].cost \in Nat
          BY <1>2, <4>1
        <5> QED
          BY <5>1
      <4> QED
        BY <4>1
    <3>4. ASSUME NEW s \in SUBSET S, Cardinality(s) <= n
          PROVE  Sums(h, s)
      <4>1. CASE s = {}
        BY <4>1 DEF Sums
      <4>2. CASE s # {}
        <5> DEFINE t == s \ {Picked(s)}
        <5>1. t \in SUBSET S /\ Cardinality(t) <= n - 1
          <6>1. t \in SUBSET S /\ Cardinality(t) = Cardinality(s) - 1
            BY <1>2, <4>2
          <6>2. Cardinality(s) \in Nat
            BY <1>1
          <6> HIDE DEF t
          <6> QED
            BY <2>3, <3>4, <6>1, <6>2
        <5>2. g[t] = h[t]
          BY <3>2, <5>1 DEF Sums
        <5>3. h[s] = packs[Picked(s)].cost + g[t]
          BY <4>2
        <5> HIDE DEF h
        <5> QED
          BY <4>2, <5>2, <5>3 DEF Sums
      <4> QED
        BY <4>1, <4>2
    <3>5. Solves(n, h)
      BY <3>4
    <3> HIDE DEF Solves, h
    <3> QED
      BY <2>3, <3>3, <3>5
  <2> QED
    BY <2>4, <2>5
<1>4. IsFiniteSet(S) /\ Cardinality(S) \in Nat
  BY <1>1
<1>5. PICK g \in [SUBSET S -> Nat] : Solves(Cardinality(S), g)
  BY <1>3, <1>4
<1>6. \A s \in SUBSET S : Sums(g, s)
  BY <1>4, <1>5, FS_Subset
<1>7. IsWeigher(g, S)
  BY <1>6 DEF Sums, IsWeigher
<1> QED
  BY <1>7

(* The order in which packs are added does not matter.                     *)
LEMMA AnyIsPicked ==
    ASSUME BatchingTypes, NEW S \in SUBSET (1..Len(packs)),
           NEW g \in [SUBSET S -> Nat], IsWeigher(g, S)
    PROVE  \A s \in SUBSET S : \A y \in s : g[s] = packs[y].cost + g[s \ {y}]
<1> DEFINE Good == { s \in SUBSET S : \A y \in s : g[s] = packs[y].cost + g[s \ {y}] }
<1>1. {} \in Good
  OBVIOUS
<1>2. ASSUME NEW s \in SUBSET S, s # {}, \A x \in s : s \ {x} \in Good, NEW y \in s
      PROVE  g[s] = packs[y].cost + g[s \ {y}]
  <2> DEFINE x == Picked(s)
  <2>1. x \in s /\ g[s] = packs[x].cost + g[s \ {x}]
    BY <1>2, PickedIsOne DEF IsWeigher
  <2> HIDE DEF x
  <2>2. CASE x = y
    BY <2>1, <2>2
  <2>3. CASE x # y
    <3>1. (s \ {x}) \ {y} = (s \ {y}) \ {x}
      OBVIOUS
    <3>2. g[s \ {x}] = packs[y].cost + g[(s \ {x}) \ {y}]
      BY <1>2, <2>1, <2>3
    <3>3. g[s \ {y}] = packs[x].cost + g[(s \ {y}) \ {x}]
      BY <1>2, <2>1, <2>3
    <3>4. packs[x].cost \in Nat /\ packs[y].cost \in Nat /\ g[(s \ {y}) \ {x}] \in Nat
      BY <2>1, CostIsNat
    <3> DEFINE rest == g[(s \ {y}) \ {x}]
    <3>5. /\ g[s] = packs[x].cost + (packs[y].cost + rest)
          /\ g[s \ {y}] = packs[x].cost + rest
      BY <2>1, <3>1, <3>2, <3>3, Zenon
    <3>6. rest \in Nat
      BY <3>4
    <3> HIDE DEF rest
    <3>7. packs[x].cost + (packs[y].cost + rest) = packs[y].cost + (packs[x].cost + rest)
      BY <3>4, <3>6
    <3> QED
      BY <3>5, <3>7, Zenon
  <2> QED
    BY <2>2, <2>3
<1>3. \A s \in SUBSET S : s # {} /\ (\A x \in s : s \ {x} \in Good) => s \in Good
  BY <1>2
<1>4. IsFiniteSet(S)
  BY CostIsNat, FS_Subset
<1> HIDE DEF Good
<1>5. \A s \in SUBSET S : s \in Good
  BY <1>1, <1>3, <1>4, SubsetInduction
<1> QED
  BY <1>5 DEF Good

LEMMA MoreWeighsMore ==
    ASSUME BatchingTypes, NEW S \in SUBSET (1..Len(packs)),
           NEW g \in [SUBSET S -> Nat], IsWeigher(g, S)
    PROVE  \A s \in SUBSET S : \A t \in SUBSET s : g[t] <= g[s]
<1> DEFINE Good == { s \in SUBSET S : \A t \in SUBSET s : g[t] <= g[s] }
<1>1. {} \in Good
  <2>1. {} \in SUBSET S /\ \A t \in SUBSET {} : t = {}
    OBVIOUS
  <2>2. g[{}] \in Nat
    BY <2>1
  <2>3. \A t \in SUBSET {} : g[t] <= g[{}]
    <3> SUFFICES ASSUME NEW t \in SUBSET {} PROVE g[t] <= g[{}]
      OBVIOUS
    <3>1. t = {}
      OBVIOUS
    <3>2. g[{}] <= g[{}]
      BY <2>2
    <3> QED
      BY <3>1, <3>2, Zenon
  <2> QED
    BY <2>1, <2>3
<1>2. ASSUME NEW s \in SUBSET S, s # {}, \A x \in s : s \ {x} \in Good, NEW t \in SUBSET s
      PROVE  g[t] <= g[s]
  <2>1. CASE t = s
    <3>1. g[s] \in Nat
      OBVIOUS
    <3> QED
      BY <2>1, <3>1
  <2>2. CASE t # s
    <3>1. PICK y \in s : y \notin t
      BY <2>2
    <3>2. g[t] <= g[s \ {y}]
      BY <1>2, <3>1
    <3>3. g[s] = packs[y].cost + g[s \ {y}]
      <4>1. \A u \in SUBSET S : \A z \in u : g[u] = packs[z].cost + g[u \ {z}]
        BY AnyIsPicked
      <4> QED
        BY <4>1
    <3>4. packs[y].cost \in Nat /\ g[s \ {y}] \in Nat /\ g[t] \in Nat
      BY CostIsNat
    <3> QED
      BY <3>2, <3>3, <3>4
  <2> QED
    BY <2>1, <2>2
<1>3. \A s \in SUBSET S : s # {} /\ (\A x \in s : s \ {x} \in Good) => s \in Good
  BY <1>2
<1>4. IsFiniteSet(S)
  BY CostIsNat, FS_Subset
<1> HIDE DEF Good
<1>5. \A s \in SUBSET S : s \in Good
  BY <1>1, <1>3, <1>4, SubsetInduction
<1> QED
  BY <1>5 DEF Good

(* Two solutions agree where both are defined.                             *)
LEMMA WeighersAgree ==
    ASSUME BatchingTypes, NEW S \in SUBSET (1..Len(packs)), NEW T \in SUBSET S,
           NEW g, IsWeigher(g, S), NEW h, IsWeigher(h, T)
    PROVE  g[T] = h[T]
<1> DEFINE Good == { s \in SUBSET T : g[s] = h[s] }
<1>1. /\ \A s \in SUBSET T : s \in SUBSET S
      /\ {} \in SUBSET T
  OBVIOUS
<1>2. \A s \in SUBSET T : Sums(g, s) /\ Sums(h, s)
  BY <1>1 DEF IsWeigher, Sums
<1>3. {} \in Good
  BY <1>2 DEF Sums
<1>4. ASSUME NEW s \in SUBSET T, s # {}, \A x \in s : s \ {x} \in Good
      PROVE  s \in Good
  <2>1. g[s \ {Picked(s)}] = h[s \ {Picked(s)}]
    BY <1>4, PickedIsOne
  <2> QED
    BY <1>2, <1>4, <2>1 DEF Sums
<1>5. IsFiniteSet(T)
  BY CostIsNat, FS_Subset
<1> HIDE DEF Good
<1>6. \A s \in SUBSET T : s \in Good
  BY <1>3, <1>4, <1>5, SubsetInduction
<1> QED
  BY <1>6 DEF Good

(* Fewer packs weigh no more.                                              *)
LEMMA WeightGrows ==
    ASSUME BatchingTypes, NEW S \in SUBSET (1..Len(packs)), NEW T \in SUBSET S
    PROVE  Weight(S) \in Nat /\ Weight(T) \in Nat /\ Weight(T) <= Weight(S)
<1> DEFINE Whole == CHOOSE g : IsWeigher(g, S)
           Part == CHOOSE g : IsWeigher(g, T)
<1>1. PICK g \in [SUBSET S -> Nat] : IsWeigher(g, S)
  BY WeigherExists
<1>2. PICK h \in [SUBSET T -> Nat] : IsWeigher(h, T)
  BY WeigherExists
<1>3. IsWeigher(Whole, S) /\ IsWeigher(Part, T)
  BY <1>1, <1>2
<1>4. Weight(S) = Whole[S] /\ Weight(T) = Part[T]
  BY WeightByWeigher
<1> HIDE DEF Whole, Part
<1>5. g[S] = Whole[S] /\ g[T] = Part[T]
  BY <1>1, <1>3, WeighersAgree
<1>6. g[S] \in Nat /\ g[T] \in Nat /\ g[T] <= g[S]
  BY <1>1, MoreWeighsMore
<1> QED
  BY <1>4, <1>5, <1>6

-----------------------------------------------------------------------------
(* What is sent                                                            *)

LEMMA MinOfTwo ==
    ASSUME NEW m \in Nat, NEW n \in Nat
    PROVE  Min({m, n}) = IF m <= n THEN m ELSE n
<1>1. Min({m, n}) \in {m, n} /\ \A k \in {m, n} : Min({m, n}) <= k
  BY MinIsOne
<1> QED
  BY <1>1

(* More stories are allowed no less output.                                *)
LEMMA AllowanceGrows ==
    ASSUME NEW m \in Nat, NEW n \in Nat, m <= n
    PROVE  /\ OutputAllowance(m) \in Nat /\ OutputAllowance(n) \in Nat
           /\ OutputAllowance(m) <= OutputAllowance(n)
<1>1. PerStory \in Nat /\ MinOutput \in Nat /\ OutputCap \in Nat
  BY CostsAssumption
<1>2. PICK d \in Nat : n = m + d
  <2>1. n - m \in Nat /\ n = m + (n - m)
    OBVIOUS
  <2> QED
    BY <2>1
<1>3. m * PerStory \in Nat /\ d * PerStory \in Nat /\ n * PerStory = m * PerStory + d * PerStory
  BY <1>1, <1>2
<1> DEFINE less == m * PerStory
           more == n * PerStory
<1>4. less \in Nat /\ more \in Nat /\ less <= more
  BY <1>3
<1> HIDE DEF less, more
<1>5. /\ OutputAllowance(m) = Min({OutputCap, Max({MinOutput, less})})
      /\ OutputAllowance(n) = Min({OutputCap, Max({MinOutput, more})})
  BY DEF OutputAllowance, less, more
<1> DEFINE low == IF MinOutput >= less THEN MinOutput ELSE less
           high == IF MinOutput >= more THEN MinOutput ELSE more
<1>6. Max({MinOutput, less}) = low /\ Max({MinOutput, more}) = high
  BY <1>1, <1>4, MaxOfTwo
<1>7. low \in Nat /\ high \in Nat /\ low <= high
  BY <1>1, <1>4
<1> HIDE DEF low, high
<1>8. /\ OutputAllowance(m) = IF OutputCap <= low THEN OutputCap ELSE low
      /\ OutputAllowance(n) = IF OutputCap <= high THEN OutputCap ELSE high
  BY <1>1, <1>5, <1>6, <1>7, MinOfTwo
<1> QED
  BY <1>1, <1>7, <1>8

Fitting(b) == Size(b) <= limit /\ (Size(b) = 1 \/ Estimated(b) <= Budget)

(* The inductive invariant: what waits to be sent fits, too.               *)
Limited == (\A i \in DOMAIN todo : Fitting(todo[i])) /\ (\A b \in sent : Fitting(b))

LEMMA FittingStays ==
    ASSUME UNCHANGED <<limit, packs>>
    PROVE  \A b : Fitting(b)' <=> Fitting(b)
<1>1. \A b : Weight(PacksOf(b))' = Weight(PacksOf(b))
  BY DEF Weight, MapThenSumSet, MapThenFoldSet, PacksOf
<1>2. \A b : Estimated(b)' = Estimated(b)
  BY <1>1 DEF Weight, Estimated, OutputAllowance, Size
<1> QED
  BY <1>2 DEF Fitting, Size

(* A part of a batch that fits does.                                       *)
LEMMA PartFits ==
    ASSUME BatchingTypes, NEW b \in Batch, b.last <= Len(packs), Fitting(b), Size(b) > 1,
           NEW part \in Batch, b.first <= part.first, part.last <= b.last
    PROVE  Fitting(part)
<1>1. /\ b.first \in Nat /\ b.last \in Nat /\ part.first \in Nat /\ part.last \in Nat
      /\ b.first \in 1..MaxPacks /\ Len(packs) \in Nat /\ part.first <= part.last
  BY PacksAssumption DEF Batch, BatchingTypes
<1>2. Size(b) \in Nat /\ Size(part) \in Nat /\ Size(part) <= Size(b)
  BY <1>1 DEF Size
<1>3. PacksOf(b) \in SUBSET (1..Len(packs)) /\ PacksOf(part) \in SUBSET PacksOf(b)
  BY <1>1 DEF PacksOf
<1>4. /\ Weight(PacksOf(b)) \in Nat /\ Weight(PacksOf(part)) \in Nat
      /\ Weight(PacksOf(part)) <= Weight(PacksOf(b))
  BY <1>3, WeightGrows
<1>5. /\ Estimated(b) = PromptCost + Weight(PacksOf(b)) + OutputAllowance(Size(b))
      /\ Estimated(part) = PromptCost + Weight(PacksOf(part)) + OutputAllowance(Size(part))
  BY DEF Estimated, Weight
<1>6. /\ OutputAllowance(Size(b)) \in Nat /\ OutputAllowance(Size(part)) \in Nat
      /\ OutputAllowance(Size(part)) <= OutputAllowance(Size(b))
  BY <1>2, AllowanceGrows
<1>7. PromptCost \in Nat /\ Budget \in Nat /\ limit \in Nat
  BY CostsAssumption, LimitsAssumption DEF BatchingTypes
<1>8. Estimated(b) <= Budget /\ Size(b) <= limit
  BY <1>2 DEF Fitting
<1>9. Estimated(part) <= Budget
  BY <1>4, <1>5, <1>6, <1>7, <1>8
<1> QED
  BY <1>2, <1>7, <1>8, <1>9 DEF Fitting

LEMMA AddPackLimited ==
    ASSUME Kept, Limited, AddPack
    PROVE  \A i \in DOMAIN todo' : Fitting(todo'[i])
<1> DEFINE p == built + 1
           alone == [first |-> p, last |-> p]
           widened == [todo[Len(todo)] EXCEPT !.last = p]
<1>1. todo \in Seq(Batch) /\ built \in Nat /\ limit \in Nat \ {0}
  BY LimitsAssumption DEF Kept, BatchingTypes
<1>2. Fitting(alone)
  <2>1. Size(alone) = 1
    BY <1>1 DEF Size
  <2> QED
    BY <1>1, <2>1 DEF Fitting
<1>3. CASE todo' = Append(todo, alone)
  <2> HIDE DEF alone
  <2>1. \A i \in DOMAIN todo' : (i \in DOMAIN todo /\ todo'[i] = todo[i]) \/ todo'[i] = alone
    BY <1>1, <1>3
  <2> QED
    BY <1>2, <2>1 DEF Limited
<1>4. CASE Admissible(widened) /\ todo' = [todo EXCEPT ![Len(todo)] = widened]
  <2>1. Fitting(widened)
    BY <1>4 DEF Admissible, Fitting
  <2> HIDE DEF widened
  <2>2. \A i \in DOMAIN todo' : (i \in DOMAIN todo /\ todo'[i] = todo[i]) \/ todo'[i] = widened
    BY <1>1, <1>4
  <2> QED
    BY <2>1, <2>2 DEF Limited
<1> QED
  BY <1>3, <1>4 DEF AddPack

LEMMA SplitLimited ==
    ASSUME Kept, Limited, NEW b \in Batch, TooLarge(b), Size(b) > 1
    PROVE  \A i \in DOMAIN todo' : Fitting(todo'[i])
<1>1. /\ BatchingTypes /\ todo \in Seq(Batch) /\ todo' = Halves(b) \o Tail(todo)
      /\ b.last <= Len(packs) /\ b = todo[1] /\ 1 \in DOMAIN todo
  BY NextBatch DEF Kept, BatchingTypes, TooLarge
<1>2. Fitting(b)
  BY <1>1 DEF Limited
<1>3. PICK left, right \in Stretch :
        /\ Halves(b) = << left, right >>
        /\ left.first = b.first /\ right.last = b.last
        /\ left.first <= left.last /\ left.last = right.first - 1
        /\ right.first <= right.last
  BY HalvesMeet
<1>4. /\ left \in Batch /\ right \in Batch
      /\ b.first <= left.first /\ left.last <= b.last
      /\ b.first <= right.first /\ right.last <= b.last
  <2>1. b.first \in 1..MaxPacks /\ b.last \in 1..MaxPacks /\ MaxPacks \in Nat
    BY PacksAssumption DEF Batch
  <2>2. /\ left = [first |-> left.first, last |-> left.last] /\ left.last \in Nat /\ left.first \in Nat
        /\ right = [first |-> right.first, last |-> right.last] /\ right.last \in Nat /\ right.first \in Nat
    BY DEF Stretch
  <2>3. left.first \in 1..MaxPacks /\ left.last \in 1..MaxPacks
    BY <1>3, <2>1, <2>2
  <2>4. right.first \in 1..MaxPacks /\ right.last \in 1..MaxPacks
    BY <1>3, <2>1, <2>2
  <2> QED
    BY <1>3, <2>1, <2>2, <2>3, <2>4 DEF Batch
<1>5. Fitting(left) /\ Fitting(right)
  BY <1>1, <1>2, <1>4, PartFits
<1> DEFINE rest == Tail(todo)
           pair == << left, right >>
<1>6. todo' = pair \o rest
  BY <1>1, <1>3, Zenon
<1>7. rest \in Seq(Batch) /\ \A i \in DOMAIN rest : i + 1 \in DOMAIN todo /\ rest[i] = todo[i + 1]
  BY <1>1
<1>8. pair \in Seq(Batch) /\ \A i \in DOMAIN pair : pair[i] = left \/ pair[i] = right
  BY <1>4
<1> HIDE DEF rest, pair
<1>9. \A i \in DOMAIN todo' : \/ i \in DOMAIN pair /\ todo'[i] = pair[i]
                              \/ (i - Len(pair)) \in DOMAIN rest /\ todo'[i] = rest[i - Len(pair)]
  BY <1>6, <1>7, <1>8
<1> QED
  BY <1>5, <1>7, <1>8, <1>9 DEF Limited

LEMMA LimitedKept ==
    ASSUME Kept, Limited, [BatchingNext]_batchingVars
    PROVE  Limited'
<1>1. UNCHANGED <<limit, packs>>
  BY DEF BatchingNext, AddPack, Execute, AnsweredFromCache, AnsweredByProvider, TooLarge,
     CallFails, Retry, batchingVars
<1>2. ASSUME \A i \in DOMAIN todo' : Fitting(todo'[i]), \A b \in sent' : Fitting(b)
      PROVE  Limited'
  <2>1. \A b : Fitting(b)' <=> Fitting(b)
    BY <1>1, FittingStays
  <2>2. \A i \in DOMAIN todo' : Fitting(todo[i])'
    <3> SUFFICES ASSUME NEW i \in DOMAIN todo' PROVE Fitting(todo[i])'
      OBVIOUS
    <3> DEFINE d == todo'[i]
    <3>1. Weight(PacksOf(todo[i]))' = Weight(PacksOf(d))
      BY <1>1 DEF Weight, MapThenSumSet, MapThenFoldSet, PacksOf
    <3>2. Size(todo[i])' = Size(d)
      BY DEF Size
    <3>3. Estimated(todo[i])' = Estimated(d)
      BY <1>1, <3>1, <3>2 DEF Weight, Estimated, OutputAllowance
    <3>4. Fitting(d)
      BY <1>2
    <3> QED
      BY <1>1, <3>2, <3>3, <3>4 DEF Fitting
  <2>3. \A b \in sent' : Fitting(b)'
    BY <1>2, <2>1
  <2> QED
    BY <2>2, <2>3 DEF Limited
<1>3. CASE AddPack
  <2>1. sent' = sent
    BY <1>3 DEF AddPack
  <2> QED
    BY <1>2, <1>3, <2>1, AddPackLimited DEF Limited
<1>4. ASSUME NEW b \in Batch, Execute(b)
      PROVE  Limited'
  <2>1. IsNext(b) /\ sent' \in {sent, sent \cup {b}}
    BY <1>4 DEF Execute, AnsweredFromCache, AnsweredByProvider, TooLarge, CallFails, Ask
  <2>2. Fitting(b)
    BY <2>1, NextBatch DEF Limited
  <2>3. \A d \in sent' : Fitting(d)
    BY <2>1, <2>2 DEF Limited
  <2>4. CASE TooLarge(b) /\ Size(b) > 1
    BY <1>2, <2>3, <2>4, SplitLimited
  <2>5. CASE ~(TooLarge(b) /\ Size(b) > 1)
    <3>1. todo' = Tail(todo) /\ todo \in Seq(Batch) /\ todo # << >>
      BY <1>4, <2>1, <2>5
      DEF Execute, AnsweredFromCache, AnsweredByProvider, TooLarge, CallFails, Take, Kept,
          BatchingTypes, IsNext
    <3>2. \A i \in DOMAIN todo' : i + 1 \in DOMAIN todo /\ todo'[i] = todo[i + 1]
      BY <3>1
    <3> QED
      BY <1>2, <2>3, <3>2 DEF Limited
  <2> QED
    BY <2>4, <2>5
<1>5. CASE Retry
  <2>1. sent' = {} /\ todo' = todo
    BY <1>5 DEF Retry
  <2> QED
    BY <1>2, <2>1 DEF Limited
<1>6. CASE UNCHANGED batchingVars
  <2>1. sent' = sent /\ todo' = todo
    BY <1>6 DEF batchingVars
  <2> QED
    BY <1>2, <2>1 DEF Limited
<1> QED
  BY <1>3, <1>4, <1>5, <1>6 DEF BatchingNext

(* No request is over the limit of stories or, unless it is for a single   *)
(* pack, of tokens: the halves of a batch fit because it did.              *)
THEOREM SentIsWithinLimits == BatchingSpec => []SentWithinLimits
<1>1. BatchingInit => Limited
  <2> SUFFICES ASSUME BatchingInit PROVE Limited
    OBVIOUS
  <2>1. DOMAIN todo = {} /\ sent = {}
    BY DEF BatchingInit
  <2> QED
    BY <2>1 DEF Limited
<1>2. Limited => SentWithinLimits
  BY DEF Limited, SentWithinLimits, Fitting
<1> QED
  BY <1>1, <1>2, LimitedKept, KeptHolds, PTL DEF BatchingSpec

-----------------------------------------------------------------------------
(* What is lost                                                            *)

(* A finite set maps one to one into one that is no smaller.               *)
LEMMA IntoNoSmaller ==
    ASSUME NEW A, NEW B, IsFiniteSet(A), IsFiniteSet(B), Cardinality(A) <= Cardinality(B)
    PROVE  \E f \in [A -> B] : \A x, y \in A : f[x] = f[y] => x = y
<1>1. Cardinality(A) \in Nat /\ Cardinality(B) \in Nat
  BY FS_CardinalityType
<1>2. PICK h \in Bijection(1..Cardinality(A), A) : TRUE
  BY FS_CardinalityType DEF ExistsBijection
<1>3. PICK k \in Bijection(1..Cardinality(B), B) : TRUE
  BY FS_CardinalityType DEF ExistsBijection
<1> DEFINE At(x) == CHOOSE i \in 1..Cardinality(A) : h[i] = x
           f == [x \in A |-> k[At(x)]]
<1>4. \A x \in A : \E i \in 1..Cardinality(A) : h[i] = x
  BY <1>2 DEF Bijection, Surjection
<1>5. \A x \in A : At(x) \in 1..Cardinality(A) /\ h[At(x)] = x
  BY <1>4
<1> HIDE DEF At
<1>6. \A x \in A : At(x) \in 1..Cardinality(B)
  BY <1>1, <1>5
<1>7. /\ k \in [1..Cardinality(B) -> B]
      /\ \A i, j \in 1..Cardinality(B) : k[i] = k[j] => i = j
  BY <1>3 DEF Bijection, Injection, IsInjective
<1>8. f \in [A -> B]
  BY <1>6, <1>7
<1>9. \A x, y \in A : f[x] = f[y] => x = y
  BY <1>5, <1>6, <1>7
<1> QED
  BY <1>8, <1>9

(* An answer with a story for each place, none of them for a source that   *)
(* has had its stories already, has one for every source.                  *)
LEMMA ListCoversSources ==
    ASSUME NEW b \in Batch, NEW answer \in Answers(b),
           answer.kind \notin Unusable, ~Doubles(b, answer)
    PROVE  Listing(answer) = SourcesOf(b)
<1> DEFINE list == answer.list
           Places(s) == { i \in 1..Size(b) : list[i] = s }
           Own(s) == PacksFor(b, s)
<1>1. list \in [1..Size(b) -> SourcesOf(b)]
  BY DEF Answers, Listed
<1>2. /\ b.first \in Int /\ b.last \in Int /\ b.first <= b.last
      /\ Size(b) = b.last - b.first + 1 /\ Size(b) \in Nat /\ 1 \in Int
  BY PacksAssumption DEF Batch, Size
<1>3. IsFiniteSet(1..Size(b)) /\ Cardinality(1..Size(b)) = Size(b)
  BY <1>2, FS_Interval
<1>4. IsFiniteSet(PacksOf(b)) /\ Cardinality(PacksOf(b)) = Size(b)
  BY <1>2, FS_Interval DEF PacksOf
<1>5. ASSUME NEW s \in SourcesOf(b)
      PROVE  \E g \in [Places(s) -> Own(s)] : \A x, y \in Places(s) : g[x] = g[y] => x = y
  <2>1. IsFiniteSet(Places(s)) /\ IsFiniteSet(Own(s))
    <3>1. Places(s) \in SUBSET (1..Size(b)) /\ Own(s) \in SUBSET PacksOf(b)
      BY DEF PacksFor
    <3> QED
      BY <1>3, <1>4, <3>1, FS_Subset
  <2>2. Cardinality(Places(s)) \in Nat /\ Cardinality(Own(s)) \in Nat
    BY <2>1, FS_CardinalityType
  <2>3. ~(Cardinality(Places(s)) > Cardinality(Own(s)))
    <3>1. DOMAIN answer.list = 1..Size(b)
      BY <1>1
    <3> QED
      BY <3>1 DEF Doubles
  <2>4. Cardinality(Places(s)) <= Cardinality(Own(s))
    <3> HIDE DEF Places, Own
    <3> QED
      BY <2>2, <2>3
  <2> QED
    BY <2>1, <2>4, IntoNoSmaller
<1>6. Listing(answer) \subseteq SourcesOf(b)
  BY <1>1 DEF Listing
<1>7. ASSUME NEW lost \in SourcesOf(b), lost \notin Listing(answer)
      PROVE  FALSE
  <2> DEFINE Giving(s) == CHOOSE g \in [Places(s) -> Own(s)] :
                              \A x, y \in Places(s) : g[x] = g[y] => x = y
             given == [i \in 1..Size(b) |-> Giving(list[i])[i]]
             others == PacksOf(b) \ Own(lost)
  <2>1. \A s \in SourcesOf(b) :
            /\ Giving(s) \in [Places(s) -> Own(s)]
            /\ \A x, y \in Places(s) : Giving(s)[x] = Giving(s)[y] => x = y
    BY <1>5
  <2> HIDE DEF Giving
  <2>2. ASSUME NEW i \in 1..Size(b)
        PROVE  /\ list[i] \in SourcesOf(b) /\ i \in Places(list[i]) /\ list[i] # lost
               /\ given[i] \in Own(list[i])
    <3>1. list[i] \in SourcesOf(b) /\ i \in Places(list[i])
      BY <1>1
    <3>2. list[i] \in Listing(answer)
      BY <1>1 DEF Listing
    <3>3. Giving(list[i])[i] \in Own(list[i])
      BY <2>1, <3>1
    <3> QED
      BY <1>7, <3>1, <3>2, <3>3
  <2>3. \A s : \A p \in Own(s) : p \in PacksOf(b) /\ packs[p].source = s
    BY DEF PacksFor
  <2>4. given \in [1..Size(b) -> others]
    <3> SUFFICES ASSUME NEW i \in 1..Size(b) PROVE given[i] \in others
      OBVIOUS
    <3>1. given[i] \in Own(list[i]) /\ list[i] # lost
      BY <2>2
    <3>2. given[i] \in PacksOf(b) /\ packs[given[i]].source = list[i]
      BY <2>3, <3>1
    <3>3. given[i] \notin Own(lost)
      BY <2>3, <3>1, <3>2
    <3> QED
      BY <3>2, <3>3
  <2>5. others \in SUBSET PacksOf(b) /\ others # PacksOf(b)
    BY <1>7 DEF SourcesOf, PacksFor
  <2>6. IsFiniteSet(others) /\ Cardinality(others) < Size(b)
    <3>1. /\ IsFiniteSet(others) /\ Cardinality(others) <= Size(b)
          /\ Size(b) # Cardinality(others)
      BY <1>4, <2>5, FS_Subset
    <3>2. Cardinality(others) \in Nat
      BY <3>1, FS_CardinalityType
    <3> HIDE DEF others
    <3> QED
      BY <1>2, <3>1, <3>2
  <2>7. \A i, j \in 1..Size(b) : given[i] = given[j] => i = j
    <3> SUFFICES ASSUME NEW i \in 1..Size(b), NEW j \in 1..Size(b), given[i] = given[j]
                 PROVE  i = j
      OBVIOUS
    <3>1. packs[given[i]].source = list[i] /\ packs[given[j]].source = list[j]
      BY <2>2, <2>3
    <3>2. list[i] = list[j]
      BY <3>1, Zenon
    <3>3. i \in Places(list[i]) /\ j \in Places(list[i]) /\ list[i] \in SourcesOf(b)
      BY <2>2, <3>2
    <3>4. Giving(list[i])[i] = Giving(list[i])[j]
      BY <3>2
    <3> QED
      BY <2>1, <3>3, <3>4
  <2> HIDE DEF given, others
  <2>8. \E x, y \in 1..Size(b) : x # y /\ given[x] = given[y]
    BY <1>3, <2>4, <2>6, FS_PigeonHole
  <2> QED
    BY <2>7, <2>8
<1> QED
  BY <1>6, <1>7

(* The inductive invariant behind what is lost: every source of the packs  *)
(* that are done has a record, unless one was let through twice.           *)
Covered == doubled \/ DOMAIN stories = { packs[p].source : p \in 1..Done }

(* The records of a batch are of its sources.                              *)
LEMMA GatedCovers ==
    ASSUME NEW b \in Batch, NEW answer \in Answers(b), ~Doubles(b, answer)
    PROVE  DOMAIN Gated(b, answer) = SourcesOf(b)
<1>1. CASE answer.kind \in Unusable
  BY <1>1 DEF Gated, FailureRecords
<1>2. CASE answer.kind \notin Unusable
  <2>1. DOMAIN Gated(b, answer) = Listing(answer)
    BY <1>2 DEF Gated
  <2> QED
    BY <1>2, <2>1, ListCoversSources
<1> QED
  BY <1>1, <1>2

LEMMA TakeCovered ==
    ASSUME Counted, Covered, ~doubled, NEW b \in Batch, IsNext(b), NEW records, Take(records),
           DOMAIN records = SourcesOf(b), UNCHANGED <<built, packs>>
    PROVE  DOMAIN stories' = { packs[p].source : p \in 1..Done' }
<1>1. /\ Done' = b.last /\ Done = b.first - 1 /\ b.first <= b.last
      /\ Done \in Nat /\ Done' \in Nat
  BY TakeDone DEF IsNext, Take
<1>2. DOMAIN stories' = DOMAIN stories \cup SourcesOf(b)
  BY DEF Take, Merged
<1>3. DOMAIN stories = { packs[p].source : p \in 1..(b.first - 1) }
  BY <1>1 DEF Covered
<1>4. \A p : p \in 1..b.last <=> p \in 1..(b.first - 1) \/ p \in PacksOf(b)
  <2>1. b.first \in 1..MaxPacks /\ b.last \in 1..MaxPacks /\ MaxPacks \in Nat
    BY PacksAssumption DEF Batch
  <2> QED
    BY <1>1, <2>1 DEF PacksOf
<1> QED
  BY <1>1, <1>2, <1>3, <1>4 DEF SourcesOf

LEMMA CoveredKept ==
    ASSUME Counted, Kept, Covered, [BatchingNext]_batchingVars
    PROVE  Covered'
<1>1. CASE AddPack
  <2>1. Done' = Done /\ UNCHANGED <<packs, stories, doubled>>
    BY <1>1, AddPackDone DEF AddPack
  <2> QED
    BY <2>1 DEF Covered
<1>2. ASSUME NEW b \in Batch, Execute(b)
      PROVE  Covered'
  <2>1. CASE TooLarge(b) /\ Size(b) > 1
    <3>1. Done' = Done /\ UNCHANGED <<packs, stories, doubled>>
      BY <2>1, SplitDone DEF TooLarge, IsNext
    <3> QED
      BY <3>1 DEF Covered
  <2>2. CASE ~(TooLarge(b) /\ Size(b) > 1)
    <3>1. IsNext(b) /\ UNCHANGED <<packs, built>>
      BY <1>2 DEF Execute, AnsweredFromCache, AnsweredByProvider, TooLarge, CallFails
    <3>2. b.last <= Len(packs) /\ cache[b] \in Answers(b) \cup {None}
      BY <3>1, NextBatch DEF Kept, BatchingTypes
    <3>3. \/ \E answer \in Answers(b) :
                Take(Gated(b, answer)) /\ doubled' = (doubled \/ Doubles(b, answer))
          \/ Take(FailureRecords(b)) /\ doubled' = doubled
      BY <1>2, <2>2, <3>2
      DEF Execute, AnsweredFromCache, AnsweredByProvider, TooLarge, CallFails
    <3>4. CASE doubled'
      BY <3>4 DEF Covered
    <3>5. CASE ~doubled'
      <4>1. ~doubled /\ \E records : Take(records) /\ DOMAIN records = SourcesOf(b)
        <5>1. CASE Take(FailureRecords(b)) /\ doubled' = doubled
          BY <3>5, <5>1 DEF FailureRecords
        <5>2. ASSUME NEW answer \in Answers(b), Take(Gated(b, answer)),
                     doubled' = (doubled \/ Doubles(b, answer))
              PROVE  ~doubled /\ DOMAIN Gated(b, answer) = SourcesOf(b)
          <6>1. ~doubled /\ ~Doubles(b, answer)
            BY <3>5, <5>2, Zenon
          <6> QED
            BY <6>1, GatedCovers
        <5> QED
          BY <3>3, <5>1, <5>2
      <4>2. DOMAIN stories' = { packs[p].source : p \in 1..Done' }
        BY <3>1, <4>1, TakeCovered
      <4> QED
        BY <3>1, <4>2 DEF Covered
    <3> QED
      BY <3>4, <3>5
  <2> QED
    BY <2>1, <2>2
<1>3. CASE Retry
  <2>1. todo' = << >> /\ built' = 0 /\ stories' = << >>
    BY <1>3 DEF Retry, Returned
  <2>2. Done' = 0 /\ DOMAIN stories' = {} /\ 1..0 = {}
    BY <2>1 DEF Done
  <2> QED
    BY <2>2 DEF Covered
<1>4. CASE UNCHANGED batchingVars
  BY <1>4 DEF batchingVars, Covered, Done
<1> QED
  BY <1>1, <1>2, <1>3, <1>4 DEF BatchingNext

(* A source without a record in the end was crowded out by one that the    *)
(* model answered twice: halving, failed calls and cached answers lose     *)
(* none.                                                                   *)
THEOREM LostToDoublesOnly == BatchingSpec => []LostOnlyToDoubles
<1>1. BatchingInit => Covered
  <2> SUFFICES ASSUME BatchingInit PROVE Covered
    OBVIOUS
  <2>1. Done = 0 /\ DOMAIN stories = {} /\ 1..0 = {}
    BY DEF BatchingInit, Done
  <2> QED
    BY <2>1 DEF Covered
<1>2. Counted /\ Kept /\ Covered => LostOnlyToDoubles
  <2> SUFFICES ASSUME Kept, Covered, Returned, ~doubled
               PROVE  DOMAIN stories = { packs[p].source : p \in DOMAIN packs }
    BY DEF LostOnlyToDoubles
  <2>1. Done = Len(packs) /\ DOMAIN packs = 1..Len(packs)
    BY DEF Returned, Done, Kept, BatchingTypes
  <2> QED
    BY <2>1 DEF Covered
<1> QED
  BY <1>1, <1>2, CoveredKept, KeptHolds, PTL DEF BatchingSpec

=============================================================================
