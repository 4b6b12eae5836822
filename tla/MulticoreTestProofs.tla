------------------------ MODULE MulticoreTestProofs ------------------------
(***************************************************************************)
(* The queue between the cores, for any capacity, period and number of     *)
(* ids: how long the main task may be blocked before a reading is lost.    *)
(***************************************************************************)
EXTENDS MulticoreTest, TLAPS

(* The assumptions as facts about numbers.                                 *)
LEMMA Numbers ==
  /\ IdCount \in Nat \ {0} /\ QueueCapacity \in Nat \ {0} /\ QueueCapacity < IdCount
  /\ ReadingPeriod \in Nat /\ ReadingPeriod > 1
  BY IdCountAssumption, QueueCapacityAssumption, ReadingPeriodAssumption

(* The seconds of the readings in a queue of n.                            *)
Seconds(n) == n * ReadingPeriod

(* One reading more is one period more, and the capacity is the patience.  *)
LEMMA SecondsGrow ==
  /\ \A n \in Nat : Seconds(n) \in Nat /\ Seconds(n + 1) = Seconds(n) + ReadingPeriod
  /\ Seconds(0) = 0
  /\ Patience = Seconds(QueueCapacity) - 1 /\ Patience \in Nat
  /\ \A n \in 0 .. QueueCapacity : Seconds(n) <= Patience + 1
  BY Numbers DEF Seconds, Patience

(* The readings in the queue were made while main was blocked: it slept    *)
(* for one second at most of the time since the queue was last empty       *)
(* that it did not take a reading for.                                     *)
MadeWhileBlocked ==
  queue # <<>> =>
    /\ blocked >= Seconds(Len(queue)) - due - 1
    /\ main # "loop" => blocked >= Patience \/ blocked >= Seconds(Len(queue)) - due

(* The inductive invariant.                                                *)
Inv == TypeOK /\ MadeWhileBlocked

(* Initially the queue is empty.                                           *)
LEMMA InitInv == Init => Inv
  <1> SUFFICES ASSUME Init PROVE Inv
    OBVIOUS
  <1>1. <<>> \in Seq(0 .. IdCount - 1) /\ Len(<<>>) = 0
    OBVIOUS
  <1>2. /\ 0 \in 0 .. IdCount - 1 /\ 1 \in 0 .. IdCount - 1
        /\ 0 \in 0 .. IdCount /\ 0 \in 0 .. Patience
    BY Numbers, SecondsGrow
  <1> QED BY <1>1, <1>2, Numbers DEF Init, Inv, TypeOK, MadeWhileBlocked

(* What is left of a queue when its head is taken.                         *)
LEMMA HeadAndTail ==
  ASSUME NEW S, NEW q \in Seq(S), q # <<>>
  PROVE  Head(q) \in S /\ Tail(q) \in Seq(S) /\ Len(Tail(q)) = Len(q) - 1 /\ Len(q) \in Nat
  OBVIOUS

(* Every step keeps the variables in their types.                          *)
LEMMA NextTypeOK ==
  ASSUME TypeOK, [Next]_vars
  PROVE  TypeOK'
  <1> USE DEF TypeOK
  <1>1. CASE UNCHANGED vars
    BY <1>1 DEF vars
  <1>2. CASE MakeReading
    <2>1. NextId(i) \in 0 .. IdCount - 1
      BY Numbers DEF NextId
    <2>2. CappedInc(dropped, IdCount) \in 0 .. IdCount
      BY Numbers DEF CappedInc
    <2>3. Append(queue, i) \in Seq(0 .. IdCount - 1) /\ Len(Append(queue, i)) = Len(queue) + 1
      OBVIOUS
    <2>4. Len(queue) \in Nat
      OBVIOUS
    <2> HIDE DEF NextId, CappedInc
    <2>5. queue' \in Seq(0 .. IdCount - 1) /\ dropped' \in 0 .. IdCount
      BY <1>2, <2>2, <2>3 DEF MakeReading
    <2>6. Len(queue') <= QueueCapacity
      BY <1>2, <2>3, <2>4, Numbers DEF MakeReading
    <2>7. due' \in 0 .. ReadingPeriod
      BY <1>2, Numbers DEF MakeReading
    <2> QED BY <1>2, <2>1, <2>5, <2>6, <2>7 DEF MakeReading
  <1>3. CASE TakeReading
    <2>1. queue \in Seq(0 .. IdCount - 1) /\ queue # <<>>
      BY <1>3 DEF TakeReading
    <2>2. /\ Head(queue) \in 0 .. IdCount - 1
          /\ Tail(queue) \in Seq(0 .. IdCount - 1)
          /\ Len(Tail(queue)) = Len(queue) - 1 /\ Len(queue) \in Nat
      BY <2>1, HeadAndTail
    <2>3. Len(Tail(queue)) <= QueueCapacity
      BY <2>2, Numbers
    <2>4. 0 \in 0 .. Patience
      BY SecondsGrow
    <2>5. blocked' \in 0 .. Patience
      BY <1>3, <2>4 DEF TakeReading
    <2> QED BY <1>3, <2>2, <2>3, <2>5 DEF TakeReading
  <1>4. CASE NoReading \/ PublishReturns
    BY <1>4 DEF NoReading, PublishReturns
  <1>5. CASE Tick
    <2>1. CappedInc(blocked, Patience) \in 0 .. Patience
      <3>1. Patience \in Nat /\ blocked \in 0 .. Patience
        BY SecondsGrow
      <3> QED BY <3>1 DEF CappedInc
    <2>2. 0 \in 0 .. Patience
      BY SecondsGrow
    <2>3. blocked' \in 0 .. Patience
      BY <1>5, <2>1, <2>2 DEF Tick
    <2>4. due' \in 0 .. ReadingPeriod
      BY <1>5, Numbers DEF Tick
    <2> QED BY <1>5, <2>3, <2>4 DEF Tick
  <1> QED BY <1>1, <1>2, <1>3, <1>4, <1>5 DEF Next

(* A reading more is five seconds more to the next.                        *)
LEMMA MakeReadingKeeps ==
  ASSUME Inv, MakeReading
  PROVE  MadeWhileBlocked'
  <1>1. /\ due = 0 /\ due' = ReadingPeriod /\ main' = main /\ blocked' = blocked
        /\ queue' \in {queue, Append(queue, i)}
    BY DEF MakeReading
  <1>2. /\ queue \in Seq(0 .. IdCount - 1) /\ blocked \in Nat
        /\ i \in 0 .. IdCount - 1
        /\ Len(queue) \in Nat
    BY DEF Inv, TypeOK
  <1>3. CASE queue' = queue
    <2>1. Seconds(Len(queue)) \in Nat
      BY <1>2, SecondsGrow
    <2>2. ASSUME queue # <<>>
          PROVE  /\ blocked >= Seconds(Len(queue)) - ReadingPeriod - 1
                 /\ main # "loop" => blocked >= Patience
                                     \/ blocked >= Seconds(Len(queue)) - ReadingPeriod
      BY <1>1, <1>2, <2>1, <2>2, Numbers DEF Inv, MadeWhileBlocked
    <2> QED BY <1>1, <1>3, <2>2 DEF MadeWhileBlocked
  <1>4. CASE queue' = Append(queue, i)
    <2>1. Len(queue') = Len(queue) + 1
      BY <1>2, <1>4
    <2>2. Seconds(Len(queue')) = Seconds(Len(queue)) + ReadingPeriod
      BY <1>2, <2>1, SecondsGrow
    <2>3. CASE queue = <<>>
      <3>1. Seconds(Len(queue')) = ReadingPeriod
        BY <2>2, <2>3, Numbers, SecondsGrow
      <3> QED BY <1>1, <1>2, <3>1, Numbers DEF MadeWhileBlocked
    <2>4. CASE queue # <<>>
      <3>1. Seconds(Len(queue)) \in Nat
        BY <1>2, SecondsGrow
      <3>2. /\ blocked >= (Seconds(Len(queue)) + ReadingPeriod) - ReadingPeriod - 1
            /\ main # "loop" => \/ blocked >= Patience
                                \/ blocked >= (Seconds(Len(queue)) + ReadingPeriod) - ReadingPeriod
        BY <1>1, <1>2, <2>4, <3>1, Numbers DEF Inv, MadeWhileBlocked
      <3> QED BY <1>1, <2>2, <3>2 DEF MadeWhileBlocked
    <2> QED BY <2>3, <2>4
  <1> QED BY <1>1, <1>3, <1>4

(* A reading less leaves more than the second the main task will sleep.    *)
LEMMA TakeReadingKeeps ==
  ASSUME Inv, TakeReading
  PROVE  MadeWhileBlocked'
  <1>1. /\ queue # <<>> /\ queue' = Tail(queue) /\ due' = due
        /\ queue' # <<>> => blocked' = blocked
        /\ main = "loop"
    BY DEF TakeReading
  <1>2. /\ queue \in Seq(0 .. IdCount - 1) /\ blocked \in Nat /\ due \in Nat
    BY DEF Inv, TypeOK
  <1>3. Len(queue') \in Nat /\ Len(queue) = Len(queue') + 1
    BY <1>1, <1>2
  <1>4. Seconds(Len(queue)) = Seconds(Len(queue')) + ReadingPeriod /\ Seconds(Len(queue')) \in Nat
    BY <1>3, SecondsGrow
  <1>5. blocked >= Seconds(Len(queue)) - due - 1
    BY <1>1 DEF Inv, MadeWhileBlocked
  <1>6. blocked >= Seconds(Len(queue')) - due
    BY <1>2, <1>4, <1>5, Numbers
  <1>7. blocked >= Seconds(Len(queue')) - due - 1
    BY <1>2, <1>4, <1>6
  <1> QED BY <1>1, <1>6, <1>7 DEF MadeWhileBlocked

(* A second passes: the main task was blocked in it, or had it in reserve. *)
LEMMA TickKeeps ==
  ASSUME Inv, Tick
  PROVE  MadeWhileBlocked'
  <1> SUFFICES ASSUME queue' # <<>> PROVE MadeWhileBlocked'
    BY DEF MadeWhileBlocked
  <1> DEFINE s == Seconds(Len(queue))
  <1>1. /\ due \in Nat /\ due > 0 /\ due' = due - 1 /\ queue' = queue /\ queue # <<>>
        /\ blocked \in 0 .. Patience
        /\ Len(queue) \in 0 .. QueueCapacity
    BY DEF Inv, TypeOK, Tick
  <1>2. s \in Nat /\ s <= Patience + 1 /\ Patience \in Nat
    BY <1>1, SecondsGrow
  <1>3. blocked >= Patience \/ blocked >= s - due
    BY <1>1 DEF Inv, MadeWhileBlocked, Tick
  <1>4. CASE main = "sleep"
    <2>1. main' = "loop" /\ blocked' = blocked
      BY <1>4 DEF Tick
    <2>2. blocked >= s - (due - 1) - 1
      <3> HIDE DEF s
      <3> QED BY <1>1, <1>2, <1>3
    <2> QED BY <1>1, <2>1, <2>2 DEF MadeWhileBlocked
  <1>5. CASE main # "sleep"
    <2>1. blocked' = IF blocked < Patience THEN blocked + 1 ELSE blocked
      BY <1>1, <1>5 DEF Tick, CappedInc
    <2>2. CASE blocked < Patience
      <3>1. /\ blocked + 1 >= Patience \/ blocked + 1 >= s - (due - 1)
            /\ blocked + 1 >= s - (due - 1) - 1
        <4> HIDE DEF s
        <4> QED BY <1>1, <1>2, <1>3, <2>2
      <3> QED BY <1>1, <2>1, <2>2, <3>1 DEF MadeWhileBlocked
    <2>3. CASE ~(blocked < Patience)
      <3>1. blocked >= Patience /\ blocked >= s - (due - 1) - 1
        <4> HIDE DEF s
        <4> QED BY <1>1, <1>2, <2>3
      <3> QED BY <1>1, <2>1, <2>3, <3>1 DEF MadeWhileBlocked
    <2> QED BY <2>2, <2>3
  <1> QED BY <1>4, <1>5

(* The invariant is inductive.                                             *)
LEMMA NextInv == Inv /\ [Next]_vars => Inv'
  <1> SUFFICES ASSUME Inv, [Next]_vars PROVE Inv'
    OBVIOUS
  <1>1. TypeOK'
    BY NextTypeOK DEF Inv
  <1>2. CASE UNCHANGED vars
    BY <1>1, <1>2 DEF vars, Inv, MadeWhileBlocked
  <1>3. CASE NoReading \/ PublishReturns
    BY <1>1, <1>3 DEF NoReading, PublishReturns, Inv, MadeWhileBlocked
  <1> QED BY <1>1, <1>2, <1>3, MakeReadingKeeps, TakeReadingKeeps, TickKeeps DEF Next, Inv

(* The inductive invariant holds in every reachable state.                 *)
THEOREM Invariance == Spec => []Inv
  BY InitInv, NextInv, PTL DEF Spec

(* Every variable keeps its type: the queue never exceeds its capacity.    *)
THEOREM TypeCorrect == Spec => []TypeOK
  <1>1. Inv => TypeOK
    BY DEF Inv
  <1> QED BY <1>1, Invariance, PTL

(* No reading is dropped before the main task was blocked for all but one  *)
(* of the seconds the queue bridges.                                       *)
THEOREM QueueBridges == Spec => BridgesBlocking
  <1>1. Inv /\ [Next]_vars => [dropped' # dropped => blocked >= Patience]_vars
    <2> SUFFICES ASSUME Inv, Next, dropped' # dropped PROVE blocked >= Patience
      OBVIOUS
    <2>1. MakeReading /\ ~(Len(queue) < QueueCapacity)
      BY DEF Next, MakeReading, TakeReading, NoReading, PublishReturns, Tick
    <2>2. queue \in Seq(0 .. IdCount - 1) /\ Len(queue) <= QueueCapacity /\ Len(queue) \in Nat
      BY DEF Inv, TypeOK
    <2>3. Len(queue) = QueueCapacity /\ queue # <<>>
      BY <2>1, <2>2, Numbers
    <2>4. blocked >= Seconds(QueueCapacity) - 0 - 1
      BY <2>1, <2>3 DEF Inv, MadeWhileBlocked, MakeReading
    <2>5. Seconds(QueueCapacity) \in Nat /\ Patience = Seconds(QueueCapacity) - 1
      BY Numbers, SecondsGrow
    <2> QED BY <2>4, <2>5
  <1> QED BY <1>1, Invariance, PTL DEF Spec, BridgesBlocking
-----------------------------------------------------------------------------
(* How many readings ago the id x was given out last, if the next is n.    *)
Age(x, n) == IF x < n THEN n - x ELSE n - x + IdCount

(* The readings under way are those of ages that the queue and the drops   *)
(* account for, older ones in front.                                       *)
InTurn ==
  dropped < IdCount - QueueCapacity =>
    /\ \A k \in 1 .. Len(queue) : Age(queue[k], i) <= Len(queue) + dropped
    /\ \A j, k \in 1 .. Len(queue) : j < k => Age(queue[j], i) > Age(queue[k], i)
    /\ main = "publish" =>
         /\ Age(entry, i) <= Len(queue) + 1 + dropped
         /\ \A k \in 1 .. Len(queue) : Age(entry, i) > Age(queue[k], i)

(* With the next id every reading is one older, unless its id came round.  *)
LEMMA AgeGrows ==
  ASSUME NEW n \in 0 .. IdCount - 1, NEW x \in 0 .. IdCount - 1
  PROVE  /\ Age(x, n) \in 1 .. IdCount
         /\ Age(x, n) < IdCount => Age(x, NextId(n)) = Age(x, n) + 1
         /\ Age(n, NextId(n)) = 1
  <1>1. NextId(n) = IF n + 1 = IdCount THEN 0 ELSE n + 1
    <2>1. CASE n + 1 = IdCount
      BY <2>1, Numbers DEF NextId
    <2>2. CASE n + 1 # IdCount
      <3>1. n + 1 \in 0 .. IdCount - 1
        BY <2>2, Numbers
      <3> QED BY <2>2, <3>1, Numbers DEF NextId
    <2> QED BY <2>1, <2>2
  <1>2. CASE n + 1 = IdCount
    BY <1>1, <1>2, Numbers DEF Age
  <1>3. CASE n + 1 # IdCount
    BY <1>1, <1>3, Numbers DEF Age
  <1> QED BY <1>2, <1>3

(* The elements of a sequence, also once its head is taken.                *)
LEMMA ElementsOf ==
  ASSUME NEW S, NEW q \in Seq(S)
  PROVE  /\ Len(q) \in Nat
         /\ \A k \in 1 .. Len(q) : q[k] \in S
         /\ q # <<>> => /\ Len(q) >= 1 /\ Len(Tail(q)) = Len(q) - 1 /\ Head(q) = q[1]
                       /\ \A k \in 1 .. Len(q) - 1 : Tail(q)[k] = q[k + 1]
  OBVIOUS

(* As long as no id came round, all readings grow older by one.            *)
LEMMA AllGrowOlder ==
  ASSUME TypeOK, InTurn, dropped < IdCount - QueueCapacity,
         Len(queue) + dropped < IdCount,
         main = "publish" => Len(queue) + 1 + dropped < IdCount
  PROVE  /\ \A k \in 1 .. Len(queue) :
              /\ Age(queue[k], i) \in 1 .. IdCount
              /\ Age(queue[k], NextId(i)) = Age(queue[k], i) + 1
         /\ Age(entry, i) \in 1 .. IdCount
         /\ main = "publish" => Age(entry, NextId(i)) = Age(entry, i) + 1
  <1>1. /\ Len(queue) \in Nat /\ i \in 0 .. IdCount - 1 /\ entry \in 0 .. IdCount - 1
        /\ dropped \in 0 .. IdCount
        /\ \A k \in 1 .. Len(queue) : queue[k] \in 0 .. IdCount - 1
    BY ElementsOf DEF TypeOK
  <1>2. /\ \A k \in 1 .. Len(queue) : Age(queue[k], i) \in 1 .. IdCount
        /\ Age(entry, i) \in 1 .. IdCount
    BY <1>1, AgeGrows
  <1>3. /\ \A k \in 1 .. Len(queue) : Age(queue[k], i) < IdCount
        /\ main = "publish" => Age(entry, i) < IdCount
    BY <1>1, <1>2, Numbers DEF InTurn
  <1>4. \A k \in 1 .. Len(queue) : Age(queue[k], NextId(i)) = Age(queue[k], i) + 1
    BY <1>1, <1>3, AgeGrows
  <1>5. main = "publish" => Age(entry, NextId(i)) = Age(entry, i) + 1
    BY <1>1, <1>3, AgeGrows
  <1> QED BY <1>2, <1>4, <1>5

(* A reading is put behind the others, or dropped; all others are one      *)
(* older.                                                                  *)
LEMMA MakeReadingInTurn ==
  ASSUME TypeOK, InTurn, MakeReading
  PROVE  InTurn'
  <1> SUFFICES ASSUME dropped' < IdCount - QueueCapacity PROVE InTurn'
    BY DEF InTurn
  <1>1. /\ queue \in Seq(0 .. IdCount - 1) /\ Len(queue) \in Nat /\ Len(queue) <= QueueCapacity
        /\ i \in 0 .. IdCount - 1 /\ entry \in 0 .. IdCount - 1 /\ dropped \in 0 .. IdCount
        /\ \A k \in 1 .. Len(queue) : queue[k] \in 0 .. IdCount - 1
    BY ElementsOf DEF TypeOK
  <1>2. i' = NextId(i) /\ entry' = entry /\ main' = main
    BY DEF MakeReading
  <1>3. CASE Len(queue) < QueueCapacity
    <2>1. queue' = Append(queue, i) /\ dropped' = dropped
      BY <1>3 DEF MakeReading
    <2>2. /\ Len(queue') = Len(queue) + 1
          /\ \A k \in 1 .. Len(queue) : queue'[k] = queue[k]
          /\ queue'[Len(queue) + 1] = i
      BY <1>1, <2>1
    <2>3. Age(i, i') = 1
      BY <1>1, <1>2, AgeGrows
    <2>4. /\ \A k \in 1 .. Len(queue) : /\ Age(queue[k], i) \in 1 .. IdCount
                                       /\ Age(queue[k], i') = Age(queue[k], i) + 1
          /\ Age(entry, i) \in 1 .. IdCount
          /\ main = "publish" => Age(entry, i') = Age(entry, i) + 1
      <3>1. /\ dropped < IdCount - QueueCapacity
            /\ Len(queue) + dropped < IdCount /\ Len(queue) + 1 + dropped < IdCount
        BY <1>1, <1>3, <2>1, Numbers
      <3> QED BY <1>2, <3>1, AllGrowOlder
    <2>5. \A k \in 1 .. Len(queue) + 1 : Age(queue'[k], i') <= Len(queue) + 1 + dropped
      BY <1>1, <2>1, <2>2, <2>3, <2>4 DEF InTurn
    <2>6. \A j, k \in 1 .. Len(queue) + 1 : j < k => Age(queue'[j], i') > Age(queue'[k], i')
      <3> SUFFICES ASSUME NEW j \in 1 .. Len(queue) + 1, NEW k \in 1 .. Len(queue) + 1, j < k
                   PROVE  Age(queue'[j], i') > Age(queue'[k], i')
        OBVIOUS
      <3>1. /\ j \in 1 .. Len(queue)
            /\ Age(queue[j], i) \in 1 .. IdCount /\ Age(queue'[j], i') = Age(queue[j], i) + 1
        BY <1>1, <2>2, <2>4
      <3>2. CASE k = Len(queue) + 1
        BY <2>2, <2>3, <3>1, <3>2, Numbers
      <3>3. CASE k \in 1 .. Len(queue)
        <4>1. Age(queue'[k], i') = Age(queue[k], i) + 1 /\ Age(queue[k], i) \in 1 .. IdCount
          BY <2>2, <2>4, <3>3
        <4>2. Age(queue[j], i) > Age(queue[k], i)
          BY <3>1, <3>3, <2>1, <1>1, Numbers DEF InTurn
        <4> QED BY <3>1, <4>1, <4>2, Numbers
      <3> QED BY <1>1, <3>2, <3>3
    <2>7. main = "publish" =>
            /\ Age(entry, i') <= Len(queue) + 1 + 1 + dropped
            /\ \A k \in 1 .. Len(queue) + 1 : Age(entry, i') > Age(queue'[k], i')
      BY <1>1, <2>1, <2>2, <2>3, <2>4 DEF InTurn
    <2> QED BY <1>2, <2>1, <2>2, <2>5, <2>6, <2>7 DEF InTurn
  <1>4. CASE ~(Len(queue) < QueueCapacity)
    <2>1. queue' = queue /\ dropped' = dropped + 1
      BY <1>1, <1>4, Numbers DEF MakeReading, CappedInc
    <2>2. /\ dropped < IdCount - QueueCapacity
          /\ Len(queue) + dropped < IdCount /\ Len(queue) + 1 + dropped < IdCount
      BY <1>1, <1>4, <2>1, Numbers
    <2>3. /\ \A k \in 1 .. Len(queue) : /\ Age(queue[k], i) \in 1 .. IdCount
                                       /\ Age(queue[k], i') = Age(queue[k], i) + 1
          /\ Age(entry, i) \in 1 .. IdCount
          /\ main = "publish" => Age(entry, i') = Age(entry, i) + 1
      BY <1>2, <2>2, AllGrowOlder
    <2>4. \A k \in 1 .. Len(queue) : Age(queue[k], i') <= Len(queue) + (dropped + 1)
      BY <1>1, <2>1, <2>2, <2>3, Numbers DEF InTurn
    <2>5. \A j, k \in 1 .. Len(queue) : j < k => Age(queue[j], i') > Age(queue[k], i')
      BY <1>1, <2>1, <2>2, <2>3, Numbers DEF InTurn
    <2>6. main = "publish" =>
            /\ Age(entry, i') <= Len(queue) + 1 + (dropped + 1)
            /\ \A k \in 1 .. Len(queue) : Age(entry, i') > Age(queue[k], i')
      BY <1>1, <2>1, <2>2, <2>3, Numbers DEF InTurn
    <2> QED BY <1>2, <2>1, <2>4, <2>5, <2>6 DEF InTurn
  <1> QED BY <1>3, <1>4

(* The oldest reading is taken.                                            *)
LEMMA TakeReadingInTurn ==
  ASSUME TypeOK, InTurn, TakeReading
  PROVE  InTurn'
  <1> SUFFICES ASSUME dropped < IdCount - QueueCapacity PROVE InTurn'
    BY DEF InTurn, TakeReading
  <1>1. /\ queue \in Seq(0 .. IdCount - 1) /\ queue # <<>> /\ Len(queue) \in Nat
        /\ i \in 0 .. IdCount - 1 /\ dropped \in 0 .. IdCount
        /\ queue' = Tail(queue) /\ entry' = Head(queue)
        /\ UNCHANGED <<i, dropped>>
    BY DEF TypeOK, TakeReading
  <1>2. /\ Len(queue') = Len(queue) - 1 /\ Len(queue) >= 1
        /\ \A k \in 1 .. Len(queue) - 1 : queue'[k] = queue[k + 1]
        /\ entry' = queue[1]
    BY <1>1, ElementsOf
  <1>3. \A k \in 1 .. Len(queue) : Age(queue[k], i) \in 1 .. IdCount
    <2>1. \A k \in 1 .. Len(queue) : queue[k] \in 0 .. IdCount - 1
      BY <1>1, ElementsOf
    <2> QED BY <1>1, <2>1, AgeGrows
  <1>4. \A k \in 1 .. Len(queue) - 1 : /\ Age(queue[k + 1], i) < Age(queue[1], i)
                                     /\ Age(queue[k + 1], i) <= (Len(queue) - 1) + dropped
    BY <1>1, <1>2, <1>3 DEF InTurn
  <1>5. \A j, k \in 1 .. Len(queue) - 1 : j < k => Age(queue[j + 1], i) > Age(queue[k + 1], i)
    BY <1>1, <1>2, <1>3 DEF InTurn
  <1>6. Age(queue[1], i) <= (Len(queue) - 1) + 1 + dropped
    BY <1>1, <1>2, <1>3 DEF InTurn
  <1> QED BY <1>1, <1>2, <1>4, <1>5, <1>6 DEF InTurn

(* The readings under way, the one in the call first.                      *)
UnderWay == IF main = "publish" THEN <<entry>> \o queue ELSE queue

(* In turn, they have different ids.                                       *)
LEMMA InTurnTellsApart ==
  ASSUME TypeOK, InTurn
  PROVE  IdsTellApart
  <1> SUFFICES ASSUME dropped < IdCount - QueueCapacity PROVE IsInjective(UnderWay)
    BY DEF IdsTellApart, UnderWay
  <1>1. /\ queue \in Seq(0 .. IdCount - 1) /\ Len(queue) \in Nat
        /\ i \in 0 .. IdCount - 1 /\ entry \in 0 .. IdCount - 1
        /\ \A k \in 1 .. Len(queue) : queue[k] \in 0 .. IdCount - 1
    BY ElementsOf DEF TypeOK
  <1>2. \A k \in 1 .. Len(queue) : Age(queue[k], i) \in Int
    BY <1>1, AgeGrows
  <1>3. \A j, k \in 1 .. Len(queue) : queue[j] = queue[k] => j = k
    <2> SUFFICES ASSUME NEW j \in 1 .. Len(queue), NEW k \in 1 .. Len(queue), j < k
                 PROVE  queue[j] # queue[k]
      BY <1>1
    <2> QED BY <1>1, <1>2 DEF InTurn
  <1>4. CASE main # "publish"
    BY <1>1, <1>3, <1>4 DEF UnderWay, IsInjective
  <1>5. CASE main = "publish"
    <2>1. \A k \in 1 .. Len(queue) : queue[k] # entry
      BY <1>1, <1>2, <1>5 DEF InTurn
    <2>2. /\ DOMAIN UnderWay = 1 .. Len(queue) + 1
          /\ UnderWay[1] = entry
          /\ \A k \in 2 .. Len(queue) + 1 : UnderWay[k] = queue[k - 1]
      BY <1>1, <1>5 DEF UnderWay
    <2>3. \A j, k \in 1 .. Len(queue) + 1 : UnderWay[j] = UnderWay[k] => j = k
      <3> SUFFICES ASSUME NEW j \in 1 .. Len(queue) + 1, NEW k \in 1 .. Len(queue) + 1,
                          UnderWay[j] = UnderWay[k]
                   PROVE  j = k
        OBVIOUS
      <3>1. \A n \in 1 .. Len(queue) + 1 :
              n # 1 => n - 1 \in 1 .. Len(queue) /\ UnderWay[n] = queue[n - 1]
        BY <1>1, <2>2
      <3>2. CASE j = 1
        BY <2>1, <2>2, <3>1, <3>2
      <3>3. CASE k = 1
        BY <2>1, <2>2, <3>1, <3>3
      <3>4. CASE j # 1 /\ k # 1
        <4>1. j - 1 = k - 1
          BY <1>3, <3>1, <3>4
        <4> QED BY <1>1, <4>1
      <3> QED BY <3>2, <3>3, <3>4
    <2> QED BY <2>2, <2>3 DEF IsInjective
  <1> QED BY <1>4, <1>5

(* The turn is kept.                                                       *)
LEMMA NextInTurn == TypeOK /\ InTurn /\ [Next]_vars => InTurn'
  <1> SUFFICES ASSUME TypeOK, InTurn, [Next]_vars PROVE InTurn'
    OBVIOUS
  <1>1. CASE UNCHANGED vars
    BY <1>1 DEF vars, InTurn
  <1>2. CASE NoReading \/ PublishReturns \/ Tick
    <2>1. UNCHANGED <<i, queue, entry, dropped>> /\ (main' = "publish" => main = "publish")
      BY <1>2 DEF NoReading, PublishReturns, Tick
    <2> QED BY <2>1 DEF InTurn
  <1> QED BY <1>1, <1>2, MakeReadingInTurn, TakeReadingInTurn DEF Next

(* The readings under way can be told apart by their ids, until so many    *)
(* were dropped that the ids can have come round.                          *)
THEOREM TellsApart == Spec => []IdsTellApart
  <1>1. Init => InTurn
    BY DEF Init, InTurn
  <1>2. Spec => []InTurn
    BY <1>1, NextInTurn, TypeCorrect, PTL DEF Spec
  <1>3. TypeOK /\ InTurn => IdsTellApart
    BY InTurnTellsApart
  <1> QED BY <1>2, <1>3, TypeCorrect, PTL
=============================================================================
