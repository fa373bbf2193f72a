--------------------------- MODULE SleepList_proofs ---------------------------
(***************************************************************************)
(* The sleep list holds exactly the threads that sleep, counts down the    *)
(* front alone, and yet wakes every thread at the tick it asked for: the   *)
(* list implements the alarm.                                              *)
(***************************************************************************)
EXTENDS SleepList, Lists_proofs

-----------------------------------------------------------------------------
(* Prefix sums.                                                            *)

\* f adds up the counts of the first n threads of the list.
Adds(f, list, count, n) ==
  /\ f \in [0..n -> Int]
  /\ f[0] = 0
  /\ \A i \in 1..n : f[i] = f[i - 1] + count[list[i]]

\* What the recursion of Sums computes.
LEMMA SumsAdd ==
  ASSUME NEW S, NEW list \in Seq(S), NEW count \in [S -> Int]
  PROVE  Adds(Sums(list, count), list, count, Len(list))
<1> DEFINE bad == {n \in 0..Len(list) : ~\E f \in [0..n -> Int] : Adds(f, list, count, n)}
<1>0. Len(list) \in Nat /\ \A i \in 1..Len(list) : count[list[i]] \in Int
  OBVIOUS
<1>1. bad = {}
  <2> SUFFICES ASSUME bad # {} PROVE FALSE
    OBVIOUS
  <2>1. bad \in SUBSET Nat
    BY <1>0
  <2>2. PICK m \in bad : \A x \in bad : m <= x
    <3> HIDE DEF bad
    <3> QED BY <2>1, LeastNatural
  <2>3. m \in 0..Len(list) /\ ~\E f \in [0..m -> Int] : Adds(f, list, count, m)
    OBVIOUS
  <2>4. CASE m = 0
    <3> DEFINE g == [i \in 0..0 |-> 0]
    <3>1. g \in [0..m -> Int] /\ g[0] = 0
      BY <2>4
    <3>2. Adds(g, list, count, m)
      BY <2>4, <3>1 DEF Adds
    <3> QED BY <2>3, <3>1, <3>2
  <2>5. CASE m # 0
    <3>1. m - 1 \in 0..Len(list) /\ m - 1 \notin bad
      <4>1. m - 1 \in 0..Len(list) /\ ~(m <= m - 1)
        BY <1>0, <2>3, <2>5
      <4> HIDE DEF bad
      <4> QED BY <2>2, <4>1
    <3>2. PICK f \in [0..m - 1 -> Int] : Adds(f, list, count, m - 1)
      BY <3>1
    <3> DEFINE g == [i \in 0..m |-> IF i < m THEN f[i] ELSE f[m - 1] + count[list[m]]]
    <3>3. g \in [0..m -> Int]
      BY <1>0, <2>3, <2>5, <3>2
    <3>4. g[0] = 0
      BY <2>3, <2>5, <3>2 DEF Adds
    <3>5. ASSUME NEW i \in 1..m
          PROVE  g[i] = g[i - 1] + count[list[i]]
      <4>1. CASE i < m
        BY <2>3, <3>2, <4>1 DEF Adds
      <4>2. CASE i = m
        BY <2>3, <3>2, <4>2
      <4> QED BY <2>3, <4>1, <4>2
    <3> HIDE DEF g
    <3>6. Adds(g, list, count, m)
      BY <3>3, <3>4, <3>5 DEF Adds
    <3> QED BY <2>3, <3>3, <3>6
  <2> QED BY <2>4, <2>5
<1>2. PICK f \in [0..Len(list) -> Int] : Adds(f, list, count, Len(list))
  BY <1>0, <1>1
<1>3. f = [i \in 0..Len(list) |-> IF i = 0 THEN 0 ELSE f[i - 1] + count[list[i]]]
  BY <1>0, <1>2 DEF Adds
<1> DEFINE sum == CHOOSE g : g = [i \in 0..Len(list) |-> IF i = 0 THEN 0 ELSE g[i - 1] + count[list[i]]]
<1>4. sum = [i \in 0..Len(list) |-> IF i = 0 THEN 0 ELSE sum[i - 1] + count[list[i]]]
  BY <1>3
<1>5. Sums(list, count) = sum
  BY DEF Sums
<1> HIDE DEF sum
<1>6. sum = f
  <2> DEFINE far == {i \in 0..Len(list) : sum[i] # f[i]}
  <2>1. far = {}
    <3> SUFFICES ASSUME far # {} PROVE FALSE
      OBVIOUS
    <3>1. far \in SUBSET Nat
      BY <1>0
    <3>2. PICK m \in far : \A x \in far : m <= x
      <4> HIDE DEF far
      <4> QED BY <3>1, LeastNatural
    <3>3. m \in 0..Len(list) /\ sum[m] # f[m]
      OBVIOUS
    <3>4. CASE m = 0
      BY <1>3, <1>4, <3>3, <3>4
    <3>5. CASE m # 0
      <4>1. m - 1 \in 0..Len(list) /\ sum[m - 1] = f[m - 1]
        <5>1. m - 1 \in 0..Len(list) /\ ~(m <= m - 1)
          BY <1>0, <3>3, <3>5
        <5>2. m - 1 \notin far
          <6> HIDE DEF far
          <6> QED BY <3>2, <5>1
        <5> QED BY <5>1, <5>2
      <4>2. sum[m] = sum[m - 1] + count[list[m]]
        BY <1>4, <3>3, <3>5
      <4>3. f[m] = f[m - 1] + count[list[m]]
        BY <1>3, <3>3, <3>5
      <4> QED BY <3>3, <4>1, <4>2, <4>3
    <3> QED BY <3>4, <3>5
  <2>2. \A i \in 0..Len(list) : sum[i] = f[i]
    BY <2>1
  <2>3. DOMAIN sum = 0..Len(list) /\ sum = [i \in 0..Len(list) |-> sum[i]]
    BY <1>4
  <2>4. f = [i \in 0..Len(list) |-> f[i]]
    OBVIOUS
  <2>5. [i \in 0..Len(list) |-> sum[i]] = [i \in 0..Len(list) |-> f[i]]
    BY <2>2
  <2> QED BY <2>3, <2>4, <2>5
<1> QED BY <1>2, <1>5, <1>6

\* The sums are the only function that adds up the counts.
LEMMA SumsAlone ==
  ASSUME NEW S, NEW list \in Seq(S), NEW count \in [S -> Int],
         NEW f, Adds(f, list, count, Len(list)), NEW i \in 0..Len(list)
  PROVE  Sums(list, count)[i] = f[i]
<1> DEFINE sum == Sums(list, count)
           far == {j \in 0..Len(list) : sum[j] # f[j]}
<1>1. Adds(sum, list, count, Len(list))
  BY SumsAdd
<1> HIDE DEF sum
<1>2. far = {}
  <2> SUFFICES ASSUME far # {} PROVE FALSE
    OBVIOUS
  <2>1. far \in SUBSET Nat
    OBVIOUS
  <2>2. PICK m \in far : \A x \in far : m <= x
    <3> HIDE DEF far
    <3> QED BY <2>1, LeastNatural
  <2>3. m \in 0..Len(list) /\ sum[m] # f[m]
    OBVIOUS
  <2>4. CASE m = 0
    BY <1>1, <2>3, <2>4 DEF Adds
  <2>5. CASE m # 0
    <3>1. m - 1 \in 0..Len(list) /\ m \in 1..Len(list) /\ ~(m <= m - 1)
      BY <2>3, <2>5
    <3>2. m - 1 \notin far
      <4> HIDE DEF far
      <4> QED BY <2>2, <3>1
    <3>3. sum[m - 1] = f[m - 1]
      BY <3>1, <3>2
    <3>4. sum[m] = sum[m - 1] + count[list[m]] /\ f[m] = f[m - 1] + count[list[m]]
      BY <1>1, <3>1 DEF Adds
    <3> QED BY <2>3, <3>3, <3>4
  <2> QED BY <2>4, <2>5
<1>3. sum[i] = f[i]
  BY <1>2
<1> QED BY <1>3 DEF sum

\* Sums of counts that are not negative grow along the list.
LEMMA SumsGrow ==
  ASSUME NEW list, NEW count, NEW n \in Nat, NEW f, Adds(f, list, count, n),
         \A i \in 1..n : count[list[i]] \in Nat, NEW i \in 0..n, NEW j \in 0..n, i <= j
  PROVE  f[i] <= f[j]
<1> DEFINE bad == {k \in i..n : ~(f[i] <= f[k])}
<1>1. bad = {}
  <2> SUFFICES ASSUME bad # {} PROVE FALSE
    OBVIOUS
  <2>1. bad \in SUBSET Nat
    OBVIOUS
  <2>2. PICK m \in bad : \A x \in bad : m <= x
    <3> HIDE DEF bad
    <3> QED BY <2>1, LeastNatural
  <2>3. m \in i..n /\ ~(f[i] <= f[m]) /\ f[i] \in Int
    BY DEF Adds
  <2>4. m # i
    BY <2>3
  <2>5. m - 1 \in i..n /\ m \in 1..n /\ ~(m <= m - 1)
    BY <2>3, <2>4
  <2>6. m - 1 \notin bad
    <3> HIDE DEF bad
    <3> QED BY <2>2, <2>5
  <2>7. f[i] <= f[m - 1]
    BY <2>5, <2>6
  <2>8. f[m] = f[m - 1] + count[list[m]] /\ count[list[m]] \in Nat /\ f[m - 1] \in Int
    BY <2>5 DEF Adds
  <2> QED BY <2>3, <2>7, <2>8
<1> QED BY <1>1

-----------------------------------------------------------------------------
(* The list of a state.                                                    *)

\* The invariant: it is inductive as it stands.
IInv == TypeOK /\ CountsSound

\* What the invariant says, position by position.
ListGood ==
  /\ sleepList \in Seq(Threads)
  /\ Once(sleepList)
  /\ wakeup \in [Threads -> Nat]
  /\ status \in [Threads -> {"awake", "asleep"}]
  /\ \A t \in Threads : status[t] = "asleep" <=> Contains(sleepList, t)
  /\ sleepList # <<>> => wakeup[sleepList[1]] >= 1

LEMMA InvIsGood == IInv <=> ListGood
<1> SUFFICES ASSUME sleepList \in Seq(Threads) PROVE IInv <=> ListGood
  BY DEF IInv, TypeOK, ListGood
<1>1. DOMAIN sleepList = 1..Len(sleepList) /\ Len(sleepList) \in Nat
      /\ \A i \in 1..Len(sleepList) : sleepList[i] \in Threads
  OBVIOUS
<1>2. IsInjective(sleepList) <=> Once(sleepList)
  BY <1>1 DEF IsInjective, Once
<1>3. ToSet(sleepList) \subseteq Threads /\ \A t : t \in ToSet(sleepList) <=> Contains(sleepList, t)
  BY <1>1 DEF ToSet, Contains
<1>4. ToSet(sleepList) = {t \in Threads : status[t] = "asleep"}
        <=> \A t \in Threads : status[t] = "asleep" <=> Contains(sleepList, t)
  BY <1>3
<1>5. ASSUME wakeup \in [Threads -> Nat]
      PROVE  (\A i \in DOMAIN sleepList : wakeup[sleepList[i]] >= IF i = 1 THEN 1 ELSE 0)
               <=> (sleepList # <<>> => wakeup[sleepList[1]] >= 1)
  <2>1. \A i \in 1..Len(sleepList) : wakeup[sleepList[i]] \in Nat
    BY <1>1, <1>5
  <2>2. sleepList # <<>> <=> 1 \in 1..Len(sleepList)
    BY <1>1
  <2> QED BY <1>1, <2>1, <2>2
<1> QED BY <1>2, <1>4, <1>5 DEF IInv, TypeOK, CountsSound, ListGood

LEMMA InvIsGoodNext == ListGood' => IInv'
<1> SUFFICES ASSUME ListGood' PROVE IInv'
  OBVIOUS
<1>0. sleepList' \in Seq(Threads)
  BY DEF ListGood
<1>1. DOMAIN sleepList' = 1..Len(sleepList') /\ Len(sleepList') \in Nat
      /\ \A i \in 1..Len(sleepList') : sleepList'[i] \in Threads
  BY <1>0
<1>2. IsInjective(sleepList')
  BY <1>1 DEF IsInjective, Once, ListGood
<1>3. ToSet(sleepList') = {t \in Threads : status'[t] = "asleep"}
  <2>1. \A t : t \in ToSet(sleepList') <=> \E i \in 1..Len(sleepList') : sleepList'[i] = t
    BY <1>1 DEF ToSet
  <2>2. \A t \in Threads : status'[t] = "asleep" <=> \E i \in 1..Len(sleepList') : sleepList'[i] = t
    BY DEF ListGood, Contains
  <2> QED BY <1>1, <2>1, <2>2
<1>4. \A i \in DOMAIN sleepList' : wakeup'[sleepList'[i]] >= IF i = 1 THEN 1 ELSE 0
  <2>1. \A i \in 1..Len(sleepList') : wakeup'[sleepList'[i]] \in Nat
    BY <1>1 DEF ListGood
  <2>2. sleepList' # <<>> <=> 1 \in 1..Len(sleepList')
    BY <1>1
  <2> QED BY <1>1, <2>1, <2>2 DEF ListGood
<1> QED BY <1>0, <1>2, <1>3, <1>4 DEF IInv, TypeOK, CountsSound, ListGood

\* The ticks until each thread on the list wakes are the sums, all positive.
LEMMA LeftNow ==
  ASSUME ListGood
  PROVE  /\ Adds(Sums(sleepList, wakeup), sleepList, wakeup, Len(sleepList))
         /\ \A i \in 1..Len(sleepList) : Sums(sleepList, wakeup)[i] \in Nat \ {0}
         /\ \A i \in 1..Len(sleepList) : Left[sleepList[i]] = Sums(sleepList, wakeup)[i]
         /\ \A t \in Threads : ~Contains(sleepList, t) => Left[t] = 0
<1> DEFINE S == Sums(sleepList, wakeup)
           N == Len(sleepList)
<1>1. /\ N \in Nat /\ DOMAIN sleepList = 1..N /\ wakeup \in [Threads -> Int]
      /\ \A i \in 1..N : sleepList[i] \in Threads /\ wakeup[sleepList[i]] \in Nat
  BY DEF ListGood
<1>2. Adds(S, sleepList, wakeup, N)
  BY <1>1, SumsAdd DEF ListGood
<1> HIDE DEF S
<1>3. ASSUME NEW i \in 1..N
      PROVE  S[i] \in Nat \ {0}
  <2>1. 1 \in 0..N /\ 1 \in 1..N /\ i \in 0..N /\ 1 <= i
    BY <1>1
  <2>2. S[1] <= S[i]
    BY <1>1, <1>2, <2>1, SumsGrow
  <2>3. S[1] = S[0] + wakeup[sleepList[1]] /\ S[0] = 0 /\ S[i] \in Int
    BY <1>2, <2>1 DEF Adds
  <2>4. wakeup[sleepList[1]] \in Nat /\ wakeup[sleepList[1]] >= 1
    BY <1>1, <2>1 DEF ListGood
  <2> QED BY <2>2, <2>3, <2>4
<1>4. ASSUME NEW i \in 1..N
      PROVE  Left[sleepList[i]] = S[i]
  <2>1. status[sleepList[i]] # "awake" /\ sleepList[i] \in Threads
    BY <1>1 DEF ListGood, Contains
  <2>2. (CHOOSE j \in DOMAIN sleepList : sleepList[j] = sleepList[i]) = i
    BY <1>1 DEF ListGood, Once
  <2> QED BY <2>1, <2>2 DEF Left, S
<1>5. ASSUME NEW t \in Threads, ~Contains(sleepList, t)
      PROVE  Left[t] = 0
  <2>1. status[t] = "awake"
    BY <1>5 DEF ListGood
  <2> QED BY <2>1 DEF Left
<1> QED BY <1>2, <1>3, <1>4, <1>5 DEF S

LEMMA LeftNext ==
  ASSUME ListGood', NEW T, Adds(T, sleepList', wakeup', Len(sleepList'))
  PROVE  /\ \A i \in 1..Len(sleepList') : Left'[sleepList'[i]] = T[i]
         /\ \A t \in Threads : ~Contains(sleepList', t) => Left'[t] = 0
<1>1. /\ Len(sleepList') \in Nat /\ DOMAIN sleepList' = 1..Len(sleepList') /\ wakeup' \in [Threads -> Int]
      /\ sleepList' \in Seq(Threads)
      /\ \A i \in 1..Len(sleepList') : sleepList'[i] \in Threads
  BY DEF ListGood
<1>2. ASSUME NEW i \in 1..Len(sleepList')
      PROVE  Left'[sleepList'[i]] = T[i]
  <2>1. status'[sleepList'[i]] # "awake" /\ sleepList'[i] \in Threads
    BY <1>1 DEF ListGood, Contains
  <2>2. (CHOOSE j \in DOMAIN sleepList' : sleepList'[j] = sleepList'[i]) = i
    BY <1>1 DEF ListGood, Once
  <2>3. Sums(sleepList', wakeup')[i] = T[i]
    <3>1. i \in 0..Len(sleepList')
      OBVIOUS
    <3> QED BY <1>1, <3>1, SumsAlone
  <2> QED BY <2>1, <2>2, <2>3 DEF Left
<1>3. ASSUME NEW t \in Threads, ~Contains(sleepList', t)
      PROVE  Left'[t] = 0
  <2>1. status'[t] = "awake"
    BY <1>3 DEF ListGood
  <2> QED BY <2>1 DEF Left
<1> QED BY <1>2, <1>3

-----------------------------------------------------------------------------
(* thread_sleep.                                                           *)

\* The walk of list_insert_ordered passes the threads that wake up no later.
LEMMA PassedMeans ==
  ASSUME ListGood, NEW n \in Nat \ {0}
  PROVE  /\ Passed(n) \in 0..Len(sleepList)
         /\ Sums(sleepList, wakeup)[Passed(n)] <= n
         /\ Passed(n) < Len(sleepList) => Sums(sleepList, wakeup)[Passed(n) + 1] > n
<1> DEFINE S == Sums(sleepList, wakeup)
           N == Len(sleepList)
           B == {i \in 1..N : \A j \in 1..i : wakeup[sleepList[j]] <= Remaining(n, j - 1)}
           k == Cardinality(B)
<1>1. N \in Nat /\ Adds(S, sleepList, wakeup, N) /\ \A i \in 1..N : wakeup[sleepList[i]] \in Nat
  BY LeftNow DEF ListGood
<1>2. Passed(n) = k
  BY DEF Passed
<1>3. \A j \in 1..N : wakeup[sleepList[j]] <= Remaining(n, j - 1) <=> S[j] <= n
  <2>1. \A j \in 1..N : Remaining(n, j - 1) = n - S[j - 1]
    BY DEF Remaining
  <2> HIDE DEF S
  <2>2. \A j \in 1..N : S[j] = S[j - 1] + wakeup[sleepList[j]] /\ S[j] \in Int /\ S[j - 1] \in Int
    BY <1>1 DEF Adds
  <2>3. ASSUME NEW j \in 1..N
        PROVE  wakeup[sleepList[j]] <= Remaining(n, j - 1) <=> S[j] <= n
    <3>1. PICK w \in Nat : w = wakeup[sleepList[j]]
      BY <1>1
    <3>2. PICK b \in Int : b = S[j - 1]
      BY <2>2
    <3>3. Remaining(n, j - 1) = n - b /\ S[j] = b + w
      BY <2>1, <2>2, <3>1, <3>2
    <3>4. w <= n - b <=> b + w <= n
      OBVIOUS
    <3> QED BY <3>1, <3>3, <3>4
  <2> QED BY <2>3
<1> HIDE DEF S
<1>4. k \in 0..N /\ B = 1..k
  <2>1. B \in SUBSET (1..N) /\ \A i \in B : 1..i \subseteq B
    OBVIOUS
  <2> HIDE DEF B
  <2> QED BY <1>1, <2>1, Beginning
<1>5. S[k] <= n
  <2>1. CASE k = 0
    BY <1>1, <2>1 DEF Adds
  <2>2. CASE k # 0
    <3>1. k \in B /\ k \in 1..k
      BY <1>4, <2>2
    <3>2. wakeup[sleepList[k]] <= Remaining(n, k - 1) /\ k \in 1..N
      <4> HIDE DEF k
      <4> QED BY <3>1
    <3> QED BY <1>3, <3>2
  <2> QED BY <2>1, <2>2
<1>6. ASSUME k < N
      PROVE  S[k + 1] > n
  <2>1. k + 1 \in 1..N /\ k + 1 \notin B /\ S[k + 1] \in Int
    <3> HIDE DEF B, k
    <3>1. PICK m \in 1..N : m = k + 1
      BY <1>1, <1>4, <1>6
    <3>2. m \notin B
      BY <1>4, <3>1
    <3>3. S[m] \in Int
      BY <1>1, <3>1 DEF Adds
    <3> QED BY <3>1, <3>2, <3>3
  <2>2. \A j \in 1..k : wakeup[sleepList[j]] <= Remaining(n, j - 1)
    <3>1. \A j \in 1..k : j \in B
      BY <1>4
    <3> QED BY <3>1
  <2>3. ~(wakeup[sleepList[k + 1]] <= Remaining(n, k))
    <3>1. PICK m \in 1..N : m = k + 1 /\ m - 1 = k
      <4> HIDE DEF k
      <4> QED BY <1>1, <1>4, <2>1
    <3>2. m \notin B
      <4> HIDE DEF B, k
      <4> QED BY <2>1, <3>1
    <3>3. \A j \in 1..m : j = m \/ j \in 1..k
      <4> HIDE DEF k
      <4> QED BY <3>1, <1>4
    <3> HIDE DEF k
    <3> QED BY <2>2, <3>1, <3>2, <3>3
  <2> HIDE DEF B, k
  <2>4. PICK m \in 1..N : m = k + 1 /\ m - 1 = k
    BY <1>1, <1>4, <2>1
  <2>5. ~(S[m] <= n)
    BY <1>3, <2>3, <2>4
  <2> QED BY <2>1, <2>4, <2>5
<1> HIDE DEF B, k
<1> QED BY <1>2, <1>4, <1>5, <1>6 DEF S

LEMMA SleepStep ==
  ASSUME ListGood, NEW t \in Threads, NEW n \in Ticks, Sleep(t, n)
  PROVE  ListGood' /\ AbstractAlarm!Sleep(t, n)
<1> DEFINE S == Sums(sleepList, wakeup)
           N == Len(sleepList)
           k == Passed(n)
<1>0. n \in Nat \ {0} /\ status[t] = "awake"
  BY TicksAssumption DEF Sleep
<1>1. /\ N \in Nat /\ Adds(S, sleepList, wakeup, N)
      /\ \A i \in 1..N : sleepList[i] \in Threads /\ wakeup[sleepList[i]] \in Nat
      /\ ~Contains(sleepList, t) /\ \A i \in 1..N : sleepList[i] # t
  BY <1>0, LeftNow DEF ListGood, Contains
<1>2. k \in 0..N /\ S[k] <= n /\ (k < N => S[k + 1] > n)
  BY <1>0, PassedMeans
<1>3. /\ sleepList' = InsertAt(sleepList, k + 1, t)
      /\ wakeup' = [u \in Threads |->
           IF u = t THEN n - S[k]
           ELSE IF k < N /\ u = sleepList[k + 1] THEN wakeup[u] - (n - S[k])
           ELSE wakeup[u]]
      /\ status' = [status EXCEPT ![t] = "asleep"]
  BY DEF Sleep, Remaining
<1> HIDE DEF S, k
<1>4. PICK p \in 1..N + 1 : p = k + 1 /\ p - 1 = k
  BY <1>1, <1>2
<1>5. /\ sleepList' \in Seq(Threads) /\ sleepList' # <<>> /\ Once(sleepList')
      /\ \A x : Contains(sleepList', x) <=> Contains(sleepList, x) \/ x = t
  <2>1. sleepList' = InsertAt(sleepList, p, t)
    BY <1>3, <1>4
  <2> QED BY <1>1, <2>1, InsertAtOnce DEF ListGood
<1>6. /\ Len(sleepList') = N + 1
      /\ \A j \in 1..N + 1 : sleepList'[j] = IF j < p THEN sleepList[j] ELSE IF j = p THEN t ELSE sleepList[j - 1]
  <2>1. sleepList' = InsertAt(sleepList, p, t)
    BY <1>3, <1>4
  <2>2. sleepList \in Seq(Threads)
    BY DEF ListGood
  <2>3. /\ Len(InsertAt(sleepList, p, t)) = N + 1
        /\ \A j \in 1..N + 1 : InsertAt(sleepList, p, t)[j] =
             IF j < p THEN sleepList[j] ELSE IF j = p THEN t ELSE sleepList[j - 1]
    BY <2>2, InsertAtElements
  <2> QED BY <2>1, <2>3
<1>7. /\ S[0] = 0 /\ \A i \in 0..N : S[i] \in Int
      /\ \A i \in 1..N : S[i] = S[i - 1] + wakeup[sleepList[i]]
  BY <1>1 DEF Adds
\* The counts after the step, along the new list.
<1>8. wakeup'[t] = n - S[k] /\ n - S[k] \in Nat
  <2>1. S[k] \in Int
    BY <1>2, <1>7
  <2> QED BY <1>0, <1>2, <1>3, <2>1
<1>9. ASSUME NEW i \in 1..N, i # p
      PROVE  wakeup'[sleepList[i]] = wakeup[sleepList[i]]
  <2>1. sleepList[i] # t /\ sleepList[i] \in Threads
    BY <1>1
  <2>2. ~(k < N /\ sleepList[i] = sleepList[k + 1])
    <3>1. k < N => p \in 1..N
      BY <1>1, <1>4
    <3> QED BY <1>4, <1>9, <3>1 DEF ListGood, Once
  <2> QED BY <1>3, <2>1, <2>2
<1>10. ASSUME p <= N
       PROVE  wakeup'[sleepList[p]] = S[p] - n /\ S[p] - n \in Nat
  <2>1. p \in 1..N /\ k < N /\ sleepList[p] \in Threads /\ sleepList[p] # t
    BY <1>1, <1>4, <1>10
  <2>2. wakeup'[sleepList[p]] = wakeup[sleepList[p]] - (n - S[k])
    BY <1>3, <1>4, <2>1
  <2>3. S[p] = S[k] + wakeup[sleepList[p]] /\ S[p] \in Int /\ S[k] \in Int /\ S[p] > n
    BY <1>2, <1>4, <1>7, <2>1
  <2>4. wakeup[sleepList[p]] \in Nat
    BY <1>1, <2>1
  <2> QED BY <1>0, <2>2, <2>3, <2>4
<1>11. wakeup' \in [Threads -> Nat]
  <2>1. ASSUME NEW u \in Threads
        PROVE  wakeup'[u] \in Nat
    <3>1. CASE u = t
      BY <1>8, <3>1
    <3>2. CASE k < N /\ u = sleepList[k + 1]
      <4>1. p <= N /\ u = sleepList[p]
        BY <1>1, <1>4, <3>2
      <4> QED BY <1>10, <4>1
    <3>3. CASE u # t /\ ~(k < N /\ u = sleepList[k + 1])
      BY <1>3, <3>3 DEF ListGood
    <3> QED BY <3>1, <3>2, <3>3
  <2> QED BY <1>3, <2>1
<1>12. ListGood'
  <2>1. status' \in [Threads -> {"awake", "asleep"}]
    BY <1>3 DEF ListGood
  <2>2. \A u \in Threads : status'[u] = "asleep" <=> Contains(sleepList', u)
    BY <1>3, <1>5 DEF ListGood
  <2>3. wakeup'[sleepList'[1]] >= 1
    <3>1. CASE p = 1
      <4>1. sleepList'[1] = t /\ k = 0
        BY <1>1, <1>4, <1>6, <3>1
      <4> QED BY <1>0, <1>7, <1>8, <4>1
    <3>2. CASE p # 1
      <4>1. sleepList'[1] = sleepList[1] /\ 1 \in 1..N
        BY <1>1, <1>4, <1>6, <3>2
      <4> QED BY <1>9, <3>2, <4>1 DEF ListGood
    <3> QED BY <3>1, <3>2
  <2> QED BY <1>5, <1>11, <2>1, <2>2, <2>3 DEF ListGood
\* The sums after the step.
<1> DEFINE T == [i \in 0..N + 1 |-> IF i < p THEN S[i] ELSE IF i = p THEN n ELSE S[i - 1]]
<1>13. Adds(T, sleepList', wakeup', Len(sleepList'))
  <2>1. T \in [0..N + 1 -> Int] /\ T[0] = 0
    BY <1>0, <1>1, <1>4, <1>7
  <2>2. ASSUME NEW i \in 1..N + 1
        PROVE  T[i] = T[i - 1] + wakeup'[sleepList'[i]]
    <3>1. CASE i < p
      <4>1. sleepList'[i] = sleepList[i] /\ i \in 1..N /\ i # p
        BY <1>1, <1>4, <1>6, <3>1
      <4>2. T[i] = S[i] /\ T[i - 1] = S[i - 1]
        BY <1>1, <1>4, <3>1
      <4> QED BY <1>7, <1>9, <4>1, <4>2
    <3>2. CASE i = p
      <4>1. T[i] = n /\ T[i - 1] = S[k] /\ sleepList'[i] = t
        BY <1>1, <1>4, <1>6, <3>2
      <4>2. S[k] \in Int
        BY <1>2, <1>7
      <4>3. wakeup'[sleepList'[i]] = n - S[k] /\ n \in Int
        BY <1>0, <1>8, <4>1
      <4> HIDE DEF T
      <4> QED BY <4>1, <4>2, <4>3
    <3>3. CASE i = p + 1
      <4>1. p \in 1..N /\ p <= N
        BY <1>1, <3>3
      <4>2. T[i] = S[p] /\ T[i - 1] = n /\ sleepList'[i] = sleepList[p]
        BY <1>1, <1>4, <1>6, <3>3, <4>1
      <4>3. S[p] \in Int
        BY <1>7, <4>1
      <4> QED BY <1>0, <1>10, <4>1, <4>2, <4>3
    <3>4. CASE i > p + 1
      <4>1. i - 1 \in 1..N /\ i - 1 # p /\ sleepList'[i] = sleepList[i - 1]
        BY <1>1, <1>4, <1>6, <3>4
      <4>2. T[i] = S[i - 1] /\ T[i - 1] = S[i - 2]
        BY <1>1, <1>4, <3>4
      <4>3. S[i - 1] = S[(i - 1) - 1] + wakeup[sleepList[i - 1]] /\ (i - 1) - 1 = i - 2
        BY <1>7, <4>1
      <4> QED BY <1>9, <4>1, <4>2, <4>3
    <3> QED BY <1>4, <3>1, <3>2, <3>3, <3>4
  <2> QED BY <1>6, <2>1, <2>2 DEF Adds
<1>14. \A i \in 1..N : Left[sleepList[i]] = S[i]
  BY LeftNow DEF S
<1>15. \A i \in 1..N + 1 : Left'[sleepList'[i]] = T[i]
  <2> HIDE DEF T
  <2> QED BY <1>6, <1>12, <1>13, LeftNext
<1>16. ASSUME NEW u \in Threads
       PROVE  Left'[u] = IF u = t THEN n ELSE Left[u]
  <2>1. CASE u = t
    <3>1. sleepList'[p] = t /\ p \in 1..N + 1
      BY <1>4, <1>6
    <3>2. T[p] = n
      BY <1>1, <1>4
    <3> HIDE DEF T
    <3> QED BY <1>15, <2>1, <3>1, <3>2
  <2>2. CASE u # t /\ Contains(sleepList, u)
    <3>1. PICK i \in 1..N : sleepList[i] = u
      BY <2>2 DEF Contains
    <3>2. CASE i < p
      <4>1. i \in 1..N + 1 /\ sleepList'[i] = u /\ T[i] = S[i]
        BY <1>1, <1>4, <1>6, <3>1, <3>2
      <4> QED BY <1>14, <1>15, <2>2, <3>1, <4>1
    <3>3. CASE i >= p
      <4>1. i + 1 \in 1..N + 1 /\ sleepList'[i + 1] = u /\ T[i + 1] = S[i]
        BY <1>1, <1>4, <1>6, <3>1, <3>3
      <4> QED BY <1>14, <1>15, <2>2, <3>1, <4>1
    <3> QED BY <1>4, <3>2, <3>3
  <2>3. CASE u # t /\ ~Contains(sleepList, u)
    <3>1. ~Contains(sleepList', u)
      BY <1>5, <2>3
    <3>2. Left'[u] = 0
      <4> HIDE DEF T
      <4> QED BY <1>12, <1>13, <3>1, LeftNext
    <3> QED BY <2>3, <3>2, LeftNow
  <2> QED BY <2>1, <2>2, <2>3
<1>17. Left[t] = 0
  BY <1>1, LeftNow
<1>18. Left' = [Left EXCEPT ![t] = n]
  <2>1. Left = [u \in Threads |-> Left[u]] /\ Left' = [u \in Threads |-> Left'[u]]
    BY DEF Left
  <2> QED BY <1>16, <2>1
<1> QED BY <1>0, <1>12, <1>17, <1>18 DEF AbstractAlarm!Sleep

-----------------------------------------------------------------------------
(* thread_tick.                                                            *)

\* The threads that are due come first, and only ticks before the last of them
\* are left: their sums are one.
LEMMA DueMeans ==
  ASSUME ListGood, sleepList # <<>>,
         NEW counted, counted = [wakeup EXCEPT ![Head(sleepList)] = @ - 1]
  PROVE  /\ IsFiniteSet(Due(counted))
         /\ Cardinality(Due(counted)) \in 0..Len(sleepList)
         /\ Due(counted) = 1..Cardinality(Due(counted))
         /\ \A i \in 1..Len(sleepList) :
              counted[sleepList[i]] = wakeup[sleepList[i]] - (IF i = 1 THEN 1 ELSE 0) /\ counted[sleepList[i]] \in Nat
         /\ \A i \in Due(counted) : Sums(sleepList, wakeup)[i] = 1
         /\ \A i \in 1..Len(sleepList) :
              i = Cardinality(Due(counted)) + 1 => counted[sleepList[i]] >= 1
<1> DEFINE S == Sums(sleepList, wakeup)
           N == Len(sleepList)
           D == Due(counted)
           d == Cardinality(D)
<1>1. /\ N \in Nat /\ Adds(S, sleepList, wakeup, N) /\ 1 \in 1..N /\ Head(sleepList) = sleepList[1]
      /\ \A i \in 1..N : sleepList[i] \in Threads /\ wakeup[sleepList[i]] \in Nat
      /\ wakeup[sleepList[1]] >= 1
  BY LeftNow DEF ListGood
<1> HIDE DEF S
<1>2. ASSUME NEW i \in 1..N
      PROVE  counted[sleepList[i]] = wakeup[sleepList[i]] - (IF i = 1 THEN 1 ELSE 0) /\ counted[sleepList[i]] \in Nat
  <2>1. sleepList[i] = sleepList[1] <=> i = 1
    BY <1>1 DEF ListGood, Once
  <2>2. counted[sleepList[i]] = IF i = 1 THEN wakeup[sleepList[i]] - 1 ELSE wakeup[sleepList[i]]
    BY <1>1, <2>1 DEF ListGood
  <2> QED BY <1>1, <2>2
<1>3. D \in SUBSET (1..N) /\ \A i \in D : 1..i \subseteq D
  BY DEF Due
<1>4. IsFiniteSet(D) /\ d \in 0..N /\ D = 1..d
  <2> HIDE DEF D
  <2> QED BY <1>1, <1>3, Beginning
<1>5. \A i \in D : counted[sleepList[i]] = 0
  <2>1. \A i \in D : i \in 1..N /\ counted[sleepList[i]] <= 0
    BY <1>3 DEF Due
  <2>2. \A i \in 1..N : counted[sleepList[i]] \in Nat
    BY <1>2
  <2> HIDE DEF D
  <2>3. ASSUME NEW i \in D
        PROVE  counted[sleepList[i]] = 0
    <3>1. PICK c \in Nat : c = counted[sleepList[i]]
      BY <2>1, <2>2
    <3>2. c <= 0
      BY <2>1, <3>1
    <3>3. c = 0
      BY <3>2
    <3> QED BY <3>1, <3>3
  <2> QED BY <2>3
<1>6. ASSUME NEW i \in 1..N, i = d + 1
      PROVE  counted[sleepList[i]] >= 1
  <2>0. PICK c \in Nat : c = counted[sleepList[i]]
    BY <1>2
  <2> SUFFICES ASSUME counted[sleepList[i]] = 0 PROVE FALSE
    <3>1. c # 0 => c >= 1
      OBVIOUS
    <3> QED BY <2>0, <3>1
  <2>1. \A j \in 1..i : j = i \/ j \in D
    <3> HIDE DEF D
    <3> QED BY <1>4, <1>6
  <2>2. \A j \in 1..i : counted[sleepList[j]] <= 0
    <3> HIDE DEF D
    <3>1. \A j \in 1..i : counted[sleepList[j]] = 0
      BY <1>5, <2>1
    <3> QED BY <3>1
  <2>3. i \in D
    BY <2>2 DEF Due
  <2> HIDE DEF D
  <2> QED BY <1>4, <1>6, <2>3
<1>7. \A i \in D : S[i] = 1
  <2> DEFINE bad == {i \in D : S[i] # 1}
  <2>1. bad = {}
    <3> SUFFICES ASSUME bad # {} PROVE FALSE
      OBVIOUS
    <3>1. bad \in SUBSET Nat
      <4>1. bad \subseteq D /\ D \subseteq 1..N
        <5> HIDE DEF D
        <5> QED BY <1>3
      <4> HIDE DEF bad, D
      <4> QED BY <4>1
    <3>2. PICK m \in bad : \A x \in bad : m <= x
      <4> HIDE DEF bad
      <4> QED BY <3>1, LeastNatural
    <3>3. m \in D /\ S[m] # 1 /\ m \in 1..N
      BY <1>3
    <3>4. counted[sleepList[m]] = 0 /\ S[m] = S[m - 1] + wakeup[sleepList[m]] /\ S[0] = 0
      BY <1>1, <1>5, <3>3 DEF Adds
    <3>5. CASE m = 1
      <4>1. wakeup[sleepList[m]] = 1
        BY <1>1, <1>2, <3>3, <3>4, <3>5
      <4> QED BY <3>3, <3>4, <3>5, <4>1
    <3>6. CASE m # 1
      <4>1. m - 1 \in 1..m /\ ~(m <= m - 1)
        BY <3>3, <3>6
      <4>2. m - 1 \in D /\ m - 1 \notin bad
        <5>1. m - 1 \in D
          <6> HIDE DEF D, bad
          <6> QED BY <1>3, <3>3, <4>1
        <5>2. m - 1 \notin bad
          <6> HIDE DEF bad
          <6> QED BY <3>2, <4>1
        <5> QED BY <5>1, <5>2
      <4>3. S[m - 1] = 1 /\ wakeup[sleepList[m]] = 0
        BY <1>1, <1>2, <3>3, <3>4, <3>6, <4>2
      <4> QED BY <3>3, <3>4, <4>3
    <3> QED BY <3>5, <3>6
  <2> QED BY <2>1
<1> HIDE DEF D, d
<1> QED BY <1>2, <1>4, <1>6, <1>7 DEF S, D, d

LEMMA TickStep ==
  ASSUME ListGood, Tick
  PROVE  ListGood' /\ AbstractAlarm!Tick
<1> DEFINE S == Sums(sleepList, wakeup)
           N == Len(sleepList)
<1>1. PICK counted : counted = [wakeup EXCEPT ![Head(sleepList)] = @ - 1]
  OBVIOUS
<1>2. PICK due : due = Due(counted)
  OBVIOUS
<1>3. PICK d : d = Cardinality(due)
  OBVIOUS
<1>4. /\ sleepList # <<>> /\ wakeup' = counted /\ sleepList' = SubSeq(sleepList, d + 1, N)
      /\ status' = [t \in Threads |-> IF \E i \in due : sleepList[i] = t THEN "awake" ELSE status[t]]
  BY <1>1, <1>2, <1>3 DEF Tick
<1>5. /\ d \in 0..N /\ due = 1..d
      /\ \A i \in 1..N : counted[sleepList[i]] = wakeup[sleepList[i]] - (IF i = 1 THEN 1 ELSE 0)
                          /\ counted[sleepList[i]] \in Nat
      /\ \A i \in due : S[i] = 1
      /\ \A i \in 1..N : i = d + 1 => counted[sleepList[i]] >= 1
  BY <1>1, <1>2, <1>3, <1>4, DueMeans
<1>6. /\ N \in Nat /\ Adds(S, sleepList, wakeup, N)
      /\ \A i \in 1..N : sleepList[i] \in Threads /\ wakeup[sleepList[i]] \in Nat
      /\ \A i \in 1..N : S[i] \in Nat \ {0} /\ Left[sleepList[i]] = S[i]
      /\ \A t \in Threads : ~Contains(sleepList, t) => Left[t] = 0
  BY LeftNow DEF ListGood
<1> HIDE DEF S
<1>7. /\ S[0] = 0 /\ \A i \in 0..N : S[i] \in Int
      /\ \A i \in 1..N : S[i] = S[i - 1] + wakeup[sleepList[i]]
  BY <1>6 DEF Adds
<1>8. /\ sleepList' \in Seq(Threads) /\ Len(sleepList') = N - d
      /\ \A i \in 1..N - d : sleepList'[i] = sleepList[d + i] /\ d + i \in 1..N
  <2>1. sleepList \in Seq(Threads)
    BY DEF ListGood
  <2> QED BY <1>4, <1>5, <1>6, <2>1
<1>9. Once(sleepList')
  <2> SUFFICES ASSUME NEW i \in 1..N - d, NEW j \in 1..N - d, sleepList'[i] = sleepList'[j]
               PROVE  i = j
    BY <1>8 DEF Once
  <2>1. sleepList[d + i] = sleepList[d + j] /\ d + i \in 1..N /\ d + j \in 1..N
    BY <1>8
  <2>2. d + i = d + j
    BY <2>1 DEF ListGood, Once
  <2> QED BY <1>5, <2>2
<1>10. \A x : Contains(sleepList', x) <=> Contains(sleepList, x) /\ ~\E i \in due : sleepList[i] = x
  <2>1. ASSUME NEW x, Contains(sleepList', x)
        PROVE  Contains(sleepList, x) /\ ~\E i \in due : sleepList[i] = x
    <3>1. PICK j \in 1..N - d : sleepList'[j] = x
      BY <1>8, <2>1 DEF Contains
    <3>2. sleepList[d + j] = x /\ d + j \in 1..N /\ d + j \notin due
      BY <1>5, <1>6, <1>8, <3>1
    <3>3. \A i \in due : i \in 1..N
      BY <1>5
    <3> QED BY <3>2, <3>3 DEF Contains, ListGood, Once
  <2>2. ASSUME NEW x, Contains(sleepList, x), ~\E i \in due : sleepList[i] = x
        PROVE  Contains(sleepList', x)
    <3>1. PICK i \in 1..N : sleepList[i] = x
      BY <2>2 DEF Contains
    <3>2. i \notin due
      BY <2>2, <3>1
    <3>3. i - d \in 1..N - d /\ d + (i - d) = i
      BY <1>5, <1>6, <3>2
    <3>4. sleepList'[i - d] = x
      BY <1>8, <3>1, <3>3
    <3> QED BY <1>8, <3>3, <3>4 DEF Contains
  <2> QED BY <2>1, <2>2
<1>11. ListGood'
  <2>1. wakeup' \in [Threads -> Nat]
    <3>1. ASSUME NEW u \in Threads
          PROVE  wakeup'[u] \in Nat
      <4>1. Head(sleepList) = sleepList[1] /\ 1 \in 1..N
        BY <1>4, <1>6 DEF ListGood
      <4>2. CASE u = sleepList[1]
        BY <1>4, <1>5, <4>1, <4>2
      <4>3. CASE u # sleepList[1]
        BY <1>1, <1>4, <4>1, <4>3 DEF ListGood
      <4> QED BY <4>2, <4>3
    <3>2. wakeup' = [u \in Threads |-> wakeup'[u]]
      BY <1>1, <1>4 DEF ListGood
    <3> QED BY <3>1, <3>2
  <2>2. status' \in [Threads -> {"awake", "asleep"}]
    BY <1>4 DEF ListGood
  <2>3. \A t \in Threads : status'[t] = "asleep" <=> Contains(sleepList', t)
    BY <1>4, <1>10 DEF ListGood
  <2>4. ASSUME sleepList' # <<>>
        PROVE  wakeup'[sleepList'[1]] >= 1
    <3>1. 1 \in 1..N - d
      BY <1>5, <1>6, <1>8, <2>4
    <3>2. sleepList'[1] = sleepList[d + 1] /\ d + 1 \in 1..N
      BY <1>8, <3>1
    <3> QED BY <1>4, <1>5, <3>2
  <2> QED BY <1>8, <1>9, <2>1, <2>2, <2>3, <2>4 DEF ListGood
\* Every sum is one less, from the first thread that stays on the list on.
<1> DEFINE T == [i \in 0..N - d |-> IF i = 0 THEN 0 ELSE S[d + i] - 1]
<1>12. T \in [0..N - d -> Int] /\ T[0] = 0
  <2>1. \A i \in 1..N - d : S[d + i] - 1 \in Int
    BY <1>6, <1>8
  <2>2. 0 \in 0..N - d
    BY <1>5, <1>6
  <2> QED BY <2>1, <2>2
<1>13. ASSUME NEW i \in 1..N - d
       PROVE  T[i] = T[i - 1] + wakeup'[sleepList'[i]]
  <2>1. PICK j \in 1..N : j = d + i
    BY <1>8
  <2>2. /\ T[i] = S[j] - 1
        /\ wakeup'[sleepList'[i]] = wakeup[sleepList[j]] - (IF j = 1 THEN 1 ELSE 0)
        /\ S[j] = S[j - 1] + wakeup[sleepList[j]] /\ S[j] \in Int /\ S[j - 1] \in Int
        /\ wakeup[sleepList[j]] \in Nat
    <3>1. T[i] = S[j] - 1
      BY <2>1
    <3>2. wakeup'[sleepList'[i]] = wakeup[sleepList[j]] - (IF j = 1 THEN 1 ELSE 0)
      BY <1>4, <1>5, <1>8, <2>1
    <3>3. j - 1 \in 0..N /\ j \in 0..N
      OBVIOUS
    <3> QED BY <1>6, <1>7, <3>1, <3>2, <3>3
  <2>3. CASE i = 1
    <3>1. T[i - 1] = 0
      BY <1>12, <2>3
    <3>2. S[j - 1] = IF j = 1 THEN 0 ELSE 1
      <4>1. CASE j = 1
        BY <1>7, <4>1
      <4>2. CASE j # 1
        <5>1. j - 1 \in due
          BY <1>5, <2>1, <2>3, <4>2
        <5> QED BY <1>5, <4>2, <5>1
      <4> QED BY <4>1, <4>2
    <3> HIDE DEF T
    <3> QED BY <2>2, <3>1, <3>2
  <2>4. CASE i # 1
    <3>1. i - 1 \in 1..N - d /\ d + (i - 1) = j - 1 /\ j # 1
      BY <1>5, <2>1, <2>4
    <3>2. T[i - 1] = S[j - 1] - 1
      BY <3>1
    <3> HIDE DEF T
    <3> QED BY <2>2, <3>1, <3>2
  <2> QED BY <2>3, <2>4
<1>14. \A i \in 1..N - d : T[i] = S[d + i] - 1
  OBVIOUS
<1> HIDE DEF T
<1>15. Adds(T, sleepList', wakeup', Len(sleepList'))
  BY <1>8, <1>12, <1>13 DEF Adds
<1>16. ASSUME NEW u \in Threads
       PROVE  Left'[u] = IF Left[u] > 0 THEN Left[u] - 1 ELSE 0
  <2>1. CASE Contains(sleepList', u)
    <3>1. PICK i \in 1..N - d : sleepList'[i] = u
      BY <1>8, <2>1 DEF Contains
    <3>2. Left'[u] = S[d + i] - 1
      BY <1>8, <1>11, <1>14, <1>15, <3>1, LeftNext
    <3>3. Left[u] = S[d + i] /\ S[d + i] \in Nat \ {0}
      BY <1>6, <1>8, <3>1
    <3> QED BY <3>2, <3>3
  <2>2. CASE ~Contains(sleepList', u)
    <3>1. Left'[u] = 0
      BY <1>11, <1>15, <2>2, LeftNext
    <3>2. CASE Contains(sleepList, u)
      <4>1. PICK i \in due : sleepList[i] = u
        BY <1>10, <2>2, <3>2
      <4>2. i \in 1..N /\ S[i] = 1
        BY <1>5, <4>1
      <4>3. Left[u] = 1
        BY <1>6, <4>1, <4>2
      <4> QED BY <3>1, <4>3
    <3>3. CASE ~Contains(sleepList, u)
      BY <1>6, <3>1, <3>3
    <3> QED BY <3>2, <3>3
  <2> QED BY <2>1, <2>2
<1>17. Left' = [u \in Threads |-> IF Left[u] > 0 THEN Left[u] - 1 ELSE 0]
  <2>1. Left' = [u \in Threads |-> Left'[u]]
    BY DEF Left
  <2> QED BY <1>16, <2>1
<1> QED BY <1>11, <1>17 DEF AbstractAlarm!Tick

-----------------------------------------------------------------------------
(* The theorems.                                                           *)

\* Threads go to sleep and wake, and the invariant stays.
LEMMA InvStays ==
  /\ Init => IInv /\ AbstractAlarm!Init
  /\ IInv /\ [Next]_vars => IInv' /\ [AbstractAlarm!Next]_Left
<1>1. ASSUME Init
      PROVE  IInv /\ AbstractAlarm!Init
  <2>1. ListGood
    BY <1>1, EmptyOnce DEF Init, ListGood
  <2>2. Left = [t \in Threads |-> 0]
    BY <1>1 DEF Init, Left
  <2> QED BY <2>1, <2>2, InvIsGood DEF AbstractAlarm!Init
<1>2. ASSUME IInv, [Next]_vars
      PROVE  IInv' /\ [AbstractAlarm!Next]_Left
  <2>0. ListGood
    BY <1>2, InvIsGood
  <2>1. CASE Tick
    BY <2>0, <2>1, TickStep, InvIsGoodNext DEF AbstractAlarm!Next
  <2>2. CASE \E t \in Threads, n \in Ticks : Sleep(t, n)
    <3>1. PICK t \in Threads, n \in Ticks : Sleep(t, n)
      BY <2>2
    <3> QED BY <2>0, <3>1, SleepStep, InvIsGoodNext DEF AbstractAlarm!Next
  <2>3. CASE UNCHANGED vars
    <3>1. Left' = Left
      BY <2>3 DEF vars, Left
    <3>2. IInv'
      BY <1>2, <2>3 DEF vars, IInv, TypeOK, CountsSound
    <3> QED BY <3>1, <3>2
  <2> QED BY <1>2, <2>1, <2>2, <2>3 DEF Next
<1> QED BY <1>1, <1>2

\* Whatever threads sleep, for however long and however the interrupts fall
\* between their calls, sleep_list and wakeup_ticks keep their invariant.
THEOREM Invariance == Spec => []IInv
<1> QED BY InvStays, PTL DEF Spec

\* wakeup_ticks is never negative, and sleep_list holds threads.
THEOREM TypeCorrect == Spec => []TypeOK
<1>1. IInv => TypeOK
  BY DEF IInv
<1> QED BY Invariance, <1>1, PTL

\* The list holds each thread that thread_sleep blocked once, and no other, and
\* its front always has a tick to go: counting down the front is enough.
THEOREM AllCountsSound == Spec => []CountsSound
<1>1. IInv => CountsSound
  BY DEF IInv
<1> QED BY Invariance, <1>1, PTL

\* The list of relative counts implements the alarm of timer_sleep: a thread
\* that asks for n ticks is woken by the n-th timer interrupt after its call,
\* by no earlier one and no later one.
THEOREM WakesOnTime == Spec => AbstractAlarm!Init /\ [][AbstractAlarm!Next]_Left
<1> QED BY InvStays, Invariance, PTL DEF Spec
=============================================================================
