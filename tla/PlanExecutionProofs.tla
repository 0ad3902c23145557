------------------------ MODULE PlanExecutionProofs ------------------------
(***************************************************************************)
(* Proofs about the validator and the executors, for any tasks, plans and  *)
(* bounds.                                                                 *)
(*                                                                         *)
(* The validator and the executor of a graph share Kahn's rounds, which    *)
(* are a recursive function.  What it computes is proved by induction:     *)
(* a set of natural numbers that is not empty has a least element          *)
(* (LeastNatural), so a statement that fails for some round fails for a    *)
(* first one.                                                              *)
(***************************************************************************)
EXTENDS PlanExecution, FiniteSetTheorems, WellFoundedInduction, TLAPS

-----------------------------------------------------------------------------
(* Natural numbers *)

LEMMA LeastNatural ==
  ASSUME NEW S, S \subseteq Nat, S # {}
  PROVE  \E m \in S : \A n \in S : m <= n
<1> DEFINE R == {p \in Nat \X Nat : p[1] < p[2]}
<1>1. IsWellFoundedOn(R, Nat)
  BY NatLessThanWellFounded DEF OpToRel
<1> HIDE DEF R
<1>2. PICK m \in S : \A n \in S : <<n, m>> \notin R
  BY <1>1, WFMin
<1>3. \A n \in S : ~ (n < m)
  BY <1>2 DEF R
<1> QED BY <1>3

LEMMA Induction ==
  ASSUME NEW N \in Nat, NEW S, 0 \in S, \A n \in 1 .. N : n - 1 \in S => n \in S
  PROVE  0 .. N \subseteq S
<1> DEFINE Bad == (0 .. N) \ S
<1> SUFFICES ASSUME Bad # {} PROVE FALSE
  OBVIOUS
<1>1. \A n \in Bad : n \in 0 .. N /\ n \notin S
  OBVIOUS
<1>2. \A n \in 0 .. N : n \notin S => n \in Bad
  OBVIOUS
<1> HIDE DEF Bad
<1>3. Bad \subseteq Nat
  BY <1>1
<1>4. PICK m \in Bad : \A n \in Bad : m <= n
  BY <1>3, LeastNatural
<1>5. m \in 1 .. N /\ m - 1 \in 0 .. N /\ ~ (m <= m - 1)
  BY <1>1, <1>4
<1>6. m - 1 \in S
  BY <1>2, <1>4, <1>5
<1> QED BY <1>1, <1>4, <1>5, <1>6

-----------------------------------------------------------------------------
(* Kahn's rounds: what the recursive function computes *)

Gone(tasks, deps, before) == {t \in tasks : deps[t] \cap tasks \subseteq before}

LEMMA RemovedEquation ==
  ASSUME NEW tasks, NEW deps, IsFiniteSet(tasks)
  PROVE  Removed(tasks, deps) =
           [n \in 0 .. Cardinality(tasks) |->
              IF n = 0 THEN {}
              ELSE Removed(tasks, deps)[n - 1]
                     \cup Gone(tasks, deps, Removed(tasks, deps)[n - 1])]
<1> DEFINE Step(g, n) == IF n = 0 THEN {} ELSE g[n - 1] \cup Gone(tasks, deps, g[n - 1])
           Rounds(k)  == \E g : g = [n \in 0 .. k |-> Step(g, n)]
           S == {k \in 0 .. Cardinality(tasks) : Rounds(k)}
<1>1. Cardinality(tasks) \in Nat
  BY FS_CardinalityType
<1>2. 0 \in S
  <2> DEFINE g == [n \in 0 .. 0 |-> {}]
  <2>1. \A n \in 0 .. 0 : Step(g, n) = {}
    OBVIOUS
  <2>2. g = [n \in 0 .. 0 |-> Step(g, n)]
    BY <2>1
  <2>3. Rounds(0)
    BY <2>2
  <2> HIDE DEF Rounds
  <2> QED BY <1>1, <2>3
<1>3. ASSUME NEW k \in 1 .. Cardinality(tasks), k - 1 \in S PROVE k \in S
  <2>1. PICK g : g = [n \in 0 .. (k - 1) |-> Step(g, n)]
    BY <1>3
  <2> DEFINE f == [n \in 0 .. k |-> IF n = k THEN Step(g, k) ELSE g[n]]
  <2>2. \A n \in 0 .. k : n # 0 => n - 1 \in 0 .. (k - 1) /\ f[n - 1] = g[n - 1]
    BY <1>1
  <2>3. \A n \in 0 .. (k - 1) : g[n] = Step(g, n)
    BY <2>1
  <2>4. ASSUME NEW n \in 0 .. k PROVE f[n] = Step(g, n)
    <3>1. CASE n = k
      BY <3>1
    <3>2. CASE n # k
      <4>1. n \in 0 .. (k - 1) /\ f[n] = g[n]
        BY <1>1, <3>2
      <4> QED BY <2>3, <4>1
    <3> QED BY <3>1, <3>2
  <2>5. \A n \in 0 .. k : Step(f, n) = Step(g, n)
    BY <2>2
  <2>6. f = [n \in 0 .. k |-> Step(f, n)]
    BY <2>4, <2>5
  <2>7. Rounds(k)
    BY <2>6
  <2> HIDE DEF Rounds
  <2> QED BY <1>1, <2>7
<1>4. Rounds(Cardinality(tasks))
  <2> HIDE DEF Rounds
  <2>1. 0 .. Cardinality(tasks) \subseteq S
    <3> HIDE DEF S
    <3> QED BY <1>1, <1>2, <1>3, Induction
  <2> QED BY <1>1, <2>1
<1>5. \E g : g = [n \in 0 .. Cardinality(tasks) |->
                    IF n = 0 THEN {}
                    ELSE g[n - 1] \cup {t \in tasks : deps[t] \cap tasks \subseteq g[n - 1]}]
  BY <1>4 DEF Gone
<1> QED BY <1>5 DEF Removed, Gone

LEMMA RemovedFacts ==
  ASSUME NEW tasks, NEW deps, IsFiniteSet(tasks)
  PROVE  /\ Cardinality(tasks) \in Nat
         /\ Removed(tasks, deps)[0] = {}
         /\ \A n \in 1 .. Cardinality(tasks) :
              Removed(tasks, deps)[n] = Removed(tasks, deps)[n - 1]
                                          \cup Gone(tasks, deps, Removed(tasks, deps)[n - 1])
<1> DEFINE R == Removed(tasks, deps)
<1>1. Cardinality(tasks) \in Nat
  BY FS_CardinalityType
<1>2. R = [n \in 0 .. Cardinality(tasks) |->
             IF n = 0 THEN {} ELSE R[n - 1] \cup Gone(tasks, deps, R[n - 1])]
  BY RemovedEquation
<1> HIDE DEF R
<1>3. \A n \in 0 .. Cardinality(tasks) :
        R[n] = IF n = 0 THEN {} ELSE R[n - 1] \cup Gone(tasks, deps, R[n - 1])
  BY <1>2
<1>4. R[0] = {}
  <2>1. 0 \in 0 .. Cardinality(tasks)
    BY <1>1
  <2> QED BY <1>3, <2>1
<1>5. ASSUME NEW n \in 1 .. Cardinality(tasks)
      PROVE  R[n] = R[n - 1] \cup Gone(tasks, deps, R[n - 1])
  <2>1. n \in 0 .. Cardinality(tasks) /\ n # 0
    BY <1>1
  <2> QED BY <1>3, <2>1
<1> QED BY <1>1, <1>4, <1>5 DEF R

LEMMA RemovedAreTasks ==
  ASSUME NEW tasks, NEW deps, IsFiniteSet(tasks)
  PROVE  \A n \in 0 .. Cardinality(tasks) : Removed(tasks, deps)[n] \subseteq tasks
<1> DEFINE S == {n \in 0 .. Cardinality(tasks) : Removed(tasks, deps)[n] \subseteq tasks}
<1> DEFINE R == Removed(tasks, deps)
<1>0. /\ Cardinality(tasks) \in Nat
      /\ R[0] = {}
      /\ \A n \in 1 .. Cardinality(tasks) : R[n] = R[n - 1] \cup Gone(tasks, deps, R[n - 1])
  BY RemovedFacts
<1> HIDE DEF R
<1>1. 0 \in S
  BY <1>0 DEF R
<1>2. ASSUME NEW n \in 1 .. Cardinality(tasks), n - 1 \in S PROVE n \in S
  <2>1. R[n - 1] \subseteq tasks /\ n \in 0 .. Cardinality(tasks)
    BY <1>0, <1>2 DEF R
  <2>2. R[n] \subseteq tasks
    BY <1>0, <2>1 DEF Gone
  <2> QED BY <2>1, <2>2 DEF R
<1>3. 0 .. Cardinality(tasks) \subseteq S
  <2> HIDE DEF S
  <2> QED BY <1>0, <1>1, <1>2, Induction
<1> QED BY <1>3

\* A task that waits for another one of a set in which all do is never removed.
LEMMA WaitersStay ==
  ASSUME NEW tasks, NEW deps, IsFiniteSet(tasks),
         NEW s \in SUBSET tasks, \A t \in s : deps[t] \cap s # {}
  PROVE  \A n \in 0 .. Cardinality(tasks) : Removed(tasks, deps)[n] \cap s = {}
<1> DEFINE S == {n \in 0 .. Cardinality(tasks) : Removed(tasks, deps)[n] \cap s = {}}
<1> DEFINE R == Removed(tasks, deps)
<1>0. /\ Cardinality(tasks) \in Nat
      /\ R[0] = {}
      /\ \A n \in 1 .. Cardinality(tasks) : R[n] = R[n - 1] \cup Gone(tasks, deps, R[n - 1])
  BY RemovedFacts
<1> HIDE DEF R
<1>1. 0 \in S
  BY <1>0 DEF R
<1>2. ASSUME NEW n \in 1 .. Cardinality(tasks), n - 1 \in S PROVE n \in S
  <2>1. R[n - 1] \cap s = {} /\ n \in 0 .. Cardinality(tasks)
    BY <1>0, <1>2 DEF R
  <2>2. R[n] \cap s = {}
    BY <1>0, <2>1 DEF Gone
  <2> QED BY <2>1, <2>2 DEF R
<1>3. 0 .. Cardinality(tasks) \subseteq S
  <2> HIDE DEF S
  <2> QED BY <1>0, <1>1, <1>2, Induction
<1> QED BY <1>3

NobodyWaits(tasks, deps) == \A s \in (SUBSET tasks) \ {{}} : \E t \in s : deps[t] \cap s = {}

\* While nobody waits in a circle, a round that removes nothing has nothing left.
LEMMA EmptyRoundIsLast ==
  ASSUME NEW tasks, NEW deps, IsFiniteSet(tasks), NobodyWaits(tasks, deps),
         NEW n \in 1 .. Cardinality(tasks),
         Removed(tasks, deps)[n] = Removed(tasks, deps)[n - 1]
  PROVE  Removed(tasks, deps)[n - 1] = tasks
<1> DEFINE R == Removed(tasks, deps)
           rest == tasks \ R[n - 1]
<1>1. Gone(tasks, deps, R[n - 1]) \subseteq R[n - 1]
  BY RemovedFacts
<1>2. R[n - 1] \subseteq tasks
  BY RemovedAreTasks, RemovedFacts
<1>3. \A t \in rest : deps[t] \cap rest # {}
  BY <1>1 DEF Gone
<1>4. rest = {}
  BY <1>3 DEF NobodyWaits
<1> QED BY <1>2, <1>4

LEMMA RoundsSuffice ==
  ASSUME NEW tasks, NEW deps, IsFiniteSet(tasks), NobodyWaits(tasks, deps)
  PROVE  Removed(tasks, deps)[Cardinality(tasks)] = tasks
<1> DEFINE R == Removed(tasks, deps)
           S == {n \in 0 .. Cardinality(tasks) : R[n] = tasks \/ Cardinality(R[n]) >= n}
<1>1. Cardinality(tasks) \in Nat /\ R[0] = {}
  BY RemovedFacts
<1>2. \A n \in 0 .. Cardinality(tasks) : R[n] \subseteq tasks /\ IsFiniteSet(R[n])
  BY RemovedAreTasks, FS_Subset
<1>3. 0 \in S
  BY <1>1, FS_EmptySet
<1>4. ASSUME NEW n \in 1 .. Cardinality(tasks), n - 1 \in S PROVE n \in S
  <2> DEFINE before == R[n - 1]
             after  == R[n]
  <2>1. before \subseteq after /\ after \subseteq tasks /\ IsFiniteSet(after)
    BY <1>1, <1>2, RemovedFacts
  <2>2. CASE before = tasks
    BY <1>1, <2>1, <2>2
  <2>3. CASE before # tasks
    <3>1. before # after
      BY <2>3, EmptyRoundIsLast
    <3>2. Cardinality(before) >= n - 1
      BY <1>4, <2>3
    <3>3. IsFiniteSet(before)
      BY <1>1, <1>2
    <3> HIDE DEF R
    <3>4. /\ Cardinality(before) <= Cardinality(after)
          /\ Cardinality(before) # Cardinality(after)
          /\ Cardinality(before) \in Nat /\ Cardinality(after) \in Nat
      <4> HIDE DEF before, after
      <4> QED BY <2>1, <3>1, <3>3, FS_Subset, FS_CardinalityType
    <3>5. Cardinality(after) >= n
      <4> HIDE DEF before, after
      <4> QED BY <3>2, <3>4
    <3> QED BY <1>1, <3>5
  <2> QED BY <2>2, <2>3
<1>5. Cardinality(tasks) \in S
  <2> HIDE DEF S
  <2> QED BY <1>1, <1>3, <1>4, Induction
<1>6. CASE Cardinality(R[Cardinality(tasks)]) >= Cardinality(tasks)
  <2> DEFINE last == R[Cardinality(tasks)]
  <2>1. last \subseteq tasks
    BY <1>1, <1>2
  <2> HIDE DEF last
  <2>2. Cardinality(last) <= Cardinality(tasks) /\ Cardinality(last) \in Nat
    BY <2>1, FS_Subset, FS_CardinalityType
  <2>3. Cardinality(last) = Cardinality(tasks)
    BY <1>1, <1>6, <2>2 DEF last
  <2> QED BY <2>1, <2>3, FS_Subset DEF last
<1> QED BY <1>5, <1>6

(* Kahn's algorithm, as checkDAGCycle and the executors use it, rejects      *)
(* exactly the circular plans: those with tasks that each wait for one of    *)
(* them.                                                                     *)
THEOREM KahnIsCorrect ==
  ASSUME NEW p, IsFiniteSet(p.tasks)
  PROVE  Circular(p.tasks, p.dependsOn) <=> WaitForEachOther(p)
<1>1. ASSUME WaitForEachOther(p) PROVE Circular(p.tasks, p.dependsOn)
  <2>1. PICK s \in (SUBSET p.tasks) \ {{}} : \A t \in s : p.dependsOn[t] \cap s # {}
    BY <1>1 DEF WaitForEachOther
  <2>2. Cardinality(p.tasks) \in 0 .. Cardinality(p.tasks)
    <3>1. Cardinality(p.tasks) \in Nat
      BY FS_CardinalityType
    <3> QED BY <3>1
  <2>3. Removed(p.tasks, p.dependsOn)[Cardinality(p.tasks)] \cap s = {}
    BY <2>1, <2>2, WaitersStay
  <2>4. Removed(p.tasks, p.dependsOn)[Cardinality(p.tasks)] # p.tasks
    BY <2>1, <2>3
  <2> QED BY <2>4 DEF Circular
<1>2. ASSUME ~ WaitForEachOther(p) PROVE ~ Circular(p.tasks, p.dependsOn)
  <2>1. NobodyWaits(p.tasks, p.dependsOn)
    BY <1>2 DEF WaitForEachOther, NobodyWaits
  <2> QED BY <2>1, RoundsSuffice DEF Circular
<1> QED BY <1>1, <1>2

-----------------------------------------------------------------------------
(* The inductive invariant *)

Rank(tasks, t) == Cardinality({u \in tasks : u <= t})

Going == {"wave", "running", "finish", "returned"}

\* Rounds are numbered from 1, and the one that runs has tasks.
WaveNumbers ==
  /\ pc \in {"planned", "confirmed"} => wave = 0
  /\ pc \in {"wave", "running"} => wave \in 1 .. Cardinality(plan.tasks) + 1
  /\ pc = "running" => wave \in Waves

\* Only tasks of the round that runs are under way.
UnderWay ==
  /\ pc \in {"planned", "confirmed"} =>
       \A t \in Tasks : task[t] = "idle" /\ result[t] = "none"
  /\ \A t \in Tasks : task[t] \in {"idle", "over"} \/ (pc = "running" /\ t \in Wave(wave))

\* The rounds before this one are over, and the ones after it have not begun.
RoundsInTurn ==
  pc \in {"wave", "running"} =>
    IF Concurrent
      THEN LET removed == Removed(plan.tasks, plan.dependsOn) IN
           /\ \A t \in removed[wave - 1] : task[t] = "over"
           /\ \A t \in Tasks : task[t] # "idle" => t \in removed[IF pc = "wave" THEN wave - 1 ELSE wave]
      ELSE \A t \in plan.tasks : Rank(plan.tasks, t) < wave => task[t] = "over"

\* What has been told, and what cut the context.
Stream ==
  /\ marked => ~ live
  /\ pc \in {"planned", "confirmed", "answer"} => told = "nothing" /\ outcome = "completed"
  /\ pc \in Going =>
       /\ outcome = "cancelled" => marked
       /\ outcome # "completed" => ~ live
       /\ told \in {"completed", "partial_failure"} => pc = "returned"
  /\ pc \in Going \cup {"record"} =>
       /\ told = "cancelled" <=> outcome = "cancelled"
       /\ told \in {"completed", "partial_failure"} => outcome = "completed"

Executed == pc \notin {"planned", "ended"} => status = "executing"

IInv ==
  /\ TypeOK /\ WaveNumbers /\ UnderWay /\ RoundsInTurn /\ Stream /\ Executed
  /\ NoTaskForgotten /\ StartsAfterItsDependencies /\ StreamTellsTheRecord

-----------------------------------------------------------------------------
(* Rounds of a plan *)

\* A rank that is reached is taken: the tasks are numbered without a gap.
LEMMA RankTaken ==
  ASSUME NEW tasks \in SUBSET Nat, IsFiniteSet(tasks), NEW k \in Nat \ {0},
         NEW t \in tasks, Rank(tasks, t) >= k
  PROVE  \E u \in tasks : Rank(tasks, u) = k
<1> DEFINE Below(n) == {u \in tasks : u < n}
           S == {n \in Nat : Cardinality(Below(n)) >= k}
<1>1. \A n \in Nat : IsFiniteSet(Below(n)) /\ Cardinality(Below(n)) \in Nat
  BY FS_Subset, FS_CardinalityType
<1>2. t + 1 \in S
  <2>1. t \in Nat /\ \A u \in tasks : u \in Nat /\ (u < t + 1 <=> u <= t)
    OBVIOUS
  <2>2. Below(t + 1) = {u \in tasks : u <= t}
    BY <2>1
  <2>3. Cardinality(Below(t + 1)) >= k
    BY <2>2 DEF Rank
  <2> HIDE DEF Below
  <2> QED BY <2>1, <2>3
<1>3. PICK m \in S : \A n \in S : m <= n
  <2>1. S \subseteq Nat /\ S # {}
    BY <1>2
  <2> QED BY <2>1, LeastNatural
<1>4. m # 0
  <2>1. Below(0) = {}
    <3>1. \A u \in tasks : ~ (u < 0)
      OBVIOUS
    <3> QED BY <3>1
  <2>2. Cardinality(Below(0)) = 0
    BY <2>1, FS_EmptySet
  <2>3. Cardinality(Below(m)) >= k
    BY <1>3
  <2> HIDE DEF Below
  <2> QED BY <2>2, <2>3
<1> DEFINE w == m - 1
<1>5. w \in Nat /\ w \notin S /\ m = w + 1
  BY <1>3, <1>4
<1> HIDE DEF w
<1>6. Below(m) = Below(w) \cup (IF w \in tasks THEN {w} ELSE {}) /\ w \notin Below(w)
  <2>1. \A u \in tasks : u < m <=> u < w \/ u = w
    BY <1>5
  <2>2. ~ (w < w)
    BY <1>5
  <2> QED BY <2>1, <2>2
<1>7. w \in tasks /\ Below(m) = Below(w) \cup {w}
  <2>1. Below(m) # Below(w)
    BY <1>3, <1>5
  <2> QED BY <1>6, <2>1
<1>8. Cardinality(Below(m)) = Cardinality(Below(w)) + 1
  <2> HIDE DEF Below
  <2> QED BY <1>1, <1>5, <1>6, <1>7, FS_AddElement
<1>9. Cardinality(Below(m)) = k
  <2>1. ~ (Cardinality(Below(w)) >= k) /\ Cardinality(Below(m)) >= k
    BY <1>3, <1>5
  <2> HIDE DEF Below, S
  <2> QED BY <1>1, <1>5, <1>8, <2>1
<1>10. Below(m) = {u \in tasks : u <= w}
  <2>1. \A u \in tasks : u < m <=> u <= w
    BY <1>5
  <2> QED BY <2>1
<1> QED BY <1>7, <1>9, <1>10 DEF Rank

LEMMA PlanFacts ==
  ASSUME TypeOK
  PROVE  /\ plan.tasks \in SUBSET Tasks
         /\ plan.dependsOn \in [Tasks -> SUBSET Tasks]
         /\ IsFiniteSet(plan.tasks)
         /\ Cardinality(plan.tasks) \in Nat /\ Cardinality(Tasks) \in Nat
         /\ Cardinality(plan.tasks) <= Cardinality(Tasks)
<1>1. plan.tasks \in SUBSET Tasks /\ plan.dependsOn \in [Tasks -> SUBSET Tasks]
  BY DEF TypeOK
<1> QED BY <1>1, BoundAssumption, FS_Subset, FS_CardinalityType

\* What belongs to a round: in a graph the tasks whose dependencies are all gone.
LEMMA WaveFacts ==
  ASSUME TypeOK
  PROVE  /\ \A n \in 1 .. Cardinality(plan.tasks) : Wave(n) \subseteq plan.tasks
         /\ Waves \subseteq 1 .. Cardinality(plan.tasks)
         /\ Concurrent =>
              \A n \in 1 .. Cardinality(plan.tasks) :
                LET removed == Removed(plan.tasks, plan.dependsOn) IN
                /\ removed[n] = removed[n - 1] \cup Wave(n)
                /\ Wave(n) \cap removed[n - 1] = {}
                /\ \A t \in Wave(n) : Deps(t) \subseteq removed[n - 1]
         /\ ~ Concurrent => \A n : Wave(n) = {t \in plan.tasks : Rank(plan.tasks, t) = n}
<1> DEFINE C == Cardinality(plan.tasks)
           R == Removed(plan.tasks, plan.dependsOn)
<1>1. /\ C \in Nat
      /\ \A n \in 1 .. C : R[n] = R[n - 1] \cup Gone(plan.tasks, plan.dependsOn, R[n - 1])
  BY PlanFacts, RemovedFacts
<1>2. Waves \subseteq 1 .. C
  BY DEF Waves
<1>3. ~ Concurrent => \A n : Wave(n) = {t \in plan.tasks : Rank(plan.tasks, t) = n}
  BY DEF Wave, Rank
<1>4. Concurrent => \A n : Wave(n) = R[n] \ R[n - 1]
  BY DEF Wave
<1> HIDE DEF R, C
<1>5. ASSUME Concurrent, NEW n \in 1 .. C
      PROVE  /\ R[n] = R[n - 1] \cup Wave(n)
             /\ Wave(n) \cap R[n - 1] = {}
             /\ Wave(n) \subseteq plan.tasks
             /\ \A t \in Wave(n) : Deps(t) \subseteq R[n - 1]
  <2>1. Wave(n) = R[n] \ R[n - 1] /\ R[n] = R[n - 1] \cup Gone(plan.tasks, plan.dependsOn, R[n - 1])
    BY <1>1, <1>4, <1>5
  <2>2. Wave(n) \subseteq Gone(plan.tasks, plan.dependsOn, R[n - 1])
    BY <2>1
  <2> QED BY <2>1, <2>2 DEF Gone, Deps
<1>6. \A n \in 1 .. C : Wave(n) \subseteq plan.tasks
  BY <1>3, <1>5
<1> QED BY <1>2, <1>3, <1>5, <1>6 DEF R, C

\* When a round is asked for that is not there, no task is left.
LEMMA NoRoundLeft ==
  ASSUME TypeOK, WaveNumbers, RoundsInTurn, ~ WaitForEachOther(plan),
         pc = "wave", wave \notin Waves
  PROVE  \A t \in plan.tasks : task[t] = "over"
<1> DEFINE C == Cardinality(plan.tasks)
           R == Removed(plan.tasks, plan.dependsOn)
<1>1. C \in Nat /\ wave \in 1 .. C + 1
  BY PlanFacts DEF WaveNumbers
<1>2. CASE Concurrent
  <2>1. NobodyWaits(plan.tasks, plan.dependsOn)
    BY DEF NobodyWaits, WaitForEachOther
  <2>2. \A t \in R[wave - 1] : task[t] = "over"
    BY <1>2 DEF RoundsInTurn
  <2>3. R[wave - 1] = plan.tasks
    <3>1. CASE wave = C + 1
      <4>1. R[C] = plan.tasks
        BY <2>1, PlanFacts, RoundsSuffice
      <4> HIDE DEF R, C
      <4>2. wave - 1 = C
        BY <1>1, <3>1
      <4> QED BY <4>1, <4>2
    <3>2. CASE wave # C + 1
      <4>1. wave \in 1 .. C
        BY <1>1, <3>2
      <4>2. Wave(wave) = {}
        BY <4>1 DEF Waves
      <4>3. R[wave] = R[wave - 1]
        <5>1. R[wave] = R[wave - 1] \cup Wave(wave)
          BY <1>2, <4>1, WaveFacts
        <5> QED BY <4>2, <5>1
      <4> QED BY <2>1, <4>1, <4>3, PlanFacts, EmptyRoundIsLast
    <3> QED BY <3>1, <3>2
  <2> QED BY <2>2, <2>3
<1>3. CASE ~ Concurrent
  <2> SUFFICES ASSUME NEW t \in plan.tasks PROVE Rank(plan.tasks, t) < wave
    BY <1>3 DEF RoundsInTurn
  <2>1. /\ IsFiniteSet({u \in plan.tasks : u <= t}) /\ Rank(plan.tasks, t) \in Nat
        /\ Rank(plan.tasks, t) <= C
    BY PlanFacts, FS_Subset, FS_CardinalityType DEF Rank
  <2>2. ASSUME Rank(plan.tasks, t) >= wave PROVE FALSE
    <3>1. wave \in 1 .. C /\ wave \in Nat \ {0}
      BY <1>1, <2>1, <2>2
    <3>2. plan.tasks \in SUBSET Nat /\ IsFiniteSet(plan.tasks)
      BY PlanFacts, BoundAssumption
    <3>3. PICK u \in plan.tasks : Rank(plan.tasks, u) = wave
      BY <2>2, <3>1, <3>2, RankTaken
    <3>4. u \in Wave(wave)
      BY <1>3, <3>3, WaveFacts
    <3> QED BY <3>1, <3>4 DEF Waves
  <2> QED BY <1>1, <2>1, <2>2
<1> QED BY <1>2, <1>3

-----------------------------------------------------------------------------
(* The initial states and the steps *)

LEMMA Start == Init => IInv
<1> SUFFICES ASSUME Init PROVE IInv
  OBVIOUS
<1>1. Cardinality(Tasks) \in Nat
  BY BoundAssumption, FS_CardinalityType
<1>2. TypeOK
  <2>1. plan \in [strategy : Strategies, tasks : SUBSET Tasks, dependsOn : [Tasks -> SUBSET Tasks],
                  unfit : SUBSET Tasks, selected : SUBSET Tasks]
    BY PlanAssumption DEF Init
  <2>2. wave \in 0 .. Cardinality(Tasks) + 1
    BY <1>1 DEF Init
  <2> QED BY <2>1, <2>2 DEF Init, TypeOK
<1>3. WaveNumbers /\ UnderWay /\ RoundsInTurn /\ Stream /\ Executed
  BY DEF Init, WaveNumbers, UnderWay, RoundsInTurn, Stream, Executed, Going
<1>4. NoTaskForgotten /\ StreamTellsTheRecord
  BY DEF Init, NoTaskForgotten, StreamTellsTheRecord
<1>5. StartsAfterItsDependencies
  BY <1>2 DEF Init, StartsAfterItsDependencies, TypeOK
<1> QED BY <1>2, <1>3, <1>4, <1>5 DEF IInv

LEMMA TypeStep ==
  ASSUME TypeOK, WaveNumbers, [Next]_vars
  PROVE  TypeOK'
<1>1. Cardinality(Tasks) \in Nat /\ Cardinality(plan.tasks) <= Cardinality(Tasks)
  BY PlanFacts
<1>2. CASE Validate
  BY <1>2 DEF TypeOK, Validate, planVars, taskVars, streamVars, recordVars, registryVars, cancelVars
<1>3. CASE Begin
  <2>1. plan' \in [strategy : Strategies, tasks : SUBSET Tasks, dependsOn : [Tasks -> SUBSET Tasks],
                   unfit : SUBSET Tasks, selected : SUBSET Tasks]
    BY <1>3 DEF Begin, TypeOK
  <2> QED BY <1>1, <1>3, <2>1 DEF TypeOK, Begin, taskVars, streamVars, cancelVars
<1>4. CASE StartWave
  <2>1. task' \in [Tasks -> {"idle", "spawned", "holding", "admitted", "streaming", "over"}]
    BY <1>4 DEF StartWave, TypeOK
  <2> QED BY <1>4, <2>1 DEF TypeOK, StartWave, planVars, streamVars, recordVars, registryVars, cancelVars
<1>5. CASE EndWave
  <2>1. wave \in 1 .. Cardinality(plan.tasks) /\ Cardinality(plan.tasks) \in Nat
    BY <1>5, PlanFacts, WaveFacts DEF EndWave, WaveNumbers
  <2>2. wave' \in 0 .. Cardinality(Tasks) + 1
    BY <1>1, <1>5, <2>1 DEF EndWave
  <2> QED BY <1>5, <2>2 DEF TypeOK, EndWave, planVars, taskVars, streamVars, recordVars, registryVars, cancelVars
<1>6. CASE NoTasks \/ Summarise \/ FinishRun
  <2>1. outcome' \in {"completed", "failed", "cancelled", "disconnected"}
        /\ told' \in {"nothing", "completed", "partial_failure", "cancelled"}
    BY <1>6 DEF NoTasks, Summarise, FinishRun, Emit, TypeOK, streamVars
  <2> QED BY <1>6, <2>1 DEF TypeOK, NoTasks, Summarise, FinishRun, planVars, taskVars, recordVars,
                            registryVars, cancelVars
<1>7. CASE Answer \/ Return
  BY <1>7 DEF TypeOK, Answer, Return, planVars, taskVars, streamVars, recordVars, registryVars, cancelVars
<1>8. CASE Record
  BY <1>8 DEF TypeOK, Record, Recorded, planVars, taskVars, streamVars, cancelVars
<1>9. ASSUME NEW t \in Tasks, Turn(t) PROVE TypeOK'
  <2>1. task' \in [Tasks -> {"idle", "spawned", "holding", "admitted", "streaming", "over"}]
    BY <1>9 DEF Turn, Acquire, CutBeforeStart, Admit, Skip, StartTask, TaskFails, TaskEnds, Over, TypeOK
  <2>2. result' \in [Tasks -> {"none", "ok", "failed", "skipped", "cut"}] /\ failed' \subseteq Tasks
    BY <1>9 DEF Turn, Acquire, CutBeforeStart, Admit, Skip, StartTask, TaskFails, TaskEnds, Over, TypeOK
  <2>3. outcome' \in {"completed", "failed", "cancelled", "disconnected"}
        /\ told' \in {"nothing", "completed", "partial_failure", "cancelled"}
    BY <1>9 DEF Turn, Acquire, CutBeforeStart, Admit, Skip, StartTask, TaskFails, TaskEnds, Emit, TypeOK, streamVars
  <2>4. UNCHANGED <<planVars, pc, wave, live, recordVars, registryVars, cancelVars>>
    BY <1>9 DEF Turn, Acquire, CutBeforeStart, Admit, Skip, StartTask, TaskFails, TaskEnds, Over
  <2> QED BY <2>1, <2>2, <2>3, <2>4 DEF TypeOK, planVars, recordVars, registryVars, cancelVars
<1>10. CASE Environment
  <2>1. UNCHANGED <<planVars, pc, wave, taskVars, streamVars, recordVars, registered>>
    BY <1>10 DEF Environment, RequestCancel, CancelRun, WatchRunCancel, ReaderLeaves, registryVars
  <2>2. live' \in BOOLEAN /\ marked' \in BOOLEAN /\ cancelRequested' \in BOOLEAN
    BY <1>10 DEF Environment, RequestCancel, CancelRun, WatchRunCancel, ReaderLeaves, registryVars, cancelVars, TypeOK
  <2>3. canceller' \in {"none", "here", "elsewhere", "answered"}
    BY <1>10 DEF Environment, RequestCancel, CancelRun, WatchRunCancel, ReaderLeaves, cancelVars, TypeOK
  <2> QED BY <2>1, <2>2, <2>3 DEF TypeOK, planVars, taskVars, streamVars, recordVars
<1>11. CASE UNCHANGED vars
  BY <1>11 DEF TypeOK, vars
<1> QED BY <1>2, <1>3, <1>4, <1>5, <1>6, <1>7, <1>8, <1>9, <1>10, <1>11 DEF Next, Run

\* What a task's turn leaves alone, and what it does to the other tasks.
LEMMA TurnFacts ==
  ASSUME TypeOK, UnderWay, NEW t \in Tasks, Turn(t)
  PROVE  /\ UNCHANGED <<plan, pc, wave, live, planStatus, status, registered, marked>>
         /\ task[t] \notin {"idle", "over"} /\ task'[t] # "idle"
         /\ pc = "running" /\ t \in Wave(wave)
         /\ \A u \in Tasks \ {t} : task'[u] = task[u] /\ result'[u] = result[u]
         /\ failed \subseteq failed' /\ failed' \subseteq failed \cup {t}
<1>1. UNCHANGED <<plan, pc, wave, live, planStatus, status, registered, marked>>
  BY DEF Turn, Acquire, CutBeforeStart, Admit, Skip, StartTask, TaskFails, TaskEnds, Over,
         planVars, recordVars, registryVars, cancelVars
<1>2. task[t] \notin {"idle", "over"}
  BY DEF Turn, Acquire, CutBeforeStart, Admit, Skip, StartTask, TaskFails, TaskEnds, MayDispatch
<1>3. task'[t] # "idle" /\ \A u \in Tasks \ {t} : task'[u] = task[u]
  BY DEF Turn, Acquire, CutBeforeStart, Admit, Skip, StartTask, TaskFails, TaskEnds, Over, TypeOK
<1>4. \A u \in Tasks \ {t} : result'[u] = result[u]
  BY DEF Turn, Acquire, CutBeforeStart, Admit, Skip, StartTask, TaskFails, TaskEnds, Over, TypeOK
<1>5. failed \subseteq failed' /\ failed' \subseteq failed \cup {t}
  BY DEF Turn, Acquire, CutBeforeStart, Admit, Skip, StartTask, TaskFails, TaskEnds, Over
<1>6. pc = "running" /\ t \in Wave(wave)
  BY <1>2 DEF UnderWay
<1> QED BY <1>1, <1>2, <1>3, <1>4, <1>5, <1>6

LEMMA RecordStep ==
  ASSUME TypeOK, Executed, Stream, StreamTellsTheRecord, UnderWay, [Next]_vars
  PROVE  Executed' /\ Stream' /\ StreamTellsTheRecord'
<1> USE DEF Executed, Stream, StreamTellsTheRecord, Going
<1>1. CASE Validate
  BY <1>1 DEF Validate, planVars, taskVars, streamVars, registryVars, cancelVars
<1>2. CASE Begin
  BY <1>2 DEF Begin, taskVars, streamVars, cancelVars
<1>3. CASE StartWave
  BY <1>3 DEF StartWave, planVars, streamVars, recordVars, registryVars, cancelVars
<1>4. CASE EndWave
  BY <1>4 DEF EndWave, planVars, taskVars, streamVars, recordVars, registryVars, cancelVars
<1>5. CASE NoTasks
  BY <1>5 DEF NoTasks, Emit, Refused, recordVars, registryVars
<1>6. CASE Summarise
  BY <1>6 DEF Summarise, Emit, Refused, recordVars, registryVars, streamVars
<1>7. CASE FinishRun
  BY <1>7 DEF FinishRun, Emit, Refused, recordVars, registryVars
<1>8. CASE Answer
  BY <1>8 DEF Answer, recordVars, registryVars
<1>9. CASE Return
  BY <1>9 DEF Return, streamVars, registryVars
<1>10. CASE Record
  BY <1>10 DEF Record, Recorded, streamVars
<1>11. ASSUME NEW t \in Tasks, Turn(t) PROVE Executed' /\ Stream' /\ StreamTellsTheRecord'
  <2>1. pc = "running" /\ UNCHANGED <<pc, live, status, marked>>
    BY <1>11, TurnFacts
  <2>2. \/ UNCHANGED <<outcome, told>>
        \/ Emit("run_error", told) \/ Emit("message_start", told) \/ Emit("message_end", told)
    BY <1>11 DEF Turn, Acquire, CutBeforeStart, Admit, Skip, StartTask, TaskFails, TaskEnds, streamVars
  <2> QED BY <2>1, <2>2 DEF Emit, Refused
<1>12. CASE RequestCancel
  BY <1>12 DEF RequestCancel, streamVars, recordVars, registryVars
<1>13. CASE CancelRun
  BY <1>13 DEF CancelRun, streamVars, recordVars
<1>14. CASE WatchRunCancel \/ ReaderLeaves
  BY <1>14 DEF WatchRunCancel, ReaderLeaves, streamVars, recordVars, registryVars
<1>15. CASE UNCHANGED vars
  BY <1>15 DEF vars
<1> QED BY <1>1, <1>2, <1>3, <1>4, <1>5, <1>6, <1>7, <1>8, <1>9, <1>10, <1>11, <1>12, <1>13, <1>14, <1>15
        DEF Next, Run, Environment

\* Steps that neither begin nor end a round nor touch a task.
Elsewhere ==
  \/ NoTasks \/ Summarise \/ FinishRun \/ Answer \/ Return \/ Record \/ Environment \/ UNCHANGED vars

LEMMA ElsewhereFacts ==
  ASSUME Elsewhere
  PROVE  /\ UNCHANGED <<plan, wave, task, result, failed>>
         /\ pc' = pc \/ (pc \notin {"planned", "confirmed", "running"}
                         /\ pc' \in {"finish", "returned", "record", "ended"})
         /\ pc' = "finish" => pc = "finish" \/ (Summarise /\ pc = "wave" /\ wave \notin Waves)
<1>1. UNCHANGED <<plan, wave, task, result, failed>>
  BY DEF Elsewhere, NoTasks, Summarise, FinishRun, Answer, Return, Record, Environment, RequestCancel, CancelRun,
         WatchRunCancel, ReaderLeaves, vars, planVars, taskVars
<1>2. pc' = pc \/ (pc \notin {"planned", "confirmed", "running"}
                   /\ pc' \in {"finish", "returned", "record", "ended"})
  BY DEF Elsewhere, NoTasks, Summarise, FinishRun, Answer, Return, Record, Environment, RequestCancel, CancelRun,
         WatchRunCancel, ReaderLeaves, vars
<1>3. pc' = "finish" => pc = "finish" \/ (Summarise /\ pc = "wave" /\ wave \notin Waves)
  BY DEF Elsewhere, NoTasks, Summarise, FinishRun, Answer, Return, Record, Environment, RequestCancel, CancelRun,
         WatchRunCancel, ReaderLeaves, vars
<1> QED BY <1>1, <1>2, <1>3

\* What is said of a plan depends on nothing else.
LEMMA SamePlan ==
  ASSUME UNCHANGED plan
  PROVE  /\ Concurrent' = Concurrent /\ Waves' = Waves /\ \A n : Wave(n)' = Wave(n)
         /\ \A t : Deps(t)' = Deps(t)
         /\ WaitForEachOther(plan)' = WaitForEachOther(plan)
<1>1. Concurrent' = Concurrent /\ WaitForEachOther(plan)' = WaitForEachOther(plan)
  BY DEF Concurrent, WaitForEachOther
<1>2. \A t : Deps(t)' = Deps(t)
  BY DEF Deps
<1>3. \A n : Wave(n)' = Wave(n)
  BY <1>1 DEF Wave
<1>4. Waves' = Waves
  BY <1>3 DEF Waves
<1> QED BY <1>1, <1>2, <1>3, <1>4

LEMMA RoundStep ==
  ASSUME TypeOK, WaveNumbers, UnderWay, RoundsInTurn, [Next]_vars
  PROVE  WaveNumbers' /\ UnderWay' /\ RoundsInTurn'
<1> DEFINE R == Removed(plan.tasks, plan.dependsOn)
           C == Cardinality(plan.tasks)
<1>0. C \in Nat
  BY PlanFacts
<1>1. CASE Validate
  <2>1. UNCHANGED <<plan, wave, task, result>> /\ pc' \in {"confirmed", "ended"} /\ pc = "planned"
    BY <1>1 DEF Validate, planVars, taskVars
  <2> QED BY <2>1 DEF WaveNumbers, UnderWay, RoundsInTurn
<1>2. CASE Begin
  <2>1. UNCHANGED <<task, result>> /\ wave' = 1 /\ pc' \in {"answer", "wave"} /\ pc = "confirmed"
    BY <1>2 DEF Begin, taskVars
  <2>2. \A t \in Tasks : task[t] = "idle"
    BY <2>1 DEF UnderWay
  <2>3. TypeOK'
    BY <1>2, TypeStep DEF Next, Run
  <2>4. plan'.tasks \in SUBSET Tasks /\ IsFiniteSet(plan'.tasks) /\ Cardinality(plan'.tasks) \in Nat
    BY <2>3, BoundAssumption, FS_Subset, FS_CardinalityType DEF TypeOK
  <2>5. WaveNumbers'
    BY <2>1, <2>4 DEF WaveNumbers
  <2>6. UnderWay'
    BY <2>1, <2>2 DEF UnderWay
  <2>7. Removed(plan'.tasks, plan'.dependsOn)[wave' - 1] = {}
    <3>1. Removed(plan'.tasks, plan'.dependsOn)[0] = {}
      BY <2>4, RemovedFacts
    <3>2. wave' - 1 = 0
      BY <2>1
    <3> QED BY <3>1, <3>2
  <2>8. \A t \in plan'.tasks : ~ (Rank(plan'.tasks, t) < wave')
    <3> SUFFICES ASSUME NEW t \in plan'.tasks PROVE ~ (Rank(plan'.tasks, t) < 1)
      BY <2>1
    <3> DEFINE low == {u \in plan'.tasks : u <= t}
    <3>1. t \in low /\ IsFiniteSet(low)
      <4>1. t <= t
        <5>1. t \in Nat
          BY <2>4, BoundAssumption
        <5> QED BY <5>1
      <4>2. low \subseteq plan'.tasks
        OBVIOUS
      <4> QED BY <2>4, <4>1, <4>2, FS_Subset
    <3> HIDE DEF low
    <3>2. Cardinality(low) \in Nat /\ Cardinality(low) # 0
      BY <3>1, FS_CardinalityType, FS_EmptySet
    <3> QED BY <3>2 DEF Rank, low
  <2>9. RoundsInTurn'
    BY <2>1, <2>2, <2>7, <2>8 DEF RoundsInTurn
  <2> QED BY <2>5, <2>6, <2>9
<1>3. CASE StartWave
  <2>1. UNCHANGED <<plan, wave, result>> /\ pc = "wave" /\ pc' \in {"running", "returned"} /\ wave \in Waves
    BY <1>3 DEF StartWave, planVars
  <2>2. CASE pc' = "returned"
    <3>1. UNCHANGED task
      BY <1>3, <2>2 DEF StartWave
    <3> QED BY <2>1, <2>2, <3>1 DEF WaveNumbers, UnderWay, RoundsInTurn
  <2>3. CASE pc' = "running"
    <3>1. /\ \A t \in Tasks : t \notin Wave(wave) => task'[t] = task[t]
          /\ \A t \in Wave(wave) : t \in Tasks => task'[t] \in {"spawned", "admitted"}
      BY <1>3, <2>3 DEF StartWave
    <3>2. WaveNumbers'
      BY <2>1, <2>3, SamePlan DEF WaveNumbers
    <3>3. UnderWay'
      BY <2>1, <2>3, <3>1, SamePlan DEF UnderWay
    <3>4. wave \in 1 .. C
      BY <2>1, WaveFacts
    <3>5. CASE Concurrent
      <4>1. /\ R[wave] = R[wave - 1] \cup Wave(wave) /\ Wave(wave) \cap R[wave - 1] = {}
        BY <3>4, <3>5, WaveFacts
      <4>2. R[wave - 1] \subseteq Tasks
        <5>1. wave - 1 \in 0 .. C
          BY <1>0, <3>4
        <5> QED BY <5>1, PlanFacts, RemovedAreTasks
      <4>3. (\A t \in R[wave - 1] : task[t] = "over") /\ (\A t \in Tasks : task[t] # "idle" => t \in R[wave - 1])
        BY <2>1, <3>5 DEF RoundsInTurn
      <4> HIDE DEF R
      <4>4. (\A t \in R[wave - 1] : task'[t] = "over") /\ (\A t \in Tasks : task'[t] # "idle" => t \in R[wave])
        BY <3>1, <4>1, <4>2, <4>3
      <4>5. RoundsInTurn'
        BY <2>1, <2>3, <3>5, <4>4, SamePlan DEF RoundsInTurn, R
      <4> QED BY <3>2, <3>3, <4>5
    <3>6. CASE ~ Concurrent
      <4>1. \A t \in plan.tasks : Rank(plan.tasks, t) < wave => t \notin Wave(wave)
        BY <3>4, <3>6, WaveFacts
      <4>2. \A t \in plan.tasks : Rank(plan.tasks, t) < wave => task'[t] = "over"
        BY <2>1, <3>1, <3>6, <4>1, PlanFacts DEF RoundsInTurn
      <4>3. RoundsInTurn'
        BY <2>1, <3>6, <4>2, SamePlan DEF RoundsInTurn
      <4> QED BY <3>2, <3>3, <4>3
    <3> QED BY <3>5, <3>6
  <2> QED BY <2>1, <2>2, <2>3
<1>4. CASE EndWave
  <2>1. /\ UNCHANGED <<plan, task, result>> /\ wave' = wave + 1
        /\ pc = "running" /\ pc' \in {"wave", "returned"}
        /\ \A t \in Wave(wave) : task[t] = "over"
    BY <1>4 DEF EndWave, planVars, taskVars
  <2>2. wave \in 1 .. C
    BY <2>1, WaveFacts DEF WaveNumbers
  <2>3. WaveNumbers'
    BY <1>0, <2>1, <2>2 DEF WaveNumbers
  <2>4. UnderWay'
    BY <2>1 DEF UnderWay
  <2>5. wave' - 1 = wave
    BY <2>1, <2>2
  <2>6. CASE Concurrent
    <3>1. R[wave] = R[wave - 1] \cup Wave(wave)
      BY <2>2, <2>6, WaveFacts
    <3>2. (\A t \in R[wave - 1] : task[t] = "over") /\ (\A t \in Tasks : task[t] # "idle" => t \in R[wave])
      BY <2>1, <2>6 DEF RoundsInTurn
    <3> HIDE DEF R
    <3>3. \A t \in R[wave] : task[t] = "over"
      BY <2>1, <3>1, <3>2
    <3>4. RoundsInTurn'
      BY <2>1, <2>5, <2>6, <3>2, <3>3, SamePlan DEF RoundsInTurn, R
    <3> QED BY <2>3, <2>4, <3>4
  <2>7. CASE ~ Concurrent
    <3>1. \A t \in plan.tasks : Rank(plan.tasks, t) \in Nat
      BY PlanFacts, FS_Subset, FS_CardinalityType DEF Rank
    <3>2. \A t \in plan.tasks : Rank(plan.tasks, t) < wave + 1 => Rank(plan.tasks, t) < wave \/ t \in Wave(wave)
      BY <2>2, <2>7, <3>1, WaveFacts
    <3>3. \A t \in plan.tasks : Rank(plan.tasks, t) < wave + 1 => task[t] = "over"
      BY <2>1, <2>7, <3>2 DEF RoundsInTurn
    <3>4. RoundsInTurn'
      BY <2>1, <2>7, <3>3, SamePlan DEF RoundsInTurn
    <3> QED BY <2>3, <2>4, <3>4
  <2> QED BY <2>6, <2>7
<1>5. ASSUME NEW t \in Tasks, Turn(t) PROVE WaveNumbers' /\ UnderWay' /\ RoundsInTurn'
  <2>1. /\ UNCHANGED <<plan, pc, wave>> /\ pc = "running" /\ t \in Wave(wave)
        /\ task[t] # "over" /\ task[t] # "idle"
        /\ \A u \in Tasks \ {t} : task'[u] = task[u]
    BY <1>5, TurnFacts
  <2>2. WaveNumbers'
    BY <2>1, SamePlan DEF WaveNumbers
  <2>3. UnderWay'
    BY <2>1, SamePlan DEF UnderWay
  <2>4. wave \in 1 .. C /\ wave - 1 \in 0 .. C
    BY <1>0, <2>1, WaveFacts DEF WaveNumbers
  <2>5. CASE Concurrent
    <3>1. R[wave - 1] \subseteq Tasks
      BY <2>4, PlanFacts, RemovedAreTasks
    <3>2. (\A u \in R[wave - 1] : task[u] = "over") /\ (\A u \in Tasks : task[u] # "idle" => u \in R[wave])
      BY <2>1, <2>5 DEF RoundsInTurn
    <3> HIDE DEF R
    <3>3. (\A u \in R[wave - 1] : task'[u] = "over") /\ (\A u \in Tasks : task'[u] # "idle" => u \in R[wave])
      BY <2>1, <3>1, <3>2
    <3>4. RoundsInTurn'
      BY <2>1, <2>5, <3>3, SamePlan DEF RoundsInTurn, R
    <3> QED BY <2>2, <2>3, <3>4
  <2>6. CASE ~ Concurrent
    <3>1. \A u \in plan.tasks : Rank(plan.tasks, u) < wave => task'[u] = "over"
      BY <2>1, <2>6, PlanFacts DEF RoundsInTurn
    <3>2. RoundsInTurn'
      BY <2>1, <2>6, <3>1, SamePlan DEF RoundsInTurn
    <3> QED BY <2>2, <2>3, <3>2
  <2> QED BY <2>5, <2>6
<1>6. CASE Elsewhere
  <2>1. /\ UNCHANGED <<plan, wave, task, result>>
        /\ pc' = pc \/ (pc \notin {"planned", "confirmed", "running"}
                        /\ pc' \in {"finish", "returned", "record", "ended"})
    BY <1>6, ElsewhereFacts
  <2>2. WaveNumbers'
    BY <2>1, SamePlan DEF WaveNumbers
  <2>3. UnderWay'
    BY <2>1, SamePlan DEF UnderWay
  <2>4. RoundsInTurn'
    BY <2>1, SamePlan DEF RoundsInTurn
  <2> QED BY <2>2, <2>3, <2>4
<1> QED BY <1>1, <1>2, <1>3, <1>4, <1>5, <1>6 DEF Next, Run, Elsewhere

LEMMA NoTaskForgottenStep ==
  ASSUME IInv, [Next]_vars
  PROVE  NoTaskForgotten'
<1> USE DEF IInv
<1>1. (pc # "planned" /\ status # "failed" => ~ WaitForEachOther(plan))'
  <2>1. CASE Validate
    <3>1. UNCHANGED plan /\ (status' # "failed" => Valid(plan))
      BY <2>1 DEF Validate, planVars
    <3>2. Valid(plan) => ~ WaitForEachOther(plan)
      BY PlanFacts, KahnIsCorrect DEF Valid
    <3> QED BY <3>1, <3>2, SamePlan
  <2>2. CASE Begin
    <3>1. plan'.tasks \subseteq plan.tasks /\ plan'.dependsOn = plan.dependsOn /\ pc = "confirmed"
      BY <2>2 DEF Begin, TypeOK
    <3>2. ~ WaitForEachOther(plan)
      BY <3>1 DEF NoTaskForgotten, Executed
    <3> QED BY <3>1, <3>2 DEF WaitForEachOther
  <2>3. ASSUME UNCHANGED plan, pc # "planned", pc \in {"ended"} => UNCHANGED status
        PROVE  (pc # "planned" /\ status # "failed" => ~ WaitForEachOther(plan))'
    BY <2>3, SamePlan DEF NoTaskForgotten, Executed
  <2>4. CASE UNCHANGED <<plan, pc, status>>
    BY <2>4, SamePlan DEF NoTaskForgotten
  <2>5. CASE Record
    BY <2>3, <2>5 DEF Record, planVars
  <2>6. CASE StartWave \/ EndWave \/ NoTasks \/ Summarise \/ FinishRun \/ Answer \/ Return
    BY <2>3, <2>6 DEF StartWave, EndWave, NoTasks, Summarise, FinishRun, Answer, Return, planVars, recordVars
  <2>7. CASE Environment \/ UNCHANGED vars
    BY <2>4, <2>7 DEF Environment, RequestCancel, CancelRun, WatchRunCancel, ReaderLeaves, vars, planVars, recordVars
  <2>8. CASE \E t \in Tasks : Turn(t)
    BY <2>4, <2>8, TurnFacts
  <2> QED BY <2>1, <2>2, <2>5, <2>6, <2>7, <2>8 DEF Next, Run
<1>2. (pc = "finish" => \A t \in plan.tasks : task[t] = "over")'
  <2>1. CASE Elsewhere
    <3>1. UNCHANGED <<plan, task>> /\ (pc' = "finish" => pc = "finish" \/ (pc = "wave" /\ wave \notin Waves))
      BY <2>1, ElsewhereFacts
    <3>2. pc = "wave" /\ wave \notin Waves => \A t \in plan.tasks : task[t] = "over"
      BY NoRoundLeft DEF NoTaskForgotten, Executed
    <3> QED BY <3>1, <3>2 DEF NoTaskForgotten
  <2>2. CASE Validate \/ Begin \/ StartWave \/ EndWave
    BY <2>2 DEF Validate, Begin, StartWave, EndWave
  <2>3. CASE \E t \in Tasks : Turn(t)
    BY <2>3, TurnFacts
  <2> QED BY <2>1, <2>2, <2>3 DEF Next, Run, Elsewhere
<1> QED BY <1>1, <1>2 DEF NoTaskForgotten

\* A task that was dispatched, and what its dependencies are then.
Dispatched(t) == task[t] = "streaming" \/ result[t] \in {"ok", "failed"}

LEMMA StartsStep ==
  ASSUME IInv, [Next]_vars
  PROVE  StartsAfterItsDependencies'
<1> DEFINE R == Removed(plan.tasks, plan.dependsOn)
<1> SUFFICES ASSUME NEW t \in plan'.tasks, Concurrent', Dispatched(t)', NEW u \in Deps(t)'
             PROVE  task'[u] = "over" /\ u \notin failed'
  BY DEF StartsAfterItsDependencies, Dispatched
<1>0. TypeOK' /\ t \in Tasks /\ u \in Tasks
  <2>1. TypeOK'
    BY TypeStep DEF IInv
  <2> QED BY <2>1 DEF TypeOK, Deps
<1>1. CASE Begin
  <2>1. pc = "confirmed" /\ UNCHANGED <<task, result>>
    BY <1>1 DEF Begin, taskVars
  <2> QED BY <1>0, <2>1 DEF IInv, UnderWay, Dispatched
<1>2. ASSUME UNCHANGED <<plan, task, result, failed>> PROVE task'[u] = "over" /\ u \notin failed'
  BY <1>2, SamePlan DEF IInv, StartsAfterItsDependencies, Dispatched
<1>3. CASE Validate \/ EndWave
  BY <1>2, <1>3 DEF Validate, EndWave, planVars, taskVars
<1>4. CASE Elsewhere
  BY <1>2, <1>4, ElsewhereFacts
<1>5. CASE StartWave
  <2>1. UNCHANGED <<plan, wave, result, failed>> /\ pc = "wave" /\ wave \in Waves /\ Concurrent
    BY <1>5, SamePlan DEF StartWave, planVars
  <2>2. CASE UNCHANGED task
    BY <1>2, <2>1, <2>2
  <2>3. CASE ~ UNCHANGED task
    <3>1. \A x \in Tasks : task'[x] = IF x \in Wave(wave) THEN "spawned" ELSE task[x]
      BY <1>5, <2>1, <2>3 DEF StartWave
    <3>2. Dispatched(t)
      BY <1>0, <2>1, <3>1 DEF Dispatched
    <3>3. task[u] = "over" /\ u \notin failed
      BY <2>1, <3>2, SamePlan DEF IInv, StartsAfterItsDependencies, Dispatched
    <3>4. u \notin Wave(wave)
      <4>1. wave \in 1 .. Cardinality(plan.tasks)
        BY <2>1, WaveFacts DEF IInv
      <4>2. Wave(wave) \cap R[wave - 1] = {}
        BY <2>1, <4>1, WaveFacts DEF IInv
      <4>3. u \in R[wave - 1]
        BY <1>0, <2>1, <3>3 DEF IInv, RoundsInTurn
      <4> QED BY <4>2, <4>3
    <3> QED BY <1>0, <2>1, <3>1, <3>3, <3>4
  <2> QED BY <2>2, <2>3
<1>6. ASSUME NEW x \in Tasks, Turn(x) PROVE task'[u] = "over" /\ u \notin failed'
  <2>1. /\ UNCHANGED <<plan, pc, wave>> /\ pc = "running" /\ x \in Wave(wave)
        /\ task[x] # "over" /\ task[x] # "idle"
        /\ \A y \in Tasks \ {x} : task'[y] = task[y] /\ result'[y] = result[y]
        /\ failed' \subseteq failed \cup {x}
    BY <1>6, TurnFacts DEF IInv
  <2>2. Concurrent /\ t \in plan.tasks /\ u \in Deps(t)
    BY <2>1, SamePlan
  <2>3. task[u] = "over" /\ u \notin failed
    <3>1. CASE Dispatched(t)
      BY <2>2, <3>1 DEF IInv, StartsAfterItsDependencies, Dispatched
    <3>2. CASE ~ Dispatched(t)
      <4>1. t = x
        BY <1>0, <2>1, <3>2 DEF Dispatched
      <4>2. MayDispatch(x)
        <5>1. StartTask(x) \/ TaskFails(x)
          BY <1>0, <1>6, <3>2, <4>1 DEF Turn, Acquire, CutBeforeStart, Admit, Skip, TaskEnds, Over, Dispatched, IInv,
                                        TypeOK
        <5> QED BY <3>2, <4>1, <5>1 DEF StartTask, TaskFails, Dispatched
      <4>3. u \notin failed
        BY <2>2, <4>1, <4>2 DEF MayDispatch, Blocked
      <4>4. wave \in 1 .. Cardinality(plan.tasks)
        BY <2>1, WaveFacts DEF IInv, WaveNumbers
      <4>5. Deps(x) \subseteq R[wave - 1]
        BY <2>1, <2>2, <4>4, WaveFacts DEF IInv
      <4>6. \A y \in R[wave - 1] : task[y] = "over"
        BY <2>1, <2>2 DEF IInv, RoundsInTurn
      <4> HIDE DEF R
      <4> QED BY <2>2, <4>1, <4>3, <4>5, <4>6
    <3> QED BY <3>1, <3>2
  <2> QED BY <1>0, <2>1, <2>3
<1> QED BY <1>1, <1>3, <1>4, <1>5, <1>6 DEF Next, Run, Elsewhere

-----------------------------------------------------------------------------
(* The inductive invariant, and the theorems it gives. *)
LEMMA Inductive == IInv /\ [Next]_vars => IInv'
<1> SUFFICES ASSUME IInv, [Next]_vars PROVE IInv'
  OBVIOUS
<1>1. TypeOK'
  BY TypeStep DEF IInv
<1>2. WaveNumbers' /\ UnderWay' /\ RoundsInTurn'
  BY RoundStep DEF IInv
<1>3. Executed' /\ Stream' /\ StreamTellsTheRecord'
  BY RecordStep DEF IInv
<1>4. NoTaskForgotten' /\ StartsAfterItsDependencies'
  BY NoTaskForgottenStep, StartsStep
<1> QED BY <1>1, <1>2, <1>3, <1>4 DEF IInv

(* The inductive invariant of an execution: which round runs, which tasks    *)
(* are under way, and what has been told.                                    *)
THEOREM Invariant == Spec => []IInv
<1> QED BY Start, Inductive, PTL DEF Spec

(* The variables of an execution keep their types, and the round's number    *)
(* its bound.                                                                *)
THEOREM TypeCorrect == Spec => []TypeOK
<1>1. IInv => TypeOK
  BY DEF IInv
<1> QED BY <1>1, Invariant, PTL

(* The validator and the executors (validator.go, dag_executor.go,           *)
(* serial_executor.go): no circular plan is executed, and an executor that   *)
(* comes to the end of its rounds has given every task its turn.             *)
THEOREM NoTaskIsForgotten == Spec => []NoTaskForgotten
<1>1. IInv => NoTaskForgotten
  BY DEF IInv
<1> QED BY <1>1, Invariant, PTL

(* DAGExecutor dispatches a task only when every task it depends on is over  *)
(* and none of them failed at its agent.                                     *)
THEOREM TasksStartAfterTheirDependencies == Spec => []StartsAfterItsDependencies
<1>1. IInv => StartsAfterItsDependencies
  BY DEF IInv
<1> QED BY <1>1, Invariant, PTL

(* executeViaStreamingExecutor and what records its outcome: the end told on *)
(* the stream is the one in the run's row, whoever cancels and whenever.     *)
THEOREM StreamAndRecordAgree == Spec => []StreamTellsTheRecord
<1>1. IInv => StreamTellsTheRecord
  BY DEF IInv
<1> QED BY <1>1, Invariant, PTL

=============================================================================
