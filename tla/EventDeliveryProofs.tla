------------------------ MODULE EventDeliveryProofs ------------------------
(***************************************************************************)
(* Proofs about the delivery of a run's events, for any scripts of the     *)
(* pipeline, both transports, any browsers and any bounds.                 *)
(***************************************************************************)
EXTENDS EventDelivery, FiniteSetTheorems, SequenceTheorems, WellFoundedInduction, TLAPS

-----------------------------------------------------------------------------
(* The inductive invariant *)

\* No pipeline writes an event behind run_finished.  True of every executor and
\* error path, except that a cancellation between an executor's run_finished and
\* the handler's look at the registry appends the end of a cancelled run.
FinishedIsLast ==
  \A s \in Scripts : \A i \in DOMAIN s : s[i] = "run_finished" => i = Len(s)

Request ==
  /\ pc = "idle" <=> request = "none"
  /\ pc = "idle" => received = <<>>
  /\ request = "completed" => pc = "done"
  /\ body \in {"recorded", "closed"} => emitted = Len(script)

\* Each stage has a beginning of what the stage before it has.
Copies ==
  /\ \A n \in DOMAIN received : received[n] = Incoming[n]
  /\ Follows(sent, stored) /\ sub.cursor = TopOf(sent)

\* What was received and is not yet journaled, no reader knows.
Fresh ==
  /\ pc \in {"journal", "write"} => received # <<>>
  /\ pc = "journal" => /\ \A n \in journal : n < Len(received)
                       /\ \A b \in Browsers : \A n \in ToSet(browser[b].seen) : n < Len(received)
                       /\ \A n \in ToSet(tail.seen) : n < Len(received)

\* The browser that is served has all that was written: the events received.
Written == IF pc \in {"journal", "write"} THEN Len(received) - 1 ELSE Len(received)

Live ==
  \A b \in Browsers :
    /\ browser[b].pc = "start" => browser[b].seen = <<>>
    /\ browser[b].pc = "live" => /\ b = owner /\ pc \notin {"idle", "done", "dead"}
                                /\ browser[b].seen = [n \in 1..Written |-> n]

ReadersFollow ==
  (\A b \in Browsers : Follows(browser[b].seen, journal)) /\ Follows(tail.seen, journal)

ErrorStops ==
  \A n \in DOMAIN received : TypeAt(n) = "RUN_ERROR" =>
    n = Len(received) /\ pc \notin {"stream", "completed"} /\ request # "completed"

EndIsLast ==
  FinishedIsLast => \A n \in DOMAIN received : EndsRun(TypeAt(n)) => n = Len(received)

Whole ==
  (pc = "completed" \/ request = "completed") /\ transport = "http" =>
    received = [n \in DOMAIN script |-> n]

IInv ==
  /\ TypeOK /\ Request /\ Copies /\ Fresh /\ Live /\ ReadersFollow
  /\ ErrorStops /\ EndIsLast /\ Whole

-----------------------------------------------------------------------------
(* Pages: a finite set of numbers in order *)

LEMMA LeastNatural ==
  ASSUME NEW S, S \subseteq Nat, S # {}
  PROVE  \E m \in S : \A n \in S : m <= n
<1> DEFINE R == {p \in Nat \X Nat : p[1] < p[2]}
<1>1. IsWellFoundedOn(R, Nat)
  BY NatLessThanWellFounded DEF OpToRel
<1> HIDE DEF R
<1>2. PICK m \in S : \A n \in S : <<n, m>> \notin R
  BY <1>1, WFMin
<1>3. \A n \in S : ~ (n < m)
  BY <1>2 DEF R
<1> QED BY <1>3

LEMMA RankType ==
  ASSUME NEW S \in SUBSET Nat, IsFiniteSet(S), NEW n \in S
  PROVE  /\ IsFiniteSet({m \in S : m <= n}) /\ Rank(S, n) \in 1..Cardinality(S)
         /\ Rank(S, n) \in Nat
<1> DEFINE Upto == {m \in S : m <= n}
<1>1. Upto \in SUBSET S /\ n \in Upto
  OBVIOUS
<1> HIDE DEF Upto
<1>2. IsFiniteSet(Upto) /\ Cardinality(Upto) \in Nat /\ Cardinality(S) \in Nat
      /\ Cardinality(Upto) <= Cardinality(S) /\ Cardinality(Upto) # 0
  BY <1>1, FS_Subset, FS_CardinalityType, FS_EmptySet
<1>3. Rank(S, n) = Cardinality(Upto)
  BY DEF Rank, Upto
<1> QED BY <1>2, <1>3 DEF Upto

LEMMA RankRises ==
  ASSUME NEW S \in SUBSET Nat, IsFiniteSet(S), NEW m \in S, NEW n \in S, m < n
  PROVE  Rank(S, m) < Rank(S, n)
<1> DEFINE Upto(k) == {i \in S : i <= k}
<1>1. Upto(m) \in SUBSET Upto(n)
  <2>1. \A i \in S : i <= m => i <= n
    OBVIOUS
  <2> QED BY <2>1
<1>2. n \in Upto(n) /\ n \notin Upto(m)
  OBVIOUS
<1>3. IsFiniteSet(Upto(n)) /\ Rank(S, n) \in Nat /\ Rank(S, m) \in Nat
  BY RankType
<1>4. Rank(S, n) = Cardinality(Upto(n)) /\ Rank(S, m) = Cardinality(Upto(m))
  BY DEF Rank
<1> HIDE DEF Upto
<1>5. Cardinality(Upto(m)) <= Cardinality(Upto(n)) /\ Cardinality(Upto(m)) # Cardinality(Upto(n))
  BY <1>1, <1>2, <1>3, FS_Subset
<1> QED BY <1>3, <1>4, <1>5

\* Every rank is taken: an injection between sets of one size misses nothing.
LEMMA RankTaken ==
  ASSUME NEW S \in SUBSET Nat, IsFiniteSet(S), NEW i \in 1..Cardinality(S)
  PROVE  \E n \in S : Rank(S, n) = i
<1> DEFINE T == 1..Cardinality(S)
           f == [n \in S |-> Rank(S, n)]
<1>1. Cardinality(S) \in Nat
  BY FS_CardinalityType
<1>2. IsFiniteSet(T) /\ Cardinality(T) = Cardinality(S)
  BY <1>1, FS_Interval
<1>3. f \in [S -> T]
  BY RankType
<1>4. \A m, n \in S : f[m] = f[n] => m = n
  <2> TAKE m, n \in S
  <2>1. m < n => Rank(S, m) < Rank(S, n)
    BY RankRises
  <2>2. n < m => Rank(S, n) < Rank(S, m)
    BY RankRises
  <2>3. Rank(S, m) \in Nat /\ Rank(S, n) \in Nat /\ m \in Nat /\ n \in Nat
    BY <1>1, RankType
  <2> QED BY <2>1, <2>2, <2>3
<1>5. f \in Injection(S, T)
  BY <1>3, <1>4 DEF Injection, IsInjective
<1>6. f \in Surjection(S, T)
  <2> HIDE DEF f, T
  <2> QED BY <1>2, <1>5, FS_Injection
<1> QED BY <1>6 DEF Surjection

LEMMA PageInOrder ==
  ASSUME NEW S \in SUBSET Nat, IsFiniteSet(S)
  PROVE  /\ InOrder(S) \in Seq(S) /\ Rising(InOrder(S)) /\ ToSet(InOrder(S)) = S
         /\ InOrder(S) = <<>> <=> S = {}
<1> DEFINE At(i) == CHOOSE n \in S : Rank(S, n) = i
           N == Cardinality(S)
<1>1. N \in Nat /\ (N = 0 <=> S = {})
  BY FS_CardinalityType, FS_EmptySet
<1>2. \A i \in 1..N : At(i) \in S /\ Rank(S, At(i)) = i
  BY RankTaken
<1>3. InOrder(S) = [i \in 1..N |-> At(i)]
  BY DEF InOrder
<1> HIDE DEF At
<1>4. InOrder(S) \in Seq(S) /\ Len(InOrder(S)) = N /\ DOMAIN InOrder(S) = 1..N
  <2>1. [i \in 1..N |-> At(i)] \in Seq(S)
    BY <1>1, <1>2, IsASeq
  <2> HIDE DEF N
  <2> QED BY <1>1, <1>3, <2>1, LenProperties
<1>5. Rising(InOrder(S))
  <2> SUFFICES ASSUME NEW i \in 1..N, NEW j \in 1..N, i < j PROVE At(i) < At(j)
    BY <1>3, <1>4 DEF Rising
  <2>1. At(i) \in S /\ At(j) \in S /\ Rank(S, At(i)) = i /\ Rank(S, At(j)) = j
    BY <1>2
  <2>2. At(j) < At(i) => j < i
    BY <2>1, RankRises
  <2>3. At(i) # At(j)
    BY <2>1
  <2>4. At(i) \in Nat /\ At(j) \in Nat
    BY <2>1
  <2> QED BY <2>2, <2>3, <2>4
<1>6. ToSet(InOrder(S)) = S
  <2>1. ToSet(InOrder(S)) \subseteq S
    BY <1>2, <1>3 DEF ToSet
  <2>2. ASSUME NEW n \in S PROVE n \in ToSet(InOrder(S))
    <3>1. Rank(S, n) \in 1..N
      BY RankType
    <3>2. At(Rank(S, n)) \in S /\ Rank(S, At(Rank(S, n))) = Rank(S, n)
      BY <1>2, <3>1
    <3> DEFINE a == At(Rank(S, n))
    <3>3. a \in S /\ Rank(S, a) = Rank(S, n)
      BY <3>2
    <3> HIDE DEF a
    <3>4. Rank(S, a) \in Nat /\ Rank(S, n) \in Nat /\ a \in Nat /\ n \in Nat
      BY <1>1, <3>3, RankType
    <3>5. ~ (a < n) /\ ~ (n < a)
      BY <3>3, <3>4, RankRises
    <3>6. At(Rank(S, n)) = n
      BY <3>4, <3>5 DEF a
    <3> QED BY <1>3, <1>4, <3>1, <3>6 DEF ToSet
  <2> QED BY <2>1, <2>2
<1>7. InOrder(S) = <<>> <=> S = {}
  <2> HIDE DEF N
  <2> QED BY <1>1, <1>4, EmptySeq
<1> QED BY <1>4, <1>5, <1>6, <1>7

-----------------------------------------------------------------------------
(* Sequences that follow a set *)

LEMMA TopIsHighest ==
  ASSUME NEW s \in Seq(Nat), Rising(s)
  PROVE  /\ TopOf(s) \in Nat /\ \A n \in ToSet(s) : n \in Nat /\ n <= TopOf(s)
         /\ s # <<>> => TopOf(s) = Last(s) /\ Last(s) \in ToSet(s)
<1> DEFINE k == Len(s)
<1>1. k \in Nat /\ DOMAIN s = 1..k /\ (\A i \in 1..k : s[i] \in Nat) /\ (s # <<>> => k # 0)
  BY LenProperties, ElementOfSeq, EmptySeq
<1> HIDE DEF k
<1>2. CASE s = <<>>
  BY <1>2 DEF TopOf, ToSet
<1>3. CASE s # <<>>
  <2>1. k \in 1..k
    BY <1>1, <1>3
  <2>2. \A i \in 1..k : s[i] <= s[k]
    <3> TAKE i \in 1..k
    <3>1. i = k \/ i < k
      BY <1>1
    <3>2. i < k => s[i] < s[k]
      BY <1>1, <2>1 DEF Rising
    <3> QED BY <1>1, <2>1, <3>1, <3>2
  <2> QED BY <1>1, <1>3, <2>1, <2>2 DEF TopOf, Last, ToSet, k
<1> QED BY <1>2, <1>3

\* Two rising sequences, the second above the first.
LEMMA RisingConcat ==
  ASSUME NEW s \in Seq(Nat), NEW q \in Seq(Nat), Rising(s), Rising(q),
         \A n \in ToSet(q) : TopOf(s) < n
  PROVE  /\ s \o q \in Seq(Nat) /\ Rising(s \o q) /\ ToSet(s \o q) = ToSet(s) \cup ToSet(q)
         /\ TopOf(s \o q) = IF q = <<>> THEN TopOf(s) ELSE Last(q)
<1> DEFINE k == Len(s)
           l == Len(q)
           c == s \o q
<1>1. /\ k \in Nat /\ DOMAIN s = 1..k /\ \A i \in 1..k : s[i] \in Nat
      /\ l \in Nat /\ DOMAIN q = 1..l /\ \A i \in 1..l : q[i] \in Nat
  BY LenProperties, ElementOfSeq
<1>2. /\ c \in Seq(Nat) /\ Len(c) = k + l /\ DOMAIN c = 1..(k + l)
      /\ \A i \in 1..(k + l) : c[i] = IF i <= k THEN s[i] ELSE q[i - k]
  BY ConcatProperties, LenProperties
<1>3. \A i \in 1..k : s[i] \in ToSet(s) /\ s[i] <= TopOf(s)
  BY <1>1, TopIsHighest DEF ToSet
<1>4. \A i \in 1..l : q[i] \in ToSet(q) /\ TopOf(s) < q[i]
  BY <1>1 DEF ToSet
<1>5. TopOf(s) \in Nat
  BY TopIsHighest
<1> HIDE DEF k, l, c
<1>6. Rising(c)
  <2> SUFFICES ASSUME NEW i \in 1..(k + l), NEW j \in 1..(k + l), i < j PROVE c[i] < c[j]
    BY <1>2 DEF Rising
  <2>1. CASE j <= k
    <3>1. i \in 1..k /\ j \in 1..k
      BY <1>1, <2>1
    <3>2. s[i] < s[j]
      BY <1>1, <3>1 DEF Rising
    <3> QED BY <1>2, <2>1, <3>1, <3>2
  <2>2. CASE i <= k /\ ~ (j <= k)
    <3>1. i \in 1..k /\ j - k \in 1..l
      BY <1>1, <2>2
    <3>2. s[i] <= TopOf(s) /\ TopOf(s) < q[j - k] /\ s[i] \in Nat /\ q[j - k] \in Nat
      BY <1>1, <1>3, <1>4, <3>1
    <3>3. s[i] < q[j - k]
      BY <1>5, <3>2
    <3> QED BY <1>2, <2>2, <3>3
  <2>3. CASE ~ (i <= k)
    <3>1. i - k \in 1..l /\ j - k \in 1..l /\ i - k < j - k /\ ~ (j <= k)
      BY <1>1, <2>3
    <3>2. q[i - k] < q[j - k]
      BY <1>1, <3>1 DEF Rising
    <3> QED BY <1>2, <2>3, <3>1, <3>2
  <2> QED BY <2>1, <2>2, <2>3
<1>7. ToSet(c) = ToSet(s) \cup ToSet(q)
  <2>1. \A i \in 1..(k + l) : c[i] \in ToSet(s) \cup ToSet(q)
    <3> TAKE i \in 1..(k + l)
    <3>1. i <= k => i \in 1..k
      BY <1>1
    <3>2. ~ (i <= k) => i - k \in 1..l
      BY <1>1
    <3> QED BY <1>2, <1>3, <1>4, <3>1, <3>2
  <2>2. \A i \in 1..k : s[i] \in ToSet(c)
    <3> TAKE i \in 1..k
    <3>1. i \in 1..(k + l) /\ i <= k
      BY <1>1
    <3> QED BY <1>2, <3>1 DEF ToSet
  <2>3. \A i \in 1..l : q[i] \in ToSet(c)
    <3> TAKE i \in 1..l
    <3>1. i + k \in 1..(k + l) /\ ~ (i + k <= k) /\ (i + k) - k = i
      BY <1>1
    <3>2. c[i + k] = q[i]
      BY <1>2, <3>1
    <3> QED BY <1>2, <3>1, <3>2 DEF ToSet
  <2>4. ToSet(c) \subseteq ToSet(s) \cup ToSet(q)
    BY <1>2, <2>1 DEF ToSet
  <2>5. ToSet(s) \subseteq ToSet(c) /\ ToSet(q) \subseteq ToSet(c)
    BY <1>1, <2>2, <2>3 DEF ToSet
  <2> QED BY <2>4, <2>5
<1>8. TopOf(c) = IF q = <<>> THEN TopOf(s) ELSE Last(q)
  <2>1. CASE q = <<>>
    BY <2>1, ConcatEmptySeq DEF c
  <2>2. CASE q # <<>>
    <3>1. l # 0
      BY <2>2, EmptySeq DEF l
    <3>2. k + l \in 1..(k + l) /\ ~ (k + l <= k) /\ (k + l) - k = l
      BY <1>1, <3>1
    <3>3. c[k + l] = q[l]
      BY <1>2, <3>2
    <3>4. c # <<>>
      BY <1>2, <3>2, EmptySeq
    <3> QED BY <1>2, <2>2, <3>3, <3>4 DEF TopOf, Last, l
  <2> QED BY <2>1, <2>2
<1> QED BY <1>2, <1>6, <1>7, <1>8 DEF c

\* q continues s and leaves out nothing of S on its way.
Continues(q, s, S) ==
  /\ q \in Seq(S) /\ Rising(q)
  /\ \A n \in ToSet(q) : TopOf(s) < n
  /\ q # <<>> => \A n \in S : TopOf(s) < n /\ n <= Last(q) => n \in ToSet(q)

LEMMA ContinuesFollows ==
  ASSUME NEW S \in SUBSET Nat, NEW s \in Seq(Nat), Follows(s, S), NEW q, Continues(q, s, S)
  PROVE  /\ Follows(s \o q, S) /\ s \o q \in Seq(Nat) /\ ToSet(s \o q) = ToSet(s) \cup ToSet(q)
         /\ TopOf(s \o q) = IF q = <<>> THEN TopOf(s) ELSE Last(q)
<1>1. q \in Seq(Nat) /\ Rising(s) /\ Rising(q)
  BY SeqMonotonic DEF Continues, Follows
<1>2. /\ s \o q \in Seq(Nat) /\ Rising(s \o q) /\ ToSet(s \o q) = ToSet(s) \cup ToSet(q)
      /\ TopOf(s \o q) = IF q = <<>> THEN TopOf(s) ELSE Last(q)
  BY <1>1, RisingConcat DEF Continues
<1>3. TopOf(s) \in Nat
  BY <1>1, TopIsHighest
<1>4. ASSUME NEW n \in S, n <= TopOf(s \o q) PROVE n \in ToSet(s) \cup ToSet(q)
  <2>1. n <= TopOf(s) => n \in ToSet(s)
    BY DEF Follows
  <2>2. q # <<>> /\ TopOf(s) < n => n \in ToSet(q)
    BY <1>2, <1>4 DEF Continues
  <2>3. n <= TopOf(s) \/ TopOf(s) < n
    BY <1>3
  <2> QED BY <1>2, <1>4, <2>1, <2>2, <2>3
<1> QED BY <1>2, <1>4 DEF Follows

LEMMA Prefix ==
  ASSUME NEW S \in SUBSET Nat, NEW s \in Seq(S), Rising(s), NEW m \in 1..Len(s)
  PROVE  /\ SubSeq(s, 1, m) \in Seq(S) /\ Rising(SubSeq(s, 1, m)) /\ SubSeq(s, 1, m) # <<>>
         /\ Len(SubSeq(s, 1, m)) = m
         /\ \A i \in 1..m : SubSeq(s, 1, m)[i] = s[i]
         /\ Last(SubSeq(s, 1, m)) = s[m] /\ ToSet(SubSeq(s, 1, m)) \subseteq ToSet(s)
         /\ \A n \in ToSet(s) : n <= s[m] => n \in ToSet(SubSeq(s, 1, m))
<1> DEFINE p == SubSeq(s, 1, m)
<1>1. Len(s) \in Nat /\ DOMAIN s = 1..Len(s) /\ \A i \in 1..Len(s) : s[i] \in S /\ s[i] \in Nat
  BY LenProperties, ElementOfSeq
<1>2. m \in Nat /\ 1 <= m /\ m <= Len(s) /\ m \in 1..m /\ \A i \in 1..m : i \in 1..Len(s)
  BY <1>1
<1>3. p \in Seq(S) /\ Len(p) = m /\ \A i \in 1..m : p[i] = s[i]
  <2>1. \A i \in 1..m : s[i] \in S
    BY <1>1, <1>2
  <2>2. /\ p \in Seq(S) /\ Len(p) = IF 1 <= m THEN m - 1 + 1 ELSE 0
        /\ \A i \in 1..m - 1 + 1 : p[i] = s[1 + i - 1]
    BY <1>2, <2>1, SubSeqProperties
  <2>3. m - 1 + 1 = m
    BY <1>2
  <2>4. \A i \in 1..m : 1 + i - 1 = i
    OBVIOUS
  <2> QED BY <1>2, <2>2, <2>3, <2>4
<1>4. DOMAIN p = 1..m /\ p # <<>>
  BY <1>2, <1>3, LenProperties, EmptySeq
<1> HIDE DEF p
<1>5. Rising(p)
  BY <1>1, <1>2, <1>3, <1>4 DEF Rising
<1>6. Last(p) = s[m] /\ ToSet(p) \subseteq ToSet(s)
  BY <1>1, <1>2, <1>3, <1>4 DEF Last, ToSet
<1>7. ASSUME NEW i \in 1..Len(s), s[i] <= s[m] PROVE s[i] \in ToSet(p)
  <2>1. m < i => s[m] < s[i]
    BY <1>1 DEF Rising
  <2>2. s[m] \in Nat /\ s[i] \in Nat
    BY <1>1
  <2>3. i \in 1..m
    BY <1>2, <1>7, <2>1, <2>2
  <2> QED BY <1>3, <1>4, <2>3 DEF ToSet
<1> QED BY <1>1, <1>3, <1>4, <1>5, <1>6, <1>7 DEF p, ToSet

-----------------------------------------------------------------------------
(* Types *)

InOf(t, e, s) == IF t = "http" THEN [n \in 1..e |-> n] ELSE s

LEMMA IncomingIs ==
  Incoming = InOf(transport, emitted, sent) /\ Incoming' = InOf(transport', emitted', sent')
BY DEF Incoming, InOf

LEMMA InFacts ==
  ASSUME NEW t, NEW e \in Nat, NEW s \in Seq(1..e)
  PROVE  /\ InOf(t, e, s) \in Seq(1..e) /\ DOMAIN InOf(t, e, s) = 1..Len(InOf(t, e, s))
         /\ Len(InOf(t, e, s)) = IF t = "http" THEN e ELSE Len(s)
         /\ Len(s) \in Nat /\ Len(InOf(t, e, s)) \in Nat
         /\ t = "http" => \A n \in 1..e : InOf(t, e, s)[n] = n
<1>1. [n \in 1..e |-> n] \in Seq(1..e)
  BY IsASeq
<1>2. Len([n \in 1..e |-> n]) = e
  BY <1>1, LenProperties
<1>3. Len(s) \in Nat /\ DOMAIN s = 1..Len(s)
  BY LenProperties
<1> QED BY <1>1, <1>2, <1>3 DEF InOf

LEMMA TypeFacts ==
  ASSUME TypeOK
  PROVE  /\ script \in Seq(STRING) /\ Len(script) \in Nat /\ DOMAIN script = 1..Len(script)
         /\ emitted \in Nat /\ consumed \in Nat /\ consumed <= emitted /\ emitted <= Len(script)
         /\ stored \in SUBSET Nat /\ IsFiniteSet(stored) /\ stored \subseteq 1..emitted
         /\ sent \in Seq(1..emitted) /\ sent \in Seq(Nat)
         /\ received \in Seq(1..emitted) /\ received \in Seq(Nat)
         /\ Len(received) \in Nat /\ DOMAIN received = 1..Len(received)
         /\ journal \in SUBSET Nat /\ IsFiniteSet(journal)
         /\ \A b \in Browsers : browser[b].seen \in Seq(DOMAIN received)
         /\ tail.seen \in Seq(DOMAIN received)
         /\ owner \in Browsers
<1>1. /\ script \in Seq(STRING) /\ Len(script) \in Nat /\ DOMAIN script = 1..Len(script)
  BY ScriptAssumption, LenProperties DEF TypeOK
<1>2. emitted \in Nat /\ consumed \in Nat /\ consumed <= emitted /\ emitted <= Len(script)
  BY <1>1 DEF TypeOK
<1>3. stored \subseteq 1..emitted /\ stored \in SUBSET Nat
  BY <1>2 DEF TypeOK
<1>4. IsFiniteSet(stored)
  <2>1. IsFiniteSet(1..emitted)
    BY <1>2, FS_Interval
  <2>2. stored \in SUBSET (1..emitted)
    BY <1>3
  <2> QED BY <2>1, <2>2, FS_Subset
<1>5. sent \in Seq(1..emitted) /\ sent \in Seq(Nat) /\ received \in Seq(1..emitted) /\ received \in Seq(Nat)
  <2>1. 1..emitted \subseteq Nat
    BY <1>2
  <2> QED BY <1>3, <2>1, SeqMonotonic DEF TypeOK
<1>6. Len(received) \in Nat /\ DOMAIN received = 1..Len(received)
  BY <1>5, LenProperties
<1>7. journal \in SUBSET Nat /\ IsFiniteSet(journal)
  <2>1. journal \in SUBSET (1..Len(received)) /\ journal \in SUBSET Nat
    BY <1>6 DEF TypeOK
  <2>2. IsFiniteSet(1..Len(received))
    BY <1>6, FS_Interval
  <2>3. IsFiniteSet(journal)
    BY <2>1, <2>2, FS_Subset
  <2> QED BY <2>1, <2>3
<1> QED BY <1>1, <1>2, <1>3, <1>4, <1>5, <1>6, <1>7 DEF TypeOK, ReaderOf

LEMMA PageContinues ==
  ASSUME NEW S \in SUBSET Nat, IsFiniteSet(S), NEW s \in Seq(Nat), Rising(s)
  PROVE  Continues(InOrder(After(S, TopOf(s))), s, S)
<1> DEFINE A == After(S, TopOf(s))
<1>1. A \in SUBSET Nat /\ A \subseteq S /\ \A n \in S : n \in A <=> n > TopOf(s)
  BY DEF After
<1>2. IsFiniteSet(A) /\ TopOf(s) \in Nat
  BY <1>1, FS_Subset, TopIsHighest
<1> HIDE DEF A
<1>3. InOrder(A) \in Seq(A) /\ Rising(InOrder(A)) /\ ToSet(InOrder(A)) = A
  BY <1>1, <1>2, PageInOrder
<1>4. InOrder(A) \in Seq(S)
  BY <1>1, <1>3, SeqMonotonic
<1>5. \A n \in A : TopOf(s) < n
  BY <1>1, <1>2
<1>6. \A n \in S : TopOf(s) < n => n \in A
  BY <1>1, <1>2
<1> QED BY <1>3, <1>4, <1>5, <1>6 DEF Continues, A

LEMMA UpToEndContinues ==
  ASSUME NEW S \in SUBSET Nat, NEW s \in Seq(Nat), NEW p, Continues(p, s, S)
  PROVE  /\ Continues(UpToEnd(p), s, S)
         /\ UpToEnd(p) = <<>> => p = <<>>
         /\ Terminal(p) => Terminal(UpToEnd(p))
<1> DEFINE ends == {i \in DOMAIN p : EndsRun(TypeAt(p[i]))}
           m == CHOOSE i \in ends : \A j \in ends : i <= j
<1>1. UpToEnd(p) = IF ends = {} THEN p ELSE SubSeq(p, 1, m)
  BY DEF UpToEnd
<1>2. p \in Seq(S) /\ Rising(p) /\ DOMAIN p = 1..Len(p)
  BY LenProperties DEF Continues
<1>3. CASE ends = {}
  BY <1>1, <1>3 DEF Terminal
<1>4. CASE ends # {}
  <2>1. ends \subseteq Nat
    BY <1>2
  <2>2. m \in ends
    <3> HIDE DEF ends
    <3>1. \E i \in ends : \A j \in ends : i <= j
      BY <1>4, <2>1, LeastNatural
    <3> QED BY <3>1
  <2>3. m \in 1..Len(p) /\ EndsRun(TypeAt(p[m]))
    BY <1>2, <2>2
  <2> HIDE DEF m
  <2> DEFINE q == SubSeq(p, 1, m)
  <2>4. /\ q \in Seq(S) /\ Rising(q) /\ q # <<>> /\ Last(q) = p[m] /\ ToSet(q) \subseteq ToSet(p)
        /\ \A n \in ToSet(p) : n <= p[m] => n \in ToSet(q)
        /\ Len(q) = m /\ \A i \in 1..m : q[i] = p[i]
    BY <1>2, <2>3, Prefix
  <2>5. UpToEnd(p) = q
    BY <1>1, <1>4 DEF m
  <2> HIDE DEF q
  <2>6. p[m] <= Last(p)
    <3>1. p \in Seq(Nat)
      BY <1>2, SeqMonotonic
    <3>2. p[m] \in ToSet(p)
      BY <1>2, <2>3 DEF ToSet
    <3>3. p # <<>>
      BY <2>3, EmptySeq
    <3> QED BY <1>2, <3>1, <3>2, <3>3, TopIsHighest
  <2>7. p[m] \in Nat /\ Last(p) \in Nat /\ p # <<>>
    <3>1. p[m] \in S
      BY <1>2, <2>3, ElementOfSeq
    <3>2. p # <<>>
      BY <2>3, EmptySeq
    <3>3. Last(p) \in Nat
      <4>1. p \in Seq(Nat)
        BY <1>2, SeqMonotonic
      <4> QED BY <1>2, <3>2, <4>1, TopIsHighest
    <3> QED BY <3>1, <3>2, <3>3
  <2>8. ASSUME NEW n \in S, TopOf(s) < n, n <= Last(q) PROVE n \in ToSet(q)
    <3>1. n <= p[m] /\ n \in Nat
      BY <2>4, <2>8
    <3>2. n <= Last(p)
      BY <2>6, <2>7, <3>1
    <3>3. n \in ToSet(p)
      BY <2>7, <2>8, <3>2 DEF Continues
    <3> QED BY <2>4, <3>1, <3>3
  <2>9. Continues(q, s, S)
    BY <2>4, <2>8 DEF Continues
  <2>10. Terminal(q)
    <3>1. m \in DOMAIN q /\ q[m] = p[m]
      <4>1. DOMAIN q = 1..m /\ m \in 1..m
        BY <1>2, <2>3, <2>4, LenProperties
      <4> QED BY <2>4, <4>1
    <3> QED BY <2>3, <3>1 DEF Terminal
  <2> QED BY <2>4, <2>5, <2>9, <2>10
<1> QED BY <1>3, <1>4

LEMMA SourceTypes ==
  ASSUME TypeOK, emitted' \in emitted..Len(script), UNCHANGED <<transport, script, requestVars, handlerVars, readerVars>>,
         consumed' \in 0..emitted', stored' \subseteq 1..consumed', sent' \in Seq(stored'),
         Len(sent) <= Len(sent'),
         body' \in {"open", "recorded", "closed", "cut"}, execution' \in {"executing", "paused", "terminal"},
         sub' \in [pc : {"list", "check", "ended", "broken"}, cursor : 0..consumed'],
         faults' \subseteq FaultKinds
  PROVE  TypeOK'
<1> USE DEF requestVars, handlerVars, readerVars
<1>1. emitted' \in 0..Len(script')
  BY TypeFacts
<1>2. received' \in Seq(1..emitted')
  <2>1. 1..emitted \subseteq 1..emitted'
    BY TypeFacts
  <2> QED BY <2>1, TypeFacts, SeqMonotonic
<1>3. Len(received') <= Len(Incoming')
  <2>1. Len(received) <= Len(Incoming)
    BY DEF TypeOK
  <2>2. sent' \in Seq(1..emitted') /\ emitted' \in Nat
    <3>1. stored' \subseteq 1..emitted' /\ emitted' \in Nat
      BY <1>1, TypeFacts
    <3> QED BY <3>1, SeqMonotonic
  <2>3. Len(Incoming) = IF transport = "http" THEN emitted ELSE Len(sent)
    BY IncomingIs, InFacts, TypeFacts
  <2>4. Len(Incoming') = IF transport = "http" THEN emitted' ELSE Len(sent')
    BY <2>2, IncomingIs, InFacts
  <2>5. Len(sent) \in Nat /\ Len(sent') \in Nat /\ emitted <= emitted'
    BY <2>2, TypeFacts, LenProperties
  <2> QED BY <2>1, <2>2, <2>3, <2>4, <2>5, TypeFacts
<1> QED BY <1>1, <1>2, <1>3 DEF TypeOK

LEMMA SourcesTypes ==
  ASSUME TypeOK, Pipeline \/ OrchestratorDies \/ ResumeRun \/ StoreEvent \/ StoreFails \/ SubscribeCheck
  PROVE  TypeOK'
<1> USE DEF pipelineVars, grpcVars, requestVars, handlerVars, readerVars
<1>1. /\ emitted \in 0..Len(script) /\ body \in {"open", "recorded", "closed", "cut"}
      /\ execution \in {"executing", "paused", "terminal"}
      /\ consumed \in 0..emitted /\ stored \subseteq 1..consumed /\ sent \in Seq(stored)
      /\ sub \in [pc : {"list", "check", "ended", "broken"}, cursor : 0..consumed]
      /\ faults \subseteq FaultKinds /\ emitted \in emitted..Len(script) /\ Len(sent) \in Nat
      /\ Len(script) \in Nat
  BY TypeFacts, LenProperties DEF TypeOK
<1>2. CASE Emit
  <2>1. emitted' \in emitted..Len(script) /\ emitted' \in Nat /\ consumed \in 0..emitted'
    BY <1>1, <1>2 DEF Emit
  <2> QED BY <1>1, <1>2, <2>1, SourceTypes DEF Emit
<1>3. CASE RecordOutcome
  BY <1>1, <1>3, SourceTypes DEF RecordOutcome
<1>4. CASE OutcomeLost
  BY <1>1, <1>4, SourceTypes DEF OutcomeLost, Fault, FaultKinds
<1>5. CASE CloseBody
  BY <1>1, <1>5, SourceTypes DEF CloseBody
<1>6. CASE CutOff
  BY <1>1, <1>6, SourceTypes DEF CutOff
<1>7. CASE OrchestratorDies
  BY <1>1, <1>7, SourceTypes DEF OrchestratorDies, Fault, FaultKinds
<1>8. CASE ResumeRun
  BY <1>1, <1>8, SourceTypes DEF ResumeRun
<1>9. CASE StoreEvent
  <2>1. consumed' \in 0..emitted' /\ stored' \subseteq 1..consumed' /\ consumed \in Nat /\ consumed' = consumed + 1
        /\ stored \subseteq stored'
    BY <1>1, <1>9, TypeFacts DEF StoreEvent, Consumes
  <2>2. sent' \in Seq(stored')
    BY <1>1, <1>9, <2>1, SeqMonotonic DEF StoreEvent
  <2>3. sub' \in [pc : {"list", "check", "ended", "broken"}, cursor : 0..consumed']
    BY <1>1, <1>9, <2>1 DEF StoreEvent
  <2> QED BY <1>1, <1>9, <2>1, <2>2, <2>3, SourceTypes DEF StoreEvent
<1>10. CASE StoreFails
  <2>1. consumed' \in 0..emitted' /\ stored' \subseteq 1..consumed' /\ consumed \in Nat /\ consumed' = consumed + 1
    BY <1>1, <1>10, TypeFacts DEF StoreFails, Consumes
  <2>2. sub' \in [pc : {"list", "check", "ended", "broken"}, cursor : 0..consumed']
    BY <1>1, <1>10, <2>1 DEF StoreFails
  <2> QED BY <1>1, <1>10, <2>1, <2>2, SourceTypes DEF StoreFails, Fault, FaultKinds
<1>11. CASE SubscribeCheck
  BY <1>1, <1>11, SourceTypes DEF SubscribeCheck
<1> QED
  BY <1>2, <1>3, <1>4, <1>5, <1>6, <1>7, <1>8, <1>9, <1>10, <1>11 DEF Pipeline

\* A reader's next page continues what it has seen.
LEMMA SubscribeFacts ==
  ASSUME TypeOK, Copies, SubscribeList
  PROVE  /\ TypeOK' /\ Follows(sent', stored) /\ sub'.cursor = TopOf(sent')
         /\ \A n \in DOMAIN sent : sent'[n] = sent[n]
<1> DEFINE batch == InOrder(After(stored, sub.cursor))
<1>1. sent \in Seq(Nat) /\ stored \in SUBSET Nat /\ IsFiniteSet(stored) /\ Follows(sent, stored)
      /\ sub.cursor = TopOf(sent) /\ Rising(sent)
  BY TypeFacts DEF Copies, Follows
<1>2. Continues(batch, sent, stored)
  BY <1>1, PageContinues
<1>3. /\ sent' = sent \o batch
      /\ sub' = [cursor |-> IF batch = <<>> THEN sub.cursor ELSE Last(batch),
                 pc |-> IF \E i \in DOMAIN batch : EndsRun(script[batch[i]]) THEN "ended" ELSE "check"]
  BY DEF SubscribeList
<1>4. UNCHANGED <<transport, script, pipelineVars, consumed, stored, requestVars, handlerVars, readerVars, faults>>
  BY DEF SubscribeList
<1> HIDE DEF batch
<1>5. /\ Follows(sent', stored) /\ ToSet(sent') = ToSet(sent) \cup ToSet(batch)
      /\ TopOf(sent') = IF batch = <<>> THEN TopOf(sent) ELSE Last(batch)
  BY <1>1, <1>2, <1>3, ContinuesFollows
<1>6. sub'.cursor = TopOf(sent')
  BY <1>1, <1>3, <1>5
<1>7. sent \in Seq(stored) /\ batch \in Seq(stored)
  BY <1>2 DEF TypeOK, Continues
<1>8. /\ sent' \in Seq(stored) /\ Len(sent') = Len(sent) + Len(batch) /\ Len(sent) \in Nat /\ Len(batch) \in Nat
      /\ \A n \in 1..Len(sent) + Len(batch) : sent'[n] = IF n <= Len(sent) THEN sent[n] ELSE batch[n - Len(sent)]
  BY <1>3, <1>7, ConcatProperties, LenProperties
<1>9. sub'.cursor \in 0..consumed
  <2>1. CASE batch = <<>>
    BY <1>3, <2>1 DEF TypeOK
  <2>2. CASE batch # <<>>
    <3>1. batch \in Seq(Nat) /\ Rising(batch)
      BY <1>1, <1>2, <1>7, SeqMonotonic DEF Continues
    <3>2. Last(batch) \in ToSet(batch)
      BY <2>2, <3>1, TopIsHighest
    <3>3. Last(batch) \in stored
      BY <1>7, <3>2, ElementOfSeq, LenProperties DEF ToSet
    <3>4. stored \subseteq 1..consumed /\ consumed \in Nat
      BY TypeFacts DEF TypeOK
    <3>5. sub'.cursor = Last(batch)
      BY <1>3, <2>2
    <3> DEFINE x == Last(batch)
    <3>6. x \in 0..consumed
      <4> HIDE DEF x
      <4>1. x \in 1..consumed
        BY <3>3, <3>4 DEF x
      <4> QED BY <3>4, <4>1
    <3> QED BY <3>5, <3>6
  <2> QED BY <2>1, <2>2
<1>10. TypeOK'
  <2>1. sub' \in [pc : {"list", "check", "ended", "broken"}, cursor : 0..consumed]
    BY <1>3, <1>9
  <2>2. Len(sent) <= Len(sent') /\ emitted \in emitted..Len(script)
    BY <1>8, TypeFacts
  <2>3. emitted' = emitted /\ consumed' = consumed /\ stored' = stored
    BY <1>4 DEF pipelineVars
  <2>4. consumed \in 0..emitted /\ stored \subseteq 1..consumed /\ faults' \subseteq FaultKinds
        /\ body' \in {"open", "recorded", "closed", "cut"} /\ execution' \in {"executing", "paused", "terminal"}
    BY <1>4 DEF TypeOK, pipelineVars
  <2>5. UNCHANGED <<transport, script, requestVars, handlerVars, readerVars>>
    BY <1>4
  <2> QED BY <1>8, <2>1, <2>2, <2>3, <2>4, <2>5, SourceTypes
<1>11. \A n \in DOMAIN sent : sent'[n] = sent[n]
  <2>1. DOMAIN sent = 1..Len(sent)
    BY <1>7, LenProperties
  <2> QED BY <1>8, <2>1
<1> QED BY <1>5, <1>6, <1>10, <1>11

\* Steps of the handler and the readers leave the sources alone.
Downstream == UNCHANGED <<transport, script, pipelineVars, grpcVars>>

LEMMA DownstreamTypes ==
  ASSUME TypeOK, Downstream,
         request' \in {"none", "accepted", "completed", "failed"},
         userRows' = (IF request' = "none" THEN 0 ELSE 1), owner' \in Browsers,
         pc' \in {"idle", "stream", "journal", "write", "completed", "failed", "done", "dead"},
         received' \in Seq(1..emitted), Len(received') <= Len(Incoming),
         journal' \subseteq DOMAIN received',
         browser' \in [Browsers -> ReaderOf(DOMAIN received')],
         tail' \in ReaderOf(DOMAIN received'),
         faults' \subseteq FaultKinds
  PROVE  TypeOK' /\ Incoming' = Incoming
<1>1. Incoming' = Incoming
  BY IncomingIs DEF Downstream, pipelineVars, grpcVars
<1> QED BY <1>1 DEF TypeOK, Downstream, pipelineVars, grpcVars

LEMMA ReaderPatch ==
  ASSUME NEW S, NEW f \in [Browsers -> ReaderOf(S)], NEW b \in Browsers,
         NEW l \in Progress, NEW s \in Seq(S), NEW n \in Nat
  PROVE  /\ [f EXCEPT ![b].pc = l] \in [Browsers -> ReaderOf(S)]
         /\ [f EXCEPT ![b].seen = s] \in [Browsers -> ReaderOf(S)]
         /\ [f EXCEPT ![b].seen = s, ![b].pc = l] \in [Browsers -> ReaderOf(S)]
         /\ [f EXCEPT ![b].polls = n, ![b].pc = l] \in [Browsers -> ReaderOf(S)]
BY DEF ReaderOf

LEMMA ReadersGrow ==
  ASSUME NEW S, NEW T, S \subseteq T
  PROVE  ReaderOf(S) \subseteq ReaderOf(T) /\ [Browsers -> ReaderOf(S)] \subseteq [Browsers -> ReaderOf(T)]
<1>1. \A s \in Seq(S) : s \in Seq(T)
  BY SeqMonotonic
<1>2. ReaderOf(S) \subseteq ReaderOf(T)
  BY <1>1 DEF ReaderOf
<1> QED BY <1>2

-----------------------------------------------------------------------------
(* Steps of the pipeline and of the gRPC server *)

Sources ==
  \/ Pipeline \/ OrchestratorDies \/ ResumeRun \/ StoreEvent \/ StoreFails \/ GrpcServer

LEMMA SourcesFrame ==
  ASSUME Sources
  PROVE  UNCHANGED <<transport, script, requestVars, handlerVars, readerVars>>
<1> USE DEF Sources
<1>1. CASE Pipeline
  BY <1>1 DEF Pipeline, Emit, RecordOutcome, OutcomeLost, CloseBody, CutOff
<1>2. CASE OrchestratorDies \/ ResumeRun
  BY <1>2 DEF OrchestratorDies, ResumeRun
<1>3. CASE StoreEvent \/ StoreFails
  BY <1>3 DEF StoreEvent, StoreFails
<1>4. CASE GrpcServer
  BY <1>4 DEF GrpcServer, SubscribeList, SubscribeCheck
<1> QED BY <1>1, <1>2, <1>3, <1>4

\* The sources only ever add to what was emitted, stored and sent.
LEMMA SourcesAdd ==
  ASSUME TypeOK, Request, Copies, Sources
  PROVE  /\ TypeOK' /\ emitted <= emitted'
         /\ Follows(sent', stored') /\ sub'.cursor = TopOf(sent')
         /\ \A n \in DOMAIN sent : sent'[n] = sent[n]
         /\ body' \in {"recorded", "closed"} => emitted' = Len(script)
<1> USE DEF pipelineVars, grpcVars
<1>1. TypeOK'
  BY SourcesTypes, SubscribeFacts DEF Sources, GrpcServer
<1>2. Follows(sent, stored) /\ sub.cursor = TopOf(sent) /\ (body \in {"recorded", "closed"} => emitted = Len(script))
      /\ emitted \in Nat
  BY TypeFacts DEF Copies, Request
<1>3. CASE Emit
  <2>1. emitted' = emitted + 1 /\ body' = "open" /\ sent' = sent /\ stored' = stored /\ sub' = sub
    BY <1>3 DEF Emit
  <2> QED BY <1>1, <1>2, <2>1
<1>4. CASE RecordOutcome \/ OutcomeLost \/ CloseBody
  <2>1. UNCHANGED <<emitted, sent, stored, sub>>
    BY <1>4 DEF RecordOutcome, OutcomeLost, CloseBody
  <2>2. emitted = Len(script)
    BY <1>2, <1>4 DEF RecordOutcome, OutcomeLost, CloseBody
  <2> QED BY <1>1, <1>2, <2>1, <2>2
<1>5. CASE CutOff \/ OrchestratorDies \/ ResumeRun
  <2>1. UNCHANGED <<emitted, sent, stored>> /\ sub'.cursor = sub.cursor /\ body' = "cut"
    BY <1>5 DEF CutOff, OrchestratorDies, ResumeRun, TypeOK
  <2> QED BY <1>1, <1>2, <2>1
<1>6. CASE StoreEvent
  <2>1. \A n \in stored' : n \in stored \/ n = consumed + 1
    BY <1>6 DEF StoreEvent
  <2>2. TopOf(sent) < consumed + 1
    BY <1>2, TypeFacts DEF TypeOK
  <2>3. TopOf(sent) \in Nat
    BY <1>2, TypeFacts, TopIsHighest DEF Follows
  <2>4. consumed + 1 \in Nat
    BY TypeFacts
  <2>5. Follows(sent, stored')
    BY <1>2, <2>1, <2>2, <2>3, <2>4 DEF Follows
  <2> QED BY <1>1, <1>2, <1>6, <2>5 DEF StoreEvent, Consumes
<1>7. CASE StoreFails
  BY <1>1, <1>2, <1>7 DEF StoreFails, Consumes
<1>8. CASE SubscribeList
  BY <1>1, <1>2, <1>8, SubscribeFacts DEF SubscribeList
<1>9. CASE SubscribeCheck
  BY <1>1, <1>2, <1>9 DEF SubscribeCheck, TypeOK
<1> QED BY <1>3, <1>4, <1>5, <1>6, <1>7, <1>8, <1>9 DEF Sources, Pipeline, GrpcServer

LEMMA SourcesStep ==
  ASSUME IInv, Sources
  PROVE  IInv'
<1> USE DEF IInv
<1>1. UNCHANGED <<transport, script, request, userRows, owner, pc, received, journal, browser, tail>>
  BY SourcesFrame DEF requestVars, handlerVars, readerVars
<1>2. TypeOK' /\ emitted <= emitted' /\ Follows(sent', stored') /\ sub'.cursor = TopOf(sent')
      /\ (\A n \in DOMAIN sent : sent'[n] = sent[n])
      /\ (body' \in {"recorded", "closed"} => emitted' = Len(script))
  BY SourcesAdd
<1>3. Copies'
  <2> SUFFICES ASSUME NEW n \in DOMAIN received PROVE received[n] = Incoming'[n]
    BY <1>1, <1>2 DEF Copies
  <2>1. received[n] = Incoming[n] /\ n \in 1..Len(received) /\ Len(received) <= Len(Incoming)
        /\ Len(received) \in Nat
    BY TypeFacts DEF Copies, TypeOK
  <2>2. CASE transport = "http"
    <3>1. n \in 1..emitted
      <4>1. Len(Incoming) = emitted /\ emitted \in Nat
        BY <2>2, IncomingIs, InFacts, TypeFacts
      <4> QED BY <2>1, <4>1
    <3>2. n \in 1..emitted'
      BY <1>2, <3>1, TypeFacts DEF TypeOK
    <3> QED BY <1>1, <2>1, <2>2, <3>1, <3>2 DEF Incoming
  <2>3. CASE transport # "http"
    <3>1. Incoming = sent /\ Incoming' = sent'
      BY <1>1, <2>3 DEF Incoming
    <3>2. n \in DOMAIN sent
      BY <2>1, <3>1, TypeFacts, LenProperties
    <3> QED BY <1>2, <2>1, <3>1, <3>2
  <2> QED BY <2>2, <2>3
<1>4. Request'
  BY <1>1, <1>2 DEF Request
<1>5. Fresh' /\ Live' /\ ReadersFollow'
  BY <1>1 DEF Fresh, Live, Written, ReadersFollow
<1>6. ErrorStops' /\ EndIsLast' /\ Whole'
  BY <1>1 DEF ErrorStops, EndIsLast, TypeAt, Whole
<1> QED BY <1>2, <1>3, <1>4, <1>5, <1>6

-----------------------------------------------------------------------------
(* Steps of the handler of POST /chat *)

LEMMA DownstreamFrame ==
  ASSUME Downstream
  PROVE  /\ UNCHANGED <<transport, script, emitted, body, sent, stored, sub>> /\ Incoming' = Incoming
BY DEF Downstream, pipelineVars, grpcVars, Incoming

\* The events 1 to k, all of them, follow whatever was journaled.
LEMMA AllFollow ==
  ASSUME NEW k \in Nat, NEW S \in SUBSET Nat, 0 \notin S
  PROVE  /\ Follows([n \in 1..k |-> n], S) /\ [n \in 1..k |-> n] \in Seq(1..k)
         /\ ToSet([n \in 1..k |-> n]) = 1..k
<1> DEFINE s == [n \in 1..k |-> n]
<1>1. s \in Seq(1..k) /\ s \in Seq(Nat) /\ Len(s) = k /\ DOMAIN s = 1..k
  <2>1. \A n \in 1..k : n \in 1..k /\ n \in Nat
    OBVIOUS
  <2>2. s \in Seq(1..k) /\ s \in Seq(Nat)
    BY <2>1, IsASeq
  <2> QED BY <2>2, LenProperties
<1>2. Rising(s) /\ ToSet(s) = 1..k
  BY <1>1 DEF Rising, ToSet
<1>3. TopOf(s) = k
  <2>1. CASE k = 0
    <3>1. s = <<>>
      BY <1>1, <2>1, EmptySeq
    <3> QED BY <2>1, <3>1 DEF TopOf
  <2>2. CASE k # 0
    <3>1. s # <<>> /\ k \in 1..k
      BY <1>1, <2>2, EmptySeq
    <3> QED BY <1>1, <3>1 DEF TopOf, Last
  <2> QED BY <2>1, <2>2
<1> HIDE DEF s
<1>4. \A n \in S : n <= k => n \in 1..k
  OBVIOUS
<1> QED BY <1>1, <1>2, <1>3, <1>4 DEF Follows, s

LEMMA WrittenFacts ==
  ASSUME TypeOK, Fresh
  PROVE  /\ Written \in Nat /\ Written <= Len(received) /\ 0 \notin journal
         /\ pc \in {"journal", "write"} => Len(received) = Written + 1 /\ Len(received) \in DOMAIN received
<1> DEFINE k == Len(received)
<1>1. k \in Nat /\ DOMAIN received = 1..k /\ (received # <<>> => k # 0)
  BY TypeFacts, EmptySeq
<1>2. journal \subseteq 1..k
  BY <1>1 DEF TypeOK
<1>3. Written = IF pc \in {"journal", "write"} THEN k - 1 ELSE k
  BY DEF Written
<1>4. pc \in {"journal", "write"} => received # <<>>
  BY DEF Fresh
<1> HIDE DEF k
<1>5. CASE pc \in {"journal", "write"}
  <2>1. k # 0 /\ Written = k - 1
    BY <1>1, <1>3, <1>4, <1>5
  <2>2. k - 1 \in Nat /\ k - 1 <= k /\ k = (k - 1) + 1 /\ k \in 1..k
    BY <1>1, <2>1
  <2> QED BY <1>1, <1>2, <2>1, <2>2 DEF k
<1>6. CASE pc \notin {"journal", "write"}
  <2>1. Written = k /\ k <= k
    BY <1>1, <1>3, <1>6
  <2>2. 0 \notin journal
    BY <1>1, <1>2
  <2> QED BY <1>1, <1>6, <2>1, <2>2 DEF k
<1> QED BY <1>5, <1>6

LEMMA PostStep ==
  ASSUME IInv, NEW b \in Browsers, Post(b)
  PROVE  IInv'
<1> USE DEF IInv, requestVars, handlerVars, readerVars
<1>1. /\ Downstream /\ UNCHANGED <<received, journal, tail, faults>>
      /\ browser[b].pc = "start" /\ browser[b].seen = <<>>
  BY DEF Post, Live, Downstream, pipelineVars, grpcVars
<1>2. UNCHANGED <<transport, script, emitted, body, sent, stored, sub>> /\ Incoming' = Incoming
  BY <1>1, DownstreamFrame
<1>3. Len(received) \in Nat /\ DOMAIN received = 1..Len(received)
  BY TypeFacts
<1>4. /\ browser \in [Browsers -> ReaderOf(DOMAIN received)]
      /\ "live" \in Progress /\ "refused" \in Progress /\ <<>> \in Seq(DOMAIN received) /\ 0 \in Nat
  BY EmptySeq DEF TypeOK, Progress
<1>5. CASE request = "none"
  <2>1. /\ pc = "idle" /\ received = <<>> /\ request' = "accepted" /\ userRows' = userRows + 1
        /\ owner' = b /\ pc' = "stream" /\ browser' = [browser EXCEPT ![b].pc = "live"]
    BY <1>5 DEF Post, Request
  <2>2. browser' \in [Browsers -> ReaderOf(DOMAIN received)]
    BY <1>4, <2>1, ReaderPatch
  <2>3. userRows' = 1
    BY <1>5, <2>1 DEF TypeOK
  <2>4. TypeOK'
    BY <1>1, <2>1, <2>2, <2>3, DownstreamTypes DEF TypeOK
  <2>5. Len(received) = 0 /\ DOMAIN received = {}
    BY <1>3, <2>1
  <2>6. \A c \in Browsers : /\ browser'[c].seen = browser[c].seen
                            /\ browser'[c].pc = IF c = b THEN "live" ELSE browser[c].pc
    BY <2>1 DEF TypeOK, ReaderOf
  <2>7. Live'
    <3>1. [n \in 1..Written' |-> n] = <<>>
      <4>1. Written' = 0
        BY <1>1, <2>1, <2>5 DEF Written
      <4> QED BY <4>1
    <3>2. \A c \in Browsers : browser[c].pc # "live"
      BY <2>1 DEF Live
    <3>3. \A c \in Browsers : browser[c].pc = "start" => browser[c].seen = <<>>
      BY DEF Live
    <3>4. browser[b].seen = <<>> /\ owner' = b /\ pc' = "stream"
      BY <1>1, <2>1
    <3> QED BY <2>6, <3>1, <3>2, <3>3, <3>4 DEF Live
  <2>8. Request' /\ Copies' /\ Fresh' /\ ReadersFollow'
    BY <1>1, <1>2, <2>1, <2>6 DEF Request, Copies, Fresh, ReadersFollow
  <2>9. ErrorStops' /\ EndIsLast' /\ Whole'
    BY <1>1, <1>2, <2>1, <2>5 DEF ErrorStops, EndIsLast, Whole
  <2> QED BY <2>4, <2>7, <2>8, <2>9
<1>6. CASE request # "none"
  <2>1. browser' = [browser EXCEPT ![b].pc = "refused"] /\ UNCHANGED <<request, userRows, owner, pc>>
    BY <1>6 DEF Post
  <2>2. browser' \in [Browsers -> ReaderOf(DOMAIN received)]
    BY <1>4, <2>1, ReaderPatch
  <2>3. TypeOK'
    BY <1>1, <2>1, <2>2, DownstreamTypes DEF TypeOK
  <2>4. \A c \in Browsers : /\ browser'[c].seen = browser[c].seen
                            /\ browser'[c].pc = IF c = b THEN "refused" ELSE browser[c].pc
    BY <2>1 DEF TypeOK, ReaderOf
  <2>5. Request' /\ Copies' /\ Fresh' /\ ReadersFollow' /\ Live'
    BY <1>1, <1>2, <2>1, <2>4 DEF Request, Copies, Fresh, ReadersFollow, Live, Written
  <2>6. ErrorStops' /\ EndIsLast' /\ Whole'
    BY <1>1, <1>2, <2>1 DEF ErrorStops, EndIsLast, Whole, TypeAt
  <2> QED BY <2>3, <2>5, <2>6
<1> QED BY <1>5, <1>6

LEMMA ReceiveStep ==
  ASSUME IInv, Receive
  PROVE  IInv'
<1> USE DEF IInv, requestVars, handlerVars, readerVars
<1> DEFINE k == Len(received)
           e == Incoming[k + 1]
<1>1. /\ Downstream /\ UNCHANGED <<request, userRows, owner, journal, browser, tail, faults>>
      /\ pc = "stream" /\ pc' = "journal" /\ received' = Append(received, e) /\ Len(Incoming) # k
  BY DEF Receive, AllReceived, Downstream, pipelineVars, grpcVars
<1>2. UNCHANGED <<transport, script, emitted, body, sent, stored, sub>> /\ Incoming' = Incoming
  BY <1>1, DownstreamFrame
<1>3. k \in Nat /\ DOMAIN received = 1..k /\ received \in Seq(1..emitted) /\ k <= Len(Incoming)
      /\ journal \subseteq 1..k
  BY TypeFacts DEF TypeOK
<1>4. Incoming \in Seq(1..emitted) /\ Len(Incoming) \in Nat
  BY IncomingIs, InFacts, TypeFacts
<1>5. k + 1 \in 1..Len(Incoming) /\ e \in 1..emitted
  <2>1. k + 1 \in 1..Len(Incoming)
    BY <1>1, <1>3, <1>4
  <2> QED BY <1>4, <2>1, ElementOfSeq
<1> HIDE DEF e
<1>6. /\ received' \in Seq(1..emitted) /\ Len(received') = k + 1 /\ received' # <<>>
      /\ (\A n \in 1..k : received'[n] = received[n]) /\ received'[k + 1] = e
      /\ DOMAIN received' = 1..(k + 1)
  BY <1>1, <1>3, <1>5, AppendProperties, LenProperties
<1> HIDE DEF k
<1>7. TypeOK'
  <2>1. DOMAIN received \subseteq DOMAIN received'
    BY <1>3, <1>6
  <2>2. browser \in [Browsers -> ReaderOf(DOMAIN received')] /\ tail \in ReaderOf(DOMAIN received')
    BY <2>1, ReadersGrow DEF TypeOK
  <2>3. Len(received') <= Len(Incoming)
    BY <1>5, <1>6
  <2> QED BY <1>1, <1>3, <1>6, <2>1, <2>2, <2>3, DownstreamTypes DEF TypeOK
<1>8. Copies'
  <2>1. \A n \in 1..(k + 1) : n \in 1..k \/ n = k + 1
    BY <1>3
  <2> QED BY <1>2, <1>3, <1>6, <2>1 DEF Copies, e, k
<1>9. Request' /\ ReadersFollow' /\ Whole'
  BY <1>1, <1>2 DEF Request, ReadersFollow, Whole
<1>10. Fresh'
  <2>1. \A n \in journal : n < k + 1
    BY <1>3
  <2>2. \A b \in Browsers : \A n \in ToSet(browser[b].seen) : n \in 1..k
    BY <1>3, TypeFacts, LenProperties, ElementOfSeq DEF ToSet
  <2>3. \A n \in ToSet(tail.seen) : n \in 1..k
    BY <1>3, TypeFacts, LenProperties, ElementOfSeq DEF ToSet
  <2>4. \A n \in 1..k : n < k + 1
    BY <1>3
  <2> QED BY <1>1, <1>6, <2>1, <2>2, <2>3, <2>4 DEF Fresh
<1>11. Live'
  <2>1. Written' = k /\ Written = k
    BY <1>1, <1>3, <1>6 DEF Written, k
  <2> QED BY <1>1, <2>1 DEF Live
<1>12. \A n \in 1..k : TypeAt(n)' = TypeAt(n)
  BY <1>2, <1>6 DEF TypeAt
<1>13. ErrorStops'
  <2>1. \A n \in 1..k : TypeAt(n) # "RUN_ERROR"
    BY <1>1, <1>3 DEF ErrorStops
  <2>2. \A n \in 1..(k + 1) : n \in 1..k \/ n = k + 1
    BY <1>3
  <2>3. request # "completed"
    BY <1>1 DEF Request
  <2> QED BY <1>1, <1>6, <1>12, <2>1, <2>2, <2>3 DEF ErrorStops
<1>14. EndIsLast'
  <2> SUFFICES ASSUME FinishedIsLast, NEW n \in 1..k, EndsRun(TypeAt(n)) PROVE FALSE
    <3>1. \A n \in 1..(k + 1) : n \in 1..k \/ n = k + 1
      BY <1>3
    <3> QED BY <1>6, <1>12, <3>1 DEF EndIsLast
  <2>1. n = k /\ TypeAt(n) # "RUN_ERROR"
    BY <1>1, <1>3 DEF EndIsLast, ErrorStops, k
  <2>2. script[received[n]] = "run_finished"
    BY <2>1 DEF EndsRun, TypeAt, Public
  <2>3. received[n] \in 1..emitted /\ emitted \in Nat /\ emitted <= Len(script) /\ Len(script) \in Nat
        /\ DOMAIN script = 1..Len(script)
    BY <1>3, TypeFacts, ElementOfSeq DEF k
  <2>4. received[n] = Len(script)
    <3>1. received[n] \in DOMAIN script
      BY <2>3
    <3> QED BY <2>2, <3>1 DEF FinishedIsLast, TypeOK
  <2>5. received[n] = Incoming[n] /\ n \in 1..Len(Incoming) /\ n < k + 1
    BY <1>3, <1>4 DEF Copies
  <2>6. Rising(Incoming)
    <3>1. Rising([i \in 1..emitted |-> i])
      BY <2>3 DEF Rising
    <3> QED BY <3>1 DEF Incoming, Copies, Follows
  <2>7. Incoming[n] < e
    BY <1>4, <1>5, <2>1, <2>5, <2>6, LenProperties DEF Rising, e
  <2> QED BY <1>5, <2>3, <2>4, <2>5, <2>7
<1> QED BY <1>7, <1>8, <1>9, <1>10, <1>11, <1>13, <1>14

LEMMA JournalStep ==
  ASSUME IInv, JournalEvent \/ JournalFails
  PROVE  IInv'
<1> USE DEF IInv, requestVars, handlerVars, readerVars
<1> DEFINE k == Len(received)
<1>1. /\ Downstream /\ UNCHANGED <<request, userRows, owner, received, browser, tail>>
      /\ pc = "journal" /\ pc' = "write" /\ (journal' = journal \/ journal' = journal \cup {k})
      /\ (faults' = faults \/ faults' = faults \cup {"journal"})
  BY DEF JournalEvent, JournalFails, Fault, Downstream, pipelineVars, grpcVars
<1>2. UNCHANGED <<transport, script, emitted, body, sent, stored, sub>> /\ Incoming' = Incoming
  BY <1>1, DownstreamFrame
<1>3. k \in DOMAIN received /\ DOMAIN received = 1..k /\ k \in Nat /\ journal \subseteq 1..k
  BY <1>1, WrittenFacts, TypeFacts DEF TypeOK
<1>4. TypeOK'
  <2>1. journal' \subseteq DOMAIN received /\ faults' \subseteq FaultKinds
    BY <1>1, <1>3 DEF TypeOK, FaultKinds
  <2> QED BY <1>1, <2>1, DownstreamTypes DEF TypeOK
<1> HIDE DEF k
<1>5. \A s : (\A n \in ToSet(s) : n < k) /\ s \in Seq(1..k) /\ Follows(s, journal) => Follows(s, journal')
  <2> TAKE s
  <2> HAVE (\A n \in ToSet(s) : n < k) /\ s \in Seq(1..k) /\ Follows(s, journal)
  <2>1. s \in Seq(Nat)
    <3>1. 1..k \subseteq Nat
      BY <1>3
    <3> QED BY <3>1, SeqMonotonic
  <2>2. TopOf(s) \in Nat /\ (s # <<>> => TopOf(s) \in ToSet(s)) /\ (s = <<>> => TopOf(s) = 0)
    BY <2>1, TopIsHighest DEF Follows, TopOf
  <2>3. TopOf(s) < k
    BY <1>3, <2>2
  <2>4. ~ (k <= TopOf(s))
    BY <1>3, <2>2, <2>3
  <2> QED BY <1>1, <2>4 DEF Follows
<1>6. ReadersFollow'
  <2>1. /\ \A b \in Browsers : browser[b].seen \in Seq(1..k) /\ \A n \in ToSet(browser[b].seen) : n < k
        /\ tail.seen \in Seq(1..k) /\ \A n \in ToSet(tail.seen) : n < k
    BY <1>1, <1>3, TypeFacts DEF Fresh, k
  <2> QED BY <1>1, <1>5, <2>1 DEF ReadersFollow
<1>7. Request' /\ Copies' /\ Fresh' /\ Live'
  BY <1>1, <1>2 DEF Request, Copies, Fresh, Live, Written
<1>8. ErrorStops' /\ EndIsLast' /\ Whole'
  BY <1>1, <1>2 DEF ErrorStops, EndIsLast, Whole, TypeAt
<1> QED BY <1>4, <1>6, <1>7, <1>8

LEMMA WriteStep ==
  ASSUME IInv, WriteEvent
  PROVE  IInv'
<1> USE DEF IInv, requestVars, handlerVars, readerVars
<1> DEFINE k == Len(received)
           seen == Append(browser[owner].seen, k)
<1>1. /\ Downstream /\ UNCHANGED <<request, userRows, owner, received, journal, tail, faults>>
      /\ pc = "write" /\ pc' = IF RunFailed(k) THEN "failed" ELSE "stream"
      /\ browser' = IF browser[owner].pc = "live" THEN [browser EXCEPT ![owner].seen = seen] ELSE browser
  BY DEF WriteEvent, Downstream, pipelineVars, grpcVars
<1>2. UNCHANGED <<transport, script, emitted, body, sent, stored, sub>> /\ Incoming' = Incoming
  BY <1>1, DownstreamFrame
<1>3. /\ k \in DOMAIN received /\ DOMAIN received = 1..k /\ k \in Nat /\ owner \in Browsers
      /\ Written \in Nat /\ k = Written + 1 /\ 0 \notin journal /\ journal \in SUBSET Nat
  BY <1>1, WrittenFacts, TypeFacts
<1>4. Written' = k
  BY <1>1 DEF Written
<1>5. browser \in [Browsers -> ReaderOf(DOMAIN received)] /\ browser[owner].seen \in Seq(DOMAIN received)
  BY TypeFacts DEF TypeOK
<1>6. seen \in Seq(DOMAIN received)
  BY <1>3, <1>5, AppendProperties
<1>7. browser[owner].pc = "live" => seen = [n \in 1..k |-> n]
  <2> SUFFICES ASSUME browser[owner].pc = "live" PROVE seen = [n \in 1..k |-> n]
    OBVIOUS
  <2> DEFINE old == browser[owner].seen
  <2>1. old = [n \in 1..Written |-> n]
    BY <1>3 DEF Live
  <2>2. old \in Seq(1..Written) /\ Len(old) = Written
    <3>1. [n \in 1..Written |-> n] \in Seq(1..Written)
      BY <1>3, AllFollow
    <3> QED BY <1>3, <2>1, <3>1, LenProperties
  <2>3. old \in Seq(Nat)
    BY <1>3, <2>2, SeqMonotonic
  <2> HIDE DEF old
  <2>4. /\ Append(old, k) \in Seq(Nat) /\ Len(Append(old, k)) = Written + 1
        /\ \A n \in 1..Written : Append(old, k)[n] = old[n]
        /\ Append(old, k)[Written + 1] = k
    BY <1>3, <2>2, <2>3, AppendProperties
  <2> DEFINE new == Append(old, k)
             all == [n \in 1..k |-> n]
  <2>5. all \in Seq(Nat) /\ Len(all) = k
    <3>1. all \in Seq(1..k)
      BY <1>3, AllFollow
    <3>2. 1..k \subseteq Nat
      BY <1>3
    <3> QED BY <1>3, <3>1, <3>2, SeqMonotonic, LenProperties
  <2>6. \A n \in 1..k : new[n] = all[n]
    <3>1. \A n \in 1..k : n \in 1..Written \/ n = k
      BY <1>3
    <3>2. \A n \in 1..Written : old[n] = n
      BY <2>1
    <3> QED BY <1>3, <2>4, <3>1, <3>2
  <2>7. new = all
    <3>1. new \in Seq(Nat) /\ Len(new) = k
      BY <1>3, <2>4
    <3> HIDE DEF new, all
    <3> QED BY <2>5, <2>6, <3>1, SeqEqual
  <2> QED BY <2>7 DEF old
<1> HIDE DEF k, seen
<1>8. /\ browser' \in [Browsers -> ReaderOf(DOMAIN received)]
      /\ \A b \in Browsers : /\ browser'[b].pc = browser[b].pc
                             /\ browser'[b].seen = IF b = owner /\ browser[b].pc = "live" THEN seen
                                                   ELSE browser[b].seen
  <2>1. "live" \in Progress /\ 0 \in Nat
    BY DEF Progress
  <2>2. [browser EXCEPT ![owner].seen = seen] \in [Browsers -> ReaderOf(DOMAIN received)]
    BY <1>3, <1>5, <1>6, <2>1, ReaderPatch
  <2> QED BY <1>1, <1>3, <1>5, <2>2 DEF ReaderOf
<1>9. TypeOK'
  <2>1. pc' \in {"failed", "stream"}
    BY <1>1
  <2> QED BY <1>1, <1>8, <2>1, DownstreamTypes DEF TypeOK
<1>10. Live'
  BY <1>1, <1>4, <1>7, <1>8 DEF Live
<1>11. ReadersFollow'
  <2>1. Follows([n \in 1..k |-> n], journal)
    BY <1>3, AllFollow
  <2> QED BY <1>1, <1>7, <1>8, <2>1 DEF ReadersFollow
<1>12. Request' /\ Copies' /\ Fresh'
  BY <1>1, <1>2, <1>3 DEF Request, Copies, Fresh
<1>13. ErrorStops' /\ EndIsLast' /\ Whole'
  <2>1. \A n \in DOMAIN received : TypeAt(n)' = TypeAt(n)
    BY <1>1, <1>2 DEF TypeAt
  <2>2. request # "completed"
    BY <1>1 DEF Request
  <2> QED BY <1>1, <1>2, <2>1, <2>2 DEF ErrorStops, EndIsLast, Whole, RunFailed, k
<1> QED BY <1>9, <1>10, <1>11, <1>12, <1>13

LEMMA StreamStep ==
  ASSUME IInv, StreamEnds \/ StreamBreaks
  PROVE  IInv'
<1> USE DEF IInv, requestVars, handlerVars, readerVars
<1>1. /\ Downstream /\ UNCHANGED <<request, userRows, owner, received, journal, browser, tail, faults>>
      /\ pc = "stream" /\ AllReceived /\ ((pc' = "completed" /\ SourceEnded) \/ pc' = "failed")
  BY DEF StreamEnds, StreamBreaks, BrokenStream, Downstream, pipelineVars, grpcVars
<1>2. UNCHANGED <<transport, script, emitted, body, sent, stored, sub>> /\ Incoming' = Incoming
  BY <1>1, DownstreamFrame
<1>3. TypeOK'
  BY <1>1, DownstreamTypes DEF TypeOK
<1>4. Request' /\ Copies' /\ Fresh' /\ Live' /\ ReadersFollow'
  BY <1>1, <1>2 DEF Request, Copies, Fresh, Live, Written, ReadersFollow
<1>5. ErrorStops' /\ EndIsLast'
  <2>1. \A n \in DOMAIN received : TypeAt(n)' = TypeAt(n)
    BY <1>1, <1>2 DEF TypeAt
  <2> QED BY <1>1, <2>1 DEF ErrorStops, EndIsLast, Request
<1>6. Whole'
  <2> SUFFICES ASSUME pc' = "completed", transport = "http" PROVE received = [n \in DOMAIN script |-> n]
    BY <1>1, <1>2 DEF Whole, Request
  <2>1. body = "closed" /\ emitted = Len(script)
    BY <1>1 DEF SourceEnded, Request
  <2>2. Incoming = [n \in 1..emitted |-> n]
    BY DEF Incoming
  <2>3. Incoming \in Seq(1..emitted) /\ received \in Seq(1..emitted) /\ Len(received) = Len(Incoming)
    BY <1>1, IncomingIs, InFacts, TypeFacts DEF AllReceived
  <2>4. \A n \in 1..Len(received) : received[n] = Incoming[n]
    BY TypeFacts DEF Copies
  <2>5. received = Incoming
    BY <2>3, <2>4, SeqEqual
  <2> QED BY <2>1, <2>2, <2>5, TypeFacts
<1> QED BY <1>3, <1>4, <1>5, <1>6

\* Steps that only move browsers on, none of them to its start or to a live stream.
LEMMA LetGoStep ==
  ASSUME IInv, Downstream, UNCHANGED <<received, journal, tail, userRows, owner>>,
         browser' \in [Browsers -> ReaderOf(DOMAIN received)],
         \A b \in Browsers : /\ browser'[b].seen = browser[b].seen
                             /\ browser'[b].pc # "start" \/ browser[b].pc = "start"
                             /\ browser'[b].pc # "live" \/ browser'[b] = browser[b],
         pc' \in {pc, "done", "dead"}, pc = "idle" <=> pc' = "idle", pc = "done" => pc' = "done",
         pc' # pc => \A b \in Browsers : browser'[b].pc # "live",
         request' = request \/ (pc \in {"completed", "failed"} /\ request' = pc /\ pc' = "done"),
         faults' \subseteq FaultKinds
  PROVE  IInv'
<1> USE DEF IInv
<1>1. UNCHANGED <<transport, script, emitted, body, sent, stored, sub>> /\ Incoming' = Incoming
  BY DownstreamFrame
<1>2. TypeOK'
  <2>1. request' \in {"none", "accepted", "completed", "failed"} /\ (request' = "none" <=> request = "none")
    BY DEF TypeOK, Request
  <2>2. userRows' = (IF request' = "none" THEN 0 ELSE 1)
    BY <2>1 DEF TypeOK
  <2>3. pc' \in {"idle", "stream", "journal", "write", "completed", "failed", "done", "dead"}
    BY DEF TypeOK
  <2> QED BY <2>1, <2>2, <2>3, DownstreamTypes DEF TypeOK
<1>3. Request'
  BY <1>1 DEF Request
<1>4. Copies' /\ Fresh' /\ ReadersFollow'
  BY <1>1 DEF Copies, Fresh, ReadersFollow
<1>5. Live'
  <2> SUFFICES ASSUME NEW b \in Browsers
               PROVE  /\ browser'[b].pc = "start" => browser'[b].seen = <<>>
                      /\ browser'[b].pc = "live" => /\ b = owner /\ pc' \notin {"idle", "done", "dead"}
                                                   /\ browser'[b].seen = [n \in 1..Written' |-> n]
    BY DEF Live
  <2>1. browser'[b].pc = "live" => pc' = pc /\ browser[b].pc = "live"
    OBVIOUS
  <2>2. pc' = pc => Written' = Written
    BY DEF Written
  <2> QED BY <2>1, <2>2 DEF Live
<1>6. ErrorStops' /\ EndIsLast' /\ Whole'
  <2>1. \A n \in DOMAIN received : TypeAt(n)' = TypeAt(n)
    BY <1>1 DEF TypeAt
  <2> QED BY <1>1, <2>1 DEF ErrorStops, EndIsLast, Whole
<1> QED BY <1>2, <1>3, <1>4, <1>5, <1>6

LEMMA LoseFacts ==
  ASSUME IInv, LoseStream(owner)
  PROVE  /\ browser' \in [Browsers -> ReaderOf(DOMAIN received)]
         /\ \A b \in Browsers : /\ browser'[b].seen = browser[b].seen
                                /\ browser'[b].pc # "start" \/ browser[b].pc = "start"
                                /\ browser'[b].pc # "live"
<1> USE DEF IInv
<1> DEFINE next == IF browser[owner].seen # <<>> THEN "poll" ELSE "error"
<1>1. browser \in [Browsers -> ReaderOf(DOMAIN received)] /\ owner \in Browsers
      /\ <<>> \in Seq(DOMAIN received) /\ 0 \in Nat /\ next \in Progress /\ next \in {"poll", "error"}
  BY EmptySeq DEF TypeOK, Progress
<1>2. browser' = IF browser[owner].pc # "live" THEN browser ELSE [browser EXCEPT ![owner].pc = next]
  BY DEF LoseStream
<1> HIDE DEF next
<1>3. [browser EXCEPT ![owner].pc = next] \in [Browsers -> ReaderOf(DOMAIN received)]
  BY <1>1, ReaderPatch
<1>4. \A b \in Browsers : browser[b].pc = "live" => b = owner
  BY DEF Live
<1> QED BY <1>1, <1>2, <1>3, <1>4 DEF ReaderOf

LEMMA EndStep ==
  ASSUME IInv, Return \/ GatewayDies \/ SocketBreaks
  PROVE  IInv'
<1> USE DEF requestVars, handlerVars, readerVars
<1>1. CASE Return
  <2>1. /\ Downstream /\ UNCHANGED <<userRows, owner, received, journal, tail, faults>>
        /\ pc \in {"completed", "failed"} /\ request' \in {request, pc} /\ pc' = "done"
        /\ browser' = IF browser[owner].pc = "live" THEN [browser EXCEPT ![owner].pc = "done"] ELSE browser
    BY <1>1 DEF Return, Downstream, pipelineVars, grpcVars
  <2>2. browser \in [Browsers -> ReaderOf(DOMAIN received)] /\ owner \in Browsers
        /\ <<>> \in Seq(DOMAIN received) /\ 0 \in Nat /\ "done" \in Progress
    BY EmptySeq DEF IInv, TypeOK, Progress
  <2>3. [browser EXCEPT ![owner].pc = "done"] \in [Browsers -> ReaderOf(DOMAIN received)]
    BY <2>2, ReaderPatch
  <2>4. \A b \in Browsers : browser[b].pc = "live" => b = owner
    BY DEF IInv, Live
  <2>5. /\ browser' \in [Browsers -> ReaderOf(DOMAIN received)]
        /\ \A b \in Browsers : /\ browser'[b].seen = browser[b].seen
                               /\ browser'[b].pc # "start" \/ browser[b].pc = "start"
                               /\ browser'[b].pc # "live"
    BY <2>1, <2>2, <2>3, <2>4 DEF ReaderOf
  <2>6. faults' \subseteq FaultKinds
    BY <2>1 DEF IInv, TypeOK
  <2> QED BY <2>1, <2>5, <2>6, LetGoStep
<1>2. CASE GatewayDies
  <2>1. /\ Downstream /\ UNCHANGED <<request, userRows, owner, received, journal, tail>>
        /\ pc \notin {"idle", "done"} /\ pc' = "dead" /\ LoseStream(owner) /\ faults' = faults \cup {"gateway"}
    BY <1>2 DEF GatewayDies, Fault, Downstream, pipelineVars, grpcVars
  <2>2. faults' \subseteq FaultKinds
    BY <2>1 DEF IInv, TypeOK, FaultKinds
  <2>3. /\ browser' \in [Browsers -> ReaderOf(DOMAIN received)]
        /\ \A b \in Browsers : /\ browser'[b].seen = browser[b].seen
                               /\ browser'[b].pc # "start" \/ browser[b].pc = "start"
                               /\ browser'[b].pc # "live"
    BY <2>1, LoseFacts
  <2>4. /\ pc' \in {pc, "done", "dead"} /\ (pc = "idle" <=> pc' = "idle") /\ (pc = "done" => pc' = "done")
        /\ pc' # pc => \A b \in Browsers : browser'[b].pc # "live"
        /\ request' = request \/ (pc \in {"completed", "failed"} /\ request' = pc /\ pc' = "done")
        /\ Downstream /\ UNCHANGED <<received, journal, tail, userRows, owner>>
    BY <2>1, <2>3
  <2>5. \A b \in Browsers : /\ browser'[b].seen = browser[b].seen
                            /\ browser'[b].pc # "start" \/ browser[b].pc = "start"
                            /\ browser'[b].pc # "live" \/ browser'[b] = browser[b]
    BY <2>3
  <2> QED BY <2>2, <2>3, <2>4, <2>5, LetGoStep
<1>3. CASE SocketBreaks
  <2>1. /\ Downstream /\ UNCHANGED <<request, userRows, owner, pc, received, journal, tail>>
        /\ LoseStream(owner) /\ faults' = faults \cup {"socket"}
    BY <1>3 DEF SocketBreaks, Fault, Downstream, pipelineVars, grpcVars
  <2>2. faults' \subseteq FaultKinds
    BY <2>1 DEF IInv, TypeOK, FaultKinds
  <2>3. /\ browser' \in [Browsers -> ReaderOf(DOMAIN received)]
        /\ \A b \in Browsers : /\ browser'[b].seen = browser[b].seen
                               /\ browser'[b].pc # "start" \/ browser[b].pc = "start"
                               /\ browser'[b].pc # "live"
    BY <2>1, LoseFacts
  <2>4. /\ pc' \in {pc, "done", "dead"} /\ (pc = "idle" <=> pc' = "idle") /\ (pc = "done" => pc' = "done")
        /\ pc' # pc => \A b \in Browsers : browser'[b].pc # "live"
        /\ request' = request \/ (pc \in {"completed", "failed"} /\ request' = pc /\ pc' = "done")
        /\ Downstream /\ UNCHANGED <<received, journal, tail, userRows, owner>>
    BY <2>1, <2>3
  <2>5. \A b \in Browsers : /\ browser'[b].seen = browser[b].seen
                            /\ browser'[b].pc # "start" \/ browser[b].pc = "start"
                            /\ browser'[b].pc # "live" \/ browser'[b] = browser[b]
    BY <2>3
  <2> QED BY <2>2, <2>3, <2>4, <2>5, LetGoStep
<1> QED BY <1>1, <1>2, <1>3

-----------------------------------------------------------------------------
(* Steps of the readers of run_public_events *)

\* A page of the journal continues what its reader has seen.
LEMMA PageFacts ==
  ASSUME TypeOK, NEW r \in ReaderOf(DOMAIN received), Follows(r.seen, journal), NEW q,
         q = NextPage(r) \/ q = UpToEnd(NextPage(r))
  PROVE  /\ r.seen \o q \in Seq(DOMAIN received) /\ Follows(r.seen \o q, journal)
         /\ \A n \in ToSet(r.seen \o q) : n \in ToSet(r.seen) \/ n \in journal
<1>1. /\ journal \in SUBSET Nat /\ IsFiniteSet(journal) /\ journal \subseteq DOMAIN received
      /\ DOMAIN received \subseteq Nat
  BY TypeFacts DEF TypeOK
<1>2. r.seen \in Seq(DOMAIN received) /\ r.seen \in Seq(Nat) /\ Rising(r.seen)
  BY <1>1, SeqMonotonic DEF ReaderOf, Follows
<1>3. Continues(NextPage(r), r.seen, journal)
  BY <1>1, <1>2, PageContinues DEF NextPage
<1>4. Continues(q, r.seen, journal)
  BY <1>1, <1>2, <1>3, UpToEndContinues
<1>5. q \in Seq(DOMAIN received)
  BY <1>1, <1>4, SeqMonotonic DEF Continues
<1>6. \A n \in ToSet(q) : n \in journal
  BY <1>4, ElementOfSeq, LenProperties DEF Continues, ToSet
<1>7. Follows(r.seen \o q, journal) /\ ToSet(r.seen \o q) = ToSet(r.seen) \cup ToSet(q)
  <2> DEFINE s == r.seen
  <2>1. s \in Seq(Nat) /\ Follows(s, journal) /\ Continues(q, s, journal)
    BY <1>2, <1>4
  <2> HIDE DEF s
  <2>2. Follows(s \o q, journal) /\ ToSet(s \o q) = ToSet(s) \cup ToSet(q)
    BY <1>1, <2>1, ContinuesFollows
  <2> QED BY <2>2 DEF s
<1>8. r.seen \o q \in Seq(DOMAIN received)
  BY <1>2, <1>5, ConcatProperties
<1> QED BY <1>6, <1>7, <1>8

\* What a reader newly sees is in the journal.
LEMMA ReaderStep ==
  ASSUME IInv, Downstream, UNCHANGED <<requestVars, handlerVars>>, faults' \subseteq FaultKinds,
         browser' \in [Browsers -> ReaderOf(DOMAIN received)], tail' \in ReaderOf(DOMAIN received),
         \A b \in Browsers :
           /\ browser'[b].pc \in {"start", "live"} => browser'[b] = browser[b]
           /\ Follows(browser'[b].seen, journal)
           /\ \A n \in ToSet(browser'[b].seen) : n \in ToSet(browser[b].seen) \/ n \in journal,
         Follows(tail'.seen, journal),
         \A n \in ToSet(tail'.seen) : n \in ToSet(tail.seen) \/ n \in journal
  PROVE  IInv'
<1> USE DEF IInv, requestVars, handlerVars
<1>1. UNCHANGED <<transport, script, emitted, body, sent, stored, sub>> /\ Incoming' = Incoming
  BY DownstreamFrame
<1>2. TypeOK'
  BY DownstreamTypes DEF TypeOK
<1>3. Request' /\ Copies' /\ ReadersFollow'
  BY <1>1 DEF Request, Copies, ReadersFollow
<1>4. Fresh'
  BY DEF Fresh
<1>5. Live'
  BY DEF Live, Written
<1>6. ErrorStops' /\ EndIsLast' /\ Whole'
  BY <1>1 DEF ErrorStops, EndIsLast, Whole, TypeAt
<1> QED BY <1>2, <1>3, <1>4, <1>5, <1>6

LEMMA RecoversStep ==
  ASSUME IInv, NEW b \in Browsers, Recovers(b)
  PROVE  IInv'
<1> USE DEF requestVars, handlerVars, readerVars
<1>1. /\ browser \in [Browsers -> ReaderOf(DOMAIN received)] /\ browser[b] \in ReaderOf(DOMAIN received)
      /\ <<>> \in Seq(DOMAIN received) /\ 0 \in Nat /\ tail \in ReaderOf(DOMAIN received)
      /\ faults \subseteq FaultKinds
  BY EmptySeq DEF IInv, TypeOK
<1>2. {"done", "status", "error", "poll"} \subseteq Progress
  BY DEF Progress
<1>3. Follows(tail.seen, journal) /\ \A c \in Browsers : Follows(browser[c].seen, journal)
  BY DEF IInv, ReadersFollow
<1>4. CASE Poll(b)
  <2> DEFINE page == NextPage(browser[b])
             next == IF Terminal(page) THEN "done" ELSE "status"
             seen == browser[b].seen \o page
  <2>1. /\ Downstream /\ UNCHANGED <<request, userRows, owner, pc, received, journal, tail, faults>>
        /\ browser' = [browser EXCEPT ![b].seen = seen, ![b].pc = next]
    BY <1>4 DEF Poll, Downstream, pipelineVars, grpcVars
  <2>2. /\ seen \in Seq(DOMAIN received) /\ Follows(seen, journal)
        /\ \A n \in ToSet(seen) : n \in ToSet(browser[b].seen) \/ n \in journal
    BY <1>1, <1>3, PageFacts DEF IInv
  <2>3. next \in Progress /\ next \notin {"start", "live"}
    BY <1>2
  <2> HIDE DEF page, next, seen
  <2>4. browser' \in [Browsers -> ReaderOf(DOMAIN received)]
    BY <1>1, <2>1, <2>2, <2>3, ReaderPatch
  <2>5. \A c \in Browsers : IF c = b THEN browser'[c].seen = seen /\ browser'[c].pc = next
                            ELSE browser'[c] = browser[c]
    BY <1>1, <2>1 DEF ReaderOf
  <2>6. \A c \in Browsers :
           /\ browser'[c].pc \in {"start", "live"} => browser'[c] = browser[c]
           /\ Follows(browser'[c].seen, journal)
           /\ \A n \in ToSet(browser'[c].seen) : n \in ToSet(browser[c].seen) \/ n \in journal
    BY <1>3, <2>2, <2>3, <2>5
  <2> QED BY <1>1, <1>3, <2>1, <2>4, <2>6, ReaderStep
<1>5. CASE AskStatus(b)
  <2> DEFINE polls == browser[b].polls + 1
             next == CASE execution = "terminal" -> "done"
                       [] polls = MaxPolls       -> "error"
                       [] OTHER                  -> "poll"
  <2>1. /\ Downstream /\ UNCHANGED <<request, userRows, owner, pc, received, journal, tail, faults>>
        /\ browser' = [browser EXCEPT ![b].polls = polls, ![b].pc = next]
    BY <1>5 DEF AskStatus, Downstream, pipelineVars, grpcVars
  <2>2. next \in {"done", "error", "poll"}
    OBVIOUS
  <2>3. next \in Progress /\ next \notin {"start", "live"} /\ polls \in Nat
    BY <1>1, <1>2, <2>2 DEF ReaderOf
  <2> HIDE DEF next, polls
  <2>4. browser' \in [Browsers -> ReaderOf(DOMAIN received)]
    BY <1>1, <2>1, <2>3, ReaderPatch
  <2>5. \A c \in Browsers : /\ browser'[c].seen = browser[c].seen
                            /\ IF c = b THEN browser'[c].pc = next ELSE browser'[c] = browser[c]
    BY <1>1, <2>1 DEF ReaderOf
  <2>6. \A c \in Browsers :
           /\ browser'[c].pc \in {"start", "live"} => browser'[c] = browser[c]
           /\ Follows(browser'[c].seen, journal)
           /\ \A n \in ToSet(browser'[c].seen) : n \in ToSet(browser[c].seen) \/ n \in journal
    BY <1>3, <2>3, <2>5
  <2> QED BY <1>1, <1>3, <2>1, <2>4, <2>6, ReaderStep
<1> QED BY <1>4, <1>5 DEF Recovers

LEMMA TailStep ==
  ASSUME IInv, OpenTail \/ TailPoll \/ TailBreaks
  PROVE  IInv'
<1> USE DEF requestVars, handlerVars, readerVars
<1>1. /\ Downstream /\ UNCHANGED <<request, userRows, owner, pc, received, journal, browser>>
      /\ (faults' = faults \/ faults' = faults \cup {"socket"})
  BY DEF OpenTail, TailPoll, TailBreaks, Fault, Downstream, pipelineVars, grpcVars
<1>2. /\ browser \in [Browsers -> ReaderOf(DOMAIN received)] /\ tail \in ReaderOf(DOMAIN received)
      /\ faults' \subseteq FaultKinds
  BY <1>1 DEF IInv, TypeOK, FaultKinds
<1>3. Follows(tail.seen, journal) /\ \A c \in Browsers : Follows(browser[c].seen, journal)
  BY DEF IInv, ReadersFollow
<1>4. {"start", "tail", "done", "idle"} \subseteq Progress
  BY DEF Progress
<1>5. /\ tail' \in ReaderOf(DOMAIN received) /\ Follows(tail'.seen, journal)
      /\ \A n \in ToSet(tail'.seen) : n \in ToSet(tail.seen) \/ n \in journal
  <2>1. CASE OpenTail
    BY <1>2, <1>3, <1>4, <2>1 DEF OpenTail, ReaderOf
  <2>2. CASE TailBreaks
    BY <1>2, <1>3, <1>4, <2>2 DEF TailBreaks, ReaderOf
  <2>3. CASE TailPoll /\ NextPage(tail) = <<>>
    <3> DEFINE next == IF IdleCount = MaxPolls THEN "idle" ELSE "tail"
    <3>1. tail' = [tail EXCEPT !.polls = IdleCount, !.pc = next]
      BY <2>3 DEF TailPoll
    <3>2. IdleCount \in Nat /\ next \in Progress
      BY <1>2, <1>4 DEF IdleCount, ReaderOf
    <3> HIDE DEF next
    <3> QED BY <1>2, <1>3, <3>1, <3>2 DEF ReaderOf
  <2>4. CASE TailPoll /\ NextPage(tail) # <<>>
    <3> DEFINE next == IF Terminal(NextPage(tail)) THEN "done" ELSE "tail"
               seen == tail.seen \o UpToEnd(NextPage(tail))
    <3>1. tail' = [pc |-> next, seen |-> seen, polls |-> 0]
      BY <2>4 DEF TailPoll
    <3>2. next \in Progress
      BY <1>4
    <3>3. /\ seen \in Seq(DOMAIN received) /\ Follows(seen, journal)
          /\ \A n \in ToSet(seen) : n \in ToSet(tail.seen) \/ n \in journal
      BY <1>2, <1>3, PageFacts DEF IInv
    <3> HIDE DEF next, seen
    <3> QED BY <3>1, <3>2, <3>3 DEF ReaderOf
  <2> QED BY <2>1, <2>2, <2>3, <2>4
<1> QED BY <1>1, <1>2, <1>3, <1>5, ReaderStep

-----------------------------------------------------------------------------
(* The theorems *)

LEMMA Start == Init => IInv
<1> SUFFICES ASSUME Init PROVE IInv
  OBVIOUS
<1> USE DEF Init
<1>1. /\ Len(<<>>) = 0 /\ DOMAIN <<>> = {} /\ ToSet(<<>>) = {} /\ TopOf(<<>>) = 0 /\ Rising(<<>>)
      /\ \A S : <<>> \in Seq(S)
  BY EmptySeq DEF ToSet, TopOf, Rising
<1>2. Len(script) \in Nat
  BY ScriptAssumption, LenProperties
<1>3. owner \in Browsers
  BY BrowserAssumption
<1>4. Len(Incoming) = 0
  <2>1. emitted = 0 /\ Len(sent) = 0
    BY <1>1
  <2>0. sent \in Seq(1..emitted) /\ emitted \in Nat
    BY <1>1
  <2>2. Len(InOf(transport, emitted, sent)) = IF transport = "http" THEN emitted ELSE Len(sent)
    BY ONLY <2>0, InFacts
  <2>3. Incoming = InOf(transport, emitted, sent)
    BY ONLY IncomingIs
  <2> QED BY ONLY <2>1, <2>2, <2>3
<1>5. Reader("start") \in ReaderOf({})
  BY <1>1 DEF Reader, ReaderOf, Progress
<1>6. TypeOK
  BY <1>1, <1>2, <1>3, <1>4, <1>5 DEF TypeOK
<1>7. Follows(<<>>, {})
  BY <1>1 DEF Follows
<1> QED
  BY <1>1, <1>6, <1>7
  DEF IInv, Request, Copies, Fresh, Live, ReadersFollow, ErrorStops, EndIsLast, Whole, Reader

LEMMA Step == IInv /\ [Next]_vars => IInv'
<1> SUFFICES ASSUME IInv, [Next]_vars PROVE IInv'
  OBVIOUS
<1>1. CASE Sources
  BY <1>1, SourcesStep
<1>2. CASE Handler
  BY <1>2, ReceiveStep, JournalStep, WriteStep, StreamStep, EndStep DEF Handler
<1>3. CASE GatewayDies \/ SocketBreaks
  BY <1>3, EndStep
<1>4. CASE \E b \in Browsers : Post(b) \/ Recovers(b)
  BY <1>4, PostStep, RecoversStep
<1>5. CASE OpenTail \/ TailPoll \/ TailBreaks
  BY <1>5, TailStep
<1>6. CASE UNCHANGED vars
  <2> USE <1>6 DEF vars, IInv
  <2>1. Incoming' = Incoming
    BY DEF Incoming
  <2>2. TypeOK' /\ Request' /\ Copies'
    BY <2>1 DEF TypeOK, Request, Copies
  <2>3. Fresh' /\ Live' /\ ReadersFollow'
    BY DEF Fresh, Live, Written, ReadersFollow
  <2>4. ErrorStops' /\ EndIsLast' /\ Whole'
    BY DEF ErrorStops, EndIsLast, Whole, TypeAt
  <2> QED BY <2>2, <2>3, <2>4
<1> QED BY <1>1, <1>2, <1>3, <1>4, <1>5, <1>6 DEF Next, Sources

(* The inductive invariant holds in every reachable state.                   *)
THEOREM Invariant == Spec => []IInv
BY Start, Step, PTL DEF Spec

(* The state of every stage has the types of the model, and no stage holds   *)
(* what the stage before it does not have.                                   *)
THEOREM TypeCorrect == Spec => []TypeOK
<1>1. IInv => TypeOK
  BY DEF IInv
<1> QED BY <1>1, Invariant, PTL

(* Whatever the faults, no reader of a run's events, in the Gateway or in a  *)
(* browser, sees one twice, out of order, or behind one it has not seen that *)
(* its journal holds.                                                        *)
THEOREM ReadersFollowTheRun == Spec => []NothingSkippedNorRepeated
<1>1. IInv => NothingSkippedNorRepeated
  <2> SUFFICES ASSUME IInv PROVE NothingSkippedNorRepeated
    OBVIOUS
  <2>1. \A s \in Views : Follows(s, journal)
    BY DEF IInv, ReadersFollow, Views
  <2>2. TypeOK /\ Copies
    BY DEF IInv
  <2>3. /\ received \in Seq(1..emitted) /\ Len(received) \in Nat /\ DOMAIN received = 1..Len(received)
        /\ Len(received) <= Len(Incoming) /\ emitted \in Nat /\ received \in Seq(Nat)
    BY <2>2, TypeFacts DEF TypeOK
  <2> DEFINE S == IF transport = "http" THEN 1..emitted ELSE stored
  <2>4. Follows(Incoming, S) /\ Incoming \in Seq(Nat)
    <3>1. 0 \notin 1..emitted /\ 1..emitted \in SUBSET Nat
      BY <2>3
    <3>2. Follows([n \in 1..emitted |-> n], 1..emitted)
      BY <2>3, <3>1, AllFollow
    <3>3. Incoming \in Seq(Nat)
      BY <2>2, <3>1, IncomingIs, InFacts, TypeFacts, SeqMonotonic
    <3> QED BY <2>2, <3>2, <3>3 DEF Incoming, Copies
  <2> HIDE DEF S
  <2>5. Follows(received, S)
    <3>1. CASE received = <<>>
      <4>1. \A n \in S : ~ (n <= 0)
        <5>1. S \subseteq 1..emitted
          BY <2>2, TypeFacts DEF S
        <5> QED BY <2>3, <5>1
      <4> QED BY <3>1, <4>1 DEF Follows, TopOf, Rising
    <3>2. CASE received # <<>>
      <4> DEFINE m == Len(received)
      <4>1. m \in 1..Len(Incoming) /\ Len(Incoming) \in Nat /\ m \in 1..m
        <5>1. Len(Incoming) \in Nat /\ m # 0
          BY <2>3, <2>4, <3>2, LenProperties, EmptySeq
        <5> QED BY <2>3, <5>1
      <4> DEFINE p == SubSeq(Incoming, 1, m)
      <4>2. /\ p \in Seq(Nat) /\ Len(p) = m /\ Rising(p) /\ \A i \in 1..m : p[i] = Incoming[i]
            /\ Last(p) = Incoming[m] /\ \A n \in ToSet(Incoming) : n <= Incoming[m] => n \in ToSet(p)
        BY <2>4, <4>1, Prefix DEF Follows
      <4>3. p = received
        <5>1. \A i \in 1..m : received[i] = p[i]
          BY <2>2, <2>3, <4>2 DEF Copies
        <5> HIDE DEF p
        <5> QED BY <2>3, <4>2, <5>1, SeqEqual
      <4>4. TopOf(received) = Incoming[m] /\ Incoming[m] <= TopOf(Incoming) /\ Incoming[m] \in Nat
            /\ TopOf(Incoming) \in Nat
        <5>1. Incoming[m] \in ToSet(Incoming)
          BY <2>4, <4>1, LenProperties DEF ToSet
        <5>2. TopOf(received) = Last(received) /\ Last(received) = Incoming[m]
          BY <3>2, <4>2, <4>3 DEF TopOf
        <5> QED BY <2>4, <5>1, <5>2, TopIsHighest DEF Follows
      <4>5. \A n \in S : n \in Nat
        BY <2>2, <2>3, TypeFacts DEF S
      <4> HIDE DEF m, p
      <4>6. \A n \in S : n <= TopOf(received) => n \in ToSet(received)
        BY <2>4, <4>2, <4>3, <4>4, <4>5 DEF Follows
      <4> QED BY <4>2, <4>3, <4>6 DEF Follows
    <3> QED BY <3>1, <3>2
  <2> QED BY <2>1, <2>5 DEF NothingSkippedNorRepeated, S
<1> QED BY <1>1, Invariant, PTL

(* event_stream.go and recoverRun, which stop at RUN_FINISHED or RUN_ERROR:  *)
(* a reader that stops at the end of a run misses nothing that is journaled  *)
(* then or later, if no pipeline writes an event behind run_finished; behind *)
(* run_error it may write anything.                                          *)
THEOREM NothingIsMissedAtTheEnd == Spec => [](FinishedIsLast => NothingBehindTheEnd)
<1>1. IInv => (FinishedIsLast => NothingBehindTheEnd)
  <2> SUFFICES ASSUME IInv, FinishedIsLast, NEW s \in Views, Terminal(s), NEW n \in journal
               PROVE  n <= Last(s)
    BY DEF NothingBehindTheEnd
  <2>1. TypeOK /\ Follows(s, journal) /\ s \in Seq(DOMAIN received)
    BY TypeFacts DEF IInv, ReadersFollow, Views
  <2>2. Len(received) \in Nat /\ DOMAIN received = 1..Len(received) /\ journal \subseteq DOMAIN received
    BY <2>1, TypeFacts DEF TypeOK
  <2>3. s \in Seq(Nat) /\ DOMAIN s = 1..Len(s)
    <3>1. DOMAIN received \subseteq Nat
      BY <2>2
    <3> QED BY <2>1, <3>1, SeqMonotonic, LenProperties
  <2>4. PICK i \in DOMAIN s : EndsRun(TypeAt(s[i]))
    BY DEF Terminal
  <2>5. s[i] \in DOMAIN received /\ s[i] \in ToSet(s) /\ s # <<>>
    BY <2>1, <2>3, <2>4, ElementOfSeq DEF ToSet
  <2>6. s[i] = Len(received)
    BY <2>4, <2>5 DEF IInv, EndIsLast
  <2>7. s[i] <= Last(s) /\ Last(s) \in Nat
    BY <2>1, <2>3, <2>5, TopIsHighest DEF Follows
  <2>8. n \in 1..Len(received)
    BY <2>2
  <2> QED BY <2>2, <2>6, <2>7, <2>8
<1> QED BY <1>1, Invariant, PTL

(* A request is recorded as completed only if its stream had no RUN_ERROR    *)
(* and, over HTTP, was read to the end of what the run emitted.              *)
THEOREM CompletedRequestsAreWhole == Spec => []CompletedIsWhole
<1>1. IInv => CompletedIsWhole
  BY DEF IInv, CompletedIsWhole, ErrorStops, Whole
<1> QED BY <1>1, Invariant, PTL
=============================================================================
