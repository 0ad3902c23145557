------------------------ MODULE OutboxAndProjectionProofs ------------------------
(***************************************************************************)
(* Proofs about the two ends of the event stream of a run.                 *)
(*                                                                         *)
(* The outbox relays, for any relays, runs, page and bounds on rows and    *)
(* faults, with the named lock and without it.                             *)
(*                                                                         *)
(* The Gateway's projection of public events into messages (instance G),   *)
(* for any number of recovery passes, any failures and any event streams   *)
(* the hypotheses of a theorem name.  Everything rests on where a turn     *)
(* ends (EndOf): offsets are ends of turns and ends cut no turn            *)
(* (EndCutsNone), so whatever part of the journal a pass reads, a turn     *)
(* whose end it finds is there as a whole (JournaledIsWhole) and above the *)
(* offset.  Messages rise strictly by their seq, two turns that differ in  *)
(* it are two turns, and so share no text.  Nothing is left out because    *)
(* whoever inserts a turn has seen every earlier end (NoneBetween).        *)
(***************************************************************************)
EXTENDS OutboxRelay, GatewayProjectionState, FiniteSetTheorems, SequenceTheorems, WellFoundedInduction, TLAPS

-----------------------------------------------------------------------------
(* The inductive invariant *)

\* The rows of a run are numbered from 1, without a gap, in id order.
SeqsDense == \A r \in Runs : \E k \in Nat : SeqsOf(r) = 1 .. k

SeqsRise ==
  /\ \A i \in DOMAIN outbox : outbox[i].seq <= i
  /\ \A i, j \in DOMAIN outbox :
       i < j /\ outbox[i].run = outbox[j].run => outbox[i].seq < outbox[j].seq

StreamOfRows == \A k \in DOMAIN stream : \E i \in DOMAIN outbox : stream[k] = Entry(i)

\* What a relay is about to mark is in the stream.
BatchOfRows ==
  \A p \in Relays : /\ batch[p] \subseteq DOMAIN outbox
                    /\ pc[p] = "mark" => InStream(Entry(Current(p)))

NoBackoff == faults["publish"] = 0

AllDue == NoBackoff => \A i \in DOMAIN outbox : outbox[i].due

\* No relay has a row to publish without the earlier ones that still are.
OldestFirst ==
  NoBackoff => \A p \in Relays : \A i \in batch[p] : \A j \in DOMAIN outbox :
                 j < i => outbox[j].published \/ j \in batch[p]

Leased == holder # AnyRelay /\ faults["lock"] = 0

\* With a lock that is not lost, whoever polls owns it, and nobody else publishes.
SingleWriter ==
  Leased => \A p \in Relays : /\ pc[p] \in {"idle", "checked", "batch", "mark"} => holder = p
                              /\ \A i \in batch[p] : ~ outbox[i].published

\* The stream of a run is not ahead of what is still to publish.
NotAhead ==
  Leased /\ NoBackoff =>
    \A k \in DOMAIN stream : \A i \in DOMAIN outbox :
      stream[k].run = outbox[i].run /\ ~ outbox[i].published => stream[k].seq <= outbox[i].seq

IInv ==
  /\ TypeOK /\ SeqsDense /\ SeqsRise /\ StreamOfRows /\ BatchOfRows /\ PublishedMeansInStream
  /\ AllDue /\ OldestFirst /\ SingleWriter /\ NotAhead
  /\ InOrderWithoutBackoff /\ StreamNeverGoesBack

-----------------------------------------------------------------------------
(* Rows, pages and the stream *)

LEMMA LeastNatural ==
  ASSUME NEW S, S \subseteq Nat, S # {}
  PROVE  \E m \in S : \A n \in S : m <= n
<1> DEFINE R == {p \in Nat \X Nat : p[1] < p[2]}
<1>1. IsWellFoundedOn(R, Nat)
  BY NatLessThanWellFounded DEF OpToRel
<1> HIDE DEF R
<1>2. PICK m \in S : \A n \in S : <<n, m>> \notin R
  BY <1>1, WFMin
<1>3. \A n \in S : ~ (n < m)
  BY <1>2 DEF R
<1> QED BY <1>3

RowType   == [run : Runs, seq : 1..MaxRows, published : BOOLEAN, due : BOOLEAN]
EntryType == [run : Runs, seq : 1..MaxRows]

LEMMA Rows ==
  ASSUME TypeOK
  PROVE  /\ Len(outbox) \in Nat /\ DOMAIN outbox = 1 .. Len(outbox)
         /\ \A i \in DOMAIN outbox :
              /\ i \in Nat /\ outbox[i] \in RowType /\ Entry(i) \in EntryType
              /\ outbox[i].run \in Runs /\ outbox[i].seq \in 1..MaxRows
              /\ outbox[i].published \in BOOLEAN /\ outbox[i].due \in BOOLEAN
<1>1. outbox \in Seq(RowType)
  BY DEF TypeOK, RowType
<1>2. Len(outbox) \in Nat /\ DOMAIN outbox = 1 .. Len(outbox)
  BY <1>1
<1>3. \A i \in DOMAIN outbox : outbox[i] \in RowType
  BY <1>1
<1>4. \A i \in DOMAIN outbox : i \in Nat
  BY <1>2
<1> QED BY <1>2, <1>3, <1>4 DEF RowType, EntryType, Entry

LEMMA Entries ==
  ASSUME TypeOK
  PROVE  /\ Len(stream) \in Nat /\ DOMAIN stream = 1 .. Len(stream)
         /\ \A k \in DOMAIN stream : stream[k].run \in Runs /\ stream[k].seq \in 1..MaxRows
<1>1. stream \in Seq(EntryType)
  BY DEF TypeOK, EntryType
<1>2. Len(stream) \in Nat /\ DOMAIN stream = 1 .. Len(stream)
  BY <1>1
<1>3. \A k \in DOMAIN stream : stream[k] \in EntryType
  BY <1>1
<1> QED BY <1>2, <1>3 DEF EntryType

LEMMA CurrentFacts ==
  ASSUME TypeOK, NEW p \in Relays, batch[p] # {}
  PROVE  /\ Current(p) \in batch[p] /\ Current(p) \in 1..MaxRows
         /\ \A j \in batch[p] : Current(p) <= j
<1>1. batch[p] \subseteq 1..MaxRows
  BY DEF TypeOK
<1>2. \E m \in batch[p] : \A n \in batch[p] : m <= n
  BY <1>1, LeastNatural
<1> QED BY <1>1, <1>2 DEF Current

LEMMA PageFacts ==
  ASSUME TypeOK
  PROVE  /\ Page(Pending) \subseteq Pending /\ Pending \subseteq DOMAIN outbox
         /\ Pending # {} => Page(Pending) # {}
         /\ \A i \in Page(Pending), j \in Pending : j < i => j \in Page(Pending)
<1> DEFINE Before(i) == {j \in Pending : j < i}
<1>1. Pending \subseteq DOMAIN outbox /\ Page(Pending) \subseteq Pending
  BY DEF Pending, Page
<1>2. IsFiniteSet(DOMAIN outbox) /\ Pending \subseteq Nat
  <2>1. DOMAIN outbox = 1 .. Len(outbox) /\ Len(outbox) \in Nat
    BY Rows
  <2>2. IsFiniteSet(1 .. Len(outbox))
    BY <2>1, FS_Interval
  <2> QED BY <1>1, <2>1, <2>2
<1>3. IsFiniteSet(Pending)
  BY <1>1, <1>2, FS_Subset
<1> HIDE DEF Pending
<1>4. \A i : IsFiniteSet(Before(i)) /\ Cardinality(Before(i)) \in Nat
  BY <1>3, FS_Subset, FS_CardinalityType
<1>5. ASSUME Pending # {} PROVE Page(Pending) # {}
  <2>1. PICK m \in Pending : \A n \in Pending : m <= n
    BY <1>2, <1>5, LeastNatural
  <2>2. Before(m) = {}
    <3>1. \A j \in Pending : ~ (j < m)
      BY <1>2, <2>1
    <3> QED BY <3>1
  <2>3. Cardinality(Before(m)) < BatchLimit
    BY <2>2, FS_EmptySet, LimitAssumption
  <2> QED BY <2>3 DEF Page
<1>6. ASSUME NEW i \in Page(Pending), NEW j \in Pending, j < i PROVE j \in Page(Pending)
  <2>1. i \in Pending /\ Cardinality(Before(i)) < BatchLimit
    BY DEF Page
  <2>2. Before(j) \subseteq Before(i)
    <3>1. \A k \in Pending : k < j => k < i
      BY <1>2, <1>6, <2>1
    <3> QED BY <3>1
  <2> HIDE DEF Before
  <2>3. Cardinality(Before(j)) <= Cardinality(Before(i))
    BY <1>4, <2>2, FS_Subset
  <2>4. Cardinality(Before(j)) < BatchLimit
    BY <1>4, <2>1, <2>3, LimitAssumption
  <2> QED BY <2>4 DEF Page, Before
<1> QED BY <1>1, <1>5, <1>6

\* A step commits a row or keeps the rows, but for the flags of some.
SameRows ==
  /\ DOMAIN outbox' = DOMAIN outbox /\ Len(outbox') = Len(outbox)
  /\ \A i \in DOMAIN outbox : outbox'[i].run = outbox[i].run /\ outbox'[i].seq = outbox[i].seq
  /\ \A i \in DOMAIN outbox : outbox[i].published => outbox'[i].published

Commits == \E r \in Runs : Commit(r)

\* What a step does to the rows, when it commits none.
LEMMA RowStep ==
  ASSUME TypeOK, [Next]_vars, ~ Commits
  PROVE  /\ SameRows
         /\ \A i \in DOMAIN outbox :
              outbox'[i].published /\ ~ outbox[i].published =>
                \E p \in Relays : MarkPublished(p) /\ i = Current(p)
         /\ faults'["publish"] = 0 => \A i \in DOMAIN outbox : outbox[i].due => outbox'[i].due
<1> DEFINE Goal == /\ SameRows
                   /\ \A i \in DOMAIN outbox :
                        outbox'[i].published /\ ~ outbox[i].published =>
                          \E p \in Relays : MarkPublished(p) /\ i = Current(p)
                   /\ faults'["publish"] = 0 => \A i \in DOMAIN outbox : outbox[i].due => outbox'[i].due
<1>1. CASE UNCHANGED outbox
  BY <1>1 DEF SameRows
<1>2. ASSUME NEW p \in Relays, PublishFails(p) PROVE Goal
  <2>1. PICK d \in BOOLEAN : outbox' = [outbox EXCEPT ![Current(p)].due = d /\ @]
    BY <1>2 DEF PublishFails
  <2>2. DOMAIN outbox' = DOMAIN outbox /\ Len(outbox') = Len(outbox)
    BY <2>1, Rows DEF TypeOK
  <2>3. \A i \in DOMAIN outbox : /\ outbox'[i].run = outbox[i].run /\ outbox'[i].seq = outbox[i].seq
                                 /\ outbox'[i].published = outbox[i].published
    BY <2>1, Rows DEF RowType
  <2>4. faults'["publish"] = faults["publish"] + 1 /\ faults["publish"] \in Nat
    BY <1>2, FaultAssumption DEF PublishFails, Fault, FaultKinds, TypeOK
  <2> QED BY <2>2, <2>3, <2>4 DEF SameRows
<1>3. ASSUME NEW p \in Relays, MarkPublished(p) PROVE Goal
  <2>1. outbox' = [i \in DOMAIN outbox |->
                     IF i = Current(p) THEN [outbox[i] EXCEPT !.published = TRUE] ELSE outbox[i]]
    BY <1>3 DEF MarkPublished, Marked
  <2>2. DOMAIN outbox' = DOMAIN outbox /\ Len(outbox') = Len(outbox)
    BY <2>1, Rows
  <2>3. \A i \in DOMAIN outbox : /\ outbox'[i].run = outbox[i].run /\ outbox'[i].seq = outbox[i].seq
                                 /\ outbox'[i].due = outbox[i].due
                                 /\ outbox'[i].published = (i = Current(p) \/ outbox[i].published)
    BY <2>1, Rows DEF RowType
  <2> QED BY <1>3, <2>2, <2>3 DEF SameRows
<1>4. ASSUME NEW n \in 1..MaxRows, BackoffEnds(n) PROVE Goal
  <2>1. outbox' = [outbox EXCEPT ![n].due = TRUE]
    BY <1>4 DEF BackoffEnds
  <2>2. DOMAIN outbox' = DOMAIN outbox /\ Len(outbox') = Len(outbox)
    BY <2>1, Rows DEF TypeOK
  <2>3. \A i \in DOMAIN outbox : /\ outbox'[i].run = outbox[i].run /\ outbox'[i].seq = outbox[i].seq
                                 /\ outbox'[i].published = outbox[i].published
                                 /\ outbox'[i].due = (i = n \/ outbox[i].due)
    BY <2>1, Rows DEF RowType
  <2> QED BY <2>2, <2>3 DEF SameRows
<1>5. UNCHANGED outbox \/ (\E p \in Relays : PublishFails(p) \/ MarkPublished(p)) \/ \E n \in 1..MaxRows : BackoffEnds(n)
  BY DEF Commits, Next, RelayStep, Start, CheckLease, Load, Publish, MarkFails, Crash, LoseLock, vars
<1> QED BY <1>1, <1>2, <1>3, <1>4, <1>5

\* The entry of the row a relay is at goes to the stream.
Appends(p) ==
  /\ pc[p] = "batch" /\ batch[p] # {}
  /\ stream' = Append(stream, Entry(Current(p)))
  /\ Publish(p) \/ PublishFails(p)

LEMMA StreamStep ==
  ASSUME TypeOK, [Next]_vars
  PROVE  stream' = stream \/ \E p \in Relays : Appends(p)
<1>1. ASSUME NEW p \in Relays, Publish(p) \/ PublishFails(p)
      PROVE  pc[p] = "batch" /\ batch[p] # {}
  BY <1>1 DEF Publish, PublishFails, TypeOK
<1>2. stream' = stream \/ \E p \in Relays : /\ Publish(p) \/ PublishFails(p)
                                            /\ stream' = Append(stream, Entry(Current(p)))
  BY DEF Next, RelayStep, Commit, Start, CheckLease, Load, Publish, PublishFails, MarkPublished, MarkFails,
         BackoffEnds, Crash, LoseLock, vars
<1> QED BY <1>1, <1>2 DEF Appends

LEMMA FaultStep ==
  ASSUME TypeOK, [Next]_vars
  PROVE  /\ \A k \in FaultKinds : faults[k] \in Nat /\ faults'[k] \in Nat /\ faults[k] <= faults'[k]
                                 /\ faults'[k] <= MaxFaults[k]
         /\ faults' \in [FaultKinds -> Nat]
         /\ \A p \in Relays : PublishFails(p) => faults'["publish"] # 0
         /\ \A p \in Relays : LoseLock(p) => faults'["lock"] # 0
<1>1. /\ faults \in [FaultKinds -> Nat]
      /\ \A k \in FaultKinds : faults[k] \in Nat /\ faults[k] <= MaxFaults[k] /\ MaxFaults[k] \in Nat
  BY FaultAssumption DEF TypeOK
<1>2. ASSUME NEW k \in FaultKinds, Fault(k)
      PROVE  /\ faults'[k] = faults[k] + 1 /\ faults[k] < MaxFaults[k]
             /\ \A j \in FaultKinds \ {k} : faults'[j] = faults[j]
  BY <1>2 DEF Fault, TypeOK
<1>3. UNCHANGED faults \/ \E k \in FaultKinds : Fault(k)
  BY DEF Next, RelayStep, Commit, Start, CheckLease, Load, Publish, PublishFails, MarkPublished, MarkFails,
         BackoffEnds, Crash, LoseLock, vars, FaultKinds
<1>4. \A k \in FaultKinds : faults[k] <= faults'[k] /\ faults'[k] \in Nat /\ faults'[k] <= MaxFaults[k]
  BY <1>1, <1>2, <1>3
<1>7. faults' \in [FaultKinds -> Nat]
  BY <1>1, <1>3 DEF Fault
<1>5. \A p \in Relays : PublishFails(p) => faults'["publish"] # 0
  BY <1>1, <1>2 DEF PublishFails, FaultKinds
<1>6. \A p \in Relays : LoseLock(p) => faults'["lock"] # 0
  BY <1>1, <1>2 DEF LoseLock, FaultKinds
<1> QED BY <1>1, <1>4, <1>5, <1>6, <1>7

\* What a step does to the batch and the place of a relay.
LEMMA BatchStep ==
  ASSUME TypeOK, [Next]_vars, NEW p \in Relays
  PROVE  /\ \/ batch'[p] = batch[p] \/ batch'[p] = {}
            \/ Load(p) /\ batch'[p] = Page(Pending) /\ UNCHANGED <<outbox, stream, holder, faults>>
            \/ MarkPublished(p) /\ pc[p] = "mark" /\ batch'[p] = batch[p] \ {Current(p)}
         /\ pc'[p] = "mark" => batch'[p] = batch[p] /\ (pc[p] = "mark" \/ Publish(p))
<1>1. CASE UNCHANGED <<pc, batch>>
  BY <1>1
<1>2. ASSUME NEW q \in Relays, Start(q) \/ CheckLease(q) \/ Publish(q)
      PROVE  batch' = batch /\ (pc'[p] = "mark" => pc[p] = "mark" \/ Publish(p))
  BY <1>2 DEF Start, CheckLease, Publish, TypeOK
<1>3. ASSUME NEW q \in Relays, PublishFails(q) \/ MarkFails(q) \/ Crash(q)
      PROVE  (batch'[p] = batch[p] \/ batch'[p] = {}) /\ (pc'[p] = "mark" => pc[p] = "mark" /\ batch'[p] = batch[p])
  BY <1>3 DEF PublishFails, MarkFails, Crash, TypeOK
<1>4. ASSUME NEW q \in Relays, Load(q)
      PROVE  /\ batch'[p] = batch[p] \/ (Load(p) /\ batch'[p] = Page(Pending))
             /\ pc'[p] = "mark" => pc[p] = "mark" /\ batch'[p] = batch[p]
             /\ UNCHANGED <<outbox, stream, holder, faults>>
  <2>1. UNCHANGED <<outbox, stream, holder, faults>>
    BY <1>4 DEF Load
  <2>2. CASE p = q
    <3>1. batch'[p] = Page(Pending) /\ pc'[p] # "mark"
      BY <1>4, <2>2 DEF Load, TypeOK
    <3> QED BY <1>4, <2>1, <2>2, <3>1
  <2>3. CASE p # q
    <3>1. batch'[p] = batch[p] /\ pc'[p] = pc[p]
      BY <1>4, <2>3 DEF Load, TypeOK
    <3> QED BY <2>1, <3>1
  <2> QED BY <2>2, <2>3
<1>5. ASSUME NEW q \in Relays, MarkPublished(q)
      PROVE  /\ batch'[p] = batch[p] \/ (MarkPublished(p) /\ pc[p] = "mark" /\ batch'[p] = batch[p] \ {Current(p)})
             /\ pc'[p] = "mark" => pc[p] = "mark" /\ batch'[p] = batch[p]
  <2>1. CASE p = q
    <3>1. pc[p] = "mark" /\ batch'[p] = batch[p] \ {Current(p)} /\ pc'[p] # "mark"
      BY <1>5, <2>1 DEF MarkPublished, TypeOK
    <3> QED BY <1>5, <2>1, <3>1
  <2>2. CASE p # q
    <3>1. batch'[p] = batch[p] /\ pc'[p] = pc[p]
      BY <1>5, <2>2 DEF MarkPublished, TypeOK
    <3> QED BY <3>1
  <2> QED BY <2>1, <2>2
<1>6. UNCHANGED <<pc, batch>> \/ \E q \in Relays :
        \/ Start(q) \/ CheckLease(q) \/ Publish(q) \/ PublishFails(q) \/ MarkFails(q) \/ Crash(q)
        \/ Load(q) \/ MarkPublished(q)
  BY DEF Next, RelayStep, Commit, BackoffEnds, LoseLock, vars
<1> QED BY <1>1, <1>2, <1>3, <1>4, <1>5, <1>6

\* A committed row is the next of its run, and the last of the table.
LEMMA CommitFacts ==
  ASSUME TypeOK, SeqsDense, SeqsRise, NEW r \in Runs, Commit(r)
  PROVE  LET n == Len(outbox) + 1 IN
         /\ UNCHANGED <<stream, pc, batch, holder, faults>>
         /\ outbox' \in Seq(RowType) /\ Len(outbox') = n /\ DOMAIN outbox' = 1 .. n /\ n \in Nat /\ n \notin DOMAIN outbox /\ n <= MaxRows
         /\ DOMAIN outbox' = DOMAIN outbox \cup {n} /\ \A i \in DOMAIN outbox : i < n
         /\ \A i \in DOMAIN outbox : outbox'[i] = outbox[i] /\ Entry(i)' = Entry(i)
         /\ outbox'[n].run = r /\ ~ outbox'[n].published /\ outbox'[n].due
         /\ outbox'[n].seq \in Nat \ {0} /\ SeqsOf(r) = 1 .. (outbox'[n].seq - 1) /\ outbox'[n].seq <= n
<1> DEFINE n == Len(outbox) + 1
           s == Cardinality(SeqsOf(r)) + 1
           row == [run |-> r, seq |-> s, published |-> FALSE, due |-> TRUE]
<1>1. outbox' = Append(outbox, row) /\ Len(outbox) < MaxRows /\ UNCHANGED <<stream, pc, batch, holder, faults>>
  BY DEF Commit
<1>2. PICK k \in Nat : SeqsOf(r) = 1 .. k
  BY DEF SeqsDense
<1>3. s = k + 1
  <2>1. Cardinality(1 .. k) = IF 1 > k THEN 0 ELSE k - 1 + 1
    BY FS_Interval
  <2>2. Cardinality(1 .. k) = k
    BY <2>1
  <2> QED BY <1>2, <2>2
<1>4. k <= Len(outbox)
  <2>1. CASE k = 0
    BY <2>1, Rows
  <2>2. CASE k # 0
    <3>1. k \in SeqsOf(r)
      BY <1>2, <2>2
    <3>2. PICK i \in DOMAIN outbox : outbox[i].seq = k
      BY <3>1 DEF SeqsOf
    <3>3. k <= i
      BY <3>2 DEF SeqsRise
    <3> QED BY <1>2, <3>2, <3>3, Rows
  <2> QED BY <2>1, <2>2
<1> HIDE DEF s
<1>5. row \in RowType
  <2>1. s \in 1 .. MaxRows
    BY <1>1, <1>2, <1>3, <1>4, LimitAssumption, Rows
  <2> QED BY <2>1 DEF RowType
<1>6. outbox \in Seq(RowType)
  BY DEF TypeOK, RowType
<1> HIDE DEF row
<1>7. /\ outbox' \in Seq(RowType) /\ Len(outbox') = n
      /\ \A i \in 1 .. Len(outbox) : outbox'[i] = outbox[i]
      /\ outbox'[n] = row
  BY <1>1, <1>5, <1>6, AppendProperties
<1>8. /\ DOMAIN outbox' = 1 .. n /\ n \in Nat /\ n \notin DOMAIN outbox
      /\ DOMAIN outbox' = DOMAIN outbox \cup {n} /\ \A i \in DOMAIN outbox : i < n
  <2>1. DOMAIN outbox' = 1 .. Len(outbox')
    BY <1>7
  <2>2. Len(outbox) \in Nat /\ DOMAIN outbox = 1 .. Len(outbox)
    BY Rows
  <2>3. 1 .. n = (1 .. Len(outbox)) \cup {n} /\ n \notin 1 .. Len(outbox)
    BY <2>2
  <2> QED BY <1>7, <2>1, <2>2, <2>3
<1>9. \A i \in DOMAIN outbox : outbox'[i] = outbox[i] /\ Entry(i)' = Entry(i)
  BY <1>7, Rows DEF Entry
<1>10. /\ outbox'[n].run = r /\ ~ outbox'[n].published /\ outbox'[n].due /\ outbox'[n].seq = s
  BY <1>7 DEF row
<1>11. s \in Nat \ {0} /\ SeqsOf(r) = 1 .. (s - 1) /\ s <= n
  <2>1. s - 1 = k /\ s \in Nat \ {0} /\ s <= n
    BY <1>2, <1>3, <1>4, Rows
  <2> QED BY <1>2, <2>1
<1>12. n <= MaxRows
  BY <1>1, LimitAssumption, Rows
<1> HIDE DEF n
<1> QED BY <1>1, <1>7, <1>8, <1>9, <1>10, <1>11, <1>12 DEF n

-----------------------------------------------------------------------------
(* The parts, one by one *)

LEMMA TypeStep ==
  ASSUME TypeOK, SeqsDense, SeqsRise, BatchOfRows, [Next]_vars
  PROVE  TypeOK'
<1> DEFINE Pcs == {"down", "standby", "idle", "checked", "batch", "mark", "stopped"}
<1>1. outbox' \in Seq(RowType) /\ Len(outbox') <= MaxRows
  <2>1. outbox \in Seq(RowType) /\ outbox \in [1 .. Len(outbox) -> RowType] /\ Len(outbox) \in Nat
    BY Rows DEF TypeOK, RowType
  <2>2. CASE Commits
    <3>1. PICK r \in Runs : Commit(r)
      BY <2>2 DEF Commits
    <3> QED BY <3>1, CommitFacts
  <2>3. ASSUME NEW p \in Relays, PublishFails(p) PROVE outbox' \in [1 .. Len(outbox) -> RowType]
    <3>1. PICK d \in BOOLEAN : outbox' = [outbox EXCEPT ![Current(p)].due = d /\ @]
      BY <2>3 DEF PublishFails
    <3>2. \A i \in DOMAIN outbox : [outbox[i] EXCEPT !.due = d /\ @] \in RowType
      BY Rows DEF RowType
    <3> QED BY <2>1, <3>1, <3>2
  <2>4. ASSUME NEW p \in Relays, MarkPublished(p) PROVE outbox' \in [1 .. Len(outbox) -> RowType]
    <3>1. \A i \in DOMAIN outbox : [outbox[i] EXCEPT !.published = TRUE] \in RowType
      BY Rows DEF RowType
    <3> QED BY <2>1, <2>4, <3>1 DEF MarkPublished
  <2>5. ASSUME NEW n \in 1..MaxRows, BackoffEnds(n) PROVE outbox' \in [1 .. Len(outbox) -> RowType]
    <3>1. \A i \in DOMAIN outbox : [outbox[i] EXCEPT !.due = TRUE] \in RowType
      BY Rows DEF RowType
    <3> QED BY <2>1, <2>5, <3>1 DEF BackoffEnds
  <2>6. \/ Commits \/ UNCHANGED outbox \/ (\E p \in Relays : PublishFails(p) \/ MarkPublished(p))
        \/ \E n \in 1..MaxRows : BackoffEnds(n)
    BY DEF Commits, Next, RelayStep, Start, CheckLease, Load, Publish, MarkFails, Crash, LoseLock, vars
  <2>7. CASE ~ Commits
    <3>1. outbox' \in Seq(RowType)
      BY <2>1, <2>3, <2>4, <2>5, <2>6, <2>7, SeqDef
    <3>2. Len(outbox') = Len(outbox)
      BY <2>7, RowStep DEF SameRows
    <3> QED BY <3>1, <3>2 DEF TypeOK
  <2> QED BY <2>2, <2>7
<1>2. stream' \in Seq(EntryType)
  <2>1. stream \in Seq(EntryType)
    BY DEF TypeOK, EntryType
  <2>2. ASSUME NEW p \in Relays, batch[p] # {} PROVE Entry(Current(p)) \in EntryType
    BY <2>2, CurrentFacts, Rows DEF BatchOfRows
  <2>3. ASSUME NEW p \in Relays, Appends(p) PROVE stream' \in Seq(EntryType)
    <3>1. Entry(Current(p)) \in EntryType /\ stream' = Append(stream, Entry(Current(p)))
      BY <2>2, <2>3 DEF Appends
    <3> QED BY <2>1, <2>3, <3>1, AppendProperties
  <2> QED BY <2>1, <2>3, StreamStep
<1>3. pc' \in [Relays -> Pcs]
  BY DEF TypeOK, Next, RelayStep, Commit, Start, CheckLease, Load, Publish, PublishFails, MarkPublished, MarkFails,
         BackoffEnds, Crash, LoseLock, vars
<1>4. batch' \in [Relays -> SUBSET (1..MaxRows)]
  <2>1. Page(Pending) \subseteq 1 .. MaxRows
    <3>1. Page(Pending) \subseteq DOMAIN outbox
      BY PageFacts
    <3>2. Len(outbox) <= MaxRows
      BY DEF TypeOK
    <3>3. DOMAIN outbox \subseteq 1 .. MaxRows
      BY <3>2, Rows, LimitAssumption
    <3> QED BY <3>1, <3>3
  <2>2. batch' = batch \/ \E q \in Relays : \E rows \in {Page(Pending), {}, batch[q] \ {Current(q)}} :
                          batch' = [batch EXCEPT ![q] = rows]
    BY DEF Next, RelayStep, Commit, Start, CheckLease, Load, Publish, PublishFails, MarkPublished, MarkFails,
           BackoffEnds, Crash, LoseLock, vars
  <2>3. batch \in [Relays -> SUBSET (1..MaxRows)]
    BY DEF TypeOK
  <2> QED BY <2>1, <2>2, <2>3
<1>5. \A p \in Relays : pc'[p] \in {"batch", "mark"} <=> batch'[p] # {}
  <2>1. CASE UNCHANGED <<pc, batch>>
    BY <2>1 DEF TypeOK
  <2>2. ASSUME NEW q \in Relays, Load(q)
        PROVE  \A p \in Relays : pc'[p] \in {"batch", "mark"} <=> batch'[p] # {}
    <3>1. Pending # {} <=> Page(Pending) # {}
      BY PageFacts
    <3>2. pc'[q] = (IF Pending # {} THEN "batch" ELSE "idle") /\ batch'[q] = Page(Pending)
      BY <2>2 DEF Load, HasWork, TypeOK
    <3>3. \A p \in Relays \ {q} : pc'[p] = pc[p] /\ batch'[p] = batch[p]
      BY <2>2 DEF Load, TypeOK
    <3> QED BY <3>1, <3>2, <3>3 DEF TypeOK
  <2>3. ASSUME NEW q \in Relays, MarkPublished(q)
        PROVE  \A p \in Relays : pc'[p] \in {"batch", "mark"} <=> batch'[p] # {}
    BY <2>3 DEF MarkPublished, TypeOK
  <2>4. ASSUME NEW q \in Relays, Start(q) \/ CheckLease(q) \/ Publish(q)
        PROVE  \A p \in Relays : pc'[p] \in {"batch", "mark"} <=> batch'[p] # {}
    BY <2>4 DEF Start, CheckLease, Publish, TypeOK
  <2>5. ASSUME NEW q \in Relays, PublishFails(q) \/ MarkFails(q) \/ Crash(q)
        PROVE  \A p \in Relays : pc'[p] \in {"batch", "mark"} <=> batch'[p] # {}
    BY <2>5 DEF PublishFails, MarkFails, Crash, TypeOK
  <2>6. UNCHANGED <<pc, batch>> \/ \E q \in Relays :
          \/ Start(q) \/ CheckLease(q) \/ Publish(q) \/ PublishFails(q) \/ MarkFails(q) \/ Crash(q)
          \/ Load(q) \/ MarkPublished(q)
    BY DEF Next, RelayStep, Commit, BackoffEnds, LoseLock, vars
  <2> QED BY <2>1, <2>2, <2>3, <2>4, <2>5, <2>6
<1>6. holder' \in Relays \union {NoRelay, AnyRelay}
  BY DEF TypeOK, Next, RelayStep, Commit, Start, CheckLease, Load, Publish, PublishFails, MarkPublished, MarkFails,
         BackoffEnds, Crash, LoseLock, LockAfter, vars
<1>7. faults' \in [FaultKinds -> Nat] /\ \A k \in FaultKinds : faults'[k] <= MaxFaults[k]
  BY FaultStep
<1> QED BY <1>1, <1>2, <1>3, <1>4, <1>5, <1>6, <1>7 DEF TypeOK, RowType, EntryType

LEMMA SeqStep ==
  ASSUME TypeOK, SeqsDense, SeqsRise, [Next]_vars
  PROVE  SeqsDense' /\ SeqsRise'
<1>1. CASE ~ Commits
  <2>1. SameRows
    BY <1>1, RowStep
  <2>2. \A r : SeqsOf(r)' = SeqsOf(r)
    BY <2>1 DEF SameRows, SeqsOf
  <2>3. SeqsDense'
    BY <2>2 DEF SeqsDense
  <2>4. SeqsRise'
    BY <2>1 DEF SameRows, SeqsRise
  <2> QED BY <2>3, <2>4
<1>2. ASSUME NEW r \in Runs, Commit(r) PROVE SeqsDense' /\ SeqsRise'
  <2> DEFINE n == Len(outbox) + 1
             s == outbox'[n].seq
  <2>1. /\ DOMAIN outbox' = DOMAIN outbox \cup {n} /\ n \notin DOMAIN outbox /\ n \in Nat
        /\ \A i \in DOMAIN outbox : i < n /\ i \in Nat /\ outbox'[i] = outbox[i]
        /\ outbox'[n].run = r /\ s \in Nat \ {0} /\ SeqsOf(r) = 1 .. (s - 1) /\ s <= n
    BY <1>2, CommitFacts, Rows
  <2> HIDE DEF n
  <2>2. SeqsOf(r)' = SeqsOf(r) \cup {s}
    <3> HIDE DEF s
    <3> QED BY <2>1 DEF SeqsOf, s
  <2>3. \A q \in Runs \ {r} : SeqsOf(q)' = SeqsOf(q)
    BY <2>1 DEF SeqsOf
  <2>4. SeqsOf(r)' = 1 .. s
    <3> HIDE DEF s
    <3>1. 1 .. s = (1 .. (s - 1)) \cup {s}
      BY <2>1
    <3> QED BY <2>1, <2>2, <3>1
  <2>5. SeqsDense'
    <3> HIDE DEF s
    <3> QED BY <2>1, <2>3, <2>4 DEF SeqsDense
  <2>6. \A i \in DOMAIN outbox : outbox[i].run = r => outbox[i].seq < s
    <3>1. \A i \in DOMAIN outbox : outbox[i].run = r => outbox[i].seq \in SeqsOf(r)
      BY DEF SeqsOf
    <3> HIDE DEF s
    <3> QED BY <2>1, <3>1
  <2>7. SeqsRise'
    <3> HIDE DEF s
    <3>1. \A i \in DOMAIN outbox' : outbox'[i].seq <= i
      BY <2>1 DEF SeqsRise, s
    <3>2. ASSUME NEW i \in DOMAIN outbox', NEW j \in DOMAIN outbox', i < j, outbox'[i].run = outbox'[j].run
          PROVE  outbox'[i].seq < outbox'[j].seq
      <4>1. i \in DOMAIN outbox
        <5>1. i # n
          BY <2>1, <3>2
        <5> QED BY <2>1, <5>1
      <4>2. CASE j = n
        BY <2>1, <2>6, <3>2, <4>1, <4>2 DEF s
      <4>3. CASE j # n
        BY <2>1, <3>2, <4>1, <4>3 DEF SeqsRise
      <4> QED BY <4>2, <4>3
    <3> QED BY <3>1, <3>2 DEF SeqsRise
  <2> QED BY <2>5, <2>7
<1> QED BY <1>1, <1>2 DEF Commits

\* An entry stays in the stream.
LEMMA StreamKept ==
  ASSUME TypeOK, [Next]_vars, NEW e, InStream(e)
  PROVE  InStream(e)'
<1>1. PICK k \in DOMAIN stream : stream[k] = e
  BY DEF InStream
<1>2. ASSUME NEW p \in Relays, Appends(p) PROVE k \in DOMAIN stream' /\ stream'[k] = stream[k]
  <2> DEFINE x == Entry(Current(p))
  <2>0. stream' = Append(stream, x)
    BY <1>2 DEF Appends
  <2> HIDE DEF x
  <2>1. Len(stream') = Len(stream) + 1 /\ stream'[k] = stream[k] /\ DOMAIN stream' = 1 .. Len(stream')
    BY <1>1, <2>0, Entries DEF TypeOK
  <2> QED BY <1>1, <2>1, Entries
<1> QED BY <1>1, <1>2, StreamStep DEF InStream

\* What an appended entry is, and what stays before it.
LEMMA AppendFacts ==
  ASSUME TypeOK, BatchOfRows, NEW p \in Relays, Appends(p)
  PROVE  LET n == Len(stream) + 1 IN
         /\ DOMAIN stream' = DOMAIN stream \cup {n} /\ n \in Nat /\ \A k \in DOMAIN stream : k \in Nat /\ k < n
         /\ stream'[n] = Entry(Current(p)) /\ \A k \in DOMAIN stream : stream'[k] = stream[k]
         /\ Current(p) \in DOMAIN outbox
<1>0. batch[p] # {} /\ stream' = Append(stream, Entry(Current(p)))
  BY DEF Appends
<1>1. Current(p) \in DOMAIN outbox
  BY <1>0, CurrentFacts DEF BatchOfRows
<1>2. Entry(Current(p)) \in EntryType /\ stream \in Seq(EntryType)
  BY <1>1, Rows DEF TypeOK, EntryType
<1>3. /\ Len(stream') = Len(stream) + 1 /\ stream' \in Seq(EntryType)
      /\ \A k \in 1 .. Len(stream) : stream'[k] = stream[k]
      /\ stream'[Len(stream) + 1] = Entry(Current(p))
  BY <1>0, <1>2, AppendProperties
<1>4. DOMAIN stream' = 1 .. Len(stream')
  BY <1>3
<1>5. Len(stream) \in Nat /\ DOMAIN stream = 1 .. Len(stream)
  BY Entries
<1> QED BY <1>1, <1>3, <1>4, <1>5

LEMMA EntryKept ==
  ASSUME TypeOK, SeqsDense, SeqsRise, [Next]_vars
  PROVE  /\ \A i \in DOMAIN outbox : i \in DOMAIN outbox' /\ Entry(i)' = Entry(i)
         /\ \A i \in DOMAIN outbox : outbox'[i].run = outbox[i].run /\ outbox'[i].seq = outbox[i].seq
         /\ \A i \in DOMAIN outbox : outbox[i].published => outbox'[i].published
<1>1. CASE ~ Commits
  BY <1>1, RowStep DEF SameRows, Entry
<1>2. ASSUME NEW r \in Runs, Commit(r)
      PROVE  \A i \in DOMAIN outbox : i \in DOMAIN outbox' /\ outbox'[i] = outbox[i]
  BY <1>2, CommitFacts
<1> QED BY <1>1, <1>2 DEF Commits, Entry

LEMMA StreamPartStep ==
  ASSUME TypeOK, SeqsDense, SeqsRise, BatchOfRows, StreamOfRows, PublishedMeansInStream, [Next]_vars
  PROVE  StreamOfRows' /\ PublishedMeansInStream' /\ BatchOfRows'
<1>1. StreamOfRows'
  <2>1. CASE stream' = stream
    BY <2>1, EntryKept DEF StreamOfRows
  <2>2. ASSUME NEW p \in Relays, Appends(p) PROVE StreamOfRows'
    <3>1. \A k \in DOMAIN stream' : \E i \in DOMAIN outbox : stream'[k] = Entry(i)
      BY <2>2, AppendFacts DEF StreamOfRows
    <3> QED BY <3>1, EntryKept DEF StreamOfRows
  <2> QED BY <2>1, <2>2, StreamStep
<1>2. ASSUME NEW i \in DOMAIN outbox', outbox'[i].published PROVE InStream(Entry(i))'
  <2>1. CASE i \in DOMAIN outbox /\ outbox[i].published
    <3>1. InStream(Entry(i))
      BY <2>1 DEF PublishedMeansInStream
    <3>2. Entry(i)' = Entry(i)
      BY <2>1, EntryKept
    <3>3. \A e : InStream(e) => InStream(e)'
      BY StreamKept
    <3> QED BY <3>1, <3>2, <3>3 DEF InStream
  <2>2. CASE ~ Commits /\ i \in DOMAIN outbox /\ ~ outbox[i].published
    <3>1. PICK p \in Relays : MarkPublished(p) /\ i = Current(p)
      BY <1>2, <2>2, RowStep
    <3>2. InStream(Entry(i)) /\ UNCHANGED stream
      BY <3>1 DEF BatchOfRows, MarkPublished
    <3>3. Entry(i)' = Entry(i)
      BY <2>2, EntryKept
    <3> QED BY <3>2, <3>3 DEF InStream
  <2>3. ASSUME NEW r \in Runs, Commit(r) PROVE i \in DOMAIN outbox /\ outbox[i].published
    BY <1>2, <2>3, CommitFacts
  <2>4. ~ Commits => i \in DOMAIN outbox
    BY RowStep DEF SameRows
  <2> QED BY <2>1, <2>2, <2>3, <2>4 DEF Commits
<1>3. ASSUME NEW p \in Relays PROVE batch'[p] \subseteq DOMAIN outbox'
  <2>1. batch[p] \subseteq DOMAIN outbox /\ Page(Pending) \subseteq DOMAIN outbox
    BY PageFacts DEF BatchOfRows
  <2>2. batch'[p] \subseteq DOMAIN outbox
    BY <2>1, BatchStep
  <2> QED BY <2>2, EntryKept
<1>4. ASSUME NEW p \in Relays, pc'[p] = "mark" PROVE InStream(Entry(Current(p)))'
  <2>1. batch'[p] = batch[p] /\ (pc[p] = "mark" \/ Publish(p))
    BY <1>4, BatchStep
  <2>2. Current(p)' = Current(p) /\ batch[p] # {}
    BY <2>1 DEF Current, Publish, TypeOK
  <2>3. Current(p) \in DOMAIN outbox
    BY <2>2, CurrentFacts DEF BatchOfRows
  <2>4. InStream(Entry(Current(p))) \/ Publish(p)
    BY <2>1 DEF BatchOfRows
  <2>5. CASE InStream(Entry(Current(p)))
    <3>1. Entry(Current(p))' = Entry(Current(p))
      BY <2>2, <2>3, EntryKept DEF Entry
    <3>2. \A e : InStream(e) => InStream(e)'
      BY StreamKept
    <3> QED BY <2>5, <3>1, <3>2 DEF InStream
  <2>6. CASE Publish(p)
    <3>1. Appends(p) /\ UNCHANGED outbox
      BY <2>2, <2>6 DEF Publish, Appends
    <3>2. \E k \in DOMAIN stream' : stream'[k] = Entry(Current(p))
      BY <2>2, <3>1, AppendFacts
    <3>3. Entry(Current(p))' = Entry(Current(p))
      BY <2>2, <3>1 DEF Entry
    <3> QED BY <3>2, <3>3 DEF InStream
  <2> QED BY <2>4, <2>5, <2>6
<1> QED BY <1>1, <1>2, <1>3, <1>4 DEF PublishedMeansInStream, BatchOfRows

\* A fault that has not happened after a step had not happened before it.
LEMMA NoFaultBefore ==
  ASSUME TypeOK, [Next]_vars
  PROVE  (NoBackoff' => NoBackoff) /\ (faults'["lock"] = 0 => faults["lock"] = 0)
<1>1. {"publish", "lock"} \subseteq FaultKinds
  BY DEF FaultKinds
<1> QED BY <1>1, FaultStep DEF NoBackoff

\* A row is never more than a candidate of the rows that were there.
LEMMA BatchesAreOld ==
  ASSUME TypeOK, BatchOfRows, [Next]_vars, NEW p \in Relays
  PROVE  batch'[p] \subseteq DOMAIN outbox
<1>1. batch[p] \subseteq DOMAIN outbox /\ Page(Pending) \subseteq DOMAIN outbox
  BY PageFacts DEF BatchOfRows
<1> QED BY <1>1, BatchStep

LEMMA RowsBefore ==
  ASSUME TypeOK, SeqsDense, SeqsRise, [Next]_vars, NEW i \in DOMAIN outbox, NEW j \in DOMAIN outbox', j < i
  PROVE  j \in DOMAIN outbox
<1>1. CASE ~ Commits
  BY <1>1, RowStep DEF SameRows
<1>2. ASSUME NEW r \in Runs, Commit(r) PROVE j \in DOMAIN outbox
  <2> DEFINE n == Len(outbox) + 1
  <2>1. DOMAIN outbox' = DOMAIN outbox \cup {n} /\ n \in Nat /\ i < n /\ i \in Nat
    BY <1>2, CommitFacts, Rows
  <2> HIDE DEF n
  <2> QED BY <2>1
<1> QED BY <1>1, <1>2 DEF Commits

LEMMA OldestStep ==
  ASSUME TypeOK, SeqsDense, SeqsRise, BatchOfRows, AllDue, OldestFirst, [Next]_vars
  PROVE  AllDue' /\ OldestFirst'
<1>1. AllDue'
  <2> SUFFICES ASSUME NoBackoff', NEW i \in DOMAIN outbox' PROVE outbox'[i].due
    BY DEF AllDue
  <2>1. NoBackoff /\ faults'["publish"] = 0
    BY NoFaultBefore DEF NoBackoff
  <2>2. CASE ~ Commits
    <3>1. i \in DOMAIN outbox
      BY <2>2, RowStep DEF SameRows
    <3>2. outbox[i].due
      BY <2>1, <3>1 DEF AllDue
    <3> QED BY <2>1, <2>2, <3>1, <3>2, RowStep
  <2>3. ASSUME NEW r \in Runs, Commit(r) PROVE outbox'[i].due
    BY <2>1, <2>3, CommitFacts DEF AllDue
  <2> QED BY <2>2, <2>3 DEF Commits
<1>2. ASSUME NoBackoff', NEW p \in Relays, NEW i \in batch'[p], NEW j \in DOMAIN outbox', j < i
      PROVE  outbox'[j].published \/ j \in batch'[p]
  <2>1. i \in DOMAIN outbox /\ NoBackoff
    BY <1>2, BatchesAreOld, NoFaultBefore
  <2>2. j \in DOMAIN outbox
    BY <1>2, <2>1, RowsBefore
  <2>3. outbox[j].published => outbox'[j].published
    <3>1. \A k \in DOMAIN outbox : outbox[k].published => outbox'[k].published
      BY EntryKept, Zenon
    <3> QED BY <2>2, <3>1
  <2>4. CASE batch'[p] = batch[p]
    BY <1>2, <2>1, <2>2, <2>3, <2>4 DEF OldestFirst
  <2>5. CASE batch'[p] = Page(Pending)
    <3>1. outbox[j].published \/ j \in Pending
      BY <2>1, <2>2 DEF Pending, AllDue
    <3> QED BY <1>2, <2>3, <2>5, <3>1, PageFacts
  <2>6. CASE MarkPublished(p) /\ pc[p] = "mark" /\ batch'[p] = batch[p] \ {Current(p)}
    <3>1. outbox[j].published \/ j \in batch[p]
      BY <1>2, <2>1, <2>2, <2>6 DEF OldestFirst
    <3>2. j = Current(p) => outbox'[j].published
      <4>1. j = Current(p) => outbox'[j] = [outbox[j] EXCEPT !.published = TRUE]
        BY <2>2, <2>6 DEF MarkPublished, Marked
      <4> QED BY <2>2, <4>1, Rows DEF RowType
    <3> QED BY <2>3, <2>6, <3>1, <3>2
  <2> QED BY <1>2, <2>4, <2>5, <2>6, BatchStep
<1> QED BY <1>1, <1>2 DEF OldestFirst

LEMMA WriterStep ==
  ASSUME TypeOK, BatchOfRows, SingleWriter, [Next]_vars
  PROVE  SingleWriter' /\ (Leased' => Leased)
<1>1. Leased' => Leased
  <2>1. holder = AnyRelay => holder' = AnyRelay
    BY RelayAssumption DEF TypeOK, Next, RelayStep, Commit, Start, CheckLease, Load, Publish, PublishFails, MarkPublished,
          MarkFails, BackoffEnds, Crash, LoseLock, LockAfter, vars
  <2> QED BY <2>1, NoFaultBefore DEF Leased
<1> DEFINE Polls == {"idle", "checked", "batch", "mark"}
<1>2. ASSUME Leased', NEW p \in Relays, pc'[p] \in Polls PROVE holder' = p
  <2>1. \A q \in Relays : pc[q] \in Polls => holder = q
    BY <1>1, <1>2 DEF SingleWriter
  <2>2. CASE UNCHANGED <<pc, holder>>
    BY <1>2, <2>1, <2>2
  <2>3. ASSUME NEW q \in Relays, Start(q) PROVE holder' = p
    <3>1. holder # AnyRelay
      BY <1>1, <1>2 DEF Leased
    <3>2. CASE holder = NoRelay
      <4>1. holder' = q /\ pc' = [pc EXCEPT ![q] = "idle"]
        BY <2>3, <3>1, <3>2 DEF Start, MayWrite
      <4>2. p = q
        BY <1>2, <2>1, <3>2, <4>1, RelayAssumption DEF TypeOK
      <4> QED BY <4>1, <4>2
    <3>3. CASE holder # NoRelay
      <4>1. holder' = holder /\ pc' = [pc EXCEPT ![q] = "standby"]
        BY <2>3, <3>1, <3>3 DEF Start, MayWrite
      <4>2. pc[p] \in Polls
        BY <1>2, <4>1 DEF TypeOK
      <4> QED BY <2>1, <4>1, <4>2
    <3> QED BY <3>2, <3>3
  <2>4. ASSUME NEW q \in Relays,
               CheckLease(q) \/ Load(q) \/ Publish(q) \/ PublishFails(q) \/ MarkPublished(q) \/ MarkFails(q)
        PROVE  holder' = p
    <3>1. holder' = holder /\ (pc'[p] # pc[p] => p = q) /\ pc[q] \in Polls
      BY <2>4 DEF CheckLease, Load, Publish, PublishFails, MarkPublished, MarkFails, TypeOK
    <3> QED BY <1>2, <2>1, <3>1
  <2>5. ASSUME NEW q \in Relays, Crash(q) PROVE holder' = p
    <3>1. p # q /\ pc[p] = pc'[p] /\ holder' = (IF holder = q THEN NoRelay ELSE holder)
      BY <1>2, <2>5 DEF Crash, LockAfter, TypeOK
    <3> QED BY <1>2, <2>1, <3>1
  <2>6. ASSUME NEW q \in Relays, LoseLock(q) PROVE holder' = p
    BY <1>2, <2>6, FaultStep DEF Leased
  <2>7. \/ UNCHANGED <<pc, holder>>
        \/ \E q \in Relays : \/ Start(q) \/ CheckLease(q) \/ Load(q) \/ Publish(q) \/ PublishFails(q) \/ MarkPublished(q)
                             \/ MarkFails(q) \/ Crash(q) \/ LoseLock(q)
    BY DEF Next, RelayStep, Commit, BackoffEnds, vars
  <2> QED BY <2>2, <2>3, <2>4, <2>5, <2>6, <2>7
<1>3. ASSUME Leased', NEW p \in Relays, NEW i \in batch'[p] PROVE ~ outbox'[i].published
  <2>1. Leased /\ i \in DOMAIN outbox
    BY <1>1, <1>3, BatchesAreOld
  <2>2. CASE Load(p) /\ batch'[p] = Page(Pending) /\ UNCHANGED outbox
    BY <1>3, <2>2, PageFacts DEF Pending
  <2>3. CASE i \in batch[p]
    <3>1. ~ outbox[i].published /\ holder = p
      BY <2>1, <2>3 DEF SingleWriter, TypeOK
    <3>2. CASE Commits
      <4>1. PICK r \in Runs : Commit(r)
        BY <3>2 DEF Commits
      <4>2. outbox' = Append(outbox, [run |-> r, seq |-> Cardinality(SeqsOf(r)) + 1,
                                      published |-> FALSE, due |-> TRUE])
        BY <4>1 DEF Commit
      <4>3. outbox'[i] = outbox[i]
        BY <2>1, <4>2, Rows DEF TypeOK
      <4> QED BY <3>1, <4>3
    <3>3. CASE ~ Commits
      <4>1. SUFFICES ASSUME outbox'[i].published PROVE FALSE
        OBVIOUS
      <4>2. PICK q \in Relays : MarkPublished(q) /\ i = Current(q)
        BY <2>1, <3>1, <3>3, <4>1, RowStep
      <4>3. q = p
        <5>1. pc[q] = "mark"
          BY <4>2 DEF MarkPublished
        <5> QED BY <2>1, <3>1, <5>1 DEF SingleWriter
      <4>4. i \notin batch'[p]
        BY <4>2, <4>3 DEF MarkPublished, TypeOK
      <4> QED BY <1>3, <4>4
    <3> QED BY <3>2, <3>3
  <2> QED BY <1>3, <2>2, <2>3, BatchStep
<1> QED BY <1>1, <1>2, <1>3 DEF SingleWriter

\* Without a failed XADD, what a step appends is the row its relay is at, and every
\* earlier row of the run is in the stream.
LEMMA AppendInOrder ==
  ASSUME IInv, [Next]_vars, NoBackoff', NEW p \in Relays, Appends(p)
  PROVE  /\ UNCHANGED outbox /\ Current(p) \in batch[p] /\ Current(p) \in DOMAIN outbox
         /\ \A i \in DOMAIN outbox : i < Current(p) => outbox[i].published
<1>1. TypeOK /\ NoBackoff /\ Current(p) \in batch[p] /\ \A j \in batch[p] : Current(p) <= j
  BY CurrentFacts, NoFaultBefore DEF IInv, Appends
<1>2. Publish(p)
  BY <1>1, FaultStep DEF Appends, NoBackoff
<1>3. Current(p) \in DOMAIN outbox
  BY <1>1 DEF IInv, BatchOfRows
<1>4. ASSUME NEW i \in DOMAIN outbox, i < Current(p) PROVE outbox[i].published
  <2>1. outbox[i].published \/ i \in batch[p]
    BY <1>1, <1>4 DEF IInv, OldestFirst
  <2>2. i \in Nat /\ Current(p) \in Nat
    BY <1>1, <1>3, Rows
  <2>3. i \notin batch[p]
    BY <1>1, <1>4, <2>2
  <2> QED BY <2>1, <2>3
<1> QED BY <1>1, <1>2, <1>3, <1>4 DEF Publish

LEMMA NotAheadStep ==
  ASSUME IInv, [Next]_vars
  PROVE  NotAhead' /\ StreamNeverGoesBack'
<1> USE DEF IInv
<1>0. (Leased' => Leased) /\ (NoBackoff' => NoBackoff)
  BY WriterStep, NoFaultBefore
<1>1. ASSUME Leased', NoBackoff', NEW k \in DOMAIN stream', NEW i \in DOMAIN outbox',
             stream'[k].run = outbox'[i].run, ~ outbox'[i].published
      PROVE  stream'[k].seq <= outbox'[i].seq
  <2>1. CASE Commits
    <3>1. PICK r \in Runs : Commit(r)
      BY <2>1 DEF Commits
    <3> DEFINE n == Len(outbox) + 1
    <3>2. /\ UNCHANGED stream /\ DOMAIN outbox' = DOMAIN outbox \cup {n}
          /\ \A j \in DOMAIN outbox : outbox'[j] = outbox[j]
          /\ outbox'[n].run = r /\ outbox'[n].seq \in Nat \ {0} /\ SeqsOf(r) = 1 .. (outbox'[n].seq - 1)
      BY <3>1, CommitFacts
    <3> HIDE DEF n
    <3>3. CASE i \in DOMAIN outbox
      BY <1>0, <1>1, <3>2, <3>3 DEF NotAhead
    <3>4. CASE i = n
      <4>1. PICK j \in DOMAIN outbox : stream[k] = Entry(j)
        BY <1>1, <3>2 DEF StreamOfRows
      <4>2. stream[k].seq = outbox[j].seq /\ outbox[j].run = r
        BY <1>1, <3>2, <3>4, <4>1 DEF Entry
      <4>3. stream[k].seq \in SeqsOf(r)
        BY <4>2 DEF SeqsOf
      <4> QED BY <3>2, <3>4, <4>3
    <3> QED BY <3>2, <3>3, <3>4
  <2>2. CASE ~ Commits
    <3>1. /\ i \in DOMAIN outbox /\ ~ outbox[i].published
          /\ outbox'[i].run = outbox[i].run /\ outbox'[i].seq = outbox[i].seq
      BY <1>1, <2>2, RowStep DEF SameRows
    <3>2. CASE k \in DOMAIN stream /\ stream'[k] = stream[k]
      BY <1>0, <1>1, <3>1, <3>2 DEF NotAhead
    <3>3. ASSUME NEW p \in Relays, Appends(p), k \notin DOMAIN stream
          PROVE  stream'[k].seq <= outbox'[i].seq
      <4>1. stream'[k] = Entry(Current(p))
        BY <3>3, AppendFacts
      <4>2. /\ Current(p) \in DOMAIN outbox
            /\ \A j \in DOMAIN outbox : j < Current(p) => outbox[j].published
        BY <1>1, <3>3, AppendInOrder
      <4>3. ~ (i < Current(p)) /\ i \in Nat /\ Current(p) \in Nat
        BY <3>1, <4>2, Rows
      <4>4. outbox[Current(p)].run = outbox[i].run /\ stream'[k].seq = outbox[Current(p)].seq
        BY <1>1, <3>1, <4>1 DEF Entry
      <4>5. CASE i = Current(p)
        BY <3>1, <4>2, <4>4, <4>5, Rows
      <4>6. CASE Current(p) < i
        BY <3>1, <4>2, <4>4, <4>6, Rows DEF SeqsRise
      <4> QED BY <4>3, <4>5, <4>6
    <3>4. ASSUME NEW p \in Relays, Appends(p), k \in DOMAIN stream PROVE stream'[k] = stream[k]
      BY <3>4, AppendFacts
    <3> QED BY <1>1, <3>2, <3>3, <3>4, StreamStep
  <2> QED BY <2>1, <2>2
<1>2. ASSUME Leased', NoBackoff', NEW j \in DOMAIN stream', NEW k \in DOMAIN stream',
             j < k, stream'[j].run = stream'[k].run
      PROVE  stream'[j].seq <= stream'[k].seq
  <2>1. \A x, y \in DOMAIN stream : x < y /\ stream[x].run = stream[y].run => stream[x].seq <= stream[y].seq
    BY <1>0, <1>2 DEF StreamNeverGoesBack, Leased, NoBackoff
  <2>2. CASE stream' = stream
    BY <1>2, <2>1, <2>2
  <2>3. ASSUME NEW p \in Relays, Appends(p) PROVE stream'[j].seq <= stream'[k].seq
    <3> DEFINE n == Len(stream) + 1
    <3>1. /\ DOMAIN stream' = DOMAIN stream \cup {n} /\ n \in Nat
          /\ \A x \in DOMAIN stream : x \in Nat /\ x < n /\ stream'[x] = stream[x]
          /\ stream'[n] = Entry(Current(p)) /\ Current(p) \in DOMAIN outbox
      BY <2>3, AppendFacts
    <3> HIDE DEF n
    <3>2. j \in DOMAIN stream
      BY <1>2, <3>1
    <3>3. CASE k \in DOMAIN stream
      BY <1>2, <2>1, <3>1, <3>2, <3>3
    <3>4. CASE k = n
      <4>1. ~ outbox[Current(p)].published
        BY <1>0, <1>2, <2>3, AppendInOrder DEF SingleWriter
      <4>2. stream[j].run = outbox[Current(p)].run /\ stream'[k].seq = outbox[Current(p)].seq
        BY <1>2, <3>1, <3>2, <3>4 DEF Entry
      <4> QED BY <1>0, <1>2, <3>1, <3>2, <4>1, <4>2 DEF NotAhead
    <3> QED BY <3>1, <3>3, <3>4
  <2> QED BY <2>2, <2>3, StreamStep
<1>3. NotAhead'
  BY <1>1 DEF NotAhead
<1>4. StreamNeverGoesBack'
  BY <1>2 DEF StreamNeverGoesBack, Leased, NoBackoff
<1> QED BY <1>3, <1>4

LEMMA InOrderStep ==
  ASSUME IInv, [Next]_vars
  PROVE  InOrderWithoutBackoff'
<1> USE DEF IInv
<1> SUFFICES ASSUME NoBackoff', NEW k \in DOMAIN stream', NEW m \in 1..(stream'[k].seq - 1)
             PROVE  \E j \in 1..k : stream'[j].run = stream'[k].run /\ stream'[j].seq = m
  BY DEF InOrderWithoutBackoff, FirstDeliveryInOrder, NoBackoff
<1>1. FirstDeliveryInOrder
  BY NoFaultBefore DEF InOrderWithoutBackoff, NoBackoff
<1>2. CASE stream' = stream
  BY <1>1, <1>2 DEF FirstDeliveryInOrder
<1>3. ASSUME NEW p \in Relays, Appends(p)
      PROVE  \E j \in 1..k : stream'[j].run = stream'[k].run /\ stream'[j].seq = m
  <2> DEFINE n == Len(stream) + 1
             c == Current(p)
  <2>1. /\ DOMAIN stream' = DOMAIN stream \cup {n} /\ n \in Nat
        /\ \A x \in DOMAIN stream : x \in Nat /\ x < n /\ stream'[x] = stream[x]
        /\ stream'[n] = Entry(c) /\ c \in DOMAIN outbox
    BY <1>3, AppendFacts
  <2>2. DOMAIN stream = 1 .. Len(stream) /\ Len(stream) \in Nat
    BY Entries
  <2>3. CASE k \in DOMAIN stream
    <3>1. PICK j \in 1..k : stream[j].run = stream[k].run /\ stream[j].seq = m
      <4>1. m \in 1..(stream[k].seq - 1)
        BY <2>1, <2>3
      <4> QED BY <1>1, <2>3, <4>1 DEF FirstDeliveryInOrder
    <3>2. j \in DOMAIN stream
      BY <2>2, <2>3, <3>1
    <3> QED BY <2>1, <2>3, <3>1, <3>2
  <2>4. CASE k = n
    <3> HIDE DEF c
    <3>1. m \in 1..(outbox[c].seq - 1) /\ stream'[k].run = outbox[c].run /\ outbox[c].run \in Runs
      BY <2>1, <2>4, Rows DEF Entry
    <3>2. PICK i \in DOMAIN outbox : outbox[i].run = outbox[c].run /\ outbox[i].seq = m
      <4>1. PICK K \in Nat : SeqsOf(outbox[c].run) = 1 .. K
        BY <3>1 DEF SeqsDense
      <4>2. outbox[c].seq \in SeqsOf(outbox[c].run)
        BY <2>1 DEF SeqsOf
      <4>3. m \in SeqsOf(outbox[c].run)
        BY <3>1, <4>1, <4>2
      <4> QED BY <4>3 DEF SeqsOf
    <3>3. i < c
      <4>1. i \in Nat /\ c \in Nat /\ outbox[i].seq < outbox[c].seq /\ outbox[c].seq \in Nat /\ outbox[i].seq \in Nat
        BY <2>1, <3>1, <3>2, Rows
      <4>2. c < i => outbox[c].seq < outbox[i].seq
        BY <2>1, <3>2 DEF SeqsRise
      <4>3. c # i
        BY <4>1
      <4> QED BY <4>1, <4>2, <4>3
    <3>4. outbox[i].published
      BY <1>3, <3>3, AppendInOrder DEF c
    <3>5. PICK j \in DOMAIN stream : stream[j] = Entry(i)
      BY <3>4 DEF PublishedMeansInStream, InStream
    <3>6. stream'[j].run = stream'[k].run /\ stream'[j].seq = m
      BY <2>1, <3>1, <3>2, <3>5 DEF Entry
    <3>7. j \in 1..k
      BY <2>2, <2>4
    <3> QED BY <3>6, <3>7
  <2> QED BY <2>1, <2>3, <2>4
<1> QED BY <1>2, <1>3, StreamStep

-----------------------------------------------------------------------------
LEMMA Initially == Init => IInv
<1> SUFFICES ASSUME Init PROVE IInv
  OBVIOUS
<1>1. outbox = <<>> /\ DOMAIN outbox = {} /\ stream = <<>> /\ DOMAIN stream = {} /\ \A p \in Relays : batch[p] = {}
  BY DEF Init
<1>2. TypeOK
  BY <1>1, LimitAssumption, FaultAssumption DEF Init, TypeOK, FaultKinds
<1>3. SeqsDense
  <2>1. \A r \in Runs : SeqsOf(r) = 1 .. 0
    BY <1>1 DEF SeqsOf
  <2> QED BY <2>1 DEF SeqsDense
<1>4. SeqsRise /\ StreamOfRows /\ PublishedMeansInStream /\ AllDue /\ OldestFirst /\ NotAhead
  BY <1>1 DEF SeqsRise, StreamOfRows, PublishedMeansInStream, AllDue, OldestFirst, NotAhead
<1>5. BatchOfRows /\ SingleWriter
  BY <1>1 DEF Init, BatchOfRows, SingleWriter
<1>6. InOrderWithoutBackoff /\ StreamNeverGoesBack
  BY <1>1 DEF InOrderWithoutBackoff, FirstDeliveryInOrder, StreamNeverGoesBack
<1> QED BY <1>2, <1>3, <1>4, <1>5, <1>6 DEF IInv

LEMMA Inductive == IInv /\ [Next]_vars => IInv'
<1> SUFFICES ASSUME IInv, [Next]_vars PROVE IInv'
  OBVIOUS
<1>1. TypeOK'
  BY TypeStep DEF IInv
<1>2. SeqsDense' /\ SeqsRise'
  BY SeqStep DEF IInv
<1>3. StreamOfRows' /\ PublishedMeansInStream' /\ BatchOfRows'
  BY StreamPartStep DEF IInv
<1>4. AllDue' /\ OldestFirst'
  BY OldestStep DEF IInv
<1>5. SingleWriter'
  BY WriterStep DEF IInv
<1>6. NotAhead' /\ StreamNeverGoesBack' /\ InOrderWithoutBackoff'
  BY NotAheadStep, InOrderStep
<1> QED BY <1>1, <1>2, <1>3, <1>4, <1>5, <1>6 DEF IInv

(* The inductive invariant of the relays: the rows and their numbers, what   *)
(* each relay has loaded, and how far the stream is.                         *)
THEOREM Invariant == Spec => []IInv
<1> QED BY Initially, Inductive, PTL DEF Spec

(* The tables, the relays and the lock keep their types; a relay has rows    *)
(* exactly while it is in a batch.                                           *)
THEOREM TypeCorrect == Spec => []TypeOK
<1>1. IInv => TypeOK
  BY DEF IInv
<1> QED BY <1>1, Invariant, PTL

(* RunOnce (relay.go:99-124): a row is marked only after its event is in the *)
(* stream, however many relays run and whatever fails.                       *)
THEOREM MarkedIsInStream == Spec => []PublishedMeansInStream
<1>1. IInv => PublishedMeansInStream
  BY DEF IInv
<1> QED BY <1>1, Invariant, PTL

(* relay.go:88-89: the first delivery of a run is in seq order, with the     *)
(* lock or without it, through crashes, failed marks and lost locks, until   *)
(* an XADD fails.                                                            *)
THEOREM FirstDeliveriesInOrder == Spec => []InOrderWithoutBackoff
<1>1. IInv => InOrderWithoutBackoff
  BY DEF IInv
<1> QED BY <1>1, Invariant, PTL

(* AcquireAdvisoryLock: while the lock is asked for and not lost, the stream *)
(* of a run never goes back behind a later event, through crashes of the     *)
(* owner and failed marks.                                                   *)
THEOREM LeaseKeepsTheStreamForward == Spec => []StreamNeverGoesBack
<1>1. IInv => StreamNeverGoesBack
  BY DEF IInv
<1> QED BY <1>1, Invariant, PTL


G == INSTANCE GatewayProjection

-----------------------------------------------------------------------------
(* The projection: the event streams                                        *)

IsText(s, n)     == s[n].type = "content"
Closes(s, n, t)  == s[n].type = "turnFinished" /\ s[n].turn = t

\* Nothing is behind RUN_FINISHED.
FinishedIsLast == \A s \in Scripts : \A n \in 1..Len(s) : s[n].type = "runFinished" => n = Len(s)

\* No turn ends, neither this one nor another, between two texts of a turn.
TextUnbroken ==
  \A s \in Scripts : \A m, k, n \in 1..Len(s) :
    m < k /\ k < n /\ IsText(s, m) /\ IsText(s, n) /\ s[m].turn = s[n].turn => s[k].type # "turnFinished"

\* A turn ends before the next one has text.
TurnByTurn ==
  \A s \in Scripts : \A m, n \in 1..Len(s) :
    m < n /\ IsText(s, m) /\ IsText(s, n) /\ s[m].turn # s[n].turn =>
      \E k \in 1..Len(s) : m < k /\ k < n /\ Closes(s, k, s[m].turn)

\* What is read of a stream ends at RUN_ERROR: no RUN_FINISHED follows it.
FinishedOrFailed ==
  \A s \in Scripts : \A n \in 1..Len(s) : s[n].type = "runError" => s[Len(s)].type # "runFinished"

\* The text of a turn, where it ends, and whether it has any.
ContentOf(s, t) == {n \in DOMAIN s : IsText(s, n) /\ s[n].turn = t}
TurnsOf(s)      == {s[n].turn : n \in {m \in DOMAIN s : IsText(s, m)}}
EndsAt(s, t)    == {n \in DOMAIN s : Closes(s, n, t) /\ \E m \in ContentOf(s, t) : m < n}
EndOf(s, t)     == IF EndsAt(s, t) = {} THEN Len(s) ELSE Min(EndsAt(s, t))

\* The text of a turn that was received up to p and not closed there.
Unclosed(s, p, t) == {n \in 1..p : IsText(s, n) /\ s[n].turn = t /\ \A k \in n..p : ~ Closes(s, k, t)}

\* The text of a message is a whole turn, its seq where that ends.
IsTurn(s, text, n) == \E t \in TurnsOf(s) : text = ContentOf(s, t) /\ n = EndOf(s, t)

\* What an offset is.
IsEnd(s, n) == n = 0 \/ \E t \in TurnsOf(s) : n = EndOf(s, t)

-----------------------------------------------------------------------------
(* The inductive invariant of the projection                                 *)

\* The journal has every event up to the last one received.
Written ==
  failures["journal"] = 0 =>
    /\ 1..(seq - 1) \subseteq journal
    /\ handler \notin {"journal", "dead"} => 1..seq \subseteq journal

\* What is open is what was received and not closed.
OpenText ==
  /\ \A i, j \in DOMAIN open : open[i].turn = open[j].turn => i = j
  /\ \A i \in DOMAIN open : open[i].text = Unclosed(script, seq, open[i].turn)
  /\ seq < Len(script) => \A n \in 1..seq :
       Unclosed(script, seq, script[n].turn) # {} => \E i \in DOMAIN open : open[i].turn = script[n].turn

FinishedText ==
  \A i \in DOMAIN finished : handler \in {"journal", "project"} /\ finished[i].text # {} => IsTurn(script, finished[i].text, seq)

\* The offset is the end of a turn, and so is one that was read before.
Ends == LiveWritesSucceed => IsEnd(script, offset) /\ \A w \in Workers : IsEnd(script, from[w])

PassText == LiveWritesSucceed => \A w \in Workers : \A i \in DOMAIN turns[w] : IsTurn(script, turns[w][i].text, turns[w][i].seq)

MessageText == LiveWritesSucceed => \A i \in DOMAIN messages : IsTurn(script, messages[i].text, messages[i].seq)

MessagesRise ==
  /\ \A i \in DOMAIN messages : messages[i].seq <= offset
  /\ \A i, j \in DOMAIN messages : i < j => messages[i].seq < messages[j].seq

\* Text that was received is in a turn: open, closed or projected.
Counted ==
  LiveWritesSucceed /\ handler \in {"next", "journal", "project"} =>
    \A n \in 1..seq : IsText(script, n) => projected > 0 \/ finished # <<>> \/ open # <<>>

WholeInv ==
  /\ Written /\ OpenText /\ FinishedText /\ Ends /\ PassText
  /\ MessageText /\ MessagesRise /\ Counted

\* What has ended is stored, or about to be by the handler.
Waiting(t) ==
  \/ \E i \in DOMAIN finished : finished[i].turn = t /\ finished[i].text # {}
  \/ seq = Len(script) /\ \E i \in DOMAIN open : open[i].turn = t /\ open[i].text # {}

CaughtUp ==
  LiveWritesSucceed /\ handler # "dead" =>
    \A t \in TurnsOf(script) : EndOf(script, t) <= seq => EndOf(script, t) <= offset \/ (EndOf(script, t) = seq /\ Waiting(t))

\* A recovery pass leaves out no turn.
PassLeavesNone ==
  LiveWritesSucceed => \A w \in Workers : \A i \in DOMAIN turns[w] : \A t \in TurnsOf(script) :
    EndOf(script, t) < turns[w][i].seq => EndOf(script, t) <= offset \/ \E j \in 1..(i - 1) : turns[w][j].seq = EndOf(script, t)

\* A turn whose end is not above the offset is a message.
Stored ==
  LiveWritesSucceed => \A t \in TurnsOf(script) : EndOf(script, t) <= offset =>
                         \E i \in DOMAIN messages : messages[i].text = ContentOf(script, t)

\* A handler that is done has come to the end, or to an error.
DoneIsEnd ==
  handler = "done" => \/ seq = Len(script) /\ open = <<>> /\ finished = <<>>
                      \/ \E n \in 1..Len(script) : script[n].type = "runError"

TurnsInv == WholeInv /\ CaughtUp /\ PassLeavesNone /\ Stored /\ DoneIsEnd

-----------------------------------------------------------------------------
(* Where turns end                                                           *)

LEMMA MinOf ==
  ASSUME NEW S \in SUBSET Nat, S # {}
  PROVE  Min(S) \in S /\ \A n \in S : Min(S) <= n
BY LeastNatural DEF Min

LEMMA Stream ==
  ASSUME NEW s \in Scripts
  PROVE  Len(s) \in Nat /\ DOMAIN s = 1..Len(s) /\ DOMAIN s \subseteq Nat
BY ScriptAssumption

LEMMA TextIs ==
  ASSUME NEW s \in Scripts, NEW t
  PROVE  \A n : n \in ContentOf(s, t) <=> n \in DOMAIN s /\ IsText(s, n) /\ s[n].turn = t
BY Stream DEF ContentOf

LEMMA Prefix ==
  ASSUME NEW s \in Scripts, NEW p \in 0..Len(s)
  PROVE  Len(s) \in Nat /\ p \in Nat /\ p <= Len(s) /\ 1..p \subseteq DOMAIN s
BY Stream

\* Nothing of a turn is above a place where it ends.
LEMMA TextBeforeEnd ==
  ASSUME NEW s \in Scripts, TextUnbroken, NEW t, NEW k \in EndsAt(s, t), NEW n \in ContentOf(s, t)
  PROVE  n < k
<1>1. k \in DOMAIN s /\ Closes(s, k, t)
  BY DEF EndsAt
<1>2. PICK m \in ContentOf(s, t) : m < k
  BY DEF EndsAt
<1>3. /\ m \in DOMAIN s /\ IsText(s, m) /\ s[m].turn = t
      /\ n \in DOMAIN s /\ IsText(s, n) /\ s[n].turn = t
  BY TextIs
<1>4. n # k
  BY <1>1, <1>3 DEF IsText, Closes
<1>5. ~ (k < n)
  BY <1>1, <1>2, <1>3, Stream DEF TextUnbroken, Closes
<1>6. n \in Nat /\ k \in Nat
  BY <1>1, <1>3, Stream
<1> QED BY <1>4, <1>5, <1>6

\* The end of a turn is a place of the stream, at its last event or where the turn closes.
LEMMA EndFacts ==
  ASSUME NEW s \in Scripts, TextUnbroken, NEW t \in TurnsOf(s)
  PROVE  /\ EndOf(s, t) \in DOMAIN s
         /\ EndOf(s, t) # Len(s) => EndOf(s, t) \in EndsAt(s, t)
         /\ \A k \in EndsAt(s, t) : EndOf(s, t) <= k
         /\ EndsAt(s, t) # {} => EndOf(s, t) \in EndsAt(s, t)
         /\ \A n \in ContentOf(s, t) : n <= EndOf(s, t)
         /\ ContentOf(s, t) # {}
<1>1. PICK n \in ContentOf(s, t) : TRUE
  BY DEF TurnsOf, ContentOf
<1>2. n \in 1..Len(s) /\ Len(s) \in Nat
  BY TextIs, Stream
<1>3. CASE EndsAt(s, t) = {}
  <2>1. EndOf(s, t) = Len(s)
    BY <1>3 DEF EndOf
  <2>2. \A m \in ContentOf(s, t) : m \in 1..Len(s)
    BY TextIs, Stream
  <2> QED BY <1>1, <1>2, <1>3, <2>1, <2>2, Stream
<1>4. CASE EndsAt(s, t) # {}
  <2>1. EndsAt(s, t) \in SUBSET Nat /\ EndsAt(s, t) \subseteq DOMAIN s
    BY Stream DEF EndsAt
  <2>2. EndOf(s, t) = Min(EndsAt(s, t))
    BY <1>4 DEF EndOf
  <2>3. EndOf(s, t) \in EndsAt(s, t) /\ \A k \in EndsAt(s, t) : EndOf(s, t) <= k
    BY <1>4, <2>1, <2>2, MinOf
  <2>4. \A m \in ContentOf(s, t) : m < EndOf(s, t)
    BY <2>3, TextBeforeEnd
  <2>5. \A m \in ContentOf(s, t) : m \in Nat
    BY TextIs, Stream
  <2>6. EndOf(s, t) \in Nat
    BY <2>1, <2>3
  <2> QED BY <1>1, <2>1, <2>3, <2>4, <2>5, <2>6
<1> QED BY <1>3, <1>4

\* The end of a turn does not cut another one.
LEMMA EndCutsNone ==
  ASSUME NEW s \in Scripts, TextUnbroken, NEW o, IsEnd(s, o), NEW t,
         NEW m \in ContentOf(s, t), NEW n \in ContentOf(s, t), m <= o
  PROVE  n <= o
<1>1. /\ m \in DOMAIN s /\ IsText(s, m) /\ s[m].turn = t
      /\ n \in DOMAIN s /\ IsText(s, n) /\ s[n].turn = t
  BY TextIs
<1>2. m \in Nat /\ n \in Nat /\ m >= 1 /\ n <= Len(s) /\ Len(s) \in Nat
  BY <1>1, Stream
<1>3. PICK x \in TurnsOf(s) : o = EndOf(s, x)
  BY <1>2 DEF IsEnd
<1>4. o \in DOMAIN s /\ (o # Len(s) => o \in EndsAt(s, x))
  BY <1>3, EndFacts
<1>5. o \in Nat
  BY <1>4, Stream
<1>6. CASE o = Len(s)
  BY <1>2, <1>6
<1>7. CASE o # Len(s)
  <2>1. s[o].type = "turnFinished"
    BY <1>4, <1>7 DEF EndsAt, Closes
  <2>2. m # o
    BY <1>1, <2>1 DEF IsText
  <2>3. ~ (m < o /\ o < n)
    BY <1>1, <1>4, <2>1, Stream DEF TextUnbroken
  <2> QED BY <1>2, <1>5, <2>2, <2>3
<1> QED BY <1>6, <1>7

LEMMA ContentApart ==
  ASSUME NEW s \in Scripts, NEW t, NEW u, t # u
  PROVE  ContentOf(s, t) \intersect ContentOf(s, u) = {}
BY TextIs

\* Of two turns, one ends before the other has text.
LEMMA TurnsApart ==
  ASSUME NEW s \in Scripts, TextUnbroken, TurnByTurn, NEW t \in TurnsOf(s), NEW u \in TurnsOf(s), t # u
  PROVE  (\A n \in ContentOf(s, u) : EndOf(s, t) < n) \/ (\A n \in ContentOf(s, t) : EndOf(s, u) < n)
<1>1. ASSUME NEW x \in TurnsOf(s), NEW y \in TurnsOf(s), NEW m \in ContentOf(s, x), NEW n \in ContentOf(s, y), x # y, m < n
      PROVE  \A p \in ContentOf(s, y) : EndOf(s, x) < p
  <2>1. /\ m \in DOMAIN s /\ IsText(s, m) /\ s[m].turn = x
        /\ n \in DOMAIN s /\ IsText(s, n) /\ s[n].turn = y
    BY TextIs
  <2>2. PICK k \in DOMAIN s : m < k /\ k < n /\ Closes(s, k, x)
    BY <1>1, <2>1, Stream DEF TurnByTurn
  <2>3. k \in EndsAt(s, x)
    BY <2>2 DEF EndsAt
  <2>4. EndOf(s, x) <= k /\ EndOf(s, x) \in DOMAIN s
    BY <2>3, EndFacts
  <2>5. \A p \in ContentOf(s, y) : p \in DOMAIN s
    BY TextIs
  <2>6. \A p \in DOMAIN s : p \in Nat
    BY Stream
  <2>7. EndOf(s, x) < n
    BY <2>1, <2>2, <2>4, <2>6
  <2>8. IsEnd(s, EndOf(s, x))
    BY DEF IsEnd
  <2>9. ASSUME NEW p \in ContentOf(s, y), p <= EndOf(s, x) PROVE FALSE
    <3>1. n <= EndOf(s, x)
      BY <2>8, <2>9, EndCutsNone
    <3> QED BY <2>1, <2>4, <2>6, <2>7, <3>1
  <2> QED BY <2>4, <2>5, <2>6, <2>9
<1>2. PICK m \in ContentOf(s, t), n \in ContentOf(s, u) : TRUE
  BY EndFacts
<1>3. m # n /\ m \in Nat /\ n \in Nat
  BY TextIs, ContentApart, Stream
<1> QED BY <1>1, <1>2, <1>3

LEMMA OneTurnEnds ==
  ASSUME NEW s \in Scripts, TextUnbroken, TurnByTurn, NEW t \in TurnsOf(s), NEW u \in TurnsOf(s), EndOf(s, t) = EndOf(s, u)
  PROVE  t = u
<1> SUFFICES ASSUME t # u PROVE FALSE
  OBVIOUS
<1>1. \A x \in TurnsOf(s) : EndOf(s, x) \in Nat /\ \E n \in ContentOf(s, x) : n \in Nat /\ n <= EndOf(s, x)
  BY EndFacts, TextIs, Stream
<1> QED BY <1>1, TurnsApart

\* What was received of a turn and not closed is all of it, when the turn closes or the stream ends.
LEMMA UnclosedIsWhole ==
  ASSUME NEW s \in Scripts, TextUnbroken, NEW p \in 0..Len(s), NEW t, Unclosed(s, p, t) # {},
         NEW n, \/ p = Len(s) /\ n = p
                \/ n = p + 1 /\ n \in DOMAIN s /\ Closes(s, n, t)
  PROVE  IsTurn(s, Unclosed(s, p, t), n)
<1>1. PICK u \in Unclosed(s, p, t) : TRUE
  OBVIOUS
<1>0. Len(s) \in Nat /\ p \in Nat /\ p <= Len(s) /\ 1..p \subseteq DOMAIN s
  BY Prefix
<1>2. /\ \A m \in Unclosed(s, p, t) : m \in 1..p /\ m \in ContentOf(s, t) /\ \A k \in m..p : ~ Closes(s, k, t)
      /\ \A m \in ContentOf(s, t) : m \in 1..p /\ (\A k \in m..p : ~ Closes(s, k, t)) => m \in Unclosed(s, p, t)
  BY ONLY <1>0 DEF Unclosed, ContentOf
<1>3. Len(s) \in Nat /\ p \in Nat /\ p <= Len(s) /\ n \in Nat
  <2>1. \A m \in DOMAIN s : m \in Nat
    BY <1>0, Stream
  <2> QED BY <1>0, <2>1
<1>4. \A m \in ContentOf(s, t) : m \in Nat /\ m \in DOMAIN s /\ m >= 1 /\ m <= Len(s) /\ IsText(s, m) /\ s[m].turn = t
  <2>1. \A m \in DOMAIN s : m \in Nat /\ m >= 1 /\ m <= Len(s)
    <3>1. Len(s) \in Nat /\ DOMAIN s = 1..Len(s)
      BY Stream
    <3> QED BY ONLY <3>1
  <2>2. \A m \in ContentOf(s, t) : m \in DOMAIN s /\ IsText(s, m) /\ s[m].turn = t
    BY ONLY TextIs
  <2> QED BY ONLY <2>1, <2>2
<1>5. u \in ContentOf(s, t) /\ u \in Nat /\ u <= p
  BY <1>1, <1>2, <1>4, <1>3
<1>6. t \in TurnsOf(s)
  BY <1>4, <1>5 DEF TurnsOf, ContentOf
<1>7. ASSUME NEW m \in ContentOf(s, t) PROVE m \in Unclosed(s, p, t)
  <2>1. m <= p
    <3>1. CASE p = Len(s)
      BY <1>4, <3>1
    <3>2. CASE n = p + 1 /\ n \in DOMAIN s /\ Closes(s, n, t)
      <4>1. n \in EndsAt(s, t)
        BY <1>3, <1>5, <3>2 DEF EndsAt
      <4>2. m < n
        BY <4>1, TextBeforeEnd
      <4> QED BY <1>3, <1>4, <3>2, <4>2
    <3> QED BY <3>1, <3>2
  <2>2. ASSUME NEW k \in m..p, Closes(s, k, t) PROVE FALSE
    <3>1. k \in DOMAIN s /\ k \in Nat /\ m <= k /\ k <= p
      <4>1. m \in Nat /\ m >= 1 /\ k \in m..p
        BY <1>4, <2>2
      <4>2. k \in 1..p
        BY ONLY <1>3, <4>1
      <4> QED BY ONLY <1>0, <1>3, <4>1, <4>2
    <3>2. ~ (u <= k)
      BY <1>1, <1>2, <1>5, <2>2, <3>1
    <3>3. m # k
      BY <1>4, <2>2 DEF IsText, Closes
    <3>4. k \in EndsAt(s, t)
      BY <1>4, <2>2, <3>1, <3>3 DEF EndsAt
    <3> QED BY <1>5, <3>1, <3>2, <3>4, TextBeforeEnd
  <2> QED BY <1>2, <1>3, <1>4, <2>1, <2>2
<1>8. ContentOf(s, t) = Unclosed(s, p, t)
  BY <1>2, <1>7
<1>9. ASSUME NEW k \in EndsAt(s, t) PROVE n \in EndsAt(s, t) /\ n <= k
  <2>1. k \in DOMAIN s /\ Closes(s, k, t) /\ u < k
    BY <1>5, TextBeforeEnd DEF EndsAt
  <2>2. k \in Nat /\ k <= Len(s)
    <3>1. Len(s) \in Nat /\ DOMAIN s = 1..Len(s)
      BY Stream
    <3> QED BY ONLY <2>1, <3>1
  <2>3. ~ (k <= p)
    BY <1>1, <1>2, <1>3, <1>5, <2>1, <2>2
  <2>4. n = p + 1 /\ n \in DOMAIN s /\ Closes(s, n, t)
    BY <1>3, <2>2, <2>3
  <2>5. n \in EndsAt(s, t)
    BY <1>3, <1>5, <2>4 DEF EndsAt
  <2> QED BY <1>3, <2>2, <2>3, <2>4, <2>5
<1>10. n = EndOf(s, t)
  <2>1. CASE EndsAt(s, t) = {}
    <3>1. p = Len(s) /\ n = p
      <4>1. CASE n = p + 1 /\ n \in DOMAIN s /\ Closes(s, n, t)
        <5>1. n \in EndsAt(s, t)
          BY <1>3, <1>5, <4>1 DEF EndsAt
        <5> QED BY <2>1, <5>1
      <4> QED BY <4>1
    <3> QED BY <2>1, <3>1 DEF EndOf
  <2>2. CASE EndsAt(s, t) # {}
    <3>1. EndOf(s, t) \in EndsAt(s, t) /\ \A k \in EndsAt(s, t) : EndOf(s, t) <= k
      BY <1>6, <2>2, EndFacts
    <3>2. n \in EndsAt(s, t) /\ n <= EndOf(s, t) /\ EndOf(s, t) \in Nat
      BY <1>6, <1>9, <3>1, EndFacts, Stream
    <3> QED BY <1>3, <3>1, <3>2
  <2> QED BY <2>1, <2>2
<1> QED BY <1>6, <1>8, <1>10 DEF IsTurn

-----------------------------------------------------------------------------
(* The types of the projection                                               *)

Turned   == [turn : {script[n].turn : n \in 1..seq}, text : SUBSET (1..seq)]
Received == [text : (SUBSET (1..seq)) \ {{}}, seq : 1..seq]

HandlerTypes ==
  /\ script \in Scripts
  /\ seq \in 0..Len(script)
  /\ journal \subseteq 1..seq
  /\ handler \in {"next", "journal", "project", "done", "dead"}
  /\ open \in Seq(Turned)
  /\ finished \in Seq(Turned)
  /\ Len(finished) <= 1 /\ (handler = "project" => finished # <<>>)
  /\ handler = "journal" => seq > 0
  /\ handler \in {"next", "done"} => finished = <<>>
  /\ projected \in Nat
  /\ failures \in [FailureKinds -> Nat]
  /\ \A k \in FailureKinds : failures[k] <= MaxFailures[k]

StoreTypes ==
  /\ offset \in 0..seq
  /\ messages \in Seq(Received)

PassTypes ==
  /\ turns \in [Workers -> Seq(Received)]
  /\ from \in [Workers -> Nat]
  /\ pass \in [Workers -> {"idle", "read", "project"}]
  /\ \A w \in Workers : /\ (pass[w] = "project") <=> (turns[w] # <<>>)
                        /\ from[w] <= offset

LEMMA ProjectionParts == G!TypeOK <=> HandlerTypes /\ StoreTypes /\ PassTypes /\ listed \in BOOLEAN
BY DEF G!TypeOK, HandlerTypes, StoreTypes, PassTypes, G!Turned, G!Received, G!Event, Turned, Received,
       G!FailureKinds, FailureKinds

\* What was received stays so.
LEMMA ReceivedGrows ==
  ASSUME seq \in Nat, seq' \in Nat, seq <= seq', script' = script
  PROVE  /\ Seq(Turned) \subseteq Seq(Turned') /\ Seq(Received) \subseteq Seq(Received')
         /\ Turned \subseteq Turned' /\ Received \subseteq Received'
<1>1. 1..seq \subseteq 1..seq'
  OBVIOUS
<1>2. Turned \subseteq Turned' /\ Received \subseteq Received'
  BY <1>1 DEF Turned, Received
<1> QED BY <1>2, SeqMonotonic

\* The actions, by their actor.
Live ==
  \/ G!Receive \/ G!JournalEvent \/ G!JournalFails \/ G!ProjectFinished \/ G!ProjectFinishedFails
  \/ G!DrainTurn \/ G!DrainTurnFails \/ G!Finish \/ G!Crash

Passes(w) == G!ReadOffset(w) \/ G!ReadJournal(w) \/ G!Recover(w) \/ G!RecoverFails(w)

\* Nothing moves but the place of the run in the listing.
Still == UNCHANGED <<script, journal, offset, messages, handler, seq, open, finished, projected,
                     turns, from, pass, failures>>

LEMMA ProjectionSteps ==
  ASSUME [G!Next]_(G!vars)
  PROVE  Live \/ (\E w \in Workers : Passes(w)) \/ Still
BY DEF G!Next, G!HandlerStep, G!RecoveryStep, G!ListingChanges, G!vars, G!liveVars, G!workerVars,
       Live, Passes, Still

LEMMA RemoveAtIs ==
  ASSUME NEW S, NEW s \in Seq(S), NEW i \in 1..Len(s)
  PROVE  /\ G!RemoveAt(s, i) \in Seq(S) /\ Len(G!RemoveAt(s, i)) = Len(s) - 1
         /\ \A j \in 1..(Len(s) - 1) : G!RemoveAt(s, i)[j] = IF j < i THEN s[j] ELSE s[j + 1]
<1> DEFINE a == SubSeq(s, 1, i - 1)
           b == SubSeq(s, i + 1, Len(s))
<1>0. G!RemoveAt(s, i) = a \o b
  BY DEF G!RemoveAt
<1>1. Len(s) \in Nat /\ i \in Nat /\ i >= 1 /\ i <= Len(s)
  BY LenProperties
<1>2. a \in Seq(S) /\ Len(a) = i - 1 /\ \A j \in 1..(i - 1) : a[j] = s[j]
  BY <1>1, SubSeqProperties
<1>3. b \in Seq(S) /\ Len(b) = Len(s) - i /\ \A j \in 1..(Len(s) - i) : b[j] = s[i + j]
  BY <1>1, SubSeqProperties
<1> HIDE DEF a, b
<1>4. a \o b \in Seq(S) /\ Len(a \o b) = Len(s) - 1
  <2>1. a \o b \in Seq(S) /\ Len(a \o b) = Len(a) + Len(b)
    BY <1>2, <1>3, ConcatProperties
  <2> QED BY <1>1, <1>2, <1>3, <2>1
<1>5. ASSUME NEW j \in 1..(Len(s) - 1) PROVE (a \o b)[j] = IF j < i THEN s[j] ELSE s[j + 1]
  <2>1. CASE j < i
    BY <1>1, <1>2, <1>3, <2>1, ConcatProperties
  <2>2. CASE ~ (j < i)
    <3>1. (a \o b)[j] = b[j - (i - 1)]
      BY <1>1, <1>2, <1>3, <2>2, ConcatProperties
    <3>2. j - (i - 1) \in 1..(Len(s) - i) /\ i + (j - (i - 1)) = j + 1
      BY <1>1, <2>2
    <3> QED BY <1>3, <2>2, <3>1, <3>2
  <2> QED BY <2>1, <2>2
<1> QED BY <1>0, <1>4, <1>5
-----------------------------------------------------------------------------
(* What an event does to the open turns                                      *)

HasOpen(t) == \E i \in DOMAIN open : open[i].turn = t

\* The turn at a place is closed.
ClosedAt(i) ==
  /\ Len(open') = Len(open) - 1
  /\ \A j \in 1..(Len(open) - 1) : open'[j] = IF j < i THEN open[j] ELSE open[j + 1]

\* It gets a further text, or is opened.
Grown(t, n) ==
  /\ Len(open') = Len(open)
  /\ \A j \in DOMAIN open : open'[j] = IF open[j].turn = t THEN [turn |-> t, text |-> open[j].text \union {n}] ELSE open[j]

NewTurn(t, text) ==
  /\ Len(open') = Len(open) + 1 /\ open'[Len(open) + 1] = [turn |-> t, text |-> text]
  /\ \A j \in DOMAIN open : open'[j] = open[j]

LEMMA OpenIsSeq ==
  ASSUME HandlerTypes
  PROVE  /\ seq \in Nat /\ Len(script) \in Nat /\ seq <= Len(script) /\ script \in Scripts
         /\ Len(open) \in Nat /\ DOMAIN open = 1..Len(open)
         /\ \A i \in DOMAIN open : open[i] \in Turned /\ open[i].text \subseteq 1..seq
                                   /\ open[i] = [turn |-> open[i].turn, text |-> open[i].text]
<1>1. script \in Scripts /\ seq \in 0..Len(script) /\ open \in Seq(Turned)
  BY DEF HandlerTypes
<1>2. Len(script) \in Nat
  BY <1>1, Stream
<1>3. Len(open) \in Nat /\ DOMAIN open = 1..Len(open) /\ \A i \in DOMAIN open : open[i] \in Turned
  BY <1>1, LenProperties, ElementOfSeq
<1>4. ASSUME NEW x \in Turned PROVE x.text \subseteq 1..seq /\ x = [turn |-> x.turn, text |-> x.text]
  BY DEF Turned
<1> QED BY <1>1, <1>2, <1>3, <1>4

LEMMA LongerText ==
  ASSUME NEW a, NEW b, NEW n
  PROVE  [[turn |-> a, text |-> b] EXCEPT !.text = @ \union {n}] = [turn |-> a, text |-> b \union {n}]
OBVIOUS

LEMMA ReceiveEffect ==
  ASSUME HandlerTypes, G!Receive, NEW n, n = seq + 1, NEW t, t = script[n].turn
  PROVE  /\ handler = "next" /\ finished = <<>> /\ n \in DOMAIN script /\ n \in Nat
         /\ seq' = n /\ handler' = "journal"
         /\ UNCHANGED <<script, journal, offset, messages, projected, turns, from, pass, failures>>
         /\ open' \in Seq(Turned')
         /\ \/ /\ script[n].type = "started" /\ finished' = <<>>
               /\ IF HasOpen(t) THEN open' = open ELSE NewTurn(t, {})
            \/ /\ script[n].type = "content" /\ finished' = <<>>
               /\ IF HasOpen(t) THEN Grown(t, n) ELSE NewTurn(t, {n})
            \/ /\ script[n].type = "turnFinished" /\ ~ HasOpen(t)
               /\ open' = open /\ finished' = <<>>
            \/ /\ script[n].type = "turnFinished"
               /\ \E i \in DOMAIN open : open[i].turn = t /\ finished' = <<open[i]>> /\ ClosedAt(i)
            \/ /\ script[n].type \in {"runFinished", "runError"}
               /\ open' = open /\ finished' = <<>>
<1>1. /\ handler = "next" /\ finished = <<>> /\ n \in DOMAIN script /\ n \in Nat
      /\ seq' = n /\ handler' = "journal"
      /\ UNCHANGED <<script, journal, offset, messages, projected, turns, from, pass, failures>>
  <2>1. handler = "next" /\ seq + 1 <= Len(script) /\ seq' = seq + 1 /\ handler' = "journal"
    BY DEF G!Receive
  <2>2. n \in 1..Len(script) /\ n \in Nat
    BY <2>1, OpenIsSeq
  <2> QED BY <2>1, <2>2, OpenIsSeq, Stream DEF G!Receive, HandlerTypes, G!workerVars
<1>2. /\ open' = CASE script[n].type = "started"      -> G!Ensured(t)
                   [] script[n].type = "content"      -> G!WithText(t, n)
                   [] script[n].type = "turnFinished" -> G!Others(t)
                   [] OTHER                           -> open
      /\ finished' = IF script[n].type = "turnFinished" THEN G!OpenTurn(t) ELSE <<>>
  BY DEF G!Receive, G!Event
<1>3. script[n].type \in EventKinds
  BY <1>1, OpenIsSeq, ScriptAssumption
<1>4. open \in Seq(Turned) /\ Seq(Turned) \subseteq Seq(Turned') /\ Turned \subseteq Turned'
  BY <1>1, OpenIsSeq, ReceivedGrows DEF HandlerTypes
<1>5. G!IsOpen(t) <=> HasOpen(t)
  BY DEF G!IsOpen, HasOpen
<1>6. \A text \in SUBSET (1..n) : [turn |-> t, text |-> text] \in Turned'
  BY <1>1 DEF Turned
<1> DEFINE fresh(text) == [turn |-> t, text |-> text]
<1>7. ASSUME NEW text \in SUBSET (1..n), open' = Append(open, fresh(text))
      PROVE  open' \in Seq(Turned') /\ NewTurn(t, text)
  <2>1. fresh(text) \in Turned'
    BY <1>6
  <2> HIDE DEF fresh
  <2>2. /\ Append(open, fresh(text)) \in Seq(Turned')
        /\ Len(Append(open, fresh(text))) = Len(open) + 1
        /\ \A j \in 1..Len(open) : Append(open, fresh(text))[j] = open[j]
        /\ Append(open, fresh(text))[Len(open) + 1] = fresh(text)
    BY <1>4, <2>1, AppendProperties
  <2> QED BY <1>7, <2>2, OpenIsSeq DEF NewTurn, fresh
<1>8. CASE script[n].type = "started"
  <2>1. open' = G!Ensured(t) /\ finished' = <<>>
    BY <1>2, <1>8
  <2>2. CASE HasOpen(t)
    BY <1>1, <1>4, <1>5, <1>8, <2>1, <2>2 DEF G!Ensured
  <2>3. CASE ~ HasOpen(t)
    <3>1. open' = Append(open, fresh({}))
      BY <1>5, <2>1, <2>3 DEF G!Ensured
    <3> QED BY <1>1, <1>7, <1>8, <2>1, <2>3, <3>1
  <2> QED BY <2>2, <2>3
<1>9. CASE script[n].type = "content"
  <2>1. open' = G!WithText(t, n) /\ finished' = <<>>
    BY <1>2, <1>9
  <2> DEFINE o == G!Ensured(t)
  <2>2. open' = [j \in DOMAIN o |-> IF o[j].turn = t THEN [o[j] EXCEPT !.text = @ \union {n}] ELSE o[j]]
    BY <2>1 DEF G!WithText
  <2>3. n \in 1..n
    BY <1>1, OpenIsSeq
  <2>4. CASE HasOpen(t)
    <3>1. o = open
      BY <1>5, <2>4 DEF G!Ensured
    <3>2. ASSUME NEW j \in DOMAIN open
          PROVE  /\ open'[j] = IF open[j].turn = t THEN [turn |-> t, text |-> open[j].text \union {n}] ELSE open[j]
                 /\ open'[j] \in Turned'
      <4>1. open[j] \in Turned /\ open[j].text \subseteq 1..seq /\ open[j] = [turn |-> open[j].turn, text |-> open[j].text]
        BY OpenIsSeq
      <4>2. open'[j] = IF open[j].turn = t THEN [open[j] EXCEPT !.text = @ \union {n}] ELSE open[j]
        BY <2>2, <3>1
      <4>3. open[j].turn = t => [open[j] EXCEPT !.text = @ \union {n}] = [turn |-> t, text |-> open[j].text \union {n}]
        <5>1. [[turn |-> open[j].turn, text |-> open[j].text] EXCEPT !.text = @ \union {n}]
                = [turn |-> open[j].turn, text |-> open[j].text \union {n}]
          BY ONLY LongerText
        <5>2. [open[j] EXCEPT !.text = @ \union {n}] = [turn |-> open[j].turn, text |-> open[j].text \union {n}]
          BY ONLY <4>1, <5>1
        <5> QED BY ONLY <5>2
      <4>4. open[j].text \union {n} \in SUBSET (1..n)
        BY <1>1, <4>1, OpenIsSeq
      <4> QED BY <1>4, <1>6, <4>1, <4>2, <4>3, <4>4
    <3>3. DOMAIN open' = 1..Len(open) /\ Len(open) \in Nat
      BY <2>2, <3>1, OpenIsSeq
    <3>4. open' \in [1..Len(open) -> Turned']
      BY <2>2, <3>1, <3>2, <3>3, OpenIsSeq
    <3>5. open' \in Seq(Turned') /\ Len(open') = Len(open)
      BY <3>3, <3>4, IsASeq, LenProperties
    <3> QED BY <1>1, <1>9, <2>1, <2>4, <3>2, <3>5 DEF Grown
  <2>5. CASE ~ HasOpen(t)
    <3>1. o = Append(open, fresh({}))
      BY <1>5, <2>5 DEF G!Ensured
    <3>2. open' = Append(open, fresh({n}))
      <4> DEFINE p == Append(open, fresh({}))
                 q == Append(open, fresh({n}))
      <4>0. fresh({}) \in Turned' /\ fresh({n}) \in Turned'
        BY <1>6, <2>3
      <4>1. /\ p \in Seq(Turned') /\ Len(p) = Len(open) + 1 /\ p[Len(open) + 1] = fresh({})
            /\ \A j \in 1..Len(open) : p[j] = open[j]
            /\ q \in Seq(Turned') /\ Len(q) = Len(open) + 1 /\ q[Len(open) + 1] = fresh({n})
            /\ \A j \in 1..Len(open) : q[j] = open[j]
        <5> HIDE DEF fresh
        <5> QED BY <1>4, <4>0, AppendProperties
      <4>2. open' = [j \in DOMAIN p |-> IF p[j].turn = t THEN [p[j] EXCEPT !.text = @ \union {n}] ELSE p[j]]
        BY <2>2, <3>1
      <4> HIDE DEF p, q
      <4>3. DOMAIN p = 1..(Len(open) + 1) /\ DOMAIN q = 1..(Len(open) + 1)
        BY <4>1, LenProperties
      <4>4. ASSUME NEW j \in 1..(Len(open) + 1) PROVE open'[j] = q[j]
        <5>1. CASE j \in 1..Len(open)
          <6>1. open[j].turn # t
            BY <2>5, <5>1, OpenIsSeq DEF HasOpen
          <6> QED BY <4>1, <4>2, <4>3, <5>1, <6>1
        <5>2. CASE j = Len(open) + 1
          <6>0. p[j] = [turn |-> t, text |-> {}]
            BY <4>1, <5>2
          <6>2. [[turn |-> t, text |-> {}] EXCEPT !.text = @ \union {n}] = [turn |-> t, text |-> {} \union {n}]
            BY ONLY LongerText
          <6>3. {} \union {n} = {n}
            OBVIOUS
          <6>4. [p[j] EXCEPT !.text = @ \union {n}] = [turn |-> t, text |-> {n}]
            BY ONLY <6>0, <6>2, <6>3
          <6>1. p[j].turn = t /\ [p[j] EXCEPT !.text = @ \union {n}] = fresh({n})
            <7>1. p[j].turn = t
              BY ONLY <6>0
            <7> QED BY ONLY <6>4, <7>1
          <6> QED BY <4>1, <4>2, <4>3, <5>2, <6>1
        <5> QED BY <4>4, <5>1, <5>2, OpenIsSeq
      <4>5. DOMAIN open' = DOMAIN q /\ open' = [j \in DOMAIN open' |-> open'[j]] /\ q = [j \in DOMAIN q |-> q[j]]
        BY <4>1, <4>2, <4>3
      <4>6. open' = q
        BY <4>3, <4>4, <4>5
      <4> QED BY <4>6 DEF q
    <3> QED BY <1>1, <1>7, <1>9, <2>1, <2>3, <2>5, <3>2
  <2> QED BY <2>4, <2>5
<1>10. CASE script[n].type = "turnFinished"
  <2>1. open' = G!Others(t) /\ finished' = G!OpenTurn(t)
    BY <1>2, <1>10
  <2>2. CASE ~ HasOpen(t)
    BY <1>1, <1>4, <1>5, <1>10, <2>1, <2>2 DEF G!Others, G!OpenTurn
  <2>3. CASE HasOpen(t)
    <3> DEFINE i == G!Place(t)
    <3>1. i \in DOMAIN open /\ open[i].turn = t
      BY <2>3 DEF HasOpen, G!Place
    <3>2. open' = G!RemoveAt(open, i) /\ finished' = <<open[i]>>
      BY <1>5, <2>1, <2>3 DEF G!Others, G!OpenTurn
    <3> HIDE DEF i
    <3>3. /\ open' \in Seq(Turned) /\ Len(open') = Len(open) - 1
          /\ \A j \in 1..(Len(open) - 1) : open'[j] = IF j < i THEN open[j] ELSE open[j + 1]
      BY <1>4, <3>1, <3>2, RemoveAtIs, OpenIsSeq
    <3> QED BY <1>1, <1>4, <1>10, <3>1, <3>2, <3>3 DEF ClosedAt
  <2> QED BY <2>2, <2>3
<1>11. CASE script[n].type \in {"runFinished", "runError"}
  <2>1. open' = open /\ finished' = <<>>
    BY <1>2, <1>11
  <2> QED BY <1>1, <1>4, <1>11, <2>1
<1> QED BY <1>3, <1>8, <1>9, <1>10, <1>11 DEF EventKinds

-----------------------------------------------------------------------------
(* The steps keep the types                                                  *)

\* What ProjectAssistantMessage does with a turn, behind the offset or above it.
Skipped(n) == offset >= n /\ UNCHANGED <<offset, messages>>

Appended(text, n) ==
  /\ offset < n /\ offset' = n
  /\ Len(messages') = Len(messages) + 1
  /\ messages'[Len(messages) + 1] = [text |-> text, seq |-> n]
  /\ \A i \in DOMAIN messages : messages'[i] = messages[i]

LEMMA MessagesAreSeq ==
  ASSUME StoreTypes
  PROVE  /\ Len(messages) \in Nat /\ DOMAIN messages = 1..Len(messages)
         /\ \A i \in DOMAIN messages : messages[i] \in Received
BY LenProperties, ElementOfSeq DEF StoreTypes

LEMMA ProjectEffect ==
  ASSUME HandlerTypes, StoreTypes, NEW text \in (SUBSET (1..seq)) \ {{}}, NEW n \in 1..seq,
         G!ProjectAssistantMessage(text, n)
  PROVE  /\ offset' \in 0..seq /\ offset <= offset' /\ n <= offset'
         /\ messages' \in Seq(Received)
         /\ Skipped(n) \/ Appended(text, n)
<1>1. seq \in Nat /\ offset \in Nat /\ offset <= seq /\ n \in Nat /\ n <= seq
  BY OpenIsSeq DEF StoreTypes
<1>2. CASE offset >= n
  BY <1>1, <1>2 DEF G!ProjectAssistantMessage, Skipped, StoreTypes
<1>3. CASE ~ (offset >= n)
  <2> DEFINE m == [text |-> text, seq |-> n]
  <2>1. messages' = Append(messages, m) /\ offset' = n
    BY <1>3 DEF G!ProjectAssistantMessage
  <2>2. m \in Received
    BY DEF Received
  <2> HIDE DEF m
  <2>3. /\ Append(messages, m) \in Seq(Received)
        /\ Len(Append(messages, m)) = Len(messages) + 1
        /\ \A i \in 1..Len(messages) : Append(messages, m)[i] = messages[i]
        /\ Append(messages, m)[Len(messages) + 1] = m
    BY <2>2, AppendProperties DEF StoreTypes
  <2> QED BY <1>1, <1>3, <2>1, <2>3, MessagesAreSeq DEF m, Appended
<1> QED BY <1>2, <1>3

\* The turn that finished, and the first of those that are drained.
Closing(x) ==
  \/ handler = "project" /\ finished # <<>> /\ x = finished[1] /\ finished' = <<>> /\ open' = open /\ handler' = "next"
  \/ handler = "next" /\ seq = Len(script) /\ open # <<>> /\ x = open[1]
       /\ finished' = <<>> /\ finished = <<>> /\ handler' = "next" /\ open' = Tail(open)

Projects(x) ==
  /\ projected' = projected + 1 /\ failures' = failures
  /\ IF x.text = {} THEN UNCHANGED <<offset, messages>> ELSE G!ProjectAssistantMessage(x.text, seq)

Unprojected(x) ==
  /\ x.text # {} /\ UNCHANGED <<offset, messages, projected>> /\ G!Fails("project")

LEMMA ClosingParts ==
  ASSUME HandlerTypes, G!ProjectFinished \/ G!ProjectFinishedFails \/ G!DrainTurn \/ G!DrainTurnFails
  PROVE  /\ UNCHANGED <<script, journal, seq, turns, from, pass>>
         /\ \E x \in Turned : Closing(x) /\ (Projects(x) \/ Unprojected(x))
<1>1. open \in Seq(Turned) /\ finished \in Seq(Turned)
  BY DEF HandlerTypes
<1>2. ASSUME NEW s \in Seq(Turned), s # <<>> PROVE Head(s) = s[1] /\ s[1] \in Turned
  BY <1>2, EmptySeq, ElementOfSeq
<1>3. CASE G!ProjectFinished
  BY <1>1, <1>2, <1>3 DEF G!ProjectFinished, G!ProjectTurn, HandlerTypes, Closing, Projects, G!workerVars
<1>4. CASE G!ProjectFinishedFails
  BY <1>1, <1>2, <1>4 DEF G!ProjectFinishedFails, HandlerTypes, Closing, Unprojected, G!workerVars
<1>5. CASE G!DrainTurn
  BY <1>1, <1>2, <1>5 DEF G!DrainTurn, G!ProjectTurn, HandlerTypes, Closing, Projects, G!workerVars
<1>6. CASE G!DrainTurnFails
  BY <1>1, <1>2, <1>6 DEF G!DrainTurnFails, HandlerTypes, Closing, Unprojected, G!workerVars
<1> QED BY <1>3, <1>4, <1>5, <1>6

LEMMA FailsTypes ==
  ASSUME HandlerTypes, NEW k \in FailureKinds, G!Fails(k)
  PROVE  /\ failures' \in [FailureKinds -> Nat] /\ \A j \in FailureKinds : failures'[j] <= MaxFailures[j]
         /\ failures'[k] # 0 /\ \A j \in FailureKinds : j # k => failures'[j] = failures[j]
<1>1. failures \in [FailureKinds -> Nat] /\ MaxFailures \in [FailureKinds -> Nat]
  BY FailureAssumption DEF HandlerTypes
<1>2. failures' = [failures EXCEPT ![k] = failures[k] + 1] /\ failures[k] < MaxFailures[k]
  BY DEF G!Fails
<1> QED BY <1>1, <1>2 DEF HandlerTypes

LEMMA ClosingEffect ==
  ASSUME HandlerTypes, StoreTypes, NEW x \in Turned, Closing(x), Projects(x) \/ Unprojected(x)
  PROVE  /\ offset' \in 0..seq /\ offset <= offset' /\ messages' \in Seq(Received)
         /\ projected' \in Nat /\ open' \in Seq(Turned) /\ handler' = "next" /\ finished' = <<>>
         /\ failures' \in [FailureKinds -> Nat] /\ \A k \in FailureKinds : failures'[k] <= MaxFailures[k]
         /\ seq >= 1
         /\ \/ /\ failures' = failures /\ projected' > 0
               /\ \/ x.text = {} /\ UNCHANGED <<offset, messages>>
                  \/ x.text # {} /\ seq <= offset' /\ (Skipped(seq) \/ Appended(x.text, seq))
            \/ failures'["project"] # 0 /\ UNCHANGED <<offset, messages>>
<1>1. projected \in Nat /\ seq \in Nat /\ seq \in 0..Len(script) /\ seq <= Len(script) /\ open \in Seq(Turned)
  BY OpenIsSeq DEF HandlerTypes
<1>2. x.text \in SUBSET (1..seq) /\ \E n \in 1..seq : n >= 1 /\ n <= seq
  BY DEF Turned
<1>3. seq \in 1..seq /\ seq >= 1
  BY <1>1, <1>2
<1>4. open' \in Seq(Turned) /\ handler' = "next" /\ finished' = <<>>
  BY <1>1, HeadTailProperties DEF Closing
<1>5. CASE Projects(x)
  <2>1. CASE x.text = {}
    BY <1>1, <1>3, <1>4, <1>5, <2>1 DEF Projects, StoreTypes, HandlerTypes
  <2>2. CASE x.text # {}
    <3>1. G!ProjectAssistantMessage(x.text, seq) /\ projected' = projected + 1 /\ failures' = failures
      BY <1>5, <2>2 DEF Projects
    <3>2. /\ offset' \in 0..seq /\ offset <= offset' /\ seq <= offset'
          /\ messages' \in Seq(Received) /\ (Skipped(seq) \/ Appended(x.text, seq))
      BY <1>2, <1>3, <2>2, <3>1, ProjectEffect
    <3> QED BY <1>1, <1>3, <1>4, <2>2, <3>1, <3>2 DEF HandlerTypes
  <2> QED BY <2>1, <2>2
<1>6. CASE Unprojected(x)
  <2>1. "project" \in FailureKinds
    BY DEF FailureKinds
  <2> QED BY <1>1, <1>3, <1>4, <1>6, <2>1, FailsTypes DEF Unprojected, StoreTypes
<1> QED BY <1>5, <1>6

LEMMA JournalEffect ==
  ASSUME HandlerTypes, G!JournalEvent \/ G!JournalFails
  PROVE  /\ UNCHANGED <<script, offset, messages, seq, open, finished, projected, turns, from, pass>>
         /\ handler = "journal" /\ handler' \in {"next", "project", "done"}
         /\ handler' = "project" <=> finished # <<>>
         /\ handler' = "done" => script[seq].type = "runError"
         /\ \/ journal' = journal \union {seq} /\ failures' = failures
            \/ journal' = journal /\ failures'["journal"] # 0
         /\ journal \subseteq journal' /\ journal' \subseteq 1..seq
         /\ failures' \in [FailureKinds -> Nat] /\ \A k \in FailureKinds : failures'[k] <= MaxFailures[k]
<1>1. journal \subseteq 1..seq /\ seq \in Nat /\ "journal" \in FailureKinds
  BY OpenIsSeq DEF HandlerTypes, FailureKinds
<1>2. handler = "journal" /\ seq \in 1..seq
  BY <1>1 DEF HandlerTypes, G!JournalEvent, G!JournalFails
<1>3. CASE G!JournalEvent
  BY <1>1, <1>2, <1>3 DEF G!JournalEvent, G!AfterJournal, G!Event, G!workerVars, HandlerTypes
<1>4. CASE G!JournalFails
  BY <1>1, <1>2, <1>4, FailsTypes DEF G!JournalFails, G!AfterJournal, G!Event, G!workerVars, HandlerTypes
<1> QED BY <1>3, <1>4

LEMMA FinishEffect ==
  ASSUME HandlerTypes, StoreTypes, G!Finish
  PROVE  /\ UNCHANGED <<script, journal, seq, open, finished, projected, turns, from, pass, failures>>
         /\ handler = "next" /\ handler' = "done" /\ seq = Len(script) /\ open = <<>>
         /\ offset' \in 0..seq /\ offset <= offset' /\ messages' \in Seq(Received)
         /\ \/ UNCHANGED <<offset, messages>>
            \/ /\ projected = 0 /\ \E n \in 1..seq : IsText(script, n)
               /\ \E text \in (SUBSET (1..seq)) \ {{}} : Skipped(seq) \/ Appended(text, seq)
<1>1. /\ UNCHANGED <<script, journal, seq, open, finished, projected, turns, from, pass, failures>>
      /\ handler = "next" /\ handler' = "done" /\ seq = Len(script) /\ open = <<>>
      /\ IF projected = 0 /\ G!MergedText # {}
           THEN G!ProjectAssistantMessage(G!MergedText, seq) ELSE UNCHANGED <<offset, messages>>
  BY DEF G!Finish, G!workerVars
<1>2. G!MergedText = {n \in 1..seq : IsText(script, n)}
  BY DEF G!MergedText, G!Event, IsText
<1>3. seq \in Nat /\ offset \in 0..seq
  BY OpenIsSeq DEF StoreTypes
<1>4. CASE UNCHANGED <<offset, messages>>
  BY <1>1, <1>3, <1>4 DEF StoreTypes
<1>5. CASE projected = 0 /\ G!MergedText # {}
  <2>1. G!ProjectAssistantMessage(G!MergedText, seq)
    BY <1>1, <1>5
  <2>2. G!MergedText \in (SUBSET (1..seq)) \ {{}} /\ seq \in 1..seq
    BY <1>2, <1>3, <1>5
  <2>3. /\ offset' \in 0..seq /\ offset <= offset' /\ messages' \in Seq(Received)
        /\ (Skipped(seq) \/ Appended(G!MergedText, seq))
    BY <2>1, <2>2, ProjectEffect
  <2> HIDE DEF G!MergedText
  <2> QED BY <1>1, <1>2, <1>5, <2>2, <2>3
<1> QED BY <1>1, <1>4, <1>5

LEMMA CrashEffect ==
  ASSUME HandlerTypes, G!Crash
  PROVE  /\ UNCHANGED <<script, journal, offset, messages, seq, open, finished, projected, turns, from, pass>>
         /\ handler' = "dead" /\ handler # "done"
         /\ \A k \in {"journal", "project", "recovery"} : failures'[k] = failures[k]
         /\ failures' \in [FailureKinds -> Nat] /\ \A k \in FailureKinds : failures'[k] <= MaxFailures[k]
<1>1. \E k \in {"crash", "stream"} : G!Fails(k)
  BY DEF G!Crash
<1>2. {"crash", "stream", "journal", "project", "recovery"} = FailureKinds
  BY DEF FailureKinds
<1> QED BY <1>1, <1>2, FailsTypes DEF G!Crash, G!workerVars

-----------------------------------------------------------------------------
(* What a recovery pass finds in the journal                                 *)

TextIn(s, S, t) == {n \in S : IsText(s, n) /\ s[n].turn = t}
EndsIn(s, S, t) == {n \in S :
  /\ Closes(s, n, t) \/ s[n].type = "runFinished"
  /\ \E m \in TextIn(s, S, t) : m < n}

LEMMA ImageIsFinite ==
  ASSUME NEW S, IsFiniteSet(S), NEW f
  PROVE  IsFiniteSet({f[x] : x \in S})
<1> DEFINE T == {f[x] : x \in S}
           g == [x \in S |-> f[x]]
<1>1. g \in Surjection(S, T)
  BY DEF Surjection
<1> HIDE DEF g, T
<1>2. IsFiniteSet(T)
  BY <1>1, FS_Surjection
<1> QED BY <1>2 DEF T

LEMMA CompletedFacts ==
  ASSUME HandlerTypes, NEW S \in SUBSET (1..seq)
  PROVE  /\ \A c \in G!Completed(S) : /\ c \in Received
                                      /\ \E t \in TurnsOf(script) : /\ c.text = TextIn(script, S, t)
                                                                    /\ c.seq \in EndsIn(script, S, t)
                                                                    /\ \A n \in EndsIn(script, S, t) : c.seq <= n
         /\ \A t \in TurnsOf(script) : EndsIn(script, S, t) # {} =>
              \E c \in G!Completed(S) : /\ c.text = TextIn(script, S, t)
                                        /\ c.seq \in EndsIn(script, S, t)
                                        /\ \A n \in EndsIn(script, S, t) : c.seq <= n
         /\ IsFiniteSet(G!Completed(S)) /\ Cardinality(G!Completed(S)) \in Nat
<1>1. script \in Scripts /\ seq \in Nat /\ 1..seq \subseteq DOMAIN script /\ 1..seq \subseteq Nat /\ seq \in 0..Len(script)
  BY OpenIsSeq, Prefix DEF HandlerTypes
<1>2. ASSUME NEW t PROVE G!TextOf(S, t) = TextIn(script, S, t) /\ G!EndsOf(S, t) = EndsIn(script, S, t)
  BY DEF G!TextOf, G!EndsOf, G!Event, TextIn, EndsIn, IsText, Closes
<1>3. ASSUME NEW t, EndsIn(script, S, t) # {}
      PROVE  /\ G!Min(EndsIn(script, S, t)) \in EndsIn(script, S, t)
             /\ \A n \in EndsIn(script, S, t) : G!Min(EndsIn(script, S, t)) <= n
  <2>1. EndsIn(script, S, t) \in SUBSET Nat
    BY <1>1 DEF EndsIn
  <2>2. G!Min(EndsIn(script, S, t)) = Min(EndsIn(script, S, t))
    BY DEF G!Min, Min
  <2> QED BY <1>3, <2>1, <2>2, MinOf
<1>4. \A t : t \in G!TurnsIn(S) <=> \E n \in S : IsText(script, n) /\ script[n].turn = t
  BY DEF G!TurnsIn, G!Event, IsText
<1>5. G!TurnsIn(S) \subseteq TurnsOf(script)
  BY <1>1, <1>4 DEF TurnsOf
<1> DEFINE ended == {u \in G!TurnsIn(S) : EndsIn(script, S, u) # {}}
           rec(t) == [text |-> TextIn(script, S, t), seq |-> G!Min(EndsIn(script, S, t))]
<1>6. G!Completed(S) = {rec(t) : t \in ended}
  <2>1. G!Completed(S) = {[text |-> G!TextOf(S, t), seq |-> G!Min(G!EndsOf(S, t))] :
                            t \in {u \in G!TurnsIn(S) : G!EndsOf(S, u) # {}}}
    BY DEF G!Completed
  <2> QED BY <1>2, <2>1
<1>7. ASSUME NEW t \in ended
      PROVE  /\ rec(t) \in Received /\ rec(t).text = TextIn(script, S, t)
             /\ rec(t).seq \in EndsIn(script, S, t) /\ \A n \in EndsIn(script, S, t) : rec(t).seq <= n
  <2>1. EndsIn(script, S, t) # {} /\ EndsIn(script, S, t) \subseteq S
    BY <1>7 DEF EndsIn
  <2>2. TextIn(script, S, t) \in (SUBSET (1..seq)) \ {{}}
    BY <2>1 DEF EndsIn, TextIn
  <2> QED BY <1>3, <2>1, <2>2 DEF Received
<1>8. IsFiniteSet(G!Completed(S))
  <2>1. IsFiniteSet(1..seq)
    BY <1>1, FS_Interval
  <2>2. IsFiniteSet({n \in S : IsText(script, n)})
    BY <2>1, FS_Subset
  <2> DEFINE f == [n \in S |-> script[n].turn]
  <2>3. G!TurnsIn(S) = {f[n] : n \in {m \in S : IsText(script, m)}}
    BY DEF G!TurnsIn, G!Event, IsText
  <2> HIDE DEF f
  <2>4. IsFiniteSet({f[n] : n \in {m \in S : IsText(script, m)}})
    BY <2>2, ImageIsFinite
  <2>5. IsFiniteSet(ended)
    BY <2>3, <2>4, FS_Subset
  <2> HIDE DEF ended, rec
  <2> DEFINE h == [t \in ended |-> rec(t)]
  <2>6. G!Completed(S) = {h[t] : t \in ended}
    BY <1>6
  <2> HIDE DEF h
  <2> QED BY <2>5, <2>6, ImageIsFinite
<1>9. Cardinality(G!Completed(S)) \in Nat
  BY <1>8, FS_CardinalityType
<1>10. ASSUME NEW t \in TurnsOf(script), EndsIn(script, S, t) # {} PROVE t \in ended
  BY <1>4, <1>10 DEF EndsIn, TextIn
<1> HIDE DEF ended, rec
<1>11. \A c \in G!Completed(S) : \E t \in ended : c = rec(t)
  BY <1>6
<1>12. \A t \in ended : t \in TurnsOf(script) /\ rec(t) \in G!Completed(S)
  BY <1>5, <1>6 DEF ended
<1> QED BY <1>7, <1>8, <1>9, <1>10, <1>11, <1>12

\* What a pass read when it reads the journal now.
Seen(w) == {n \in journal : n > from[w]}

LEMMA PassesAre ==
  ASSUME PassTypes
  PROVE  \A w \in Workers : /\ turns[w] \in Seq(Received) /\ Len(turns[w]) \in Nat /\ DOMAIN turns[w] = 1..Len(turns[w])
                            /\ \A i \in DOMAIN turns[w] : turns[w][i] \in Received
                            /\ from[w] \in Nat /\ pass[w] \in {"idle", "read", "project"}
BY LenProperties, ElementOfSeq DEF PassTypes

LEMMA SameCardinality == \A S : G!Cardinality(S) = Cardinality(S)
BY DEF G!Cardinality, Cardinality

LEMMA ReadOffsetEffect ==
  ASSUME HandlerTypes, StoreTypes, PassTypes, NEW w \in Workers, G!ReadOffset(w)
  PROVE  /\ UNCHANGED <<script, journal, offset, messages, handler, seq, open, finished, projected, turns, failures>>
         /\ \A v \in Workers : from'[v] \in {from[v], offset}
         /\ PassTypes'
<1>1. /\ UNCHANGED <<script, journal, offset, messages, handler, seq, open, finished, projected, turns, failures>>
      /\ from' = [from EXCEPT ![w] = offset] /\ pass' = [pass EXCEPT ![w] = "read"] /\ pass[w] = "idle"
  BY DEF G!ReadOffset, G!liveVars
<1>2. offset \in Nat
  BY OpenIsSeq DEF StoreTypes
<1>3. Received' = Received
  BY <1>1 DEF Received
<1> QED BY <1>1, <1>2, <1>3 DEF PassTypes

LEMMA ReadJournalEffect ==
  ASSUME HandlerTypes, PassTypes, NEW w \in Workers, G!ReadJournal(w)
  PROVE  /\ UNCHANGED <<script, journal, offset, messages, handler, seq, open, finished, projected, from, failures>>
         /\ \A v \in Workers : v # w => turns'[v] = turns[v]
         /\ \A i \in DOMAIN turns'[w] : turns'[w][i] \in G!Completed(Seen(w))
         /\ \A c \in G!Completed(Seen(w)) : \E i \in DOMAIN turns'[w] : turns'[w][i] = c
         /\ \A i, j \in DOMAIN turns'[w] : i < j => turns'[w][i].seq <= turns'[w][j].seq
         /\ pass[w] = "read"
         /\ PassTypes'
<1> DEFINE C == G!Completed(Seen(w))
<1>0. G!After(w) = Seen(w)
  BY DEF G!After, Seen
<1>1. PICK s \in G!Sorted(C) : turns' = [turns EXCEPT ![w] = s]
  BY <1>0 DEF G!ReadJournal
<1>2. /\ UNCHANGED <<script, journal, offset, messages, handler, seq, open, finished, projected, from, failures>>
      /\ pass[w] = "read"
      /\ pass' = [pass EXCEPT ![w] = IF C = {} THEN "idle" ELSE "project"]
  BY <1>0 DEF G!ReadJournal, G!liveVars
<1>3. Seen(w) \in SUBSET (1..seq)
  BY DEF Seen, HandlerTypes
<1>4. /\ \A c \in C : c \in Received
      /\ Cardinality(C) \in Nat
  BY <1>3, CompletedFacts
<1>5. /\ s \in [1..Cardinality(C) -> C]
      /\ {s[i] : i \in DOMAIN s} = C
      /\ \A j, k \in DOMAIN s : j < k => G!Before(s[j], s[k])
  BY <1>1, SameCardinality DEF G!Sorted, G!Range
<1> HIDE DEF C
<1>6. s \in Seq(Received) /\ DOMAIN s = 1..Len(s) /\ Len(s) = Cardinality(C)
  <2>1. s = [i \in 1..Cardinality(C) |-> s[i]] /\ \A i \in 1..Cardinality(C) : s[i] \in Received
    BY <1>4, <1>5
  <2>2. s \in Seq(Received)
    BY <1>4, <2>1, IsASeq
  <2>3. DOMAIN s = 1..Len(s) /\ DOMAIN s = 1..Cardinality(C) /\ Len(s) \in Nat
    BY <1>5, <2>2, LenProperties
  <2> QED BY <1>4, <2>2, <2>3
<1>7. s = <<>> <=> C = {}
  <2>1. C = {} <=> DOMAIN s = {}
    BY <1>5
  <2>2. DOMAIN s = {} <=> Len(s) = 0
    BY <1>4, <1>6
  <2>3. Len(s) = 0 <=> s = <<>>
    BY <1>6, EmptySeq
  <2> QED BY <2>1, <2>2, <2>3
<1>8. turns'[w] = s /\ \A v \in Workers : v # w => turns'[v] = turns[v]
  BY <1>1 DEF PassTypes
<1>9. \A i, j \in DOMAIN s : i < j => s[i].seq <= s[j].seq
  <2>1. \A i \in DOMAIN s : s[i].seq \in Nat
    BY <1>4, <1>5 DEF Received
  <2> QED BY <1>5, <2>1 DEF G!Before
<1>10. PassTypes'
  <2>1. Received' = Received
    BY <1>2 DEF Received
  <2> QED BY <1>1, <1>2, <1>6, <1>7, <2>1 DEF PassTypes
<1> QED BY <1>2, <1>5, <1>8, <1>9, <1>10 DEF C

LEMMA RecoverEffect ==
  ASSUME HandlerTypes, StoreTypes, PassTypes, NEW w \in Workers, G!Recover(w)
  PROVE  /\ UNCHANGED <<script, journal, handler, seq, open, finished, projected, from, failures>>
         /\ \A v \in Workers : v # w => turns'[v] = turns[v]
         /\ 1 \in DOMAIN turns[w] /\ turns[w][1] \in Received
         /\ Len(turns'[w]) = Len(turns[w]) - 1
         /\ \A i \in DOMAIN turns'[w] : i + 1 \in DOMAIN turns[w] /\ turns'[w][i] = turns[w][i + 1]
         /\ Skipped(turns[w][1].seq) \/ Appended(turns[w][1].text, turns[w][1].seq)
         /\ offset <= offset' /\ turns[w][1].seq <= offset'
         /\ StoreTypes' /\ PassTypes'
<1>1. /\ UNCHANGED <<script, journal, handler, seq, open, finished, projected, from, failures>>
      /\ pass[w] = "project"
      /\ G!ProjectAssistantMessage(Head(turns[w]).text, Head(turns[w]).seq)
      /\ turns' = [turns EXCEPT ![w] = Tail(turns[w])]
      /\ pass' = [pass EXCEPT ![w] = IF Len(turns[w]) = 1 THEN "idle" ELSE "project"]
  BY DEF G!Recover, G!liveVars
<1>2. turns[w] \in Seq(Received) /\ turns[w] # <<>>
  BY <1>1 DEF PassTypes
<1>3. /\ Len(turns[w]) \in Nat /\ Len(turns[w]) # 0 /\ DOMAIN turns[w] = 1..Len(turns[w])
  BY <1>2, EmptySeq, LenProperties
<1>4. Head(turns[w]) = turns[w][1] /\ turns[w][1] \in Received /\ 1 \in DOMAIN turns[w]
  BY <1>2, <1>3, ElementOfSeq
<1>5. /\ Tail(turns[w]) \in Seq(Received) /\ Len(Tail(turns[w])) = Len(turns[w]) - 1
      /\ DOMAIN Tail(turns[w]) = 1..(Len(turns[w]) - 1)
      /\ \A i \in 1..(Len(turns[w]) - 1) : Tail(turns[w])[i] = turns[w][i + 1]
  BY <1>2, <1>3, HeadTailProperties, LenProperties
<1>6. Tail(turns[w]) = <<>> <=> Len(turns[w]) = 1
  <2> DEFINE r == Tail(turns[w])
  <2>1. r \in Seq(Received) /\ Len(r) = Len(turns[w]) - 1
    BY <1>5
  <2> HIDE DEF r
  <2>2. r = <<>> <=> Len(r) = 0
    BY <2>1, EmptySeq
  <2>3. Len(r) = 0 <=> Len(turns[w]) = 1
    BY <1>3, <2>1
  <2> QED BY <2>2, <2>3 DEF r
<1>7. turns'[w] = Tail(turns[w]) /\ \A v \in Workers : v # w => turns'[v] = turns[v]
  BY <1>1 DEF PassTypes
<1>8. turns[w][1].text \in (SUBSET (1..seq)) \ {{}} /\ turns[w][1].seq \in 1..seq
  BY <1>4 DEF Received
<1>9. /\ offset' \in 0..seq /\ offset <= offset' /\ turns[w][1].seq <= offset'
      /\ messages' \in Seq(Received)
      /\ Skipped(turns[w][1].seq) \/ Appended(turns[w][1].text, turns[w][1].seq)
  BY <1>1, <1>4, <1>8, ProjectEffect
<1>10. Received' = Received
  BY <1>1 DEF Received
<1>11. StoreTypes'
  BY <1>1, <1>9, <1>10 DEF StoreTypes
<1>12. PassTypes'
  <2>1. offset \in Nat /\ offset' \in Nat
    BY <1>9, OpenIsSeq DEF StoreTypes
  <2>2. \A v \in Workers : from'[v] <= offset'
    BY <1>1, <1>9, <2>1 DEF PassTypes
  <2>3. turns' \in [Workers -> Seq(Received)] /\ pass' \in [Workers -> {"idle", "read", "project"}]
    BY <1>1, <1>5 DEF PassTypes
  <2>4. \A v \in Workers : (pass'[v] = "project") <=> (turns'[v] # <<>>)
    BY <1>1, <1>6, <1>7 DEF PassTypes
  <2> QED BY <1>1, <1>10, <2>2, <2>3, <2>4 DEF PassTypes
<1>13. \A i \in 1..(Len(turns[w]) - 1) : i + 1 \in 1..Len(turns[w])
  BY <1>3
<1> QED BY <1>1, <1>3, <1>4, <1>5, <1>7, <1>9, <1>11, <1>12, <1>13

LEMMA RecoverFailsEffect ==
  ASSUME HandlerTypes, StoreTypes, PassTypes, NEW w \in Workers, G!RecoverFails(w)
  PROVE  /\ UNCHANGED <<script, journal, offset, messages, handler, seq, open, finished, projected, from>>
         /\ \A v \in Workers : turns'[v] \in {<<>>, turns[v]}
         /\ \A k \in {"journal", "project"} : failures'[k] = failures[k]
         /\ failures' \in [FailureKinds -> Nat] /\ \A k \in FailureKinds : failures'[k] <= MaxFailures[k]
         /\ PassTypes'
<1>1. /\ UNCHANGED <<script, journal, offset, messages, handler, seq, open, finished, projected, from>>
      /\ turns' = [turns EXCEPT ![w] = <<>>] /\ pass' = [pass EXCEPT ![w] = "idle"] /\ G!Fails("recovery")
  BY DEF G!RecoverFails, G!liveVars
<1>2. {"crash", "stream", "journal", "project", "recovery"} = FailureKinds
  BY DEF FailureKinds
<1>3. Received' = Received /\ <<>> \in Seq(Received)
  BY <1>1, EmptySeq DEF Received
<1>4. PassTypes'
  BY <1>1, <1>3 DEF PassTypes
<1> QED BY <1>1, <1>2, <1>4, FailsTypes DEF PassTypes

Types == HandlerTypes /\ StoreTypes /\ PassTypes

LEMMA TypesStep ==
  ASSUME Types, Live \/ (\E w \in Workers : Passes(w)) \/ Still
  PROVE  Types'
<1> USE DEF Types
<1>0. seq \in Nat /\ script \in Scripts /\ Len(script) \in Nat /\ seq <= Len(script) /\ "journal" \in FailureKinds
  BY OpenIsSeq DEF FailureKinds
<1>1. ASSUME UNCHANGED <<script, seq>>, offset' \in 0..seq, offset <= offset', messages' \in Seq(Received)
      PROVE  StoreTypes'
  <2>1. Received' = Received
    BY <1>1 DEF Received
  <2> QED BY <1>1, <2>1 DEF StoreTypes
<1>2. ASSUME UNCHANGED <<script, seq, turns, from, pass>>, offset <= offset', offset' \in 0..seq
      PROVE  PassTypes'
  <2>1. Received' = Received
    BY <1>2 DEF Received
  <2>2. \A w \in Workers : from'[w] <= offset'
    BY <1>0, <1>2 DEF PassTypes, StoreTypes
  <2> QED BY <1>2, <2>1, <2>2 DEF PassTypes
<1>3. ASSUME UNCHANGED <<script, seq>> PROVE Turned' = Turned
  BY <1>3 DEF Turned
<1>4. CASE G!Receive
  <2>1. /\ handler = "next" /\ finished = <<>> /\ seq + 1 \in DOMAIN script
        /\ seq' = seq + 1 /\ handler' = "journal"
        /\ UNCHANGED <<script, journal, offset, messages, projected, turns, from, pass, failures>>
        /\ open' \in Seq(Turned')
        /\ finished' = <<>> \/ \E i \in DOMAIN open : finished' = <<open[i]>>
    BY <1>4, ReceiveEffect
  <2>2. /\ Seq(Turned) \subseteq Seq(Turned') /\ Seq(Received) \subseteq Seq(Received')
        /\ Turned \subseteq Turned'
    BY <1>0, <2>1, ReceivedGrows
  <2>3. seq' \in 0..Len(script) /\ 1..seq \subseteq 1..seq' /\ 0..seq \subseteq 0..seq' /\ seq' > 0
    BY <1>0, <2>1, Stream
  <2>4. finished' \in Seq(Turned') /\ Len(finished') <= 1
    <3>1. CASE finished' = <<>>
      BY <3>1, EmptySeq
    <3>2. ASSUME NEW i \in DOMAIN open, finished' = <<open[i]>> PROVE finished' \in Seq(Turned') /\ Len(finished') <= 1
      <4>1. open[i] \in Turned'
        BY <2>2, OpenIsSeq
      <4> DEFINE x == open[i]
      <4> HIDE DEF x
      <4>2. <<x>> = Append(<<>>, x) /\ Len(<<>>) = 0
        BY EmptySeq
      <4>3. x \in Turned'
        BY <4>1 DEF x
      <4>4. Append(<<>>, x) \in Seq(Turned') /\ Len(Append(<<>>, x)) = 1
        BY <4>2, <4>3, EmptySeq, AppendProperties
      <4> QED BY <3>2, <4>2, <4>4 DEF x
    <3> QED BY <2>1, <3>1, <3>2
  <2>5. HandlerTypes'
    BY <2>1, <2>3, <2>4 DEF HandlerTypes
  <2> QED BY <2>1, <2>2, <2>3, <2>5 DEF StoreTypes, PassTypes
<1>5. CASE G!JournalEvent \/ G!JournalFails
  <2>1. HandlerTypes'
    BY <1>3, <1>5, JournalEffect DEF HandlerTypes
  <2> QED BY <1>0, <1>1, <1>2, <1>5, <2>1, JournalEffect DEF StoreTypes
<1>6. CASE G!ProjectFinished \/ G!ProjectFinishedFails \/ G!DrainTurn \/ G!DrainTurnFails
  <2>1. PICK x \in Turned : UNCHANGED <<script, journal, seq, turns, from, pass>> /\ Closing(x) /\ (Projects(x) \/ Unprojected(x))
    BY <1>6, ClosingParts
  <2>2. /\ offset' \in 0..seq /\ offset <= offset' /\ messages' \in Seq(Received)
        /\ projected' \in Nat /\ open' \in Seq(Turned) /\ handler' = "next" /\ finished' = <<>>
        /\ failures' \in [FailureKinds -> Nat] /\ \A k \in FailureKinds : failures'[k] <= MaxFailures[k]
    BY <2>1, ClosingEffect
  <2>3. <<>> \in Seq(Turned) /\ Len(<<>>) = 0
    BY EmptySeq
  <2>4. HandlerTypes'
    BY <1>3, <2>1, <2>2, <2>3 DEF HandlerTypes
  <2> QED BY <1>1, <1>2, <2>1, <2>2, <2>4
<1>7. CASE G!Finish
  <2>1. HandlerTypes'
    BY <1>3, <1>7, FinishEffect DEF HandlerTypes
  <2> QED BY <1>1, <1>2, <1>7, <2>1, FinishEffect
<1>8. CASE G!Crash
  <2>1. HandlerTypes'
    BY <1>3, <1>8, CrashEffect DEF HandlerTypes
  <2> QED BY <1>0, <1>1, <1>2, <1>8, <2>1, CrashEffect DEF StoreTypes
<1>9. ASSUME NEW w \in Workers, Passes(w) PROVE Types'
  <2>1. CASE G!ReadOffset(w)
    <3>1. HandlerTypes'
      BY <1>3, <2>1, ReadOffsetEffect DEF HandlerTypes
    <3>2. StoreTypes'
      BY <1>0, <1>1, <2>1, ReadOffsetEffect DEF StoreTypes
    <3> QED BY <3>1, <3>2, <2>1, ReadOffsetEffect
  <2>2. CASE G!ReadJournal(w)
    <3>1. HandlerTypes'
      BY <1>3, <2>2, ReadJournalEffect DEF HandlerTypes
    <3>2. StoreTypes'
      BY <1>0, <1>1, <2>2, ReadJournalEffect DEF StoreTypes
    <3> QED BY <3>1, <3>2, <2>2, ReadJournalEffect
  <2>3. CASE G!Recover(w)
    BY <1>3, <2>3, RecoverEffect DEF HandlerTypes
  <2>4. CASE G!RecoverFails(w)
    <3>1. HandlerTypes'
      BY <1>3, <2>4, RecoverFailsEffect DEF HandlerTypes
    <3>2. StoreTypes'
      BY <1>0, <1>1, <2>4, RecoverFailsEffect DEF StoreTypes
    <3> QED BY <3>1, <3>2, <2>4, RecoverFailsEffect
  <2> QED BY <1>9, <2>1, <2>2, <2>3, <2>4 DEF Passes
<1>10. CASE Still
  <2>1. UNCHANGED <<script, journal, offset, messages, handler, seq, open, finished, projected, turns, from, pass, failures>>
    BY <1>10 DEF Still
  <2>2. HandlerTypes'
    BY <1>3, <2>1 DEF HandlerTypes
  <2> QED BY <1>0, <1>1, <1>2, <2>1, <2>2 DEF StoreTypes
<1> QED BY <1>4, <1>5, <1>6, <1>7, <1>8, <1>9, <1>10 DEF Live

\* A step that is not the handler's.
Aside == Types /\ ((\E w \in Workers : Passes(w)) \/ Still)

LEMMA AsideFrame ==
  ASSUME Aside
  PROVE  /\ UNCHANGED <<script, journal, handler, seq, open, finished, projected>>
         /\ \A k \in {"journal", "project"} : failures'[k] = failures[k]
<1>1. CASE Still
  BY <1>1 DEF Still
<1>2. ASSUME NEW w \in Workers, Passes(w)
      PROVE  /\ UNCHANGED <<script, journal, handler, seq, open, finished, projected>>
             /\ \A k \in {"journal", "project"} : failures'[k] = failures[k]
  <2>1. HandlerTypes /\ StoreTypes /\ PassTypes
    BY DEF Aside, Types
  <2>2. CASE G!ReadOffset(w)
    BY <2>1, <2>2, ReadOffsetEffect
  <2>3. CASE G!ReadJournal(w)
    BY <2>1, <2>3, ReadJournalEffect
  <2>4. CASE G!Recover(w)
    BY <2>1, <2>4, RecoverEffect
  <2>5. CASE G!RecoverFails(w)
    BY <2>1, <2>5, RecoverFailsEffect
  <2> QED BY <1>2, <2>2, <2>3, <2>4, <2>5 DEF Passes
<1> QED BY <1>1, <1>2 DEF Aside

\* A turn is projected, or its projection fails.
Closed(x) ==
  /\ Types /\ x \in Turned /\ Closing(x) /\ (Projects(x) \/ Unprojected(x))
  /\ UNCHANGED <<script, journal, seq, turns, from, pass>>

LEMMA ClosedFrame ==
  ASSUME NEW x, Closed(x)
  PROVE  /\ UNCHANGED <<script, journal, seq, turns, from, pass>>
         /\ handler \in {"next", "project"} /\ handler' = "next" /\ finished' = <<>>
         /\ failures'["journal"] = failures["journal"]
         /\ offset <= offset'
         /\ \/ failures' = failures /\ projected' > 0
               /\ \/ x.text = {} /\ UNCHANGED <<offset, messages>>
                  \/ x.text # {} /\ seq <= offset' /\ (Skipped(seq) \/ Appended(x.text, seq))
            \/ failures'["project"] # 0 /\ UNCHANGED <<offset, messages>>
<1>1. /\ Types /\ x \in Turned /\ Closing(x) /\ (Projects(x) \/ Unprojected(x))
      /\ UNCHANGED <<script, journal, seq, turns, from, pass>>
  BY DEF Closed
<1>2. "journal" \in FailureKinds /\ "project" \in FailureKinds /\ "journal" # "project"
  BY DEF FailureKinds
<1>3. failures'["journal"] = failures["journal"]
  BY <1>1, <1>2, FailsTypes DEF Projects, Unprojected, Types
<1>4. handler \in {"next", "project"}
  BY <1>1 DEF Closing
<1> QED BY <1>1, <1>3, <1>4, ClosingEffect DEF Types

LEMMA StepKinds ==
  ASSUME Types, [G!Next]_(G!vars)
  PROVE  \/ G!Receive \/ (G!JournalEvent \/ G!JournalFails) \/ (\E x : Closed(x))
         \/ G!Finish \/ G!Crash \/ Aside
<1>1. Live \/ (\E w \in Workers : Passes(w)) \/ Still
  BY ProjectionSteps
<1>2. CASE G!ProjectFinished \/ G!ProjectFinishedFails \/ G!DrainTurn \/ G!DrainTurnFails
  BY <1>2, ClosingParts DEF Types, Closed
<1> QED BY <1>1, <1>2 DEF Live, Aside

LEMMA LiveWritesKept ==
  ASSUME Types, [G!Next]_(G!vars), LiveWritesSucceed'
  PROVE  LiveWritesSucceed
<1>0. failures \in [FailureKinds -> Nat] /\ {"journal", "project"} \subseteq FailureKinds
  BY DEF Types, HandlerTypes, FailureKinds
<1>1. failures'["journal"] = 0 /\ failures'["project"] = 0
  BY DEF LiveWritesSucceed
<1>2. CASE G!Receive
  BY <1>1, <1>2, ReceiveEffect DEF Types, LiveWritesSucceed
<1>3. CASE G!JournalEvent \/ G!JournalFails
  BY <1>1, <1>3, JournalEffect DEF Types, LiveWritesSucceed
<1>4. ASSUME NEW x, Closed(x) PROVE LiveWritesSucceed
  BY <1>1, <1>4, ClosedFrame DEF LiveWritesSucceed
<1>5. CASE G!Finish
  BY <1>1, <1>5, FinishEffect DEF Types, LiveWritesSucceed
<1>6. CASE G!Crash
  BY <1>1, <1>6, CrashEffect DEF Types, LiveWritesSucceed
<1>7. CASE Aside
  BY <1>1, <1>7, AsideFrame DEF LiveWritesSucceed
<1> QED BY <1>2, <1>3, <1>4, <1>5, <1>6, <1>7, StepKinds

-----------------------------------------------------------------------------
(* The journal and the open turns                                            *)

LEMMA WrittenStep ==
  ASSUME Types, Written, [G!Next]_(G!vars)
  PROVE  Written'
<1> USE DEF Types, Written
<1>0. seq \in Nat
  BY OpenIsSeq
<1>1. CASE G!Receive
  <2>1. (seq + 1) - 1 = seq
    BY <1>0
  <2>2. seq' = seq + 1 /\ handler = "next" /\ handler' = "journal" /\ journal' = journal /\ failures' = failures
    BY <1>1, ReceiveEffect
  <2> QED BY <2>1, <2>2
<1>2. CASE G!JournalEvent \/ G!JournalFails
  <2>1. 1..seq \subseteq (1..(seq - 1)) \union {seq}
    BY <1>0
  <2> QED BY <1>2, <2>1, JournalEffect
<1>3. ASSUME NEW x, Closed(x) PROVE Written'
  BY <1>3, ClosedFrame
<1>4. CASE G!Finish
  BY <1>4, FinishEffect
<1>5. CASE G!Crash
  BY <1>5, CrashEffect
<1>6. CASE Aside
  BY <1>6, AsideFrame
<1> QED BY <1>1, <1>2, <1>3, <1>4, <1>5, <1>6, StepKinds

LEMMA UnclosedNext ==
  ASSUME NEW s \in Scripts, NEW p \in 0..Len(s), NEW n, n = p + 1, n \in DOMAIN s, NEW t
  PROVE  /\ Closes(s, n, t) => Unclosed(s, n, t) = {}
         /\ IsText(s, n) /\ s[n].turn = t => Unclosed(s, n, t) = Unclosed(s, p, t) \union {n}
         /\ ~ Closes(s, n, t) /\ ~ (IsText(s, n) /\ s[n].turn = t) => Unclosed(s, n, t) = Unclosed(s, p, t)
         /\ Unclosed(s, p, t) # {} => \E m \in 1..p : s[m].turn = t
<1>1. p \in Nat /\ n \in Nat /\ n = p + 1
  BY Prefix
<1>2. ASSUME NEW m \in 1..n PROVE m \in m..n /\ n \in m..n /\ (m # n => m \in 1..p /\ m..n = (m..p) \union {n})
  BY <1>1
<1>3. 1..p \subseteq 1..n /\ n \notin 1..p /\ n \in 1..n /\ n..n = {n} /\ 1..n = (1..p) \union {n}
  BY <1>1
<1>4. Closes(s, n, t) => Unclosed(s, n, t) = {}
  BY <1>2 DEF Unclosed
<1>5. ASSUME ~ Closes(s, n, t), NEW m \in 1..p
      PROVE  m \in Unclosed(s, n, t) <=> m \in Unclosed(s, p, t)
  <2>1. m..n = (m..p) \union {n} /\ m \in 1..n
    BY <1>2, <1>3
  <2> QED BY <1>5, <2>1 DEF Unclosed
<1>6. ~ Closes(s, n, t) => (n \in Unclosed(s, n, t) <=> IsText(s, n) /\ s[n].turn = t)
  BY <1>3 DEF Unclosed
<1>7. Unclosed(s, n, t) \subseteq 1..n /\ Unclosed(s, p, t) \subseteq 1..p
  BY DEF Unclosed
<1>8. IsText(s, n) => ~ Closes(s, n, t)
  BY DEF IsText, Closes
<1>9. Unclosed(s, p, t) # {} => \E m \in 1..p : s[m].turn = t
  BY DEF Unclosed
<1> QED BY <1>3, <1>4, <1>5, <1>6, <1>7, <1>8, <1>9

LEMMA Covered ==
  ASSUME HandlerTypes, OpenText, seq < Len(script), NEW t, Unclosed(script, seq, t) # {}
  PROVE  HasOpen(t)
<1>1. PICK m \in 1..seq : script[m].turn = t
  BY DEF Unclosed
<1> QED BY <1>1 DEF OpenText, HasOpen

LEMMA OpenStep ==
  ASSUME Types, OpenText, G!Receive
  PROVE  OpenText' /\ \A u : Unclosed(script, seq', u) # {} => \E i \in DOMAIN open' : open'[i].turn = u
<1> DEFINE n == seq + 1
           t == script[n].turn
<1>0. /\ script \in Scripts /\ seq \in 0..Len(script) /\ seq \in Nat /\ seq < Len(script) /\ n \in DOMAIN script
      /\ Len(open) \in Nat /\ DOMAIN open = 1..Len(open) /\ HandlerTypes
  <2>1. n \in DOMAIN script /\ HandlerTypes
    BY ReceiveEffect DEF Types
  <2>2. n \in 1..Len(script)
    BY <2>1, OpenIsSeq, Stream
  <2> QED BY <2>1, <2>2, OpenIsSeq DEF HandlerTypes
<1>1. /\ seq' = n /\ script' = script /\ open' \in Seq(Turned')
      /\ \/ script[n].type = "started" /\ (IF HasOpen(t) THEN open' = open ELSE NewTurn(t, {}))
         \/ script[n].type = "content" /\ (IF HasOpen(t) THEN Grown(t, n) ELSE NewTurn(t, {n}))
         \/ script[n].type = "turnFinished" /\ ~ HasOpen(t) /\ open' = open
         \/ script[n].type = "turnFinished" /\ \E i \in DOMAIN open : open[i].turn = t /\ ClosedAt(i)
         \/ script[n].type \in {"runFinished", "runError"} /\ open' = open
  BY ReceiveEffect DEF Types
<1>2. DOMAIN open' = 1..Len(open')
  BY <1>1, LenProperties
<1> HIDE DEF n, t
<1>3. ASSUME NEW u
      PROVE  /\ Closes(script, n, u) => Unclosed(script, n, u) = {}
             /\ IsText(script, n) /\ t = u => Unclosed(script, n, u) = Unclosed(script, seq, u) \union {n}
             /\ ~ Closes(script, n, u) /\ ~ (IsText(script, n) /\ t = u) => Unclosed(script, n, u) = Unclosed(script, seq, u)
  BY <1>0, UnclosedNext DEF n, t
<1>4. \A u : Unclosed(script, seq, u) # {} => HasOpen(u)
  BY <1>0, Covered
<1>5. /\ \A i, j \in DOMAIN open : open[i].turn = open[j].turn => i = j
      /\ \A i \in DOMAIN open : open[i].text = Unclosed(script, seq, open[i].turn)
  BY DEF OpenText
<1> DEFINE Fits == /\ \A i, j \in DOMAIN open' : open'[i].turn = open'[j].turn => i = j
                   /\ \A i \in DOMAIN open' : open'[i].text = Unclosed(script, n, open'[i].turn)
                   /\ \A u : Unclosed(script, n, u) # {} => \E i \in DOMAIN open' : open'[i].turn = u
<1>6. SUFFICES Fits
  BY <1>1 DEF OpenText
<1>7. ASSUME open' = open,
             \A u : \/ Unclosed(script, n, u) = Unclosed(script, seq, u)
                    \/ Unclosed(script, n, u) = {} /\ ~ HasOpen(u)
      PROVE  Fits
  BY <1>4, <1>5, <1>7 DEF HasOpen
<1>8. ASSUME NEW text, NewTurn(t, text), ~ HasOpen(t), text = Unclosed(script, n, t),
             \A u : u # t => Unclosed(script, n, u) = Unclosed(script, seq, u)
      PROVE  Fits
  <2>1. DOMAIN open' = (DOMAIN open) \union {Len(open) + 1} /\ Len(open) + 1 \notin DOMAIN open
    BY <1>0, <1>2, <1>8 DEF NewTurn
  <2>2. /\ \A i \in DOMAIN open : open'[i] = open[i] /\ open[i].turn # t
        /\ open'[Len(open) + 1].turn = t /\ open'[Len(open) + 1].text = text
    BY <1>8 DEF NewTurn, HasOpen
  <2>3. \A i, j \in DOMAIN open' : open'[i].turn = open'[j].turn => i = j
    BY <1>5, <2>1, <2>2
  <2>4. \A i \in DOMAIN open' : open'[i].text = Unclosed(script, n, open'[i].turn)
    BY <1>5, <1>8, <2>1, <2>2
  <2>5. \A u : Unclosed(script, n, u) # {} => \E i \in DOMAIN open' : open'[i].turn = u
    BY <1>4, <1>8, <2>1, <2>2 DEF HasOpen
  <2> QED BY <2>3, <2>4, <2>5
<1>9. CASE script[n].type = "started" /\ (IF HasOpen(t) THEN open' = open ELSE NewTurn(t, {}))
  <2>1. \A u : Unclosed(script, n, u) = Unclosed(script, seq, u)
    BY <1>3, <1>9 DEF Closes, IsText
  <2> QED BY <1>4, <1>7, <1>8, <1>9, <2>1
<1>10. CASE script[n].type = "content" /\ (IF HasOpen(t) THEN Grown(t, n) ELSE NewTurn(t, {n}))
  <2>1. /\ \A u : u # t => Unclosed(script, n, u) = Unclosed(script, seq, u)
        /\ Unclosed(script, n, t) = Unclosed(script, seq, t) \union {n}
    BY <1>3, <1>10 DEF Closes, IsText
  <2>2. CASE ~ HasOpen(t)
    <3>1. Unclosed(script, n, t) = {n}
      BY <1>4, <2>1, <2>2
    <3> QED BY <1>8, <1>10, <2>1, <2>2, <3>1
  <2>3. CASE HasOpen(t)
    <3>1. DOMAIN open' = DOMAIN open
      BY <1>0, <1>2, <1>10, <2>3 DEF Grown
    <3>2. ASSUME NEW i \in DOMAIN open
          PROVE  /\ open'[i].turn = open[i].turn
                 /\ open'[i].text = IF open[i].turn = t THEN open[i].text \union {n} ELSE open[i].text
      <4>1. open'[i] = IF open[i].turn = t THEN [turn |-> t, text |-> open[i].text \union {n}] ELSE open[i]
        BY <1>10, <2>3 DEF Grown
      <4>2. CASE open[i].turn = t
        <5>1. open'[i] = [turn |-> t, text |-> open[i].text \union {n}]
          BY ONLY <4>1, <4>2
        <5> QED BY ONLY <4>2, <5>1
      <4>3. CASE open[i].turn # t
        <5>1. open'[i] = open[i]
          BY ONLY <4>1, <4>3
        <5> QED BY ONLY <4>3, <5>1
      <4> QED BY ONLY <4>2, <4>3
    <3>3. ASSUME NEW i \in DOMAIN open' PROVE open'[i].text = Unclosed(script, n, open'[i].turn)
      <4>1. open[i].text = Unclosed(script, seq, open[i].turn) /\ open'[i].turn = open[i].turn
        BY <1>5, <3>1, <3>2
      <4>2. open'[i].text = IF open[i].turn = t THEN open[i].text \union {n} ELSE open[i].text
        BY <3>1, <3>2
      <4>3. CASE open[i].turn = t
        BY ONLY <2>1, <4>1, <4>2, <4>3
      <4>4. CASE open[i].turn # t
        BY ONLY <2>1, <4>1, <4>2, <4>4
      <4> QED BY ONLY <4>3, <4>4
    <3>4. \A u : Unclosed(script, n, u) # {} => \E i \in DOMAIN open' : open'[i].turn = u
      BY <1>4, <2>1, <2>3, <3>1, <3>2 DEF HasOpen
    <3> QED BY <1>5, <3>1, <3>2, <3>3, <3>4
  <2> QED BY <2>2, <2>3
<1>11. CASE script[n].type = "turnFinished" /\ ~ HasOpen(t) /\ open' = open
  <2>1. /\ \A u : u # t => Unclosed(script, n, u) = Unclosed(script, seq, u)
        /\ Unclosed(script, n, t) = {}
    BY <1>3, <1>11 DEF Closes, IsText, t
  <2> QED BY <1>7, <1>11, <2>1
<1>12. ASSUME script[n].type = "turnFinished", NEW i \in DOMAIN open, open[i].turn = t, ClosedAt(i)
       PROVE  Fits
  <2>1. /\ \A u : u # t => Unclosed(script, n, u) = Unclosed(script, seq, u)
        /\ Unclosed(script, n, t) = {}
    BY <1>3, <1>12 DEF Closes, IsText, t
  <2> DEFINE old(j) == IF j < i THEN j ELSE j + 1
  <2>2. DOMAIN open' = 1..(Len(open) - 1) /\ i \in Nat /\ i >= 1 /\ i <= Len(open)
    BY <1>0, <1>2, <1>12 DEF ClosedAt
  <2>3. ASSUME NEW j \in DOMAIN open'
        PROVE  old(j) \in DOMAIN open /\ old(j) # i /\ open'[j] = open[old(j)]
    <3>1. j \in Nat /\ 1 <= j /\ j <= Len(open) - 1
      BY <2>2
    <3> QED BY <1>0, <1>12, <2>2, <3>1 DEF ClosedAt
  <2>4. ASSUME NEW j \in DOMAIN open, j # i PROVE \E k \in DOMAIN open' : old(k) = j
    <3>1. CASE j < i
      BY <1>0, <2>2, <3>1
    <3>2. CASE j > i
      <4>1. j - 1 \in DOMAIN open' /\ ~ (j - 1 < i) /\ (j - 1) + 1 = j
        BY <1>0, <2>2, <3>2
      <4> QED BY <4>1
    <3> QED BY <1>0, <2>2, <2>4, <3>1, <3>2
  <2>5. ASSUME NEW j \in DOMAIN open', NEW k \in DOMAIN open', old(j) = old(k) PROVE j = k
    <3>1. j \in Nat /\ k \in Nat
      BY <2>2
    <3> QED BY <2>2, <2>5, <3>1
  <2> HIDE DEF old
  <2>6. \A j \in DOMAIN open' : open'[j].turn # t /\ open'[j].text = Unclosed(script, n, open'[j].turn)
    BY <1>5, <1>12, <2>1, <2>3
  <2>7. \A j, k \in DOMAIN open' : open'[j].turn = open'[k].turn => j = k
    BY <1>5, <2>3, <2>5
  <2>8. ASSUME NEW u, Unclosed(script, n, u) # {} PROVE \E j \in DOMAIN open' : open'[j].turn = u
    <3>1. u # t /\ HasOpen(u)
      BY <1>4, <2>1, <2>8
    <3>2. PICK j \in DOMAIN open : open[j].turn = u
      BY <3>1 DEF HasOpen
    <3> QED BY <1>12, <2>3, <2>4, <3>1, <3>2
  <2> QED BY <2>6, <2>7, <2>8
<1>13. CASE script[n].type \in {"runFinished", "runError"} /\ open' = open
  <2>1. \A u : Unclosed(script, n, u) = Unclosed(script, seq, u)
    BY <1>3, <1>13 DEF Closes, IsText
  <2> QED BY <1>7, <1>13, <2>1
<1> QED BY <1>1, <1>9, <1>10, <1>11, <1>12, <1>13 DEF n, t

LEMMA OpenTextStep ==
  ASSUME Types, OpenText, [G!Next]_(G!vars)
  PROVE  OpenText'
<1>0. seq \in Nat /\ open \in Seq(Turned)
  BY OpenIsSeq DEF Types, HandlerTypes
<1>1. ASSUME UNCHANGED <<script, seq, open>> PROVE OpenText'
  BY <1>1 DEF OpenText
<1>2. CASE G!JournalEvent \/ G!JournalFails
  BY <1>1, <1>2, JournalEffect DEF Types
<1>3. ASSUME NEW x, Closed(x) PROVE OpenText'
  <2>1. UNCHANGED <<script, seq>> /\ Closing(x)
    BY <1>3 DEF Closed
  <2>2. CASE open' = open
    BY <1>1, <2>1, <2>2
  <2>3. CASE seq = Len(script) /\ open # <<>> /\ open' = Tail(open)
    <3>1. /\ Len(open) \in Nat /\ DOMAIN open = 1..Len(open)
          /\ DOMAIN open' = 1..(Len(open) - 1)
          /\ \A i \in 1..(Len(open) - 1) : open'[i] = open[i + 1]
      BY <1>0, <2>3, HeadTailProperties, LenProperties
    <3>2. \A i \in DOMAIN open' : i \in Nat /\ i + 1 \in DOMAIN open /\ open'[i] = open[i + 1]
      BY <3>1
    <3>3. \A i, j \in DOMAIN open' : i + 1 = j + 1 => i = j
      BY <3>2
    <3>4. /\ \A i, j \in DOMAIN open : open[i].turn = open[j].turn => i = j
          /\ \A i \in DOMAIN open : open[i].text = Unclosed(script, seq, open[i].turn)
      BY DEF OpenText
    <3>5. \A i, j \in DOMAIN open' : open'[i].turn = open'[j].turn => i = j
      BY <3>2, <3>3, <3>4
    <3>6. \A i \in DOMAIN open' : open'[i].text = Unclosed(script, seq, open'[i].turn)
      BY <3>2, <3>4
    <3>7. ~ (seq < Len(script))
      BY <1>0, <2>3
    <3> QED BY <2>1, <3>5, <3>6, <3>7 DEF OpenText
  <2> QED BY <2>1, <2>2, <2>3 DEF Closing
<1>4. CASE G!Finish
  BY <1>1, <1>4, FinishEffect DEF Types
<1>5. CASE G!Crash
  BY <1>1, <1>5, CrashEffect DEF Types
<1>6. CASE Aside
  BY <1>1, <1>6, AsideFrame
<1> QED BY <1>2, <1>3, <1>4, <1>5, <1>6, OpenStep, StepKinds

LEMMA FinishedTextStep ==
  ASSUME Types, OpenText, FinishedText, TextUnbroken, [G!Next]_(G!vars)
  PROVE  FinishedText'
<1>1. CASE G!Receive
  <2> DEFINE n == seq + 1
             t == script[n].turn
  <2>1. /\ n \in DOMAIN script /\ seq' = n /\ script' = script
        /\ \/ finished' = <<>>
           \/ script[n].type = "turnFinished" /\ \E i \in DOMAIN open : open[i].turn = t /\ finished' = <<open[i]>>
    BY <1>1, ReceiveEffect DEF Types
  <2>2. seq \in 0..Len(script) /\ script \in Scripts
    BY DEF Types, HandlerTypes
  <2> HIDE DEF n, t
  <2>3. CASE finished' = <<>>
    <3>1. DOMAIN finished' = {}
      BY <2>3
    <3> QED BY <3>1 DEF FinishedText
  <2>4. ASSUME script[n].type = "turnFinished", NEW i \in DOMAIN open, open[i].turn = t, finished' = <<open[i]>>
        PROVE  FinishedText'
    <3>1. open[i].text = Unclosed(script, seq, t)
      BY <2>4 DEF OpenText
    <3>2. n = seq + 1 /\ Closes(script, n, t)
      BY <2>4 DEF n, t, Closes
    <3>3. Unclosed(script, seq, t) # {} => IsTurn(script, Unclosed(script, seq, t), n)
      BY <2>1, <2>2, <3>2, UnclosedIsWhole
    <3>4. DOMAIN finished' = {1} /\ finished'[1] = open[i]
      BY <2>4
    <3> QED BY <2>1, <3>1, <3>3, <3>4 DEF FinishedText
  <2> QED BY <2>1, <2>3, <2>4
<1>2. CASE G!JournalEvent \/ G!JournalFails
  BY <1>2, JournalEffect DEF Types, FinishedText
<1>3. ASSUME NEW x, Closed(x) PROVE FinishedText'
  <2>1. finished' = <<>>
    BY <1>3, ClosedFrame
  <2>2. DOMAIN finished' = {}
    BY <2>1
  <2> QED BY <2>2 DEF FinishedText
<1>4. CASE G!Finish
  BY <1>4, FinishEffect DEF Types, FinishedText
<1>5. CASE G!Crash
  BY <1>5, CrashEffect DEF Types, FinishedText
<1>6. CASE Aside
  BY <1>6, AsideFrame DEF FinishedText
<1> QED BY <1>1, <1>2, <1>3, <1>4, <1>5, <1>6, StepKinds

-----------------------------------------------------------------------------
(* What is projected is a whole turn                                         *)

LEMMA CountedStep ==
  ASSUME Types, Counted, [G!Next]_(G!vars)
  PROVE  Counted'
<1>0. LiveWritesSucceed' => LiveWritesSucceed
  BY LiveWritesKept
<1>1. CASE G!Receive
  <2> DEFINE n == seq + 1
             t == script[n].turn
  <2>1. /\ handler = "next" /\ finished = <<>> /\ seq' = n /\ script' = script /\ projected' = projected
        /\ open' \in Seq(Turned')
        /\ \/ script[n].type = "started" /\ (IF HasOpen(t) THEN open' = open ELSE NewTurn(t, {}))
           \/ script[n].type = "content" /\ (IF HasOpen(t) THEN Grown(t, n) ELSE NewTurn(t, {n}))
           \/ script[n].type = "turnFinished" /\ ~ HasOpen(t) /\ open' = open
           \/ script[n].type = "turnFinished" /\ \E i \in DOMAIN open : open[i].turn = t /\ finished' = <<open[i]>> /\ ClosedAt(i)
           \/ script[n].type \in {"runFinished", "runError"} /\ open' = open
    BY <1>1, ReceiveEffect DEF Types
  <2>2. seq \in Nat /\ Len(open) \in Nat /\ DOMAIN open = 1..Len(open)
    BY OpenIsSeq DEF Types
  <2>3. n = seq + 1
    OBVIOUS
  <2> HIDE DEF n, t
  <2>4. open = <<>> <=> Len(open) = 0
    BY EmptySeq DEF Types, HandlerTypes
  <2>5. open' = <<>> <=> Len(open') = 0
    BY <2>1, EmptySeq
  <2>6. open # <<>> => open' # <<>> \/ finished' # <<>>
    <3>1. \A i : <<open[i]>> # <<>>
      OBVIOUS
    <3>2. NewTurn(t, {}) \/ NewTurn(t, {n}) => Len(open') = Len(open) + 1
      BY DEF NewTurn
    <3>3. Grown(t, n) => Len(open') = Len(open)
      BY DEF Grown
    <3>4. \/ open' = open \/ Len(open') = Len(open) + 1 \/ Len(open') = Len(open)
          \/ \E i \in DOMAIN open : finished' = <<open[i]>>
      BY <2>1, <3>2, <3>3
    <3>5. (\E i \in DOMAIN open : finished' = <<open[i]>>) => finished' # <<>>
      BY <3>1
    <3> QED BY <2>2, <2>4, <2>5, <3>4, <3>5
  <2>7. IsText(script, n) => open' # <<>>
    <3>1. HasOpen(t) => Len(open) # 0
      BY <2>2 DEF HasOpen
    <3> QED BY <2>1, <2>2, <2>5, <3>1 DEF NewTurn, Grown, IsText
  <2>8. ASSUME LiveWritesSucceed', NEW m \in 1..seq', IsText(script, m)
        PROVE  projected' > 0 \/ finished' # <<>> \/ open' # <<>>
    <3>1. CASE m = n
      BY <2>7, <2>8, <3>1
    <3>2. CASE m # n
      <4>1. m \in 1..seq
        BY <2>1, <2>2, <2>3, <3>2
      <4>2. projected > 0 \/ open # <<>>
        BY <1>0, <2>1, <2>8, <4>1 DEF Counted
      <4> QED BY <2>1, <2>6, <4>2
    <3> QED BY <3>1, <3>2
  <2> QED BY <2>1, <2>8 DEF Counted
<1>2. CASE G!JournalEvent \/ G!JournalFails
  <2>1. UNCHANGED <<script, seq, open, finished, projected>> /\ handler = "journal"
    BY <1>2, JournalEffect DEF Types
  <2> QED BY <1>0, <2>1 DEF Counted
<1>3. ASSUME NEW x, Closed(x) PROVE Counted'
  <2>1. failures'["project"] # 0 \/ projected' > 0
    BY <1>3, ClosedFrame
  <2> QED BY <2>1 DEF Counted, LiveWritesSucceed
<1>4. CASE G!Finish
  BY <1>4, FinishEffect DEF Types, Counted
<1>5. CASE G!Crash
  BY <1>5, CrashEffect DEF Types, Counted
<1>6. CASE Aside
  <2>1. UNCHANGED <<script, seq, open, finished, projected, handler>>
    BY <1>6, AsideFrame
  <2> QED BY <1>0, <2>1 DEF Counted
<1> QED BY <1>1, <1>2, <1>3, <1>4, <1>5, <1>6, StepKinds

LEMMA ClosedIsTurn ==
  ASSUME Types, OpenText, FinishedText, TextUnbroken, NEW x, Closed(x), x.text # {}
  PROVE  IsTurn(script, x.text, seq)
<1>0. script \in Scripts /\ seq \in 0..Len(script) /\ open \in Seq(Turned) /\ finished \in Seq(Turned)
  BY DEF Types, HandlerTypes
<1>1. Closing(x)
  BY DEF Closed
<1>2. CASE handler = "project" /\ finished # <<>> /\ x = finished[1]
  <2>1. 1 \in DOMAIN finished
    BY <1>0, <1>2, EmptySeq, LenProperties
  <2> QED BY <1>2, <2>1 DEF FinishedText
<1>3. CASE seq = Len(script) /\ open # <<>> /\ x = open[1]
  <2>1. 1 \in DOMAIN open
    BY <1>0, <1>3, EmptySeq, LenProperties
  <2>2. x.text = Unclosed(script, seq, x.turn)
    BY <1>3, <2>1 DEF OpenText
  <2> QED BY <1>0, <1>3, <2>2, UnclosedIsWhole
<1> QED BY <1>1, <1>2, <1>3 DEF Closing

\* An insert is an insert of a whole turn at its end.
LEMMA ProjectionStep ==
  ASSUME Types, WholeInv, TextUnbroken, [G!Next]_(G!vars)
  PROVE  /\ offset <= offset'
         /\ \/ UNCHANGED <<offset, messages>>
            \/ /\ seq' = seq /\ script' = script
               /\ \E text, n : Appended(text, n) /\ (LiveWritesSucceed' => IsTurn(script, text, n))
<1>0. LiveWritesSucceed' => LiveWritesSucceed
  BY LiveWritesKept
<1>1. CASE G!Receive
  <2>1. UNCHANGED <<offset, messages>>
    BY <1>1, ReceiveEffect DEF Types
  <2> QED BY <2>1, OpenIsSeq DEF Types, StoreTypes
<1>2. CASE G!JournalEvent \/ G!JournalFails
  BY <1>2, JournalEffect, OpenIsSeq DEF Types, StoreTypes
<1>3. ASSUME NEW x, Closed(x)
      PROVE  /\ offset <= offset'
             /\ \/ UNCHANGED <<offset, messages>>
                \/ seq' = seq /\ script' = script /\ Appended(x.text, seq) /\ IsTurn(script, x.text, seq)
  <2>1. /\ offset <= offset' /\ UNCHANGED <<script, seq>>
        /\ \/ UNCHANGED <<offset, messages>>
           \/ x.text # {} /\ Appended(x.text, seq)
    BY <1>3, ClosedFrame DEF Skipped
  <2> QED BY <1>3, <2>1, ClosedIsTurn DEF WholeInv
<1>4. CASE G!Finish
  <2>1. /\ offset <= offset' /\ UNCHANGED <<script, seq, failures>> /\ handler = "next" /\ open = <<>>
        /\ \/ UNCHANGED <<offset, messages>>
           \/ /\ projected = 0 /\ \E n \in 1..seq : IsText(script, n)
              /\ \E text : Appended(text, seq)
    BY <1>4, FinishEffect DEF Types, Skipped
  <2>2. finished = <<>>
    BY <2>1 DEF Types, HandlerTypes
  <2>3. UNCHANGED <<offset, messages>> \/ (~ LiveWritesSucceed /\ \E text : Appended(text, seq))
    BY <2>1, <2>2 DEF WholeInv, Counted
  <2> QED BY <1>0, <2>1, <2>3
<1>5. CASE G!Crash
  BY <1>5, CrashEffect, OpenIsSeq DEF Types, StoreTypes
<1>6. ASSUME NEW w \in Workers, Passes(w)
      PROVE  /\ offset <= offset'
             /\ \/ UNCHANGED <<offset, messages>>
                \/ /\ seq' = seq /\ script' = script
                   /\ \E text, n : Appended(text, n) /\ (LiveWritesSucceed' => IsTurn(script, text, n))
  <2>1. HandlerTypes /\ StoreTypes /\ PassTypes /\ offset \in Nat
    BY OpenIsSeq DEF Types, StoreTypes
  <2>2. CASE G!Recover(w)
    <3>1. /\ offset <= offset' /\ UNCHANGED <<script, seq>> /\ 1 \in DOMAIN turns[w]
          /\ UNCHANGED <<offset, messages>> \/ Appended(turns[w][1].text, turns[w][1].seq)
      BY <2>1, <2>2, RecoverEffect DEF Skipped
    <3>2. LiveWritesSucceed' => IsTurn(script, turns[w][1].text, turns[w][1].seq)
      BY <1>0, <3>1 DEF WholeInv, PassText
    <3> QED BY <3>1, <3>2
  <2>3. CASE ~ G!Recover(w)
    <3>1. UNCHANGED <<offset, messages>>
      BY <1>6, <2>1, <2>3, ReadOffsetEffect, ReadJournalEffect, RecoverFailsEffect DEF Passes
    <3> QED BY <2>1, <3>1
  <2> QED BY <2>2, <2>3
<1>7. CASE Still
  BY <1>7, OpenIsSeq DEF Still, Types, StoreTypes
<1> QED BY <1>1, <1>2, <1>3, <1>4, <1>5, <1>6, <1>7, StepKinds DEF Aside

LEMMA SameScript ==
  ASSUME Types, [G!Next]_(G!vars)
  PROVE  script' = script
BY StepKinds, ReceiveEffect, JournalEffect, ClosedFrame, FinishEffect, CrashEffect, AsideFrame DEF Types

LEMMA AppendedMessages ==
  ASSUME Types, [G!Next]_(G!vars), NEW text, NEW n, Appended(text, n)
  PROVE  /\ DOMAIN messages' = (DOMAIN messages) \union {Len(messages) + 1} /\ Len(messages) + 1 \notin DOMAIN messages
         /\ \A i \in DOMAIN messages : messages'[i] = messages[i] /\ i < Len(messages) + 1
         /\ messages'[Len(messages) + 1].text = text /\ messages'[Len(messages) + 1].seq = n
         /\ \A i \in DOMAIN messages' : messages'[i].seq \in Nat
<1>1. Types'
  BY ProjectionSteps, TypesStep
<1>2. Len(messages) \in Nat /\ DOMAIN messages = 1..Len(messages)
  BY MessagesAreSeq DEF Types
<1>3. Len(messages') \in Nat /\ DOMAIN messages' = 1..Len(messages') /\ \A i \in DOMAIN messages' : messages'[i] \in Received'
  BY <1>1, LenProperties, ElementOfSeq DEF Types, StoreTypes
<1>4. \A i \in DOMAIN messages' : messages'[i].seq \in Nat
  BY <1>3 DEF Received
<1> QED BY <1>2, <1>3, <1>4 DEF Appended

LEMMA MessagesStep ==
  ASSUME Types, WholeInv, TextUnbroken, [G!Next]_(G!vars)
  PROVE  MessageText' /\ MessagesRise'
<1>0. LiveWritesSucceed' => LiveWritesSucceed
  BY LiveWritesKept
<1>1. script' = script
  BY SameScript
<1>2. CASE UNCHANGED <<offset, messages>>
  BY <1>0, <1>1, <1>2 DEF WholeInv, MessageText, MessagesRise
<1>3. ASSUME NEW text, NEW n, Appended(text, n), LiveWritesSucceed' => IsTurn(script, text, n)
      PROVE  MessageText' /\ MessagesRise'
  <2> DEFINE z == Len(messages) + 1
  <2>0. Appended(text, n)
    BY <1>3
  <2>1. /\ DOMAIN messages' = (DOMAIN messages) \union {z} /\ z \notin DOMAIN messages
        /\ \A i \in DOMAIN messages : messages'[i] = messages[i] /\ i < z
        /\ messages'[z].text = text /\ messages'[z].seq = n
        /\ \A i \in DOMAIN messages' : messages'[i].seq \in Nat
    BY <2>0, AppendedMessages
  <2>2. offset < n /\ offset' = n /\ offset \in Nat /\ z \in Nat /\ DOMAIN messages \subseteq Nat
    BY <1>3, OpenIsSeq, MessagesAreSeq DEF Appended, Types, StoreTypes
  <2> HIDE DEF z
  <2>3. MessageText'
    BY <1>0, <1>1, <1>3, <2>1 DEF WholeInv, MessageText
  <2>4. \A i \in DOMAIN messages : messages[i].seq < n /\ messages[i].seq <= offset'
    BY <2>1, <2>2 DEF WholeInv, MessagesRise
  <2>5. \A i \in DOMAIN messages' : messages'[i].seq <= offset'
    BY <2>1, <2>2, <2>4
  <2>6. ASSUME NEW i \in DOMAIN messages', NEW j \in DOMAIN messages', i < j
        PROVE  messages'[i].seq < messages'[j].seq
    <3>1. CASE j = z
      BY <2>1, <2>2, <2>4, <2>6, <3>1
    <3>2. CASE j # z
      <4>1. j \in DOMAIN messages /\ i \in DOMAIN messages
        BY <2>1, <2>2, <2>6, <3>2
      <4> QED BY <2>1, <2>6, <4>1 DEF WholeInv, MessagesRise
    <3> QED BY <3>1, <3>2
  <2> QED BY <2>3, <2>5, <2>6 DEF MessagesRise
<1> QED BY <1>2, <1>3, ProjectionStep

LEMMA EndsStep ==
  ASSUME Types, WholeInv, TextUnbroken, [G!Next]_(G!vars)
  PROVE  Ends'
<1> SUFFICES ASSUME LiveWritesSucceed' PROVE IsEnd(script, offset') /\ \A w \in Workers : IsEnd(script, from'[w])
  BY SameScript DEF Ends
<1>1. IsEnd(script, offset) /\ \A w \in Workers : IsEnd(script, from[w])
  BY LiveWritesKept DEF WholeInv, Ends
<1>2. IsEnd(script, offset')
  <2>1. \A text, n : IsTurn(script, text, n) => IsEnd(script, n)
    BY DEF IsTurn, IsEnd
  <2> QED BY <1>1, <2>1, ProjectionStep DEF Appended
<1>3. \A w \in Workers : from'[w] \in {from[w], offset}
  <2>1. CASE Aside
    <3>1. ASSUME NEW v \in Workers, Passes(v) PROVE \A w \in Workers : from'[w] \in {from[w], offset}
      BY <3>1, ReadOffsetEffect, ReadJournalEffect, RecoverEffect, RecoverFailsEffect DEF Passes, Types
    <3>2. CASE Still
      BY <3>2 DEF Still
    <3> QED BY <2>1, <3>1, <3>2 DEF Aside
  <2>2. CASE ~ Aside
    BY <2>2, StepKinds, ReceiveEffect, JournalEffect, ClosedFrame, FinishEffect, CrashEffect DEF Types
  <2> QED BY <2>1, <2>2
<1> QED BY <1>1, <1>2, <1>3

\* S is what is in the journal above an offset, when p events were received.
IsSeen(S, o, p) == S \subseteq {n \in 1..p : n > o} /\ \A n \in 1..(p - 1) : n > o => n \in S

LEMMA SeenIsJournal ==
  ASSUME Types, Written, LiveWritesSucceed, NEW w \in Workers
  PROVE  IsSeen(Seen(w), from[w], seq)
<1>1. journal \subseteq 1..seq /\ 1..(seq - 1) \subseteq journal
  BY DEF Types, HandlerTypes, Written, LiveWritesSucceed
<1> QED BY <1>1 DEF IsSeen, Seen

\* A turn whose end is in the journal is there as a whole.
LEMMA JournaledIsWhole ==
  ASSUME NEW s \in Scripts, TextUnbroken, FinishedIsLast, NEW p \in 0..Len(s), NEW o \in Nat, IsEnd(s, o),
         NEW S, IsSeen(S, o, p), NEW t \in TurnsOf(s),
         NEW e \in EndsIn(s, S, t), \A k \in EndsIn(s, S, t) : e <= k
  PROVE  TextIn(s, S, t) = ContentOf(s, t) /\ e = EndOf(s, t)
<1>0. Len(s) \in Nat /\ p \in Nat /\ p <= Len(s) /\ 1..p \subseteq DOMAIN s /\ DOMAIN s = 1..Len(s)
  BY Prefix, Stream
<1>1. /\ S \subseteq DOMAIN s /\ \A n \in S : n \in Nat /\ n >= 1 /\ n <= p /\ n > o
      /\ \A n \in Nat : 1 <= n /\ n < p /\ n > o => n \in S
  BY <1>0 DEF IsSeen
<1>2. PICK m \in TextIn(s, S, t) : m < e
  BY DEF EndsIn
<1>3. e \in S /\ m \in S /\ IsText(s, m) /\ s[m].turn = t /\ (Closes(s, e, t) \/ s[e].type = "runFinished")
  BY DEF EndsIn, TextIn
<1>4. m \in ContentOf(s, t)
  BY <1>1, <1>3 DEF ContentOf
<1>5. s[e].type = "runFinished" => e = Len(s)
  BY <1>0, <1>1, <1>3 DEF FinishedIsLast
<1>6. Closes(s, e, t) => e \in EndsAt(s, t)
  BY <1>1, <1>2, <1>3, <1>4 DEF EndsAt
<1>7. ASSUME NEW n \in ContentOf(s, t) PROVE n \in TextIn(s, S, t)
  <2>1. n \in DOMAIN s /\ n \in Nat /\ n >= 1 /\ n <= Len(s) /\ IsText(s, n) /\ s[n].turn = t
    <3>1. n \in DOMAIN s /\ IsText(s, n) /\ s[n].turn = t
      BY TextIs
    <3> QED BY <1>0, <3>1
  <2>2. n > o
    <3>1. n <= o => m <= o
      BY <1>4, EndCutsNone
    <3> QED BY <1>1, <1>3, <2>1, <3>1
  <2>3. n < e
    <3>1. CASE Closes(s, e, t)
      BY <1>6, <3>1, TextBeforeEnd
    <3>2. CASE s[e].type = "runFinished"
      <4>1. n # e
        BY <2>1, <3>2 DEF IsText
      <4> QED BY <1>0, <1>1, <1>5, <2>1, <3>2, <4>1
    <3> QED BY <1>3, <3>1, <3>2
  <2>4. n \in S
    BY <1>0, <1>1, <1>3, <2>1, <2>2, <2>3
  <2> QED BY <2>1, <2>4 DEF TextIn
<1>8. TextIn(s, S, t) = ContentOf(s, t)
  <2>1. TextIn(s, S, t) \subseteq ContentOf(s, t)
    BY <1>1 DEF TextIn, ContentOf
  <2> QED BY <1>7, <2>1
<1>9. e = EndOf(s, t)
  <2>1. CASE EndsAt(s, t) = {}
    <3>1. e = Len(s)
      BY <1>3, <1>5, <1>6, <2>1
    <3> QED BY <2>1, <3>1 DEF EndOf
  <2>2. CASE EndsAt(s, t) # {}
    <3> DEFINE k == EndOf(s, t)
    <3>1. k \in EndsAt(s, t) /\ \A j \in EndsAt(s, t) : k <= j
      BY <2>2, EndFacts
    <3> HIDE DEF k
    <3>2. k \in DOMAIN s /\ k \in Nat /\ k >= 1 /\ k <= Len(s) /\ Closes(s, k, t) /\ m < k
      <4>1. k \in DOMAIN s /\ Closes(s, k, t)
        BY <3>1 DEF EndsAt
      <4> QED BY <1>0, <1>4, <3>1, <4>1, TextBeforeEnd
    <3>3. k <= e
      BY <1>3, <1>5, <1>6, <3>1, <3>2
    <3>4. k \in S
      BY <1>0, <1>1, <1>3, <3>2, <3>3
    <3>5. k \in EndsIn(s, S, t)
      BY <1>2, <3>2, <3>4 DEF EndsIn
    <3>6. e <= k
      BY <3>5
    <3>7. e = k
      BY <1>1, <1>3, <3>2, <3>3, <3>6
    <3> QED BY <3>7 DEF k
  <2> QED BY <2>1, <2>2
<1> QED BY <1>8, <1>9

\* A pass does not overlook a turn that ends before one it found.
LEMMA JournaledAreAll ==
  ASSUME NEW s \in Scripts, TextUnbroken, TurnByTurn, NEW p \in 0..Len(s), NEW o \in Nat, IsEnd(s, o),
         NEW S, IsSeen(S, o, p), NEW t \in TurnsOf(s), o < EndOf(s, t), EndOf(s, t) < p
  PROVE  EndsIn(s, S, t) # {}
<1> DEFINE k == EndOf(s, t)
<1>0. Len(s) \in Nat /\ p \in Nat /\ p <= Len(s) /\ 1..p \subseteq DOMAIN s /\ DOMAIN s = 1..Len(s)
  BY Prefix, Stream
<1>1. k \in DOMAIN s /\ (k # Len(s) => k \in EndsAt(s, t))
  BY EndFacts
<1>2. k \in Nat /\ k >= 1 /\ k <= p - 1 /\ o < k /\ k # Len(s)
  BY <1>0, <1>1
<1>3. k \in S
  BY <1>0, <1>2 DEF IsSeen
<1>4. Closes(s, k, t)
  BY <1>1, <1>2 DEF EndsAt
<1>5. PICK m \in ContentOf(s, t) : m < k
  BY <1>1, <1>2 DEF EndsAt
<1>6. m \in DOMAIN s /\ m \in Nat /\ m >= 1 /\ IsText(s, m) /\ s[m].turn = t
  <2>1. m \in DOMAIN s /\ IsText(s, m) /\ s[m].turn = t
    BY TextIs
  <2> QED BY <1>0, <2>1
<1>7. o < m
  <2>1. CASE o = 0
    BY <1>6, <2>1
  <2>2. ASSUME NEW x \in TurnsOf(s), o = EndOf(s, x) PROVE o < m
    <3>1. x # t
      BY <1>2, <2>2
    <3>2. CASE \A n \in ContentOf(s, t) : EndOf(s, x) < n
      BY <2>2, <3>2
    <3>3. CASE \A n \in ContentOf(s, x) : EndOf(s, t) < n
      <4>1. PICK n \in ContentOf(s, x) : n <= o
        BY <2>2, EndFacts
      <4>2. n \in Nat
        BY <1>0, <4>1, TextIs
      <4> QED BY <1>2, <3>3, <4>1, <4>2
    <3> QED BY <3>1, <3>2, <3>3, TurnsApart
  <2> QED BY <2>1, <2>2 DEF IsEnd
<1>8. m \in S
  <2>0. k \in Nat /\ k <= p - 1 /\ m < k /\ m \in Nat /\ m >= 1 /\ p \in Nat
    BY <1>0, <1>2, <1>5, <1>6
  <2> HIDE DEF k
  <2>1. m \in 1..(p - 1)
    BY ONLY <2>0
  <2> QED BY <1>7, <2>1 DEF IsSeen
<1>9. k \in EndsIn(s, S, t)
  <2> HIDE DEF k
  <2>1. m \in TextIn(s, S, t)
    BY <1>6, <1>8 DEF TextIn
  <2> QED BY <1>3, <1>4, <1>5, <2>1 DEF EndsIn
<1> QED BY <1>9

LEMMA FoundAreTurns ==
  ASSUME Types, Written, Ends, LiveWritesSucceed, TextUnbroken, FinishedIsLast, NEW w \in Workers
  PROVE  /\ \A c \in G!Completed(Seen(w)) : IsTurn(script, c.text, c.seq)
         /\ TurnByTurn => \A c \in G!Completed(Seen(w)) : \A t \in TurnsOf(script) :
              from[w] < EndOf(script, t) /\ EndOf(script, t) < c.seq =>
                \E d \in G!Completed(Seen(w)) : d.seq = EndOf(script, t)
<1> DEFINE S == Seen(w)
<1>0. script \in Scripts /\ seq \in 0..Len(script) /\ from[w] \in Nat /\ HandlerTypes /\ IsEnd(script, from[w])
  BY PassesAre DEF Types, HandlerTypes, Ends
<1>1. IsSeen(S, from[w], seq)
  BY SeenIsJournal
<1>2. S \in SUBSET (1..seq)
  BY <1>1 DEF IsSeen
<1> HIDE DEF S
<1>3. ASSUME NEW t \in TurnsOf(script), NEW e \in EndsIn(script, S, t), \A k \in EndsIn(script, S, t) : e <= k
      PROVE  TextIn(script, S, t) = ContentOf(script, t) /\ e = EndOf(script, t)
  BY <1>0, <1>1, <1>3, JournaledIsWhole
<1>4. \A c \in G!Completed(S) : IsTurn(script, c.text, c.seq)
  BY <1>0, <1>2, <1>3, CompletedFacts DEF IsTurn
<1>5. ASSUME TurnByTurn, NEW c \in G!Completed(S), NEW t \in TurnsOf(script), from[w] < EndOf(script, t), EndOf(script, t) < c.seq
      PROVE  \E d \in G!Completed(S) : d.seq = EndOf(script, t)
  <2>1. c.seq \in 1..seq /\ seq \in Nat
    BY <1>0, <1>2, CompletedFacts, OpenIsSeq DEF Received
  <2>2. EndOf(script, t) \in Nat
    BY <1>0, EndFacts, Stream
  <2>3. EndOf(script, t) < seq
    BY <1>5, <2>1, <2>2
  <2>4. EndsIn(script, S, t) # {}
    BY <1>0, <1>1, <1>5, <2>3, JournaledAreAll
  <2> QED BY <1>0, <1>2, <1>3, <2>4, CompletedFacts
<1> QED BY <1>4, <1>5 DEF S

LEMMA PassTextStep ==
  ASSUME Types, WholeInv, TextUnbroken, FinishedIsLast, [G!Next]_(G!vars)
  PROVE  PassText'
<1> SUFFICES ASSUME LiveWritesSucceed', NEW w \in Workers, NEW i \in DOMAIN turns'[w]
             PROVE  IsTurn(script, turns'[w][i].text, turns'[w][i].seq)
  BY SameScript DEF PassText
<1>1. LiveWritesSucceed /\ PassText /\ Written /\ Ends
  BY LiveWritesKept DEF WholeInv
<1>2. CASE turns'[w] = turns[w]
  BY <1>1, <1>2 DEF PassText
<1>3. CASE Aside
  <2>1. HandlerTypes /\ StoreTypes /\ PassTypes
    BY DEF Types
  <2>2. ASSUME NEW v \in Workers, G!ReadOffset(v) PROVE turns'[w] = turns[w]
    BY <2>1, <2>2, ReadOffsetEffect
  <2>3. ASSUME NEW v \in Workers, G!ReadJournal(v), v = w PROVE IsTurn(script, turns'[w][i].text, turns'[w][i].seq)
    BY <1>1, <2>1, <2>3, ReadJournalEffect, FoundAreTurns
  <2>4. ASSUME NEW v \in Workers, G!ReadJournal(v), v # w PROVE turns'[w] = turns[w]
    BY <2>1, <2>4, ReadJournalEffect
  <2>5. ASSUME NEW v \in Workers, G!Recover(v), v = w PROVE IsTurn(script, turns'[w][i].text, turns'[w][i].seq)
    BY <1>1, <2>1, <2>5, RecoverEffect DEF PassText
  <2>6. ASSUME NEW v \in Workers, G!Recover(v), v # w PROVE turns'[w] = turns[w]
    BY <2>1, <2>6, RecoverEffect
  <2>7. ASSUME NEW v \in Workers, G!RecoverFails(v) PROVE turns'[w] = turns[w]
    <3>1. turns'[w] \in {<<>>, turns[w]}
      BY <2>1, <2>7, RecoverFailsEffect
    <3>2. turns'[w] # <<>>
      <4>1. CASE turns'[w] = <<>>
        <5>1. DOMAIN turns'[w] = {}
          BY <4>1
        <5> QED BY <5>1
      <4> QED BY <4>1
    <3> QED BY <3>1, <3>2
  <2>8. CASE Still
    BY <1>2, <2>8 DEF Still
  <2> QED BY <1>2, <1>3, <2>2, <2>3, <2>4, <2>5, <2>6, <2>7, <2>8 DEF Aside, Passes
<1>4. CASE ~ Aside
  <2>1. turns' = turns
    BY <1>4, StepKinds, ReceiveEffect, JournalEffect, ClosedFrame, FinishEffect, CrashEffect DEF Types
  <2> QED BY <1>2, <2>1
<1> QED BY <1>3, <1>4

LEMMA WholeStep ==
  ASSUME Types, WholeInv, TextUnbroken, FinishedIsLast, [G!Next]_(G!vars)
  PROVE  WholeInv'
<1>1. Written' /\ OpenText' /\ FinishedText' /\ Counted'
  BY WrittenStep, OpenTextStep, FinishedTextStep, CountedStep DEF WholeInv
<1>2. Ends' /\ PassText' /\ MessageText' /\ MessagesRise'
  BY EndsStep, PassTextStep, MessagesStep
<1> QED BY <1>1, <1>2 DEF WholeInv

-----------------------------------------------------------------------------
(* No turn is left out                                                       *)

LEMMA DoneStep ==
  ASSUME Types, DoneIsEnd, [G!Next]_(G!vars)
  PROVE  DoneIsEnd'
<1>1. CASE G!Receive
  BY <1>1, ReceiveEffect DEF Types, DoneIsEnd
<1>2. CASE G!JournalEvent \/ G!JournalFails
  <2>1. script' = script /\ handler = "journal" /\ (handler' = "done" => script[seq].type = "runError")
    BY <1>2, JournalEffect DEF Types
  <2>2. seq \in 1..Len(script)
    BY <2>1, OpenIsSeq DEF Types, HandlerTypes
  <2> QED BY <2>1, <2>2 DEF DoneIsEnd
<1>3. ASSUME NEW x, Closed(x) PROVE DoneIsEnd'
  <2>1. handler' = "next"
    BY <1>3, ClosedFrame
  <2> QED BY <2>1 DEF DoneIsEnd
<1>4. CASE G!Finish
  <2>1. UNCHANGED <<script, seq, open, finished>> /\ seq = Len(script) /\ open = <<>> /\ finished = <<>>
    BY <1>4, FinishEffect DEF Types, HandlerTypes
  <2> QED BY <2>1 DEF DoneIsEnd
<1>5. CASE G!Crash
  <2>1. handler' = "dead"
    BY <1>5, CrashEffect DEF Types
  <2> QED BY <2>1 DEF DoneIsEnd
<1>6. CASE Aside
  BY <1>6, AsideFrame DEF DoneIsEnd
<1> QED BY <1>1, <1>2, <1>3, <1>4, <1>5, <1>6, StepKinds

\* Where a turn ends: what was received of it is open until then.
LEMMA OpenAtEnd ==
  ASSUME NEW s \in Scripts, TextUnbroken, NEW p \in 0..Len(s), NEW t \in TurnsOf(s),
         \/ EndOf(s, t) = p + 1 /\ EndOf(s, t) \in EndsAt(s, t)
         \/ EndOf(s, t) = p /\ EndOf(s, t) \notin EndsAt(s, t)
  PROVE  Unclosed(s, p, t) # {}
<1>0. Len(s) \in Nat /\ p \in Nat /\ p <= Len(s) /\ 1..p \subseteq DOMAIN s /\ DOMAIN s = 1..Len(s)
  BY Prefix, Stream
<1>1. /\ \A k \in EndsAt(s, t) : EndOf(s, t) <= k
      /\ EndsAt(s, t) # {} => EndOf(s, t) \in EndsAt(s, t)
      /\ \A n \in ContentOf(s, t) : n <= EndOf(s, t)
  BY EndFacts
<1>2. PICK m \in ContentOf(s, t) : TRUE
  BY EndFacts
<1>3. m \in DOMAIN s /\ IsText(s, m) /\ s[m].turn = t
  BY TextIs
<1>4. m \in Nat /\ m >= 1 /\ m <= EndOf(s, t)
  BY <1>0, <1>1, <1>2, <1>3
<1>5. m <= p
  <2>1. CASE EndOf(s, t) = p + 1 /\ EndOf(s, t) \in EndsAt(s, t)
    <3>1. m < EndOf(s, t)
      BY <1>2, <2>1, TextBeforeEnd
    <3> QED BY <1>0, <1>4, <2>1, <3>1
  <2>2. CASE EndOf(s, t) = p
    BY <1>4, <2>2
  <2> QED BY <2>1, <2>2
<1>6. ASSUME NEW k \in m..p, Closes(s, k, t) PROVE FALSE
  <2>1. k \in 1..p /\ k \in Nat /\ m <= k /\ k <= p
    BY ONLY <1>0, <1>4, <1>6
  <2>2. k # m
    BY <1>3, <1>6 DEF IsText, Closes
  <2>3. k \in EndsAt(s, t)
    BY <1>0, <1>2, <1>4, <1>6, <2>1, <2>2 DEF EndsAt
  <2> QED BY <1>0, <1>1, <2>1, <2>3
<1>7. m \in Unclosed(s, p, t)
  BY <1>0, <1>3, <1>4, <1>5, <1>6 DEF Unclosed
<1> QED BY <1>7

LEMMA CaughtUpReceive ==
  ASSUME Types, OpenText, OpenText', CaughtUp, TextUnbroken, G!Receive, LiveWritesSucceed,
         NEW t \in TurnsOf(script), EndOf(script, t) <= seq'
  PROVE  EndOf(script, t) <= offset' \/ (EndOf(script, t) = seq' /\ Waiting(t)')
<1> DEFINE n == seq + 1
           u == script[n].turn
           e == EndOf(script, t)
<1>0. script \in Scripts /\ seq \in 0..Len(script) /\ seq \in Nat /\ Len(script) \in Nat /\ offset \in Nat /\ HandlerTypes
  BY OpenIsSeq DEF Types, HandlerTypes, StoreTypes
<1>1. /\ handler = "next" /\ finished = <<>> /\ n \in DOMAIN script
      /\ seq' = n /\ UNCHANGED <<script, offset>>
      /\ \/ script[n].type # "turnFinished"
         \/ ~ HasOpen(u)
         \/ \E i \in DOMAIN open : open[i].turn = u /\ finished' = <<open[i]>>
  BY ReceiveEffect DEF Types
<1>2. n \in 1..Len(script) /\ n \in 0..Len(script) /\ n = seq + 1 /\ seq < Len(script)
  BY <1>0, <1>1, Stream
<1>3. e \in DOMAIN script /\ e \in Nat /\ e <= n
  BY <1>0, <1>1, EndFacts, Stream
<1>4. e # Len(script) => e \in EndsAt(script, t)
  BY <1>0, EndFacts
<1> HIDE DEF n, u, e
<1>5. CASE e <= seq
  <2>1. ~ Waiting(t)
    <3>1. DOMAIN finished = {}
      BY <1>1
    <3> QED BY <1>0, <1>2, <3>1 DEF Waiting
  <2> QED BY <1>1, <1>5, <2>1 DEF CaughtUp, e
<1>6. CASE e = n /\ e \in EndsAt(script, t)
  <2>1. Unclosed(script, seq, t) # {}
    BY <1>0, <1>2, <1>6, OpenAtEnd DEF e
  <2>2. HasOpen(t)
    BY <1>0, <1>2, <2>1, Covered
  <2>3. Closes(script, n, t)
    BY <1>6 DEF EndsAt
  <2>4. u = t /\ script[n].type = "turnFinished"
    BY <2>3 DEF Closes, u
  <2>5. PICK i \in DOMAIN open : open[i].turn = t /\ finished' = <<open[i]>>
    BY <1>1, <2>2, <2>4
  <2>6. open[i].text # {}
    BY <2>1, <2>5 DEF OpenText
  <2>7. 1 \in DOMAIN finished' /\ finished'[1] = open[i]
    BY <2>5
  <2>8. Waiting(t)'
    BY <2>5, <2>6, <2>7 DEF Waiting
  <2> QED BY <1>1, <1>6, <2>8 DEF e
<1>7. CASE e = n /\ e \notin EndsAt(script, t)
  <2>1. Unclosed(script, n, t) # {}
    BY <1>0, <1>2, <1>7, OpenAtEnd DEF e
  <2>2. PICK i \in DOMAIN open' : open'[i].turn = t
    BY <1>1, <2>1, OpenStep
  <2>3. open'[i].text # {}
    BY <1>1, <2>1, <2>2 DEF OpenText
  <2>4. seq' = Len(script')
    BY <1>1, <1>4, <1>7
  <2>5. Waiting(t)'
    BY <2>2, <2>3, <2>4 DEF Waiting
  <2> QED BY <1>1, <1>7, <2>5 DEF e
<1> QED BY <1>0, <1>2, <1>3, <1>5, <1>6, <1>7

LEMMA CaughtUpClosed ==
  ASSUME Types, CaughtUp, NEW x, Closed(x), LiveWritesSucceed, LiveWritesSucceed', TextUnbroken,
         NEW t \in TurnsOf(script), EndOf(script, t) <= seq
  PROVE  EndOf(script, t) <= offset' \/ (EndOf(script, t) = seq /\ Waiting(t)')
<1>0. /\ script \in Scripts /\ seq \in Nat /\ offset \in Nat /\ offset' \in Nat /\ EndOf(script, t) \in Nat
      /\ open \in Seq(Turned) /\ finished \in Seq(Turned) /\ Len(finished) <= 1
  <2>1. script \in Scripts /\ seq \in Nat /\ offset \in Nat /\ offset' \in 0..seq
    BY ClosingEffect, OpenIsSeq DEF Closed, Types, StoreTypes
  <2> QED BY <2>1, EndFacts, Stream DEF Types, HandlerTypes
<1>1. /\ UNCHANGED <<script, seq>> /\ handler \in {"next", "project"} /\ offset <= offset' /\ Closing(x)
      /\ x.text # {} => seq <= offset'
  BY ClosedFrame DEF Closed, LiveWritesSucceed
<1>2. EndOf(script, t) <= offset \/ (EndOf(script, t) = seq /\ Waiting(t))
  BY <1>1 DEF CaughtUp
<1>3. CASE EndOf(script, t) <= offset
  BY <1>0, <1>1, <1>3
<1>4. ASSUME EndOf(script, t) = seq, NEW i \in DOMAIN finished, finished[i].turn = t, finished[i].text # {}
      PROVE  EndOf(script, t) <= offset'
  <2>1. i = 1 /\ finished # <<>>
    BY <1>0, LenProperties, EmptySeq
  <2>2. x = finished[1]
    BY <1>1, <2>1 DEF Closing
  <2> QED BY <1>1, <1>4, <2>1, <2>2
<1>5. ASSUME EndOf(script, t) = seq, seq = Len(script), NEW i \in DOMAIN open, open[i].turn = t, open[i].text # {}
      PROVE  EndOf(script, t) <= offset' \/ Waiting(t)'
  <2>1. CASE open' = open
    BY <1>1, <1>5, <2>1 DEF Waiting
  <2>2. CASE open # <<>> /\ x = open[1] /\ open' = Tail(open)
    <3>1. CASE i = 1
      BY <1>1, <1>5, <2>2, <3>1
    <3>2. CASE i # 1
      <4>1. /\ Len(open) \in Nat /\ DOMAIN open = 1..Len(open)
            /\ DOMAIN open' = 1..(Len(open) - 1) /\ \A j \in 1..(Len(open) - 1) : open'[j] = open[j + 1]
        BY <1>0, <2>2, HeadTailProperties, LenProperties
      <4>2. i - 1 \in DOMAIN open' /\ (i - 1) + 1 = i
        BY <3>2, <4>1
      <4>3. open'[i - 1] = open[i]
        BY <4>1, <4>2
      <4> QED BY <1>1, <1>5, <4>2, <4>3 DEF Waiting
    <3> QED BY <3>1, <3>2
  <2> QED BY <1>1, <2>1, <2>2 DEF Closing
<1> QED BY <1>1, <1>2, <1>3, <1>4, <1>5 DEF Waiting

LEMMA CaughtUpStep ==
  ASSUME Types, WholeInv, CaughtUp, TextUnbroken, [G!Next]_(G!vars)
  PROVE  CaughtUp'
<1> SUFFICES ASSUME LiveWritesSucceed', handler' # "dead", NEW t \in TurnsOf(script), EndOf(script, t) <= seq'
             PROVE  EndOf(script, t) <= offset' \/ (EndOf(script, t) = seq' /\ Waiting(t)')
  BY SameScript DEF CaughtUp
<1>0. LiveWritesSucceed /\ OpenText /\ OpenText'
  BY LiveWritesKept, OpenTextStep DEF WholeInv
<1>1. offset \in Nat /\ offset' \in Nat /\ offset <= offset' /\ EndOf(script, t) \in Nat
  <2>1. Types'
    BY TypesStep, ProjectionSteps
  <2>2. offset \in Nat /\ offset' \in Nat
    BY <2>1, OpenIsSeq DEF Types, StoreTypes
  <2>3. EndOf(script, t) \in Nat
    BY EndFacts, Stream DEF Types, HandlerTypes
  <2> QED BY <2>2, <2>3, ProjectionStep
<1>2. ASSUME UNCHANGED <<script, seq, open, finished>>, handler # "dead"
      PROVE  EndOf(script, t) <= offset' \/ (EndOf(script, t) = seq' /\ Waiting(t)')
  <2>1. EndOf(script, t) <= offset \/ (EndOf(script, t) = seq /\ Waiting(t))
    BY <1>0, <1>2 DEF CaughtUp
  <2>2. Waiting(t)' <=> Waiting(t)
    BY <1>2 DEF Waiting
  <2> QED BY <1>1, <1>2, <2>1, <2>2
<1>3. CASE G!Receive
  BY <1>0, <1>3, CaughtUpReceive
<1>4. CASE G!JournalEvent \/ G!JournalFails
  BY <1>2, <1>4, JournalEffect DEF Types
<1>5. ASSUME NEW x, Closed(x)
      PROVE  EndOf(script, t) <= offset' \/ (EndOf(script, t) = seq' /\ Waiting(t)')
  <2>1. seq' = seq
    BY <1>5, ClosedFrame
  <2> QED BY <1>0, <1>5, <2>1, CaughtUpClosed
<1>6. CASE G!Finish
  BY <1>2, <1>6, FinishEffect DEF Types
<1>7. CASE G!Crash
  BY <1>7, CrashEffect DEF Types
<1>8. CASE Aside
  BY <1>2, <1>8, AsideFrame
<1> QED BY <1>3, <1>4, <1>5, <1>6, <1>7, <1>8, StepKinds

\* Between the offset and a turn that is inserted, no turn ends.
LEMMA NoneBetween ==
  ASSUME Types, WholeInv, CaughtUp, PassLeavesNone, TextUnbroken, [G!Next]_(G!vars), LiveWritesSucceed'
  PROVE  \/ UNCHANGED <<offset, messages>>
         \/ \E u \in TurnsOf(script) :
              /\ Appended(ContentOf(script, u), EndOf(script, u))
              /\ \A t \in TurnsOf(script) : EndOf(script, t) < EndOf(script, u) => EndOf(script, t) <= offset
<1>0. LiveWritesSucceed /\ script \in Scripts /\ \A t \in TurnsOf(script) : EndOf(script, t) \in Nat
  BY LiveWritesKept, EndFacts, Stream DEF Types, HandlerTypes
<1>1. ASSUME NEW x, Closed(x), ~ UNCHANGED <<offset, messages>>
      PROVE  \E u \in TurnsOf(script) :
               /\ Appended(ContentOf(script, u), EndOf(script, u))
               /\ \A t \in TurnsOf(script) : EndOf(script, t) < EndOf(script, u) => EndOf(script, t) <= offset
  <2>1. handler # "dead" /\ x.text # {} /\ Appended(x.text, seq)
    BY <1>1, ClosedFrame DEF Skipped
  <2>2. PICK u \in TurnsOf(script) : x.text = ContentOf(script, u) /\ seq = EndOf(script, u)
    BY <1>1, <2>1, ClosedIsTurn DEF WholeInv, IsTurn
  <2>3. ASSUME NEW t \in TurnsOf(script), EndOf(script, t) < EndOf(script, u) PROVE EndOf(script, t) <= offset
    <3>1. EndOf(script, t) <= seq /\ EndOf(script, t) # seq
      BY <1>0, <2>2, <2>3
    <3> QED BY <1>0, <2>1, <3>1 DEF CaughtUp
  <2> QED BY <2>1, <2>2, <2>3
<1>2. CASE G!Finish
  <2>1. /\ handler = "next" /\ open = <<>>
        /\ UNCHANGED <<offset, messages>> \/ (projected = 0 /\ \E n \in 1..seq : IsText(script, n))
    BY <1>2, FinishEffect DEF Types
  <2>2. finished = <<>>
    BY <2>1 DEF Types, HandlerTypes
  <2> QED BY <1>0, <2>1, <2>2 DEF WholeInv, Counted
<1>3. ASSUME NEW w \in Workers, G!Recover(w), ~ UNCHANGED <<offset, messages>>
      PROVE  \E u \in TurnsOf(script) :
               /\ Appended(ContentOf(script, u), EndOf(script, u))
               /\ \A t \in TurnsOf(script) : EndOf(script, t) < EndOf(script, u) => EndOf(script, t) <= offset
  <2>1. 1 \in DOMAIN turns[w] /\ Appended(turns[w][1].text, turns[w][1].seq)
    BY <1>3, RecoverEffect DEF Types, Skipped
  <2>2. PICK u \in TurnsOf(script) : turns[w][1].text = ContentOf(script, u) /\ turns[w][1].seq = EndOf(script, u)
    BY <1>0, <2>1 DEF WholeInv, PassText, IsTurn
  <2>3. ASSUME NEW t \in TurnsOf(script), EndOf(script, t) < EndOf(script, u) PROVE EndOf(script, t) <= offset
    <3>1. EndOf(script, t) <= offset \/ \E j \in 1..(1 - 1) : turns[w][j].seq = EndOf(script, t)
      BY <1>0, <2>1, <2>2, <2>3 DEF PassLeavesNone
    <3> QED BY <3>1
  <2> QED BY <2>1, <2>2, <2>3
<1>4. ASSUME NEW w \in Workers, Passes(w), ~ G!Recover(w) PROVE UNCHANGED <<offset, messages>>
  BY <1>4, ReadOffsetEffect, ReadJournalEffect, RecoverFailsEffect DEF Passes, Types
<1>5. CASE Still
  BY <1>5 DEF Still
<1>6. CASE G!Receive
  BY <1>6, ReceiveEffect DEF Types
<1>7. CASE (G!JournalEvent \/ G!JournalFails) \/ G!Crash
  BY <1>7, JournalEffect, CrashEffect DEF Types
<1> QED BY <1>1, <1>2, <1>3, <1>4, <1>5, <1>6, <1>7, StepKinds DEF Aside

LEMMA StoredStep ==
  ASSUME Types, WholeInv, CaughtUp, PassLeavesNone, Stored, TextUnbroken, TurnByTurn, [G!Next]_(G!vars)
  PROVE  Stored'
<1> SUFFICES ASSUME LiveWritesSucceed', NEW t \in TurnsOf(script), EndOf(script, t) <= offset'
             PROVE  \E i \in DOMAIN messages' : messages'[i].text = ContentOf(script, t)
  BY SameScript DEF Stored
<1>0. LiveWritesSucceed /\ script \in Scripts /\ \A v \in TurnsOf(script) : EndOf(script, v) \in Nat
  BY LiveWritesKept, EndFacts, Stream DEF Types, HandlerTypes
<1>1. CASE UNCHANGED <<offset, messages>>
  BY <1>0, <1>1 DEF Stored
<1>2. ASSUME NEW u \in TurnsOf(script), Appended(ContentOf(script, u), EndOf(script, u)),
             \A v \in TurnsOf(script) : EndOf(script, v) < EndOf(script, u) => EndOf(script, v) <= offset
      PROVE  \E i \in DOMAIN messages' : messages'[i].text = ContentOf(script, t)
  <2>1. /\ DOMAIN messages' = (DOMAIN messages) \union {Len(messages) + 1}
        /\ \A i \in DOMAIN messages : messages'[i] = messages[i]
        /\ messages'[Len(messages) + 1].text = ContentOf(script, u)
    BY <1>2, AppendedMessages
  <2>2. offset' = EndOf(script, u)
    BY <1>2 DEF Appended
  <2>3. CASE EndOf(script, t) <= offset
    <3>1. PICK i \in DOMAIN messages : messages[i].text = ContentOf(script, t)
      BY <1>0, <2>3 DEF Stored
    <3> QED BY <2>1, <3>1
  <2>4. CASE ~ (EndOf(script, t) <= offset)
    <3>1. EndOf(script, t) = EndOf(script, u)
      BY <1>0, <1>2, <2>2, <2>4
    <3>2. t = u
      BY <1>0, <3>1, OneTurnEnds
    <3> QED BY <2>1, <3>2
  <2> QED BY <2>3, <2>4
<1> QED BY <1>1, <1>2, NoneBetween

LEMMA PassLeavesNoneStep ==
  ASSUME Types, WholeInv, PassLeavesNone, TextUnbroken, TurnByTurn, FinishedIsLast, [G!Next]_(G!vars)
  PROVE  PassLeavesNone'
<1> SUFFICES ASSUME LiveWritesSucceed', NEW w \in Workers, NEW i \in DOMAIN turns'[w],
                    NEW t \in TurnsOf(script), EndOf(script, t) < turns'[w][i].seq
             PROVE  EndOf(script, t) <= offset' \/ \E j \in 1..(i - 1) : turns'[w][j].seq = EndOf(script, t)
  BY SameScript DEF PassLeavesNone
<1>0. /\ LiveWritesSucceed /\ Written /\ Ends
      /\ offset \in Nat /\ offset' \in Nat /\ offset <= offset' /\ EndOf(script, t) \in Nat
      /\ HandlerTypes /\ StoreTypes /\ PassTypes /\ Types'
  <2>1. Types'
    BY TypesStep, ProjectionSteps
  <2>2. offset \in Nat /\ offset' \in Nat
    BY <2>1, OpenIsSeq DEF Types, StoreTypes
  <2>3. EndOf(script, t) \in Nat
    BY EndFacts, Stream DEF Types, HandlerTypes
  <2> QED BY <2>1, <2>2, <2>3, ProjectionStep, LiveWritesKept DEF WholeInv, Types
<1>1. CASE turns'[w] = turns[w]
  BY <1>0, <1>1 DEF PassLeavesNone
<1>2. \A j \in DOMAIN turns'[w] : turns'[w][j].seq \in Nat /\ j \in Nat /\ j >= 1
  <2>1. turns'[w] \in Seq(Received')
    BY <1>0 DEF Types, PassTypes
  <2>2. \A j \in DOMAIN turns'[w] : turns'[w][j] \in Received' /\ j \in Nat /\ j >= 1
    BY <2>1, LenProperties, ElementOfSeq
  <2> QED BY <2>2 DEF Received
<1>3. CASE G!ReadJournal(w)
  <2>1. /\ turns'[w][i] \in G!Completed(Seen(w))
        /\ \A c \in G!Completed(Seen(w)) : \E j \in DOMAIN turns'[w] : turns'[w][j] = c
        /\ \A j, k \in DOMAIN turns'[w] : j < k => turns'[w][j].seq <= turns'[w][k].seq
    BY <1>0, <1>3, ReadJournalEffect
  <2>2. CASE EndOf(script, t) <= from[w]
    <3>1. from[w] <= offset /\ from[w] \in Nat
      BY <1>0 DEF PassTypes
    <3> QED BY <1>0, <2>2, <3>1
  <2>3. CASE ~ (EndOf(script, t) <= from[w])
    <3>1. from[w] < EndOf(script, t)
      BY <1>0, <2>3 DEF PassTypes
    <3>2. PICK d \in G!Completed(Seen(w)) : d.seq = EndOf(script, t)
      BY <1>0, <2>1, <3>1, FoundAreTurns
    <3>3. PICK j \in DOMAIN turns'[w] : turns'[w][j].seq = EndOf(script, t)
      BY <2>1, <3>2
    <3>4. ~ (i < j) /\ i # j
      BY <1>2, <2>1, <3>3
    <3>5. j \in 1..(i - 1)
      BY <1>2, <3>4
    <3> QED BY <3>3, <3>5
  <2> QED BY <2>2, <2>3
<1>4. CASE G!Recover(w)
  <2>1. /\ i + 1 \in DOMAIN turns[w] /\ turns'[w][i] = turns[w][i + 1] /\ turns[w][1].seq <= offset'
        /\ Len(turns'[w]) = Len(turns[w]) - 1
        /\ \A j \in DOMAIN turns'[w] : turns'[w][j] = turns[w][j + 1]
    BY <1>0, <1>4, RecoverEffect
  <2>2. EndOf(script, t) <= offset \/ \E j \in 1..((i + 1) - 1) : turns[w][j].seq = EndOf(script, t)
    BY <1>0, <2>1 DEF PassLeavesNone
  <2>3. ASSUME NEW j \in 1..((i + 1) - 1), turns[w][j].seq = EndOf(script, t)
        PROVE  EndOf(script, t) <= offset' \/ \E k \in 1..(i - 1) : turns'[w][k].seq = EndOf(script, t)
    <3>1. CASE j = 1
      BY <2>1, <2>3, <3>1
    <3>2. CASE j # 1
      <4>1. j - 1 \in 1..(i - 1) /\ (j - 1) + 1 = j
        BY <1>2, <2>3, <3>2
      <4>2. DOMAIN turns'[w] = 1..Len(turns'[w])
        BY <1>0, LenProperties DEF Types, PassTypes
      <4>3. j - 1 \in DOMAIN turns'[w]
        BY <1>2, <4>1, <4>2
      <4>4. turns'[w][j - 1].seq = EndOf(script, t)
        BY <2>1, <2>3, <4>1, <4>3
      <4> QED BY <4>1, <4>4
    <3> QED BY <3>1, <3>2
  <2> QED BY <1>0, <2>2, <2>3
<1>5. CASE Aside /\ ~ G!ReadJournal(w) /\ ~ G!Recover(w)
  <2>1. ASSUME NEW v \in Workers, G!ReadOffset(v) \/ (G!ReadJournal(v) /\ v # w) \/ (G!Recover(v) /\ v # w)
        PROVE  turns'[w] = turns[w]
    BY <1>0, <2>1, ReadOffsetEffect, ReadJournalEffect, RecoverEffect
  <2>2. ASSUME NEW v \in Workers, G!RecoverFails(v) PROVE turns'[w] = turns[w]
    <3>1. turns'[w] \in {<<>>, turns[w]}
      BY <1>0, <2>2, RecoverFailsEffect
    <3>2. CASE turns'[w] = <<>>
      <4>1. DOMAIN turns'[w] = {}
        BY <3>2
      <4> QED BY <4>1
    <3> QED BY <3>1, <3>2
  <2>3. CASE Still
    BY <1>1, <2>3 DEF Still
  <2> QED BY <1>1, <1>5, <2>1, <2>2, <2>3 DEF Aside, Passes
<1>6. CASE ~ Aside
  <2>1. turns' = turns
    BY <1>6, StepKinds, ReceiveEffect, JournalEffect, ClosedFrame, FinishEffect, CrashEffect DEF Types
  <2> QED BY <1>1, <2>1
<1> QED BY <1>3, <1>4, <1>5, <1>6

-----------------------------------------------------------------------------
(* The theorems                                                              *)

LEMMA TypesInit == G!Init => Types
<1> SUFFICES ASSUME G!Init PROVE Types
  OBVIOUS
<1>1. /\ script \in Scripts /\ journal = {} /\ offset = 0 /\ messages = <<>>
      /\ handler = "next" /\ seq = 0 /\ open = <<>> /\ finished = <<>> /\ projected = 0
      /\ turns = [w \in Workers |-> <<>>] /\ from = [w \in Workers |-> 0] /\ pass = [w \in Workers |-> "idle"]
      /\ failures = [k \in FailureKinds |-> 0]
  BY DEF G!Init, G!FailureKinds, FailureKinds
<1>2. seq \in 0..Len(script)
  BY <1>1, Stream
<1>3. \A S : <<>> \in Seq(S)
  BY EmptySeq
<1>4. Len(<<>>) = 0
  BY EmptySeq
<1>5. HandlerTypes
  BY <1>1, <1>2, <1>3, <1>4, FailureAssumption DEF HandlerTypes
<1>6. StoreTypes /\ PassTypes
  BY <1>1, <1>2, <1>3 DEF StoreTypes, PassTypes
<1> QED BY <1>5, <1>6 DEF Types

LEMMA WholeInit == G!Init => WholeInv
<1> SUFFICES ASSUME G!Init PROVE WholeInv
  OBVIOUS
<1>1. /\ offset = 0 /\ messages = <<>> /\ handler = "next" /\ seq = 0 /\ open = <<>> /\ finished = <<>>
      /\ turns = [w \in Workers |-> <<>>] /\ from = [w \in Workers |-> 0]
  BY DEF G!Init
<1>2. 1..seq = {} /\ 1..(seq - 1) = {} /\ DOMAIN <<>> = {}
  BY <1>1
<1>3. Written /\ OpenText /\ FinishedText /\ MessageText /\ MessagesRise
  BY <1>1, <1>2 DEF Written, OpenText, FinishedText, MessageText, MessagesRise
<1>4. Ends /\ Counted /\ PassText
  BY <1>1, <1>2 DEF Ends, IsEnd, Counted, PassText
<1> QED BY <1>3, <1>4 DEF WholeInv

LEMMA TurnsInit == TextUnbroken /\ G!Init => TurnsInv
<1> SUFFICES ASSUME TextUnbroken, G!Init PROVE TurnsInv
  OBVIOUS
<1>1. /\ script \in Scripts /\ offset = 0 /\ handler = "next" /\ seq = 0
      /\ turns = [w \in Workers |-> <<>>] /\ DOMAIN <<>> = {}
  BY DEF G!Init
<1>2. ASSUME NEW t \in TurnsOf(script) PROVE ~ (EndOf(script, t) <= 0)
  <2>1. EndOf(script, t) \in 1..Len(script)
    BY <1>1, EndFacts, Stream
  <2> QED BY <2>1
<1>3. PassLeavesNone /\ DoneIsEnd
  BY <1>1 DEF PassLeavesNone, DoneIsEnd
<1>4. CaughtUp /\ Stored
  BY <1>1, <1>2 DEF CaughtUp, Stored
<1> QED BY <1>3, <1>4, WholeInit DEF TurnsInv

(* Type correctness of the projection's tables, handler and recovery passes, *)
(* for any streams, recovery passes and failures.                           *)
THEOREM ProjectionTypes == G!Spec => []G!TypeOK
<1>1. Types /\ [G!Next]_(G!vars) => Types'
  BY ProjectionSteps, TypesStep
<1>2. G!Spec => []Types
  BY <1>1, TypesInit, PTL DEF G!Spec
<1>3. G!Spec => [](listed \in BOOLEAN)
  <2>1. G!Init => listed \in BOOLEAN
    BY DEF G!Init
  <2>2. listed \in BOOLEAN /\ [G!Next]_(G!vars) => (listed \in BOOLEAN)'
    <3> SUFFICES ASSUME listed \in BOOLEAN, [G!Next]_(G!vars) PROVE listed' \in BOOLEAN
      OBVIOUS
    <3>1. CASE Live
      BY <3>1 DEF Live, G!Receive, G!JournalEvent, G!JournalFails, G!ProjectFinished, G!ProjectFinishedFails,
                  G!DrainTurn, G!DrainTurnFails, G!Finish, G!Crash, G!workerVars
    <3>2. ASSUME NEW w \in Workers, Passes(w) PROVE listed' \in BOOLEAN
      BY <3>2 DEF Passes, G!ReadOffset, G!ReadJournal, G!Recover, G!RecoverFails
    <3>3. CASE G!ListingChanges \/ UNCHANGED G!vars
      BY <3>3 DEF G!ListingChanges, G!vars, G!workerVars
    <3> QED BY <3>1, <3>2, <3>3 DEF G!Next, G!HandlerStep, G!RecoveryStep, Live, Passes
  <2> QED BY <2>1, <2>2, PTL DEF G!Spec
<1>4. Types /\ listed \in BOOLEAN => G!TypeOK
  BY ProjectionParts DEF Types
<1> QED BY <1>2, <1>3, <1>4, PTL

LEMMA WholeAlways ==
  ASSUME TextUnbroken, FinishedIsLast
  PROVE  G!Spec => [](Types /\ WholeInv)
<1>1. Types /\ WholeInv /\ [G!Next]_(G!vars) => (Types /\ WholeInv)'
  BY ProjectionSteps, TypesStep, WholeStep
<1>2. G!Init => Types /\ WholeInv
  BY TypesInit, WholeInit
<1> QED BY <1>1, <1>2, PTL DEF G!Spec

\* A message is the text of a turn, and no two are of the same one.
LEMMA MessagesAreTurns ==
  ASSUME Types, WholeInv, LiveWritesSucceed, TextUnbroken
  PROVE  /\ \A i \in DOMAIN messages : \E t \in TurnsOf(script) : messages[i].text = ContentOf(script, t)
         /\ \A i, j \in DOMAIN messages : i # j => messages[i].text \intersect messages[j].text = {}
<1>1. MessageText /\ MessagesRise /\ script \in Scripts /\ DOMAIN messages \subseteq Nat
  BY MessagesAreSeq DEF WholeInv, Types, HandlerTypes
<1>2. ASSUME NEW i \in DOMAIN messages, NEW j \in DOMAIN messages, i < j
      PROVE  messages[i].text \intersect messages[j].text = {}
  <2>1. PICK t \in TurnsOf(script) : messages[i].text = ContentOf(script, t) /\ messages[i].seq = EndOf(script, t)
    BY <1>1 DEF MessageText, IsTurn
  <2>2. PICK u \in TurnsOf(script) : messages[j].text = ContentOf(script, u) /\ messages[j].seq = EndOf(script, u)
    BY <1>1 DEF MessageText, IsTurn
  <2>3. EndOf(script, t) < EndOf(script, u) /\ EndOf(script, t) \in Nat /\ EndOf(script, u) \in Nat
    BY <1>1, <1>2, <2>1, <2>2, EndFacts, Stream DEF MessagesRise
  <2>4. t # u
    BY <2>3
  <2> QED BY <1>1, <2>1, <2>2, <2>4, ContentApart
<1>3. \A i, j \in DOMAIN messages : i # j => i < j \/ j < i
  BY <1>1
<1> QED BY <1>1, <1>2, <1>3 DEF MessageText, IsTurn

LEMMA SameTurns ==
  ASSUME Types
  PROVE  Turns = TurnsOf(script) /\ \A t : Content(t) = ContentOf(script, t)
<1>1. DOMAIN script = 1..Len(script)
  BY Stream DEF Types, HandlerTypes
<1> QED BY <1>1 DEF Turns, TurnsIn, TurnsOf, Seqs, Event, IsText, Content, TextOf, ContentOf

(* ProjectAssistantMessage (mysql.go:395-468): no text is stored twice,     *)
(* whoever projects it, the handler or any number of recovery passes with   *)
(* stale reads, and whatever dies, for streams with one RUN_FINISHED at most *)
(* and without an end of a turn between two texts of one turn.              *)
THEOREM NoTextTwice ==
  ASSUME TextUnbroken, FinishedIsLast
  PROVE  G!Spec => []TextOnce
<1>1. Types /\ WholeInv => TextOnce
  BY MessagesAreTurns DEF TextOnce
<1> QED BY <1>1, WholeAlways, PTL

(* collectTurns (worker.go:207-277) and turnAccumulator: a message is the   *)
(* whole text of one turn, though a pass may read a journal still written to. *)
THEOREM MessagesAreWhole ==
  ASSUME TextUnbroken, FinishedIsLast
  PROVE  G!Spec => []WholeTurns
<1>1. Types /\ WholeInv => WholeTurns
  BY MessagesAreTurns, SameTurns DEF WholeTurns
<1> QED BY <1>1, WholeAlways, PTL

(* chatStream and RecoverRun: when the handler of a finished run is done,   *)
(* each of its turns is a message, for agents that answer turn by turn. No  *)
(* pass moves the offset past a turn that is not stored.                    *)
THEOREM TurnsAreKept ==
  ASSUME TextUnbroken, FinishedIsLast, TurnByTurn, FinishedOrFailed
  PROVE  G!Spec => []EveryTurnKept
<1>1. Types /\ TurnsInv /\ [G!Next]_(G!vars) => (Types /\ TurnsInv)'
  <2> SUFFICES ASSUME Types, TurnsInv, [G!Next]_(G!vars) PROVE Types' /\ TurnsInv'
    OBVIOUS
  <2>1. Types' /\ WholeInv'
    BY ProjectionSteps, TypesStep, WholeStep DEF TurnsInv
  <2>2. CaughtUp' /\ PassLeavesNone' /\ Stored' /\ DoneIsEnd'
    BY CaughtUpStep, PassLeavesNoneStep, StoredStep, DoneStep DEF TurnsInv
  <2> QED BY <2>1, <2>2 DEF TurnsInv
<1>2. G!Init => Types /\ TurnsInv
  BY TypesInit, TurnsInit
<1>3. Types /\ TurnsInv => EveryTurnKept
  <2> SUFFICES ASSUME Types, TurnsInv, LiveWritesSucceed, handler = "done", Event(Len(script)).type = "runFinished",
                      NEW t \in Turns
               PROVE  \E i \in DOMAIN messages : messages[i].text = Content(t)
    BY DEF EveryTurnKept
  <2>1. script \in Scripts /\ t \in TurnsOf(script)
    BY SameTurns DEF Types, HandlerTypes
  <2>2. \A n \in 1..Len(script) : script[n].type # "runError"
    BY <2>1 DEF FinishedOrFailed, Event
  <2>3. seq = Len(script) /\ open = <<>> /\ finished = <<>>
    BY <2>2 DEF TurnsInv, DoneIsEnd
  <2>4. ~ Waiting(t)
    <3>1. DOMAIN open = {} /\ DOMAIN finished = {}
      BY <2>3
    <3> QED BY <3>1 DEF Waiting
  <2>5. EndOf(script, t) <= seq
    <3>1. EndOf(script, t) \in 1..Len(script)
      BY <2>1, EndFacts, Stream
    <3> QED BY <2>3, <3>1
  <2>6. EndOf(script, t) <= offset
    BY <2>1, <2>4, <2>5 DEF TurnsInv, CaughtUp
  <2> QED BY <2>1, <2>6, SameTurns DEF TurnsInv, Stored
<1> QED BY <1>1, <1>2, <1>3, PTL DEF G!Spec
=============================================================================
