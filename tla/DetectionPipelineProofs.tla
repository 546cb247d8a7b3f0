------------------------ MODULE DetectionPipelineProofs ------------------------
(***************************************************************************)
(* Proofs about DetectionPipeline, for any alerts, rules and bounds.       *)
(***************************************************************************)
EXTENDS DetectionPipeline, SequenceTheorems, FiniteSetTheorems, WellFoundedInduction, TLAPS

\* The events the normalizer can make.
MadeEvents == {SecurityEvent(raw, t) : raw \in RawEvents, t \in Nat}

\* The events are a list of such events, and the normalizer started somewhere in it.
EventsInv ==
  /\ events \in Seq(MadeEvents)
  /\ started \in 0..Len(events)
  /\ now \in Nat

\* The keys of the events after the first n of a list.
Told(list, n) == [i \in 1..(Len(list) - n) |-> DedupKey(list[n + i].raw)]

-----------------------------------------------------------------------------

\* One more event is one more key at the end.
LEMMA ToldAppend ==
  ASSUME NEW S, NEW list \in Seq(S), NEW n \in 0..Len(list), NEW e \in S
  PROVE  Told(Append(list, e), n) = Append(Told(list, n), DedupKey(e.raw))
<1> DEFINE m == Len(list)
           longer == Append(list, e)
           Keys == {DedupKey(x.raw) : x \in S}
<1>1. /\ m \in Nat
      /\ longer \in Seq(S)
      /\ Len(longer) = m + 1
      /\ \A i \in 1..m : longer[i] = list[i]
      /\ longer[m + 1] = e
  BY LenProperties, AppendProperties
<1>2. \A i \in 1..m : list[i] \in S
  BY ElementOfSeq
<1> HIDE DEF m, longer
<1>3. n \in Int /\ 0 <= n /\ n <= m
  BY <1>1 DEF m
<1>4. Told(list, n) \in [1..(m - n) -> Keys]
  <2> SUFFICES ASSUME NEW i \in 1..(m - n) PROVE DedupKey(list[n + i].raw) \in Keys
    BY DEF Told, m
  <2>1. n + i \in 1..m
    BY <1>1, <1>3
  <2> QED
    BY <1>2, <2>1
<1>5. Told(longer, n) \in [1..(m + 1 - n) -> Keys]
  <2> SUFFICES ASSUME NEW i \in 1..(m + 1 - n) PROVE DedupKey(longer[n + i].raw) \in Keys
    BY <1>1 DEF Told
  <2>1. n + i \in 1..m \/ n + i = m + 1
    BY <1>1, <1>3
  <2>2. longer[n + i] \in S
    BY <1>1, <1>2, <2>1
  <2> QED
    BY <2>2
<1> HIDE DEF Keys
<1>6. m - n \in Nat /\ m + 1 - n \in Nat /\ m + 1 - n = (m - n) + 1
  BY <1>1, <1>3
<1>7. /\ Told(list, n) \in Seq(Keys)
      /\ Len(Told(list, n)) = m - n
  BY <1>4, <1>6, SeqDef, LenProperties
<1>8. /\ Told(longer, n) \in Seq(Keys)
      /\ Len(Told(longer, n)) = (m - n) + 1
  BY <1>5, <1>6, SeqDef, LenProperties
<1>9. DedupKey(e.raw) \in Keys
  BY DEF Keys
<1>10. /\ Append(Told(list, n), DedupKey(e.raw)) \in Seq(Keys)
       /\ Len(Append(Told(list, n), DedupKey(e.raw))) = (m - n) + 1
       /\ \A i \in 1..(m - n) : Append(Told(list, n), DedupKey(e.raw))[i] = Told(list, n)[i]
       /\ Append(Told(list, n), DedupKey(e.raw))[(m - n) + 1] = DedupKey(e.raw)
  BY <1>7, <1>9, AppendProperties
<1>11. ASSUME NEW i \in 1..((m - n) + 1)
       PROVE  Told(longer, n)[i] = Append(Told(list, n), DedupKey(e.raw))[i]
  <2>1. Told(longer, n)[i] = DedupKey(longer[n + i].raw)
    BY <1>1, <1>6 DEF Told
  <2>2. CASE i \in 1..(m - n)
    <3>1. n + i \in 1..m
      BY <1>1, <1>3, <2>2
    <3>2. Told(list, n)[i] = DedupKey(list[n + i].raw)
      BY <2>2 DEF Told, m
    <3> QED
      BY <1>1, <1>10, <2>1, <2>2, <3>1, <3>2
  <2>3. CASE i = (m - n) + 1
    <3>1. n + i = m + 1
      BY <1>1, <1>3, <2>3
    <3> QED
      BY <1>1, <1>10, <2>1, <2>3, <3>1
  <2>4. i \in 1..(m - n) \/ i = (m - n) + 1
    BY <1>6
  <2> QED
    BY <2>2, <2>3, <2>4
<1>12. Told(longer, n) = Append(Told(list, n), DedupKey(e.raw))
  BY <1>8, <1>10, <1>11, SeqEqual
<1> QED
  BY <1>12 DEF longer

\* A list has no keys after its last event.
LEMMA ToldNothing ==
  ASSUME NEW S, NEW list \in Seq(S)
  PROVE  Told(list, Len(list)) = <<>>
<1>1. Len(list) \in Nat
  BY LenProperties
<1>2. 1..(Len(list) - Len(list)) = {}
  BY <1>1
<1>3. Told(list, Len(list)) \in [1..0 -> {}]
  BY <1>1, <1>2 DEF Told
<1>4. Told(list, Len(list)) \in Seq({}) /\ Len(Told(list, Len(list))) = 0
  BY <1>3, SeqDef, LenProperties
<1> QED
  BY <1>4, EmptySeq

-----------------------------------------------------------------------------

\* An event is what the normalizer makes of its raw event.
LEMMA EventTells ==
  ASSUME NEW raw, NEW t
  PROVE  SecurityEvent(raw, t).raw = raw
BY DEF SecurityEvent

\* The list only grows, and a restart starts again at its end.
LEMMA EventsStep == EventsInv /\ [Next]_vars => EventsInv'
<1> SUFFICES ASSUME EventsInv, [Next]_vars PROVE EventsInv'
  OBVIOUS
<1>1. ASSUME NEW raw \in RawEvents, NEW valid \in BOOLEAN, Process(raw, valid)
      PROVE  EventsInv'
  <2>1. SecurityEvent(raw, now) \in MadeEvents
    BY DEF EventsInv, MadeEvents
  <2>2. /\ Append(events, SecurityEvent(raw, now)) \in Seq(MadeEvents)
        /\ Len(Append(events, SecurityEvent(raw, now))) = Len(events) + 1
        /\ Len(events) \in Nat
    BY <2>1, AppendProperties, LenProperties DEF EventsInv
  <2>3. \/ events' = events
        \/ events' = Append(events, SecurityEvent(raw, now))
    BY <1>1 DEF Process
  <2>4. started' = started /\ now' = now
    BY <1>1 DEF Process
  <2>5. events' \in Seq(MadeEvents) /\ Len(events') \in Nat /\ Len(events) <= Len(events')
    BY <2>2, <2>3 DEF EventsInv
  <2> DEFINE m == Len(events)
             k == Len(events')
  <2>6. m \in Nat /\ k \in Nat /\ m <= k /\ started \in 0..m
    BY <2>2, <2>5 DEF EventsInv
  <2> HIDE DEF m, k
  <2>7. started \in 0..k
    BY <2>6
  <2> QED
    BY <2>4, <2>5, <2>7 DEF EventsInv, k
<1>2. CASE Restart
  <2>1. Len(events) \in Nat
    BY LenProperties DEF EventsInv
  <2>2. Len(events) \in 0..Len(events)
    BY <2>1
  <2> QED
    BY <1>2, <2>2 DEF Restart, EventsInv
<1>3. CASE Tick
  BY <1>3 DEF Tick, EventsInv
<1>4. ASSUME NEW id, Deliver(id)
      PROVE  EventsInv'
  BY <1>4 DEF Deliver, EventsInv
<1>5. CASE Correlate
  BY <1>5 DEF Correlate, EventsInv
<1>6. CASE UNCHANGED vars
  BY <1>6 DEF vars, EventsInv
<1> QED
  BY <1>1, <1>2, <1>3, <1>4, <1>5, <1>6 DEF Next

\* An event accepted is one the abstract service may deliver, and a restart is its forgetting.
LEMMA StepDelivers ==
  ASSUME EventsInv, [Next]_vars
  PROVE  [Alerts!Next]_<<[i \in 1..(Len(events) - started) |-> DedupKey(events[started + i].raw)],
                         seen>>
<1> DEFINE told == [i \in 1..(Len(events) - started) |-> DedupKey(events[started + i].raw)]
<1>1. ASSUME NEW raw \in RawEvents, Process(raw, TRUE)
      PROVE  Alerts!Next
  <2>1. /\ DedupKey(raw) \notin seen
        /\ seen' = seen \cup {DedupKey(raw)}
        /\ events' = Append(events, SecurityEvent(raw, now))
        /\ started' = started
    BY <1>1 DEF Process, SeenAfter
  <2>2. SecurityEvent(raw, now) \in MadeEvents
    BY DEF EventsInv, MadeEvents
  <2>3. Told(Append(events, SecurityEvent(raw, now)), started) =
          Append(Told(events, started), DedupKey(SecurityEvent(raw, now).raw))
    BY <2>2, ToldAppend DEF EventsInv
  <2>4. Told(events', started') = Append(Told(events, started), DedupKey(raw))
    BY <2>1, <2>3, EventTells
  <2>5. Alerts!Deliver(DedupKey(raw))
    BY <2>1, <2>4 DEF Alerts!Deliver, Told
  <2> QED
    BY <2>5 DEF Alerts!Next
<1>2. ASSUME NEW raw \in RawEvents, Process(raw, FALSE)
      PROVE  UNCHANGED <<told, seen>>
  BY <1>2 DEF Process, SeenAfter
<1>3. CASE Restart
  <2>1. Told(events', started') = <<>>
    BY <1>3, ToldNothing DEF Restart, EventsInv
  <2> QED
    BY <1>3, <2>1 DEF Restart, Told, Alerts!Forget, Alerts!Next
<1>4. CASE Tick \/ Correlate \/ (\E id \in DOMAIN events : Deliver(id)) \/ UNCHANGED vars
  <2>1. UNCHANGED <<events, started, seen>>
    BY <1>4 DEF Tick, Correlate, Deliver, vars
  <2> QED
    BY <2>1
<1>5. ASSUME NEW raw \in RawEvents, NEW valid \in BOOLEAN, Process(raw, valid)
      PROVE  Process(raw, TRUE) \/ Process(raw, FALSE)
  <2>1. valid = TRUE \/ valid = FALSE
    OBVIOUS
  <2> QED
    BY <1>5, <2>1
<1> QED
  BY <1>1, <1>2, <1>3, <1>4, <1>5 DEF Next

\* The normalizer implements the abstract service that drops duplicates: one event per alert
\* until it restarts, and an alert the schema rejected is not lost when it is reported again
\* (process).
THEOREM AlertsGiveOneEvent == Spec => OneEventPerAlert
<1>1. Init => EventsInv
  <2> SUFFICES ASSUME Init PROVE EventsInv
    OBVIOUS
  <2>1. events = <<>> /\ started = 0 /\ now = 0
    BY DEF Init
  <2>2. events \in Seq(MadeEvents) /\ Len(events) = 0
    BY <2>1, EmptySeq
  <2> QED
    BY <2>1, <2>2 DEF EventsInv
<1>2. Init => Alerts!Init
  <2> SUFFICES ASSUME Init PROVE Alerts!Init
    OBVIOUS
  <2>1. events = <<>> /\ started = 0 /\ seen = {} /\ Len(events) = 0
    BY EmptySeq DEF Init
  <2>2. Told(events, started) = <<>>
    BY <2>1, ToldNothing, EmptySeq
  <2> QED
    BY <2>1, <2>2 DEF Alerts!Init, Told
<1>3. EventsInv /\ [Next]_vars => [Alerts!Next]_Alerts!vars
  BY StepDelivers DEF Alerts!vars
<1> QED
  BY <1>1, <1>2, <1>3, EventsStep, PTL DEF Spec, OneEventPerAlert, Alerts!Spec

-----------------------------------------------------------------------------
(* Places in order.                                                        *)

\* A set of numbers that is not empty has a least one.
LEMMA LeastNat ==
  ASSUME NEW S \in SUBSET Nat, S # {}
  PROVE  \E m \in S : \A k \in S : m <= k
<1> DEFINE R == {p \in Nat \X Nat : p[1] < p[2]}
<1>1. R = OpToRel(<, Nat)
  BY DEF OpToRel
<1>2. IsWellFoundedOn(R, Nat)
  BY <1>1, NatLessThanWellFounded
<1> HIDE DEF R
<1>3. PICK m \in S : \A k \in S : ~ (<<k, m>> \in R)
  BY <1>2, WFMin
<1>4. ASSUME NEW k \in S  PROVE m <= k
  <2>1. k \in Nat /\ m \in Nat
    OBVIOUS
  <2>2. k < m => <<k, m>> \in R
    BY <2>1 DEF R
  <2> QED
    BY <1>3, <2>1, <2>2
<1> QED
  BY <1>3, <1>4

\* Max of some places is one of them, and none is after it.
LEMMA MaxPlace ==
  ASSUME NEW n \in Nat, NEW S \in SUBSET (1..n), S # {}
  PROVE  Max(S) \in S /\ \A p \in S : p <= Max(S)
<1> DEFINE B == {k \in 0..n : \A p \in S : p <= k}
<1>1. n \in B /\ B \in SUBSET Nat
  OBVIOUS
<1>2. PICK m \in B : \A k \in B : m <= k
  BY <1>1, LeastNat
<1>3. m \in S
  <2> SUFFICES ASSUME m \notin S PROVE FALSE
    OBVIOUS
  <2>1. PICK s \in S : TRUE
    OBVIOUS
  <2>2. m \in 0..n /\ s \in 1..n /\ s <= m
    BY <1>2, <2>1
  <2>3. \A p \in S : p <= m - 1
    BY <1>2
  <2>4. m - 1 \in 0..n
    BY <2>2
  <2>5. m - 1 \in B
    BY <2>3, <2>4
  <2> QED
    BY <1>2, <2>2, <2>5
<1>4. \E x \in S : \A y \in S : x >= y
  BY <1>2, <1>3
<1> QED
  BY <1>4 DEF Max

\* Min of some places is one of them, and none is before it.
LEMMA MinPlace ==
  ASSUME NEW n \in Nat, NEW S \in SUBSET (1..n), S # {}
  PROVE  Min(S) \in S /\ \A p \in S : Min(S) <= p
<1>1. S \in SUBSET Nat
  OBVIOUS
<1>2. PICK m \in S : \A k \in S : m <= k
  BY <1>1, LeastNat
<1>3. \E x \in S : \A y \in S : x =< y
  BY <1>2
<1> QED
  BY <1>3 DEF Min

\* The order R among the places S is strict and total.
Total(S, R) ==
  /\ \A x \in S : <<x, x>> \notin R
  /\ \A x, y, z \in S : <<x, y>> \in R /\ <<y, z>> \in R => <<x, z>> \in R
  /\ \A x, y \in S : x # y => <<x, y>> \in R \/ <<y, x>> \in R

\* Arranged lists each element once, in the order given.
LEMMA ArrangedLists ==
  ASSUME NEW S, IsFiniteSet(S), NEW R, Total(S, R)
  PROVE  LET list == Arranged(S, R)
         IN  /\ Cardinality(S) \in Nat
             /\ DOMAIN list = 1..Cardinality(S)
             /\ \A k \in DOMAIN list : list[k] \in S
             /\ \A x \in S : \E k \in DOMAIN list : list[k] = x
             /\ \A i, j \in DOMAIN list : i < j => <<list[i], list[j]>> \in R
             /\ \A i, j \in DOMAIN list : list[i] = list[j] => i = j
<1> DEFINE n == Cardinality(S)
           Earlier(x) == {y \in S : <<y, x>> \in R}
           place == [x \in S |-> Cardinality(Earlier(x)) + 1]
           list == Arranged(S, R)
<1>1. n \in Nat /\ IsFiniteSet(1..n) /\ Cardinality(1..n) = n
  BY FS_CardinalityType, FS_Interval
<1>2. ASSUME NEW x \in S PROVE IsFiniteSet(Earlier(x)) /\ Cardinality(Earlier(x)) \in 0..(n - 1)
  <2>1. Earlier(x) \in SUBSET S /\ Earlier(x) # S
    BY DEF Total
  <2>2. IsFiniteSet(Earlier(x)) /\ Cardinality(Earlier(x)) <= n /\ Cardinality(Earlier(x)) # n
    BY <2>1, FS_Subset
  <2>3. Cardinality(Earlier(x)) \in Nat
    BY <2>2, FS_CardinalityType
  <2> QED
    BY <1>1, <2>2, <2>3
<1>3. ASSUME NEW x \in S, NEW y \in S, <<x, y>> \in R
      PROVE  Cardinality(Earlier(x)) < Cardinality(Earlier(y))
  <2>1. Earlier(x) \in SUBSET Earlier(y) /\ x \in Earlier(y) /\ x \notin Earlier(x)
    BY <1>3 DEF Total
  <2>2. /\ Cardinality(Earlier(x)) <= Cardinality(Earlier(y))
        /\ Cardinality(Earlier(x)) # Cardinality(Earlier(y))
    BY <1>2, <2>1, FS_Subset
  <2> HIDE DEF Earlier, n
  <2>3. Cardinality(Earlier(x)) \in Nat /\ Cardinality(Earlier(y)) \in Nat
    BY <1>1, <1>2
  <2> QED
    BY <2>2, <2>3
<1> HIDE DEF n, Earlier
<1>4. place \in [S -> 1..n]
  <2> SUFFICES ASSUME NEW x \in S PROVE Cardinality(Earlier(x)) + 1 \in 1..n
    OBVIOUS
  <2> QED
    BY <1>1, <1>2
<1>5. ASSUME NEW x \in S, NEW y \in S, place[x] = place[y] PROVE x = y
  <2>1. Cardinality(Earlier(x)) = Cardinality(Earlier(y))
    BY <1>2, <1>5
  <2>2. ~(<<x, y>> \in R) /\ ~(<<y, x>> \in R)
    BY <1>2, <1>3, <2>1
  <2> QED
    BY <2>2 DEF Total
<1>6. place \in Injection(S, 1..n)
  BY <1>4, <1>5 DEF Injection, IsInjective
<1>7. place \in Surjection(S, 1..n)
  BY <1>1, <1>6, FS_Injection DEF n
<1>8. list = [k \in 1..n |-> CHOOSE x \in S : Cardinality(Earlier(x)) = k - 1]
  BY DEF Arranged, n, Earlier
<1>9. ASSUME NEW k \in 1..n PROVE list[k] \in S /\ Cardinality(Earlier(list[k])) = k - 1
  <2>1. PICK x \in S : place[x] = k
    BY <1>7 DEF Surjection
  <2>2. Cardinality(Earlier(x)) = k - 1
    BY <1>2, <2>1
  <2>3. list[k] = CHOOSE y \in S : Cardinality(Earlier(y)) = k - 1
    BY <1>8
  <2> QED
    BY <2>2, <2>3
<1>10. DOMAIN list = 1..n
  BY <1>8
<1> HIDE DEF list
<1>11. ASSUME NEW x \in S PROVE \E k \in 1..n : list[k] = x
  <2>1. place[x] \in 1..n /\ Cardinality(Earlier(x)) = place[x] - 1
    BY <1>2, <1>4
  <2>2. /\ list[place[x]] \in S
        /\ Cardinality(Earlier(list[place[x]])) = place[x] - 1
    BY <1>9, <2>1
  <2>3. place[list[place[x]]] = place[x]
    BY <2>1, <2>2
  <2> QED
    BY <1>5, <2>1, <2>2, <2>3
<1>12. ASSUME NEW i \in 1..n, NEW j \in 1..n, i < j PROVE <<list[i], list[j]>> \in R
  <2>1. /\ list[i] \in S /\ Cardinality(Earlier(list[i])) = i - 1
        /\ list[j] \in S /\ Cardinality(Earlier(list[j])) = j - 1
    BY <1>9
  <2>2. list[i] # list[j]
    BY <1>1, <1>12, <2>1
  <2>3. ~(<<list[j], list[i]>> \in R)
    BY <1>1, <1>3, <1>12, <2>1
  <2> QED
    BY <2>1, <2>2, <2>3 DEF Total
<1>13. ASSUME NEW i \in 1..n, NEW j \in 1..n, list[i] = list[j] PROVE i = j
  <2>1. Cardinality(Earlier(list[i])) = i - 1 /\ Cardinality(Earlier(list[j])) = j - 1
    BY <1>9
  <2> QED
    BY <1>1, <1>13, <2>1
<1> QED
  BY <1>1, <1>9, <1>10, <1>11, <1>12, <1>13 DEF n, list

\* A batch whose events tell of their time.
Timed(batch) ==
  /\ DOMAIN batch = 1..Len(batch) /\ Len(batch) \in Nat
  /\ \A p \in DOMAIN batch : batch[p].observed_at \in Nat

\* InArrivalOrder and SortedByTime list the events at some places: order says which place is
\* listed where.
ListsPlaces(list, batch, places, order) ==
  /\ Len(list) = Cardinality(places) /\ Len(list) \in Nat
  /\ DOMAIN list = 1..Len(list) /\ DOMAIN order = DOMAIN list
  /\ list = [k \in DOMAIN order |-> batch[order[k]]]
  /\ \A k \in DOMAIN list : order[k] \in places /\ list[k] = batch[order[k]]
  /\ \A p \in places : \E k \in DOMAIN list : order[k] = p
  /\ \A i, j \in DOMAIN list : order[i] = order[j] => i = j

\* A list of n elements is a sequence of them.
LEMMA ListIsSequence ==
  ASSUME NEW n \in Nat, NEW list, DOMAIN list = 1..n, list = [k \in 1..n |-> list[k]]
  PROVE  /\ list \in Seq(Range(list))
         /\ Len(list) = n
<1>1. list \in [1..n -> Range(list)]
  BY DEF Range
<1> QED
  BY <1>1, SeqDef, LenProperties

LEMMA ListedPlaces ==
  ASSUME NEW batch, NEW m \in Nat, NEW places \in SUBSET (1..m), NEW R, Total(places, R)
  PROVE  LET order == Arranged(places, R)
             list == Listed(batch, order)
         IN  /\ ListsPlaces(list, batch, places, order)
             /\ \A i, j \in DOMAIN list : i < j => <<order[i], order[j]>> \in R
<1> DEFINE order == Arranged(places, R)
           list == Listed(batch, order)
           n == Cardinality(places)
<1>1. IsFiniteSet(places)
  <2>1. IsFiniteSet(1..m)
    BY FS_Interval
  <2> QED
    BY <2>1, FS_Subset
<1>2. /\ n \in Nat
      /\ DOMAIN order = 1..n
      /\ \A k \in DOMAIN order : order[k] \in places
      /\ \A x \in places : \E k \in DOMAIN order : order[k] = x
      /\ \A i, j \in DOMAIN order : i < j => <<order[i], order[j]>> \in R
      /\ \A i, j \in DOMAIN order : order[i] = order[j] => i = j
  BY <1>1, ArrangedLists
<1> HIDE DEF order
<1>3. /\ DOMAIN list = 1..n
      /\ list = [k \in 1..n |-> list[k]]
      /\ \A k \in 1..n : list[k] = batch[order[k]]
      /\ list = [k \in DOMAIN order |-> batch[order[k]]]
  BY <1>2 DEF Listed
<1> HIDE DEF list, n
<1>4. Len(list) = n
  BY <1>2, <1>3, ListIsSequence
<1>5. ListsPlaces(list, batch, places, order)
  BY <1>2, <1>3, <1>4 DEF ListsPlaces, n
<1> QED
  BY <1>2, <1>3, <1>5 DEF order, list

\* InArrivalOrder keeps the order of the places.
LEMMA ArrivalLists ==
  ASSUME NEW batch, NEW m \in Nat, NEW places \in SUBSET (1..m)
  PROVE  \E order :
           /\ ListsPlaces(InArrivalOrder(batch, places), batch, places, order)
           /\ \A i, j \in DOMAIN InArrivalOrder(batch, places) : i < j => order[i] < order[j]
<1> DEFINE R == {pair \in places \X places : pair[1] < pair[2]}
           order == Arranged(places, R)
           list == InArrivalOrder(batch, places)
<1>1. \A x, y \in places : <<x, y>> \in R <=> x < y
  OBVIOUS
<1>2. Total(places, R)
  <2>1. \A x \in places : x \in Int
    OBVIOUS
  <2> HIDE DEF R
  <2> QED
    BY <1>1, <2>1 DEF Total
<1>3. list = Listed(batch, order)
  BY DEF InArrivalOrder
<1> HIDE DEF R
<1>4. /\ ListsPlaces(list, batch, places, order)
      /\ \A i, j \in DOMAIN list : i < j => <<order[i], order[j]>> \in R
  BY <1>2, <1>3, ListedPlaces
<1> HIDE DEF order, list
<1>5. \A i, j \in DOMAIN list : i < j => order[i] < order[j]
  BY <1>1, <1>4 DEF ListsPlaces
<1> QED
  BY <1>4, <1>5 DEF list

\* SortedByTime goes forward in time, and keeps the order of arrival of events of one time.
LEMMA SortedLists ==
  ASSUME NEW batch, Timed(batch), NEW places \in SUBSET (DOMAIN batch)
  PROVE  LET list == SortedByTime(batch, places)
         IN  /\ \E order : ListsPlaces(list, batch, places, order)
             /\ \A k \in DOMAIN list : list[k].observed_at \in Nat
             /\ \A i, j \in DOMAIN list : i <= j => list[i].observed_at <= list[j].observed_at
<1> DEFINE Before(p, q) == \/ batch[p].observed_at < batch[q].observed_at
                           \/ batch[p].observed_at = batch[q].observed_at /\ p < q
           R == {pair \in places \X places : Before(pair[1], pair[2])}
           order == Arranged(places, R)
           list == SortedByTime(batch, places)
<1>1. \A x, y \in places : <<x, y>> \in R <=> Before(x, y)
  OBVIOUS
<1>2. \A x \in places : x \in Int /\ batch[x].observed_at \in Nat
  BY DEF Timed
<1>3. Total(places, R)
  <2> HIDE DEF R
  <2>1. \A x \in places : ~Before(x, x)
    BY <1>2
  <2>2. \A x, y, z \in places : Before(x, y) /\ Before(y, z) => Before(x, z)
    BY <1>2
  <2>3. \A x, y \in places : x # y => Before(x, y) \/ Before(y, x)
    BY <1>2
  <2> HIDE DEF Before
  <2> QED
    BY <1>1, <2>1, <2>2, <2>3 DEF Total
<1>4. list = Listed(batch, order)
  BY DEF SortedByTime
<1> HIDE DEF R
<1>5. places \in SUBSET (1..Len(batch)) /\ Len(batch) \in Nat
  BY DEF Timed
<1>6. /\ ListsPlaces(list, batch, places, order)
      /\ \A i, j \in DOMAIN list : i < j => <<order[i], order[j]>> \in R
  BY <1>3, <1>4, <1>5, ListedPlaces
<1> HIDE DEF order, list
<1>7. \A k \in DOMAIN list : order[k] \in places /\ list[k] = batch[order[k]]
  BY <1>6 DEF ListsPlaces
<1>8. \A k \in DOMAIN list : list[k].observed_at \in Nat
  BY <1>2, <1>7
<1>9. ASSUME NEW i \in DOMAIN list, NEW j \in DOMAIN list, i <= j
      PROVE  list[i].observed_at <= list[j].observed_at
  <2>1. i \in Nat /\ j \in Nat
    BY <1>6 DEF ListsPlaces
  <2>2. CASE i = j
    BY <1>8, <2>2
  <2>3. CASE i < j
    <3>1. Before(order[i], order[j])
      BY <1>1, <1>6, <1>7, <2>3
    <3> QED
      BY <1>2, <1>7, <3>1
  <2> QED
    BY <1>9, <2>1, <2>2, <2>3
<1> QED
  BY <1>6, <1>8, <1>9 DEF list

-----------------------------------------------------------------------------
(* Windows: a list of events in the order of time, cut where a gap is too  *)
(* long.                                                                   *)

\* The last place of the group that opens at a place.
LastOf(list, opening) ==
  LET later == {k \in Openings(list) : k > opening}
  IN  IF later = {} THEN Len(list) ELSE Min(later) - 1

\* A group ends before the next opening, or with the list.
LEMMA GroupSpan ==
  ASSUME NEW list, Timed(list), NEW o \in Openings(list)
  PROVE  /\ o \in 1..Len(list)
         /\ LastOf(list, o) \in o..Len(list)
         /\ \A k \in (o + 1)..LastOf(list, o) : k \notin Openings(list)
         /\ LastOf(list, o) = Len(list) \/ LastOf(list, o) + 1 \in Openings(list)
<1> DEFINE later == {k \in Openings(list) : k > o}
           last == LastOf(list, o)
<1>1. Len(list) \in Nat /\ o \in 1..Len(list) /\ later \in SUBSET (1..Len(list))
  BY DEF Openings, Timed
<1>2. CASE later = {}
  <2>1. last = Len(list)
    BY <1>2 DEF LastOf
  <2> QED
    BY <1>1, <1>2, <2>1
<1>3. CASE later # {}
  <2>1. Min(later) \in later /\ \A p \in later : Min(later) <= p
    BY <1>1, <1>3, MinPlace
  <2>2. last = Min(later) - 1
    BY <1>3 DEF LastOf
  <2>3. Min(later) \in 1..Len(list) /\ Min(later) > o
    BY <1>1, <2>1
  <2> HIDE DEF later
  <2>4. last \in o..Len(list) /\ last + 1 \in Openings(list)
    BY <1>1, <2>1, <2>2, <2>3 DEF later
  <2>5. ASSUME NEW k \in (o + 1)..last PROVE k \notin Openings(list)
    BY <1>1, <2>1, <2>2, <2>3 DEF later
  <2> QED
    BY <1>1, <2>4, <2>5
<1> QED
  BY <1>2, <1>3

\* Every place is in a group.
LEMMA InSomeGroup ==
  ASSUME NEW list, Timed(list), NEW k \in DOMAIN list
  PROVE  \E o \in Openings(list) : k \in o..LastOf(list, o)
<1> DEFINE open == {o \in Openings(list) : o <= k}
           o == Max(open)
<1>1. Len(list) \in Nat /\ k \in 1..Len(list) /\ open \in SUBSET (1..Len(list))
  BY DEF Openings, Timed
<1>2. 1 \in open
  BY <1>1 DEF Openings, Timed
<1>3. o \in open /\ \A p \in open : p <= o
  BY <1>1, <1>2, MaxPlace
<1> HIDE DEF open, o
<1>4. o \in Openings(list) /\ o <= k /\ o \in 1..Len(list)
  BY <1>1, <1>3 DEF open
<1>5. /\ LastOf(list, o) \in o..Len(list)
      /\ LastOf(list, o) = Len(list) \/ LastOf(list, o) + 1 \in Openings(list)
  BY <1>4, GroupSpan
<1>6. k <= LastOf(list, o)
  <2> SUFFICES ASSUME ~(k <= LastOf(list, o)) PROVE FALSE
    OBVIOUS
  <2>1. LastOf(list, o) + 1 \in Openings(list) /\ LastOf(list, o) + 1 <= k
    BY <1>1, <1>4, <1>5
  <2>2. LastOf(list, o) + 1 \in open
    BY <2>1 DEF open
  <2> QED
    BY <1>3, <1>4, <1>5, <2>2
<1> QED
  BY <1>1, <1>4, <1>5, <1>6

\* Every place is in one group only, and groups that open later lie later.
LEMMA InOneGroup ==
  ASSUME NEW list, Timed(list), NEW o \in Openings(list), NEW q \in Openings(list), o < q
  PROVE  LastOf(list, o) < q
<1>1. /\ o \in 1..Len(list) /\ q \in 1..Len(list) /\ Len(list) \in Nat
      /\ LastOf(list, o) \in o..Len(list)
      /\ \A k \in (o + 1)..LastOf(list, o) : k \notin Openings(list)
  BY GroupSpan DEF Timed
<1>2. q \notin (o + 1)..LastOf(list, o)
  BY <1>1
<1> QED
  BY <1>1, <1>2

\* A group is the part of the list from its opening to its last place.
LEMMA GroupIsPart ==
  ASSUME NEW list, Timed(list), list \in Seq(Range(list)), NEW o \in Openings(list),
         NEW g, g = GroupAt(list, o)
  PROVE  /\ g = SubSeq(list, o, LastOf(list, o))
         /\ g \in Seq(Range(list))
         /\ Len(g) = LastOf(list, o) - o + 1 /\ Len(g) \in Nat \ {0}
         /\ DOMAIN g = 1..Len(g)
         /\ \A i \in DOMAIN g : /\ o + i - 1 \in o..LastOf(list, o)
                                /\ o + i - 1 \in DOMAIN list
                                /\ g[i] = list[o + i - 1]
         /\ \A k \in o..LastOf(list, o) : k - o + 1 \in DOMAIN g /\ g[k - o + 1] = list[k]
<1> DEFINE last == LastOf(list, o)
           m == Len(list)
<1>1. o \in 1..m /\ last \in o..m /\ m \in Nat /\ DOMAIN list = 1..m
  BY GroupSpan DEF Timed
<1>2. g = SubSeq(list, o, last)
  BY DEF GroupAt, LastOf
<1> HIDE DEF last, m
<1>3. \A i \in o..last : i \in 1..m
  BY <1>1
<1>4. /\ g \in Seq(Range(list))
      /\ Len(g) = last - o + 1
      /\ \A i \in 1..(last - o + 1) : g[i] = list[o + i - 1]
  BY <1>1, <1>2, <1>3, SubSeqProperties DEF m
<1>5. Len(g) \in Nat \ {0} /\ DOMAIN g = 1..Len(g)
  BY <1>1, <1>4
<1>6. ASSUME NEW i \in DOMAIN g
      PROVE  o + i - 1 \in o..last /\ o + i - 1 \in DOMAIN list /\ g[i] = list[o + i - 1]
  <2>1. i \in 1..(last - o + 1)
    BY <1>4, <1>5
  <2>2. o + i - 1 \in o..last
    BY <1>1, <2>1
  <2> QED
    BY <1>1, <1>3, <1>4, <2>1, <2>2
<1>7. ASSUME NEW k \in o..last
      PROVE  k - o + 1 \in DOMAIN g /\ g[k - o + 1] = list[k]
  <2>1. k - o + 1 \in 1..(last - o + 1) /\ o + (k - o + 1) - 1 = k
    BY <1>1
  <2>2. g[k - o + 1] = list[o + (k - o + 1) - 1]
    BY <1>4, <2>1
  <2> QED
    BY <1>4, <1>5, <2>1, <2>2
<1> QED
  BY <1>2, <1>4, <1>5, <1>6, <1>7 DEF last

-----------------------------------------------------------------------------
(* group_by_asset_and_window.                                              *)

\* The places of the events of an asset.
Naming(batch, asset_id) == {p \in DOMAIN batch : batch[p].asset_id = asset_id}

\* The list that is cut for an asset has its events, in the order of time.
LEMMA AssetList ==
  ASSUME NEW batch, Timed(batch), NEW asset_id
  PROVE  LET mine == OfAsset(batch, asset_id)
         IN  /\ Timed(mine)
             /\ mine \in Seq(Range(mine))
             /\ \E order : ListsPlaces(mine, batch, Naming(batch, asset_id), order)
             /\ \A k \in DOMAIN mine : mine[k].asset_id = asset_id
             /\ \A i, j \in DOMAIN mine : i <= j => mine[i].observed_at <= mine[j].observed_at
<1> DEFINE mine == OfAsset(batch, asset_id)
           places == Naming(batch, asset_id)
<1>1. mine = SortedByTime(batch, places)
  BY DEF OfAsset, Naming
<1>2. places \in SUBSET (DOMAIN batch)
  BY DEF Naming
<1> HIDE DEF mine, places
<1>3. /\ \E order : ListsPlaces(mine, batch, places, order)
      /\ \A k \in DOMAIN mine : mine[k].observed_at \in Nat
      /\ \A i, j \in DOMAIN mine : i <= j => mine[i].observed_at <= mine[j].observed_at
  BY <1>1, <1>2, SortedLists
<1>4. PICK order : ListsPlaces(mine, batch, places, order)
  BY <1>3
<1>5. Timed(mine) /\ \A k \in DOMAIN mine : mine[k].asset_id = asset_id
  BY <1>3, <1>4 DEF Timed, ListsPlaces, places, Naming
<1>6. mine \in Seq(Range(mine))
  <2>1. mine = [k \in DOMAIN order |-> batch[order[k]]] /\ DOMAIN order = DOMAIN mine
        /\ DOMAIN mine = 1..Len(mine) /\ Len(mine) \in Nat
    BY <1>4 DEF ListsPlaces
  <2>2. mine = [k \in 1..Len(mine) |-> mine[k]]
    BY <2>1
  <2> QED
    BY <2>1, <2>2, ListIsSequence
<1> QED
  BY <1>3, <1>5, <1>6 DEF mine, places

\* The group of an asset that opens at a place of its list.
GroupFrom(batch, g, asset_id, opening) ==
  /\ asset_id \in {batch[p].asset_id : p \in DOMAIN batch}
  /\ opening \in Openings(OfAsset(batch, asset_id))
  /\ g = GroupAt(OfAsset(batch, asset_id), opening)

LEMMA GroupsAreFrom ==
  ASSUME NEW batch, NEW g
  PROVE  g \in GroupByAssetAndWindow(batch)
           <=> \E asset_id, opening : GroupFrom(batch, g, asset_id, opening)
BY DEF GroupByAssetAndWindow, GroupFrom

\* A group is a list, not empty, of events of its asset.
LEMMA GroupHolds ==
  ASSUME NEW batch, Timed(batch), NEW g, NEW asset_id, NEW opening,
         GroupFrom(batch, g, asset_id, opening)
  PROVE  /\ Len(g) \in Nat \ {0} /\ DOMAIN g = 1..Len(g)
         /\ g \in Seq(Range(g))
         /\ \A i \in DOMAIN g : \E p \in DOMAIN batch : g[i] = batch[p]
         /\ \A i \in DOMAIN g : g[i].asset_id = asset_id
<1> DEFINE mine == OfAsset(batch, asset_id)
           places == Naming(batch, asset_id)
<1>1. /\ Timed(mine) /\ mine \in Seq(Range(mine))
      /\ \A k \in DOMAIN mine : mine[k].asset_id = asset_id
  BY AssetList
<1>2. PICK order : ListsPlaces(mine, batch, places, order)
  BY AssetList
<1>3. opening \in Openings(mine) /\ g = GroupAt(mine, opening)
  BY DEF GroupFrom
<1>4. \A k \in DOMAIN mine : \E p \in DOMAIN batch : mine[k] = batch[p]
  BY <1>2 DEF ListsPlaces, Naming
<1> HIDE DEF mine
<1>5. /\ g \in Seq(Range(mine)) /\ Len(g) \in Nat \ {0} /\ DOMAIN g = 1..Len(g)
      /\ \A i \in DOMAIN g : opening + i - 1 \in DOMAIN mine /\ g[i] = mine[opening + i - 1]
  BY <1>1, <1>3, GroupIsPart
<1>6. g \in Seq(Range(g))
  <2>1. g = [k \in 1..Len(g) |-> g[k]]
    BY <1>5, SeqDef
  <2> QED
    BY <1>5, <2>1, ListIsSequence
<1>7. \A i \in DOMAIN g : g[i].asset_id = asset_id /\ \E p \in DOMAIN batch : g[i] = batch[p]
  BY <1>1, <1>4, <1>5
<1> QED
  BY <1>5, <1>6, <1>7

\* Every event is in a group.
LEMMA EveryEventGrouped ==
  ASSUME NEW batch, Timed(batch), NEW p \in DOMAIN batch
  PROVE  \E g \in GroupByAssetAndWindow(batch) : \E i \in DOMAIN g : g[i] = batch[p]
<1> SUFFICES ASSUME NEW asset_id, asset_id = batch[p].asset_id
             PROVE  \E g \in GroupByAssetAndWindow(batch) : \E i \in DOMAIN g : g[i] = batch[p]
  OBVIOUS
<1> DEFINE mine == OfAsset(batch, asset_id)
           places == Naming(batch, asset_id)
<1>1. Timed(mine) /\ mine \in Seq(Range(mine))
  BY AssetList
<1>2. PICK order : ListsPlaces(mine, batch, places, order)
  BY AssetList
<1>3. PICK k \in DOMAIN mine : order[k] = p
  BY <1>2 DEF ListsPlaces, Naming
<1>4. mine[k] = batch[p]
  BY <1>2, <1>3 DEF ListsPlaces
<1> HIDE DEF mine
<1>5. PICK o \in Openings(mine) : k \in o..LastOf(mine, o)
  BY <1>1, <1>3, InSomeGroup
<1> DEFINE g == GroupAt(mine, o)
<1>6. k - o + 1 \in DOMAIN g /\ g[k - o + 1] = mine[k]
  BY <1>1, <1>5, GroupIsPart
<1>7. g \in GroupByAssetAndWindow(batch)
  <2>1. GroupFrom(batch, g, asset_id, o)
    BY <1>5 DEF GroupFrom, mine
  <2> QED
    BY <2>1, GroupsAreFrom
<1> QED
  BY <1>4, <1>6, <1>7

\* No event of a batch is told twice.
Distinct(batch) == \A p, q \in DOMAIN batch : batch[p] = batch[q] => p = q

\* An event is in one group only.
LEMMA EventInOneGroup ==
  ASSUME NEW batch, Timed(batch), Distinct(batch),
         NEW g \in GroupByAssetAndWindow(batch), NEW h \in GroupByAssetAndWindow(batch),
         NEW i \in DOMAIN g, NEW j \in DOMAIN h, g[i] = h[j]
  PROVE  g = h /\ i = j
<1>1. PICK a, o : GroupFrom(batch, g, a, o)
  BY GroupsAreFrom
<1>2. PICK b, q : GroupFrom(batch, h, b, q)
  BY GroupsAreFrom
<1>3. g[i].asset_id = a /\ h[j].asset_id = b
  BY <1>1, <1>2, GroupHolds
<1>4. a = b
  BY <1>3
<1> DEFINE mine == OfAsset(batch, a)
           places == Naming(batch, a)
<1>5. Timed(mine) /\ mine \in Seq(Range(mine))
  BY AssetList
<1>6. PICK order : ListsPlaces(mine, batch, places, order)
  BY AssetList
<1>7. /\ o \in Openings(mine) /\ g = GroupAt(mine, o)
      /\ q \in Openings(mine) /\ h = GroupAt(mine, q)
  BY <1>1, <1>2, <1>4 DEF GroupFrom
<1> HIDE DEF mine
<1> DEFINE k == o + i - 1
           l == q + j - 1
<1>8. /\ i \in Nat /\ k \in o..LastOf(mine, o) /\ k \in DOMAIN mine /\ g[i] = mine[k]
      /\ j \in Nat /\ l \in q..LastOf(mine, q) /\ l \in DOMAIN mine /\ h[j] = mine[l]
  <2>1. /\ DOMAIN g = 1..Len(g) /\ Len(g) \in Nat
        /\ k \in o..LastOf(mine, o) /\ k \in DOMAIN mine /\ g[i] = mine[k]
    BY <1>5, <1>7, GroupIsPart
  <2>2. /\ DOMAIN h = 1..Len(h) /\ Len(h) \in Nat
        /\ l \in q..LastOf(mine, q) /\ l \in DOMAIN mine /\ h[j] = mine[l]
    BY <1>5, <1>7, GroupIsPart
  <2>3. i \in Nat /\ j \in Nat
    BY <2>1, <2>2
  <2> QED
    BY <2>1, <2>2, <2>3
<1> HIDE DEF k, l
<1>9. /\ order[k] \in DOMAIN batch /\ order[l] \in DOMAIN batch
      /\ mine[k] = batch[order[k]] /\ mine[l] = batch[order[l]]
      /\ order[k] = order[l] => k = l
  BY <1>6, <1>8 DEF ListsPlaces, Naming
<1>10. k = l
  BY <1>8, <1>9 DEF Distinct
<1>11. /\ o \in 1..Len(mine) /\ q \in 1..Len(mine) /\ Len(mine) \in Nat
       /\ LastOf(mine, o) \in Int /\ LastOf(mine, q) \in Int
  BY <1>5, <1>7, GroupSpan DEF Timed
<1>12. ~(o < q) /\ ~(q < o)
  <2>1. o < q => LastOf(mine, o) < q
    BY <1>5, <1>7, InOneGroup
  <2>2. q < o => LastOf(mine, q) < o
    BY <1>5, <1>7, InOneGroup
  <2> QED
    BY <1>8, <1>10, <1>11, <2>1, <2>2
<1>13. o = q
  BY <1>11, <1>12
<1> QED
  BY <1>7, <1>8, <1>10, <1>11, <1>13 DEF k, l

\* Inside a group no gap exceeds the window.
LEMMA NoGapInside ==
  ASSUME NEW batch, Timed(batch), NEW g \in GroupByAssetAndWindow(batch), NEW k \in 2..Len(g)
  PROVE  g[k].observed_at - g[k - 1].observed_at \in 0..Window
<1>1. PICK a, o : GroupFrom(batch, g, a, o)
  BY GroupsAreFrom
<1> DEFINE mine == OfAsset(batch, a)
<1>2. /\ Timed(mine) /\ mine \in Seq(Range(mine))
      /\ \A i, j \in DOMAIN mine : i <= j => mine[i].observed_at <= mine[j].observed_at
  BY AssetList
<1>3. o \in Openings(mine) /\ g = GroupAt(mine, o)
  BY <1>1 DEF GroupFrom
<1> HIDE DEF mine
<1>4. /\ Len(g) \in Nat /\ DOMAIN g = 1..Len(g)
      /\ \A i \in DOMAIN g : /\ o + i - 1 \in o..LastOf(mine, o)
                             /\ o + i - 1 \in DOMAIN mine
                             /\ g[i] = mine[o + i - 1]
  BY <1>2, <1>3, GroupIsPart
<1>5. /\ o \in 1..Len(mine) /\ DOMAIN mine = 1..Len(mine) /\ Len(mine) \in Nat
      /\ LastOf(mine, o) \in o..Len(mine)
      /\ \A n \in (o + 1)..LastOf(mine, o) : n \notin Openings(mine)
  BY <1>2, <1>3, GroupSpan DEF Timed
<1>6. k \in DOMAIN g /\ k - 1 \in DOMAIN g
  BY <1>4
<1> DEFINE n == o + k - 1
<1>7. n \in (o + 1)..LastOf(mine, o) /\ n \in DOMAIN mine /\ n - 1 \in DOMAIN mine /\ n # 1
  BY <1>4, <1>5, <1>6
<1>8. g[k] = mine[n] /\ g[k - 1] = mine[n - 1]
  <2>1. g[k] = mine[n] /\ g[k - 1] = mine[o + (k - 1) - 1]
    BY <1>4, <1>6
  <2>2. o + (k - 1) - 1 = n - 1
    BY <1>5
  <2> QED
    BY <2>1, <2>2
<1> HIDE DEF n
<1>9. n \notin Openings(mine)
  BY <1>5, <1>7
<1>10. ~(mine[n].observed_at - mine[n - 1].observed_at > Window)
  BY <1>7, <1>9 DEF Openings
<1>11. /\ mine[n].observed_at \in Nat /\ mine[n - 1].observed_at \in Nat
       /\ mine[n - 1].observed_at <= mine[n].observed_at
  <2>1. n - 1 <= n
    BY <1>5, <1>7
  <2> QED
    BY <1>2, <1>7, <2>1 DEF Timed
<1> QED
  BY <1>8, <1>10, <1>11, WindowAssumption

\* A later group of an asset begins more than a window after an earlier one ends.
LEMMA GapBetween ==
  ASSUME NEW list, Timed(list), list \in Seq(Range(list)),
         \A i, j \in DOMAIN list : i <= j => list[i].observed_at <= list[j].observed_at,
         NEW o \in Openings(list), NEW q \in Openings(list), o < q,
         NEW k \in o..LastOf(list, o), NEW l \in q..LastOf(list, q)
  PROVE  list[l].observed_at - list[k].observed_at > Window
<1>1. /\ o \in 1..Len(list) /\ q \in 1..Len(list) /\ Len(list) \in Nat
      /\ DOMAIN list = 1..Len(list)
      /\ LastOf(list, o) \in o..Len(list) /\ LastOf(list, q) \in q..Len(list)
  BY GroupSpan DEF Timed
<1>2. LastOf(list, o) < q
  BY InOneGroup
<1>3. /\ k \in DOMAIN list /\ l \in DOMAIN list /\ q \in DOMAIN list /\ q - 1 \in DOMAIN list
      /\ k <= q - 1 /\ q <= l /\ q # 1
  BY <1>1, <1>2
<1>4. list[q].observed_at - list[q - 1].observed_at > Window
  BY <1>3 DEF Openings
<1>5. list[k].observed_at <= list[q - 1].observed_at /\ list[q].observed_at <= list[l].observed_at
  BY <1>3
<1>6. /\ list[k].observed_at \in Nat /\ list[l].observed_at \in Nat
      /\ list[q].observed_at \in Nat /\ list[q - 1].observed_at \in Nat
  BY <1>3 DEF Timed
<1>7. \A a, b, c, d \in Nat : b - c > Window /\ a <= c /\ b <= d => d - a > Window
  BY WindowAssumption
<1> QED
  BY <1>4, <1>5, <1>6, <1>7

\* Two groups of one asset are further apart than the window.
LEMMA GroupsApart ==
  ASSUME NEW batch, Timed(batch),
         NEW g \in GroupByAssetAndWindow(batch), NEW h \in GroupByAssetAndWindow(batch),
         g # h, g[1].asset_id = h[1].asset_id, NEW i \in DOMAIN g, NEW j \in DOMAIN h
  PROVE  \/ g[i].observed_at - h[j].observed_at > Window
         \/ h[j].observed_at - g[i].observed_at > Window
<1>1. PICK a, o : GroupFrom(batch, g, a, o)
  BY GroupsAreFrom
<1>2. PICK b, q : GroupFrom(batch, h, b, q)
  BY GroupsAreFrom
<1>3. a = b
  <2>1. Len(g) \in Nat \ {0} /\ DOMAIN g = 1..Len(g) /\ \A n \in DOMAIN g : g[n].asset_id = a
    BY <1>1, GroupHolds
  <2>2. Len(h) \in Nat \ {0} /\ DOMAIN h = 1..Len(h) /\ \A n \in DOMAIN h : h[n].asset_id = b
    BY <1>2, GroupHolds
  <2>3. 1 \in DOMAIN g /\ 1 \in DOMAIN h
    BY <2>1, <2>2
  <2> QED
    BY <2>1, <2>2, <2>3
<1> DEFINE mine == OfAsset(batch, a)
<1>4. /\ Timed(mine) /\ mine \in Seq(Range(mine))
      /\ \A m, n \in DOMAIN mine : m <= n => mine[m].observed_at <= mine[n].observed_at
  BY AssetList
<1>5. /\ o \in Openings(mine) /\ g = GroupAt(mine, o)
      /\ q \in Openings(mine) /\ h = GroupAt(mine, q)
  BY <1>1, <1>2, <1>3 DEF GroupFrom
<1> HIDE DEF mine
<1>6. /\ o + i - 1 \in o..LastOf(mine, o) /\ g[i] = mine[o + i - 1]
      /\ q + j - 1 \in q..LastOf(mine, q) /\ h[j] = mine[q + j - 1]
  BY <1>4, <1>5, GroupIsPart
<1>7. o \in Nat /\ q \in Nat /\ o # q
  <2>1. o \in 1..Len(mine) /\ q \in 1..Len(mine)
    BY <1>4, <1>5, GroupSpan
  <2>2. o # q
    BY <1>5
  <2> QED
    BY <2>1, <2>2
<1>8. CASE o < q
  BY <1>4, <1>5, <1>6, <1>8, GapBetween
<1>9. CASE q < o
  BY <1>4, <1>5, <1>6, <1>9, GapBetween
<1> QED
  BY <1>7, <1>8, <1>9

-----------------------------------------------------------------------------
(* dedupe_by_correlation_key.                                              *)

EventFields ==
  {"id", "asset_id", "observed_at", "severity", "sid", "source_ip", "user", "key", "refs",
   "first_seen", "last_seen", "occurrence_count"}

\* A batch as the caller hands it over: each event stands for itself.
Uncollapsed(batch) ==
  /\ Timed(batch)
  /\ \A p \in DOMAIN batch : DOMAIN batch[p] = EventFields /\ batch[p].refs = {batch[p].id}
  /\ \A p, q \in DOMAIN batch : batch[p].id = batch[q].id => p = q

\* One event tells the same as another of what it is.
Tells(d, e) ==
  /\ d.id = e.id /\ d.asset_id = e.asset_id /\ d.observed_at = e.observed_at
  /\ d.severity = e.severity /\ d.key = e.key

\* The base of a collapsed activity is its first event, with the references of all.
LEMMA CollapsedTells ==
  ASSUME NEW members, DOMAIN members[1] = EventFields
  PROVE  /\ Tells(Collapsed(members), members[1])
         /\ Collapsed(members).refs = {members[k].id : k \in DOMAIN members}
<1>1. {"id", "asset_id", "observed_at", "severity", "key", "refs"} \subseteq DOMAIN members[1]
  BY DEF EventFields
<1> QED
  BY <1>1 DEF Collapsed, Tells

\* The places an event stands for once the batch is deduplicated.
StandsFor(batch, e) == IF e.key = None THEN {p \in DOMAIN batch : batch[p].id = e.id}
                       ELSE PlacesOf(batch, e.key)

\* One event kept: the event itself, or the base of its activity with the references of all.
Kept(batch, e) ==
  IF e.key = None THEN e ELSE Collapsed(SortedByTime(batch, PlacesOf(batch, e.key)))

\* One event left of a batch stands for another: it is that event, or the oldest its
\* activity had.
Stands(d, e) ==
  /\ d.id = e.id \/ (e.key # None /\ d.key = e.key)
  /\ d.observed_at <= e.observed_at

LEMMA KeptTells ==
  ASSUME NEW batch, Uncollapsed(batch), NEW q \in DOMAIN batch, NEW d,
         d = Kept(batch, batch[q])
  PROVE  /\ \E b \in DOMAIN batch : Tells(d, batch[b])
         /\ d.key = batch[q].key
         /\ d.refs = {batch[p].id : p \in StandsFor(batch, batch[q])}
         /\ d.id \in d.refs
         /\ \A p \in StandsFor(batch, batch[q]) : Stands(d, batch[p])
<1>1. CASE batch[q].key = None
  <2>1. StandsFor(batch, batch[q]) = {q}
    BY <1>1 DEF StandsFor, Uncollapsed
  <2>2. d = batch[q] /\ d.refs = {batch[q].id}
    BY <1>1 DEF Kept, Uncollapsed
  <2>3. batch[q].observed_at \in Nat
    BY DEF Uncollapsed, Timed
  <2>4. \A p \in StandsFor(batch, batch[q]) : Stands(d, batch[p])
    BY <2>1, <2>2, <2>3 DEF Stands
  <2> QED
    BY <2>1, <2>2, <2>4 DEF Tells
<1>2. CASE batch[q].key # None
  <2> DEFINE places == PlacesOf(batch, batch[q].key)
             members == SortedByTime(batch, places)
  <2>1. places \in SUBSET (DOMAIN batch) /\ q \in places /\ Timed(batch)
    BY DEF PlacesOf, Uncollapsed
  <2>2. \A p \in places : batch[p].key = batch[q].key /\ p \in DOMAIN batch
    BY DEF PlacesOf
  <2>3. d = Collapsed(members) /\ StandsFor(batch, batch[q]) = places
    BY <1>2 DEF Kept, StandsFor
  <2> HIDE DEF places
  <2>4. PICK order : ListsPlaces(members, batch, places, order)
    BY <2>1, SortedLists
  <2>11. \A i, j \in DOMAIN members : i <= j => members[i].observed_at <= members[j].observed_at
    BY <2>1, SortedLists
  <2> HIDE DEF members
  <2>5. 1 \in DOMAIN members
    BY <2>1, <2>4 DEF ListsPlaces
  <2>6. order[1] \in places /\ members[1] = batch[order[1]]
    BY <2>4, <2>5 DEF ListsPlaces
  <2>7. /\ Tells(d, members[1])
        /\ d.refs = {members[k].id : k \in DOMAIN members}
    BY <2>2, <2>3, <2>6, CollapsedTells DEF Uncollapsed
  <2>8. {members[k].id : k \in DOMAIN members} = {batch[p].id : p \in places}
    BY <2>4 DEF ListsPlaces
  <2>9. ASSUME NEW p \in places PROVE Stands(d, batch[p])
    <3>1. PICK k \in DOMAIN members : order[k] = p /\ members[k] = batch[p]
      BY <2>4 DEF ListsPlaces
    <3>2. 1 <= k
      BY <2>4 DEF ListsPlaces
    <3>3. members[1].observed_at <= members[k].observed_at
      BY <2>5, <2>11, <3>2
    <3> QED
      BY <1>2, <2>2, <2>6, <2>7, <3>1, <3>3 DEF Stands, Tells
  <2>10. d.id \in d.refs
    BY <2>5, <2>7 DEF Tells
  <2> QED
    BY <2>2, <2>3, <2>6, <2>7, <2>8, <2>9, <2>10 DEF Tells
<1> QED
  BY <1>1, <1>2

\* What is left of a batch: each event tells of itself in one place, as itself or by
\* reference, and each activity in one place.
DedupedWell(batch, deduped) ==
  /\ Timed(deduped)
  /\ \A k \in DOMAIN deduped :
       /\ \E b \in DOMAIN batch : Tells(deduped[k], batch[b])
       /\ deduped[k].refs \subseteq {batch[p].id : p \in DOMAIN batch}
       /\ deduped[k].id \in deduped[k].refs
  /\ \A p \in DOMAIN batch : \E k \in DOMAIN deduped :
       batch[p].id \in deduped[k].refs /\ Stands(deduped[k], batch[p])
  /\ \A k, l \in DOMAIN deduped :
       /\ \A id : id \in deduped[k].refs /\ id \in deduped[l].refs => k = l
       /\ deduped[k].key # None /\ deduped[k].key = deduped[l].key => k = l

LEMMA LeadsTell ==
  ASSUME NEW batch, Uncollapsed(batch)
  PROVE  /\ Leads(batch) \in SUBSET (DOMAIN batch)
         /\ \A p \in DOMAIN batch : \E q \in Leads(batch) : p \in StandsFor(batch, batch[q])
         /\ \A q \in Leads(batch) : q \in StandsFor(batch, batch[q])
         /\ \A q, r \in Leads(batch) :
              /\ \A p : p \in StandsFor(batch, batch[q]) /\ p \in StandsFor(batch, batch[r]) => q = r
              /\ batch[q].key # None /\ batch[q].key = batch[r].key => q = r
<1>1. Leads(batch) \in SUBSET (DOMAIN batch)
  BY DEF Leads
<1>2. DOMAIN batch = 1..Len(batch) /\ Len(batch) \in Nat
  BY DEF Uncollapsed, Timed
<1>3. \A q \in DOMAIN batch : q \in StandsFor(batch, batch[q])
  BY DEF StandsFor, PlacesOf
<1>4. ASSUME NEW p \in DOMAIN batch
      PROVE  \E q \in Leads(batch) : p \in StandsFor(batch, batch[q])
  <2>1. CASE batch[p].key = None
    BY <1>3, <2>1 DEF Leads
  <2>2. CASE batch[p].key # None
    <3> DEFINE places == PlacesOf(batch, batch[p].key)
               q == Min(places)
    <3>1. places \in SUBSET (1..Len(batch)) /\ places # {}
      BY <1>2 DEF PlacesOf
    <3>2. q \in places /\ \A r \in places : q <= r
      BY <1>2, <3>1, MinPlace
    <3> HIDE DEF q
    <3>3. q \in DOMAIN batch /\ batch[q].key = batch[p].key
      BY <3>2 DEF PlacesOf
    <3>4. q \in Leads(batch)
      BY <3>2, <3>3 DEF Leads
    <3>5. p \in StandsFor(batch, batch[q])
      BY <2>2, <3>3 DEF StandsFor, PlacesOf
    <3> QED
      BY <3>4, <3>5
  <2> QED
    BY <2>1, <2>2
<1>5. ASSUME NEW q \in Leads(batch), NEW r \in Leads(batch),
             batch[q].key # None, batch[q].key = batch[r].key
      PROVE  q = r
  <2>1. q \in PlacesOf(batch, batch[r].key) /\ r \in PlacesOf(batch, batch[q].key)
    BY <1>1, <1>5 DEF PlacesOf
  <2>2. r <= q /\ q <= r
    BY <1>5, <2>1 DEF Leads
  <2>3. q \in Nat /\ r \in Nat
    BY <1>1, <1>2
  <2> QED
    BY <2>2, <2>3
<1>6. ASSUME NEW q \in Leads(batch), NEW r \in Leads(batch), NEW p,
             p \in StandsFor(batch, batch[q]), p \in StandsFor(batch, batch[r])
      PROVE  q = r
  <2>1. p \in DOMAIN batch /\ q \in DOMAIN batch /\ r \in DOMAIN batch
    BY <1>1, <1>6 DEF StandsFor, PlacesOf
  <2>2. \A a \in DOMAIN batch : p \in StandsFor(batch, batch[a]) =>
          batch[a].key = batch[p].key /\ (batch[a].key = None => a = p)
    BY <2>1 DEF StandsFor, PlacesOf, Uncollapsed
  <2>3. /\ batch[q].key = batch[r].key
        /\ batch[q].key = None => q = p /\ r = p
    BY <1>6, <2>1, <2>2
  <2> QED
    BY <1>5, <2>3
<1> QED
  BY <1>1, <1>3, <1>4, <1>5, <1>6

LEMMA DedupeTells ==
  ASSUME NEW batch, Uncollapsed(batch)
  PROVE  DedupedWell(batch, DedupeByCorrelationKey(batch))
<1> DEFINE kept == InArrivalOrder(batch, Leads(batch))
           deduped == DedupeByCorrelationKey(batch)
<1>1. /\ Leads(batch) \in SUBSET (DOMAIN batch)
      /\ \A p \in DOMAIN batch : \E q \in Leads(batch) : p \in StandsFor(batch, batch[q])
      /\ \A q \in Leads(batch) : q \in StandsFor(batch, batch[q])
      /\ \A q, r \in Leads(batch) :
           /\ \A p : p \in StandsFor(batch, batch[q]) /\ p \in StandsFor(batch, batch[r]) => q = r
           /\ batch[q].key # None /\ batch[q].key = batch[r].key => q = r
  BY LeadsTell
<1>2. PICK order : ListsPlaces(kept, batch, Leads(batch), order)
  <2>1. Leads(batch) \in SUBSET (1..Len(batch)) /\ Len(batch) \in Nat
    BY <1>1 DEF Uncollapsed, Timed
  <2> QED
    BY <2>1, ArrivalLists
<1>3. deduped = [k \in DOMAIN kept |-> Kept(batch, kept[k])]
  BY DEF DedupeByCorrelationKey, Kept
<1> HIDE DEF kept, deduped
<1>4. /\ DOMAIN kept = 1..Len(kept) /\ Len(kept) \in Nat
      /\ \A k \in DOMAIN kept : order[k] \in Leads(batch) /\ kept[k] = batch[order[k]]
      /\ \A p \in Leads(batch) : \E k \in DOMAIN kept : order[k] = p
      /\ \A i, j \in DOMAIN kept : order[i] = order[j] => i = j
  BY <1>2 DEF ListsPlaces
<1>5. ASSUME NEW k \in DOMAIN kept
      PROVE  /\ \E b \in DOMAIN batch : Tells(deduped[k], batch[b])
             /\ deduped[k].key = batch[order[k]].key
             /\ deduped[k].refs = {batch[p].id : p \in StandsFor(batch, batch[order[k]])}
             /\ deduped[k].id \in deduped[k].refs
             /\ \A p \in StandsFor(batch, batch[order[k]]) : Stands(deduped[k], batch[p])
  <2> DEFINE q == order[k]
  <2>1. q \in DOMAIN batch /\ deduped[k] = Kept(batch, batch[q])
    BY <1>1, <1>3, <1>4
  <2> HIDE DEF q
  <2>2. /\ \E b \in DOMAIN batch : Tells(deduped[k], batch[b])
        /\ deduped[k].key = batch[q].key
        /\ deduped[k].refs = {batch[p].id : p \in StandsFor(batch, batch[q])}
        /\ deduped[k].id \in deduped[k].refs
        /\ \A p \in StandsFor(batch, batch[q]) : Stands(deduped[k], batch[p])
    BY <2>1, KeptTells
  <2> QED
    BY <2>2 DEF q
<1>6. DOMAIN deduped = DOMAIN kept
  BY <1>3
<1>7. Timed(deduped)
  <2>1. deduped = [k \in 1..Len(kept) |-> deduped[k]] /\ DOMAIN deduped = 1..Len(kept)
    BY <1>3, <1>4
  <2>2. Len(deduped) = Len(kept)
    BY <1>4, <2>1, ListIsSequence
  <2>3. \A k \in DOMAIN deduped : deduped[k].observed_at \in Nat
    BY <1>5, <1>6 DEF Tells, Uncollapsed, Timed
  <2> QED
    BY <1>4, <2>1, <2>2, <2>3 DEF Timed
<1>8. \A q \in Leads(batch) : StandsFor(batch, batch[q]) \subseteq DOMAIN batch
  BY DEF StandsFor, PlacesOf
<1>9. ASSUME NEW k \in DOMAIN kept
      PROVE  deduped[k].refs \subseteq {batch[p].id : p \in DOMAIN batch}
  <2>1. /\ order[k] \in Leads(batch)
        /\ deduped[k].refs = {batch[p].id : p \in StandsFor(batch, batch[order[k]])}
    BY <1>4, <1>5
  <2>2. StandsFor(batch, batch[order[k]]) \subseteq DOMAIN batch
    BY <1>8, <2>1
  <2> QED
    BY <2>1, <2>2
<1>10. ASSUME NEW p \in DOMAIN batch
       PROVE  \E k \in DOMAIN kept : batch[p].id \in deduped[k].refs /\ Stands(deduped[k], batch[p])
  <2>1. PICK q \in Leads(batch) : p \in StandsFor(batch, batch[q])
    BY <1>1
  <2>2. PICK k \in DOMAIN kept : order[k] = q
    BY <1>4
  <2> QED
    BY <1>5, <2>1, <2>2
<1>11. ASSUME NEW k \in DOMAIN kept, NEW l \in DOMAIN kept
       PROVE  /\ \A id : id \in deduped[k].refs /\ id \in deduped[l].refs => k = l
              /\ deduped[k].key # None /\ deduped[k].key = deduped[l].key => k = l
  <2>1. order[k] = order[l] => k = l
    BY <1>4
  <2>2. order[k] \in Leads(batch) /\ order[l] \in Leads(batch)
    BY <1>4
  <2>3. ASSUME NEW id, id \in deduped[k].refs, id \in deduped[l].refs PROVE k = l
    <3>1. PICK p \in StandsFor(batch, batch[order[k]]) : id = batch[p].id
      BY <1>5, <2>3
    <3>2. PICK q \in StandsFor(batch, batch[order[l]]) : id = batch[q].id
      BY <1>5, <2>3
    <3>3. p = q
      BY <1>8, <2>2, <3>1, <3>2 DEF Uncollapsed
    <3> QED
      BY <1>1, <2>1, <2>2, <3>1, <3>2, <3>3
  <2>4. deduped[k].key # None /\ deduped[k].key = deduped[l].key => k = l
    BY <1>1, <1>5, <2>1, <2>2
  <2> QED
    BY <2>3, <2>4
<1>12. /\ \A k \in DOMAIN deduped :
            /\ \E b \in DOMAIN batch : Tells(deduped[k], batch[b])
            /\ deduped[k].refs \subseteq {batch[p].id : p \in DOMAIN batch}
            /\ deduped[k].id \in deduped[k].refs
       /\ \A p \in DOMAIN batch : \E k \in DOMAIN deduped :
            batch[p].id \in deduped[k].refs /\ Stands(deduped[k], batch[p])
  BY <1>5, <1>6, <1>9, <1>10
<1>13. \A k, l \in DOMAIN deduped :
         /\ \A id : id \in deduped[k].refs /\ id \in deduped[l].refs => k = l
         /\ deduped[k].key # None /\ deduped[k].key = deduped[l].key => k = l
  BY <1>6, <1>11
<1> QED
  BY <1>7, <1>12, <1>13 DEF DedupedWell, deduped

\* What is left of a batch are different events.
LEMMA DedupedDistinct ==
  ASSUME NEW batch, NEW deduped, DedupedWell(batch, deduped)
  PROVE  Distinct(deduped)
<1> SUFFICES ASSUME NEW k \in DOMAIN deduped, NEW l \in DOMAIN deduped, deduped[k] = deduped[l]
             PROVE  k = l
  BY DEF Distinct
<1>1. PICK id : id \in deduped[k].refs
  BY DEF DedupedWell
<1>2. id \in deduped[l].refs
  BY <1>1
<1> QED
  BY <1>1, <1>2 DEF DedupedWell

-----------------------------------------------------------------------------
(* build_incident_payload, and the incidents of one batch.                 *)

\* The four severities have their places as ranks.
LEMMA SeverityRanks ==
  /\ \A s \in Range(Severities) : SeverityRank(s) \in 1..4 /\ Severities[SeverityRank(s)] = s
  /\ \A i \in 1..4 : Severities[i] \in Range(Severities) /\ SeverityRank(Severities[i]) = i
<1>1. DOMAIN Severities = 1..4
  BY DEF Severities
<1>2. \A i, j \in 1..4 : Severities[i] = Severities[j] => i = j
  BY DEF Severities
<1>3. ASSUME NEW s \in Range(Severities)
      PROVE  SeverityRank(s) \in 1..4 /\ Severities[SeverityRank(s)] = s
  <2>1. \E i \in 1..4 : Severities[i] = s
    BY <1>1 DEF Range
  <2> QED
    BY <2>1 DEF SeverityRank
<1>4. ASSUME NEW i \in 1..4
      PROVE  Severities[i] \in Range(Severities) /\ SeverityRank(Severities[i]) = i
  <2>1. Severities[i] \in Range(Severities)
    BY <1>1 DEF Range
  <2>2. SeverityRank(Severities[i]) \in 1..4
        /\ Severities[SeverityRank(Severities[i])] = Severities[i]
    BY <1>3, <2>1
  <2> QED
    BY <1>2, <2>1, <2>2
<1> QED
  BY <1>3, <1>4

\* An incident is as severe as each of its members.
LEMMA AsSevereAsMembers ==
  ASSUME NEW g, NEW k \in DOMAIN g, \A j \in DOMAIN g : g[j].severity \in Range(Severities)
  PROVE  /\ SeverityOfMembers(g) \in Range(Severities)
         /\ SeverityRank(g[k].severity) <= SeverityRank(SeverityOfMembers(g))
<1> DEFINE ranks == {SeverityRank(g[j].severity) : j \in DOMAIN g}
<1>1. ranks \in SUBSET (1..4) /\ SeverityRank(g[k].severity) \in ranks
  BY SeverityRanks
<1>2. SeverityOfMembers(g) = Severities[Max(ranks)]
  BY DEF SeverityOfMembers
<1> HIDE DEF ranks
<1>3. Max(ranks) \in ranks /\ \A r \in ranks : r <= Max(ranks)
  <2>1. 4 \in Nat /\ ranks # {}
    BY <1>1
  <2> QED
    BY <1>1, <2>1, MaxPlace
<1>4. SeverityRank(Severities[Max(ranks)]) = Max(ranks) /\ Severities[Max(ranks)] \in Range(Severities)
  BY <1>1, <1>3, SeverityRanks
<1> QED
  BY <1>1, <1>2, <1>3, <1>4

\* The incidents correlated from a batch.
IncidentsOf(deduped) == {BuildIncident(g) : g \in GroupByAssetAndWindow(deduped)}

LEMMA IncidentsList ==
  ASSUME NEW deduped
  PROVE  /\ \A g : \A i \in DOMAIN g : ListedId(<<BuildIncident(g), i>>) = g[i].id
         /\ \A m : m \in ListedBy(IncidentsOf(deduped))
                     <=> \E g \in GroupByAssetAndWindow(deduped) : \E i \in DOMAIN g :
                           m = <<BuildIncident(g), i>>
<1>1. \A g : BuildIncident(g).member_event_ids = [k \in DOMAIN g |-> g[k].id]
  BY DEF BuildIncident
<1>2. ASSUME NEW g, NEW i \in DOMAIN g
      PROVE  ListedId(<<BuildIncident(g), i>>) = g[i].id
  <2> DEFINE m == <<BuildIncident(g), i>>
  <2>1. m[1] = BuildIncident(g) /\ m[2] = i
    OBVIOUS
  <2>2. ListedId(m) = BuildIncident(g).member_event_ids[i]
    BY <2>1 DEF ListedId
  <2> QED
    BY <1>1, <2>2
<1>3. \A g : DOMAIN BuildIncident(g).member_event_ids = DOMAIN g
  BY <1>1
<1>4. ASSUME NEW m
      PROVE  m \in ListedBy(IncidentsOf(deduped))
               <=> \E g \in GroupByAssetAndWindow(deduped) :
                     \E i \in DOMAIN BuildIncident(g).member_event_ids :
                       m = <<BuildIncident(g), i>>
  BY DEF ListedBy, IncidentsOf
<1> QED
  BY <1>2, <1>3, <1>4

\* Of the events left of a batch, one stands for each event of it.
LEMMA OneStands ==
  ASSUME NEW batch, NEW deduped, Uncollapsed(batch), DedupedWell(batch, deduped),
         NEW p \in DOMAIN batch, NEW k \in DOMAIN deduped, NEW l \in DOMAIN deduped,
         Stands(deduped[k], batch[p]), Stands(deduped[l], batch[p])
  PROVE  k = l
<1>1. \A n \in DOMAIN deduped : deduped[n].id = batch[p].id => deduped[n].key = batch[p].key
  <2> SUFFICES ASSUME NEW n \in DOMAIN deduped, deduped[n].id = batch[p].id
               PROVE  deduped[n].key = batch[p].key
    OBVIOUS
  <2>1. PICK b \in DOMAIN batch : Tells(deduped[n], batch[b])
    BY DEF DedupedWell
  <2>2. b = p
    BY <2>1 DEF Tells, Uncollapsed
  <2> QED
    BY <2>1, <2>2 DEF Tells
<1>2. CASE batch[p].key # None
  <2>1. deduped[k].key = batch[p].key /\ deduped[l].key = batch[p].key
    BY <1>1 DEF Stands
  <2> QED
    BY <1>2, <2>1 DEF DedupedWell
<1>3. CASE batch[p].key = None
  <2>1. deduped[k].id = batch[p].id /\ deduped[l].id = batch[p].id
    BY <1>3 DEF Stands
  <2>2. deduped[k].id \in deduped[k].refs /\ deduped[k].id \in deduped[l].refs
    BY <2>1 DEF DedupedWell
  <2> QED
    BY <2>2 DEF DedupedWell
<1> QED
  BY <1>2, <1>3

\* Each event of a batch is stood for in one place of one group.
LEMMA BatchAccounted ==
  ASSUME NEW batch, NEW deduped, Uncollapsed(batch), DedupedWell(batch, deduped),
         NEW p \in DOMAIN batch
  PROVE  \E g \in GroupByAssetAndWindow(deduped) : \E i \in DOMAIN g :
           /\ Stands(g[i], batch[p])
           /\ \A h \in GroupByAssetAndWindow(deduped) : \A j \in DOMAIN h :
                Stands(h[j], batch[p]) => h = g /\ j = i
<1>1. Timed(deduped) /\ Distinct(deduped)
  BY DedupedDistinct DEF DedupedWell
<1>2. PICK k \in DOMAIN deduped : Stands(deduped[k], batch[p])
  BY DEF DedupedWell
<1>3. PICK g \in GroupByAssetAndWindow(deduped) : \E i \in DOMAIN g : g[i] = deduped[k]
  BY <1>1, EveryEventGrouped
<1>4. PICK i \in DOMAIN g : g[i] = deduped[k]
  BY <1>3
<1>5. ASSUME NEW h \in GroupByAssetAndWindow(deduped), NEW j \in DOMAIN h, Stands(h[j], batch[p])
      PROVE  h = g /\ j = i
  <2>1. PICK l \in DOMAIN deduped : h[j] = deduped[l]
    <3>1. PICK b, q : GroupFrom(deduped, h, b, q)
      BY GroupsAreFrom
    <3> QED
      BY <1>1, <3>1, GroupHolds
  <2>2. k = l
    BY <1>2, <1>5, <2>1, OneStands
  <2>3. g[i] = h[j]
    BY <1>4, <2>1, <2>2
  <2> QED
    BY <1>1, <2>3, EventInOneGroup
<1> QED
  BY <1>2, <1>4, <1>5

\* What a log of events says of those of a batch.
Logged(log, batch) ==
  \A p \in DOMAIN batch :
    /\ batch[p].id \in DOMAIN log
    /\ log[batch[p].id].observed_at = batch[p].observed_at
    /\ log[batch[p].id].severity = batch[p].severity
    /\ log[batch[p].id].raw.key = batch[p].key

\* TellsOf, OneIncidentPerActivity and WindowSeparates, of one batch and as a log has it.
TellsIn(log, m, id) ==
  LET listed == ListedId(m)
  IN  /\ \/ listed = id
         \/ log[id].raw.key # None /\ log[listed].raw.key = log[id].raw.key
      /\ log[listed].observed_at <= log[id].observed_at

OneIncidentEach(log, told) ==
  \A m, n \in ListedBy(told) :
    LET key == log[ListedId(m)].raw.key
    IN  key # None /\ key = log[ListedId(n)].raw.key => m[1] = n[1]

Separated(told) ==
  \A a, b \in told :
    /\ \A k \in 2..Len(a.timeline) : a.timeline[k] - a.timeline[k - 1] \in 0..Window
    /\ a # b /\ a.entities = b.entities =>
         \A k \in DOMAIN a.timeline, l \in DOMAIN b.timeline :
           a.timeline[k] - b.timeline[l] > Window \/ b.timeline[l] - a.timeline[k] > Window

\* What is left of a batch says of itself what the log says.
LEMMA LeftIsLogged ==
  ASSUME NEW log, NEW batch, Logged(log, batch), NEW deduped, DedupedWell(batch, deduped),
         NEW g \in GroupByAssetAndWindow(deduped), NEW i \in DOMAIN g
  PROVE  /\ \E k \in DOMAIN deduped : g[i] = deduped[k]
         /\ g[i].id \in {batch[p].id : p \in DOMAIN batch}
         /\ \E p \in DOMAIN batch : Tells(g[i], batch[p])
         /\ log[g[i].id].observed_at = g[i].observed_at
         /\ log[g[i].id].severity = g[i].severity
         /\ log[g[i].id].raw.key = g[i].key
<1>1. PICK a, o : GroupFrom(deduped, g, a, o)
  BY GroupsAreFrom
<1>2. PICK k \in DOMAIN deduped : g[i] = deduped[k]
  BY <1>1, GroupHolds DEF DedupedWell
<1>3. PICK p \in DOMAIN batch : Tells(g[i], batch[p])
  BY <1>2 DEF DedupedWell
<1> QED
  BY <1>2, <1>3 DEF Tells, Logged

LEMMA BatchOneIncidentEach ==
  ASSUME NEW log, NEW batch, Logged(log, batch), NEW deduped, DedupedWell(batch, deduped)
  PROVE  OneIncidentEach(log, IncidentsOf(deduped))
<1> SUFFICES ASSUME NEW m \in ListedBy(IncidentsOf(deduped)),
                    NEW n \in ListedBy(IncidentsOf(deduped)),
                    log[ListedId(m)].raw.key # None,
                    log[ListedId(m)].raw.key = log[ListedId(n)].raw.key
             PROVE  m[1] = n[1]
  BY DEF OneIncidentEach
<1>1. Timed(deduped) /\ Distinct(deduped)
  BY DedupedDistinct DEF DedupedWell
<1>2. PICK g \in GroupByAssetAndWindow(deduped) : \E k \in DOMAIN g : m = <<BuildIncident(g), k>>
  BY IncidentsList
<1>3. PICK k \in DOMAIN g : m = <<BuildIncident(g), k>>
  BY <1>2
<1>4. PICK h \in GroupByAssetAndWindow(deduped) : \E l \in DOMAIN h : n = <<BuildIncident(h), l>>
  BY IncidentsList
<1>5. PICK l \in DOMAIN h : n = <<BuildIncident(h), l>>
  BY <1>4
<1>6. ListedId(m) = g[k].id /\ ListedId(n) = h[l].id
  BY <1>3, <1>5, IncidentsList
<1>7. PICK i \in DOMAIN deduped : g[k] = deduped[i] /\ log[g[k].id].raw.key = deduped[i].key
  BY LeftIsLogged
<1>8. PICK j \in DOMAIN deduped : h[l] = deduped[j] /\ log[h[l].id].raw.key = deduped[j].key
  BY LeftIsLogged
<1>9. i = j
  BY <1>6, <1>7, <1>8 DEF DedupedWell
<1>10. g[k] = h[l]
  BY <1>7, <1>8, <1>9
<1>11. g = h
  BY <1>1, <1>10, EventInOneGroup
<1> QED
  BY <1>3, <1>5, <1>11

\* The timeline of an incident, and the asset it is about.
LEMMA IncidentTells ==
  ASSUME NEW deduped, Timed(deduped), NEW g \in GroupByAssetAndWindow(deduped)
  PROVE  /\ DOMAIN BuildIncident(g).timeline = DOMAIN g
         /\ Len(BuildIncident(g).timeline) = Len(g) /\ Len(g) \in Nat \ {0}
         /\ DOMAIN g = 1..Len(g)
         /\ \A k \in DOMAIN g : BuildIncident(g).timeline[k] = g[k].observed_at
         /\ BuildIncident(g).entities = {g[1].asset_id} \ {None}
<1>1. PICK a, o : GroupFrom(deduped, g, a, o)
  BY GroupsAreFrom
<1>2. /\ Len(g) \in Nat \ {0} /\ DOMAIN g = 1..Len(g)
      /\ \A i \in DOMAIN g : g[i].asset_id = a
  BY <1>1, GroupHolds
<1> DEFINE timeline == BuildIncident(g).timeline
<1>3. timeline = [k \in DOMAIN g |-> g[k].observed_at]
  BY DEF BuildIncident
<1> HIDE DEF timeline
<1>4. Len(timeline) = Len(g)
  <2>1. DOMAIN timeline = 1..Len(g) /\ timeline = [k \in 1..Len(g) |-> timeline[k]]
    BY <1>2, <1>3
  <2> QED
    BY <1>2, <2>1, ListIsSequence
<1>5. BuildIncident(g).entities = {g[1].asset_id} \ {None}
  <2>1. BuildIncident(g).entities = {g[k].asset_id : k \in DOMAIN g} \ {None}
    BY DEF BuildIncident
  <2>2. {g[k].asset_id : k \in DOMAIN g} = {g[1].asset_id}
    BY <1>2
  <2> QED
    BY <2>1, <2>2
<1> QED
  BY <1>2, <1>3, <1>4, <1>5 DEF timeline

LEMMA SameAsset ==
  ASSUME NEW a, NEW b, {a} \ {None} = {b} \ {None}
  PROVE  a = b
<1>1. CASE a = None
  <2>1. b \notin {b} \ {None}
    BY <1>1
  <2> QED
    BY <1>1, <2>1
<1>2. CASE a # None
  <2>1. a \in {b} \ {None}
    BY <1>2
  <2> QED
    BY <2>1
<1> QED
  BY <1>1, <1>2

LEMMA BatchSeparated ==
  ASSUME NEW batch, NEW deduped, DedupedWell(batch, deduped)
  PROVE  Separated(IncidentsOf(deduped))
<1>1. Timed(deduped)
  BY DEF DedupedWell
<1> SUFFICES ASSUME NEW a \in IncidentsOf(deduped), NEW b \in IncidentsOf(deduped)
             PROVE  /\ \A k \in 2..Len(a.timeline) :
                         a.timeline[k] - a.timeline[k - 1] \in 0..Window
                    /\ a # b /\ a.entities = b.entities =>
                         \A k \in DOMAIN a.timeline, l \in DOMAIN b.timeline :
                           \/ a.timeline[k] - b.timeline[l] > Window
                           \/ b.timeline[l] - a.timeline[k] > Window
  BY DEF Separated
<1>2. PICK g \in GroupByAssetAndWindow(deduped) : a = BuildIncident(g)
  BY DEF IncidentsOf
<1>3. PICK h \in GroupByAssetAndWindow(deduped) : b = BuildIncident(h)
  BY DEF IncidentsOf
<1>4. /\ DOMAIN a.timeline = DOMAIN g /\ Len(a.timeline) = Len(g) /\ Len(g) \in Nat \ {0}
      /\ DOMAIN g = 1..Len(g)
      /\ \A k \in DOMAIN g : a.timeline[k] = g[k].observed_at
      /\ a.entities = {g[1].asset_id} \ {None}
  BY <1>1, <1>2, IncidentTells
<1>5. /\ DOMAIN b.timeline = DOMAIN h
      /\ \A l \in DOMAIN h : b.timeline[l] = h[l].observed_at
      /\ b.entities = {h[1].asset_id} \ {None}
  BY <1>1, <1>3, IncidentTells
<1>6. ASSUME NEW k \in 2..Len(g) PROVE a.timeline[k] - a.timeline[k - 1] \in 0..Window
  <2>1. g[k].observed_at - g[k - 1].observed_at \in 0..Window
    BY <1>1, NoGapInside
  <2>2. k \in DOMAIN g /\ k - 1 \in DOMAIN g
    BY <1>4
  <2> QED
    BY <1>4, <2>1, <2>2
<1>7. ASSUME g # h, a.entities = b.entities, NEW k \in DOMAIN g, NEW l \in DOMAIN h
      PROVE  \/ a.timeline[k] - b.timeline[l] > Window
             \/ b.timeline[l] - a.timeline[k] > Window
  <2>1. g[1].asset_id = h[1].asset_id
    BY <1>4, <1>5, <1>7, SameAsset
  <2>2. \/ g[k].observed_at - h[l].observed_at > Window
        \/ h[l].observed_at - g[k].observed_at > Window
    BY <1>1, <1>7, <2>1, GroupsApart
  <2> QED
    BY <1>4, <1>5, <2>2
<1>8. a # b => g # h
  BY <1>2, <1>3
<1> QED
  BY <1>4, <1>5, <1>6, <1>7, <1>8

\* What is told of a batch is right, as a log has it: its incidents list events of it, are as
\* severe as those, and tell of each of its events once.
ToldWell(log, handed, told) ==
  /\ handed \subseteq DOMAIN log
  /\ \A incident \in told : incident.evidence_refs \subseteq handed
  /\ \A m \in ListedBy(told) :
       /\ ListedId(m) \in handed
       /\ SeverityRank(log[ListedId(m)].severity) <= SeverityRank(m[1].severity)
  /\ \A id \in handed : \E m \in ListedBy(told) :
       TellsIn(log, m, id) /\ \A n \in ListedBy(told) : TellsIn(log, n, id) => n = m
  /\ OneIncidentEach(log, told)
  /\ Separated(told)

LEMMA BatchTold ==
  ASSUME NEW log, NEW batch, Uncollapsed(batch), Logged(log, batch),
         \A p \in DOMAIN batch : batch[p].severity \in Range(Severities),
         NEW deduped, DedupedWell(batch, deduped)
  PROVE  ToldWell(log, {batch[p].id : p \in DOMAIN batch}, IncidentsOf(deduped))
<1> DEFINE handed == {batch[p].id : p \in DOMAIN batch}
           told == IncidentsOf(deduped)
           groups == GroupByAssetAndWindow(deduped)
<1>1. handed \subseteq DOMAIN log
  BY DEF Logged
<1>2. \A incident \in told : incident.evidence_refs \subseteq handed
  <2> SUFFICES ASSUME NEW incident \in told PROVE incident.evidence_refs \subseteq handed
    OBVIOUS
  <2>1. PICK g \in groups : incident = BuildIncident(g)
    BY DEF IncidentsOf
  <2>2. incident.evidence_refs = {g[k].id : k \in DOMAIN g}
    BY <2>1 DEF BuildIncident
  <2>3. \A k \in DOMAIN g : g[k].id \in handed
    BY LeftIsLogged
  <2> QED
    BY <2>2, <2>3
<1>3. ASSUME NEW m \in ListedBy(told)
      PROVE  /\ ListedId(m) \in handed
             /\ SeverityRank(log[ListedId(m)].severity) <= SeverityRank(m[1].severity)
  <2>1. PICK g \in groups : \E i \in DOMAIN g : m = <<BuildIncident(g), i>>
    BY IncidentsList
  <2>2. PICK i \in DOMAIN g : m = <<BuildIncident(g), i>>
    BY <2>1
  <2>3. ListedId(m) = g[i].id /\ m[1].severity = SeverityOfMembers(g)
    BY <2>2, IncidentsList DEF BuildIncident
  <2>4. g[i].id \in handed /\ log[g[i].id].severity = g[i].severity
    BY LeftIsLogged
  <2>5. \A j \in DOMAIN g : g[j].severity \in Range(Severities)
    <3> SUFFICES ASSUME NEW j \in DOMAIN g PROVE g[j].severity \in Range(Severities)
      OBVIOUS
    <3>1. PICK p \in DOMAIN batch : Tells(g[j], batch[p])
      BY LeftIsLogged
    <3> QED
      BY <3>1 DEF Tells
  <2> QED
    BY <2>3, <2>4, <2>5, AsSevereAsMembers
<1>4. ASSUME NEW id \in handed
      PROVE  \E m \in ListedBy(told) :
               TellsIn(log, m, id) /\ \A n \in ListedBy(told) : TellsIn(log, n, id) => n = m
  <2>1. PICK p \in DOMAIN batch : id = batch[p].id
    OBVIOUS
  <2>2. ASSUME NEW h \in groups, NEW j \in DOMAIN h
        PROVE  TellsIn(log, <<BuildIncident(h), j>>, id) <=> Stands(h[j], batch[p])
    <3>1. /\ ListedId(<<BuildIncident(h), j>>) = h[j].id
          /\ log[h[j].id].raw.key = h[j].key /\ log[h[j].id].observed_at = h[j].observed_at
      BY <2>2, IncidentsList, LeftIsLogged
    <3>2. log[id].raw.key = batch[p].key /\ log[id].observed_at = batch[p].observed_at
      BY <2>1 DEF Logged
    <3> QED
      BY <2>1, <3>1, <3>2 DEF TellsIn, Stands
  <2>3. PICK g \in groups : \E i \in DOMAIN g :
          /\ Stands(g[i], batch[p])
          /\ \A h \in groups : \A j \in DOMAIN h : Stands(h[j], batch[p]) => h = g /\ j = i
    BY BatchAccounted
  <2>4. PICK i \in DOMAIN g :
          /\ Stands(g[i], batch[p])
          /\ \A h \in groups : \A j \in DOMAIN h : Stands(h[j], batch[p]) => h = g /\ j = i
    BY <2>3
  <2> DEFINE m == <<BuildIncident(g), i>>
  <2>5. m \in ListedBy(told) /\ TellsIn(log, m, id)
    BY <2>2, <2>4, IncidentsList
  <2>6. ASSUME NEW n \in ListedBy(told), TellsIn(log, n, id) PROVE n = m
    <3>1. PICK h \in groups : \E j \in DOMAIN h : n = <<BuildIncident(h), j>>
      BY IncidentsList
    <3>2. PICK j \in DOMAIN h : n = <<BuildIncident(h), j>>
      BY <3>1
    <3>3. h = g /\ j = i
      BY <2>2, <2>4, <2>6, <3>2
    <3> QED
      BY <3>2, <3>3
  <2> HIDE DEF m
  <2> QED
    BY <2>5, <2>6
<1>5. OneIncidentEach(log, told) /\ Separated(told)
  BY BatchOneIncidentEach, BatchSeparated
<1> QED
  BY <1>1, <1>2, <1>3, <1>4, <1>5 DEF ToldWell

\* What was told stays right when the log goes on.
LEMMA ToldStays ==
  ASSUME NEW log, NEW longer, NEW handed, NEW told, ToldWell(log, handed, told),
         DOMAIN log \subseteq DOMAIN longer, \A i \in DOMAIN log : longer[i] = log[i]
  PROVE  ToldWell(longer, handed, told)
<1>1. \A id \in handed : id \in DOMAIN longer /\ longer[id] = log[id]
  BY DEF ToldWell
<1>2. \A m \in ListedBy(told) : ListedId(m) \in handed
  BY DEF ToldWell
<1>3. \A m \in ListedBy(told) : longer[ListedId(m)] = log[ListedId(m)]
  BY <1>1, <1>2
<1>4. \A m \in ListedBy(told), id \in handed : TellsIn(longer, m, id) <=> TellsIn(log, m, id)
  BY <1>1, <1>3 DEF TellsIn
<1>5. OneIncidentEach(longer, told)
  BY <1>3 DEF ToldWell, OneIncidentEach
<1> QED
  BY <1>1, <1>3, <1>4, <1>5 DEF ToldWell

-----------------------------------------------------------------------------
(* The invariant of the pipeline.                                          *)

\* Severities the normalizer gives are of the common scale, and what is said in that scale
\* stays as it is.
LEMMA NormalizedSeverity ==
  ASSUME NEW source, NEW native
  PROVE  /\ NormalizeSeverity(source, native) \in Range(Severities)
         /\ (\E i \in 1..4 : Severities[i] = native.text) =>
               NormalizeSeverity(source, native) = native.text
<1>1. DOMAIN Severities = 1..4 /\ Range(Severities) = {"low", "medium", "high", "critical"}
  BY DEF Severities, Range
<1>2. native.text \in DOMAIN FalcoPriorities => FalcoPriorities[native.text] \in Range(Severities)
  BY <1>1 DEF FalcoPriorities
<1>3. \A level : WazuhSeverity(level) \in Range(Severities)
  BY <1>1 DEF WazuhSeverity
<1>4. (\E i \in 1..4 : Severities[i] = native.text) => native.text \in Range(Severities)
  BY <1>1 DEF Range
<1> QED
  BY <1>1, <1>2, <1>3, <1>4 DEF NormalizeSeverity

\* The events have their types, and each is what the normalizer made of its raw event.
EventsTyped ==
  /\ seen \subseteq {DedupKey(raw) : raw \in RawEvents}
  /\ \A i \in DOMAIN events :
       /\ events[i].raw \in RawEvents
       /\ events[i].observed_at \in 0..now
       /\ events[i].severity =
            NormalizeSeverity(events[i].raw.source, events[i].raw.severity_native)
  /\ restarts \in 0..MaxRestarts
  /\ now \in 0..MaxTime

\* What waits for the caller are different events, that did reach it.
PendingTyped ==
  /\ pending \in Seq(Nat)
  /\ Range(pending) \subseteq reached
  /\ reached \subseteq DOMAIN events
  /\ \A p, q \in DOMAIN pending : pending[p] = pending[q] => p = q

PipelineInv ==
  /\ EventsInv
  /\ EventsTyped
  /\ PendingTyped
  /\ incidents \in Seq(Range(incidents))
  /\ \A batch \in Range(incidents) :
       batch.handed \subseteq reached /\ ToldWell(events, batch.handed, batch.told)

\* One more element at the end of a list.
LEMMA AppendRange ==
  ASSUME NEW S, NEW list \in Seq(S), NEW x
  PROVE  /\ Append(list, x) \in Seq(S \cup {x})
         /\ Range(Append(list, x)) = Range(list) \cup {x}
         /\ Len(Append(list, x)) = Len(list) + 1 /\ Len(list) \in Nat
         /\ DOMAIN Append(list, x) = DOMAIN list \cup {Len(list) + 1}
         /\ \A i \in DOMAIN list : Append(list, x)[i] = list[i]
         /\ Append(list, x)[Len(list) + 1] = x
<1>1. list \in Seq(S \cup {x}) /\ x \in S \cup {x}
  <2>1. Len(list) \in Nat /\ list \in [1..Len(list) -> S]
    BY LenProperties
  <2>2. list \in [1..Len(list) -> S \cup {x}]
    BY <2>1
  <2> QED
    BY <2>1, <2>2, SeqDef
<1>2. /\ Append(list, x) \in Seq(S \cup {x})
      /\ Len(Append(list, x)) = Len(list) + 1
      /\ \A i \in 1..Len(list) : Append(list, x)[i] = list[i]
      /\ Append(list, x)[Len(list) + 1] = x
      /\ Len(list) \in Nat
  BY <1>1, AppendProperties, LenProperties
<1>3. /\ DOMAIN list = 1..Len(list)
      /\ DOMAIN Append(list, x) = 1..(Len(list) + 1)
  BY <1>1, <1>2, LenProperties
<1>4. 1..(Len(list) + 1) = 1..Len(list) \cup {Len(list) + 1}
  BY <1>2
<1>5. Range(Append(list, x)) = Range(list) \cup {x}
  BY <1>2, <1>3, <1>4 DEF Range
<1> QED
  BY <1>2, <1>3, <1>4, <1>5

LEMMA OneMore ==
  ASSUME NEW list, list \in Seq(Range(list)), NEW x
  PROVE  /\ Append(list, x) \in Seq(Range(Append(list, x)))
         /\ Range(Append(list, x)) = Range(list) \cup {x}
<1>1. PICK S : S = Range(list)
  OBVIOUS
<1>2. list \in Seq(S)
  BY <1>1
<1>3. Append(list, x) \in Seq(S \cup {x})
  BY <1>2, AppendRange
<1>4. Range(Append(list, x)) = Range(list) \cup {x}
  <2>1. /\ DOMAIN Append(list, x) = DOMAIN list \cup {Len(list) + 1}
        /\ \A i \in DOMAIN list : Append(list, x)[i] = list[i]
        /\ Append(list, x)[Len(list) + 1] = x
    BY <1>2, AppendRange
  <2> QED
    BY <2>1 DEF Range
<1> QED
  BY <1>1, <1>3, <1>4

LEMMA InitPipeline == Init => PipelineInv
<1> SUFFICES ASSUME Init PROVE PipelineInv
  OBVIOUS
<1>1. events = <<>> /\ started = 0 /\ now = 0 /\ pending = <<>> /\ incidents = <<>>
      /\ seen = {} /\ restarts = 0 /\ reached = {}
  BY DEF Init
<1>2. DOMAIN events = {} /\ DOMAIN pending = {} /\ Range(pending) = {} /\ Range(incidents) = {}
  BY <1>1 DEF Range
<1>3. EventsInv
  BY <1>1, EmptySeq DEF EventsInv
<1>4. EventsTyped
  BY <1>1, <1>2, PipelineBounds DEF EventsTyped
<1>5. PendingTyped
  BY <1>1, <1>2, EmptySeq DEF PendingTyped
<1>6. incidents \in Seq(Range(incidents))
  BY <1>1, EmptySeq
<1> QED
  BY <1>2, <1>3, <1>4, <1>5, <1>6 DEF PipelineInv

\* Steps that leave the incidents and what waits as they are, and the list of events as it is
\* but for one more at the end.
LEMMA EventsGrow ==
  ASSUME PipelineInv, EventsInv', EventsTyped',
         UNCHANGED <<pending, reached, incidents>>,
         DOMAIN events \subseteq DOMAIN events', \A i \in DOMAIN events : events'[i] = events[i]
  PROVE  PipelineInv'
<1>1. PendingTyped'
  BY DEF PipelineInv, PendingTyped
<1>2. \A batch \in Range(incidents) :
        batch.handed \subseteq reached' /\ ToldWell(events', batch.handed, batch.told)
  BY ToldStays DEF PipelineInv
<1>3. (\A batch \in Range(incidents) :
         batch.handed \subseteq reached /\ ToldWell(events, batch.handed, batch.told))'
  BY <1>2 DEF ToldWell, TellsIn, OneIncidentEach
<1>4. (incidents \in Seq(Range(incidents)))'
  BY DEF PipelineInv
<1> QED
  BY <1>1, <1>3, <1>4 DEF PipelineInv

LEMMA ProcessKeeps ==
  ASSUME PipelineInv, NEW raw \in RawEvents, NEW valid \in BOOLEAN, Process(raw, valid)
  PROVE  PipelineInv'
<1> DEFINE e == SecurityEvent(raw, now)
<1>1. EventsInv'
  <2>1. EventsInv /\ [Next]_vars
    BY DEF PipelineInv, Next
  <2> QED
    BY <2>1, EventsStep
<1>2. /\ seen' = SeenAfter(seen, raw, valid)
      /\ UNCHANGED <<started, restarts, now, pending, reached, incidents>>
      /\ events' = events \/ events' = Append(events, e)
  BY DEF Process
<1>3. events \in Seq(MadeEvents) /\ now \in Nat
  BY DEF PipelineInv, EventsInv
<1>4. /\ e.raw = raw /\ e.observed_at = now
      /\ e.severity = NormalizeSeverity(raw.source, raw.severity_native)
  BY DEF SecurityEvent
<1> HIDE DEF e
<1>5. /\ DOMAIN events \subseteq DOMAIN events'
      /\ \A i \in DOMAIN events : events'[i] = events[i]
      /\ \A i \in DOMAIN events' : i \in DOMAIN events \/ events'[i] = e
  <2>1. CASE events' = events
    BY <2>1
  <2>2. CASE events' = Append(events, e)
    <3>1. /\ DOMAIN events' = DOMAIN events \cup {Len(events) + 1}
          /\ \A i \in DOMAIN events : events'[i] = events[i]
          /\ events'[Len(events) + 1] = e
      BY <1>3, <2>2, AppendRange
    <3> QED
      BY <3>1
  <2> QED
    BY <1>2, <2>1, <2>2
<1>6. EventsTyped'
  <2>1. \A i \in DOMAIN events :
          /\ events[i].raw \in RawEvents
          /\ events[i].observed_at \in 0..now
          /\ events[i].severity =
               NormalizeSeverity(events[i].raw.source, events[i].raw.severity_native)
    BY DEF PipelineInv, EventsTyped
  <2>2. \A i \in DOMAIN events' :
          /\ events'[i].raw \in RawEvents
          /\ events'[i].observed_at \in 0..now
          /\ events'[i].severity =
               NormalizeSeverity(events'[i].raw.source, events'[i].raw.severity_native)
    BY <1>3, <1>4, <1>5, <2>1
  <2>3. seen' \subseteq {DedupKey(r) : r \in RawEvents}
    BY <1>2 DEF PipelineInv, EventsTyped, SeenAfter
  <2>4. restarts' \in 0..MaxRestarts /\ now' \in 0..MaxTime /\ now' = now
    BY <1>2 DEF PipelineInv, EventsTyped
  <2> QED
    BY <2>2, <2>3, <2>4 DEF EventsTyped
<1> QED
  BY <1>1, <1>2, <1>5, <1>6, EventsGrow

LEMMA RestartOrTickKeeps ==
  ASSUME PipelineInv, Restart \/ Tick
  PROVE  PipelineInv'
<1>1. EventsInv'
  <2>1. EventsInv /\ [Next]_vars
    BY DEF PipelineInv, Next
  <2> QED
    BY <2>1, EventsStep
<1>2. UNCHANGED <<events, pending, reached, incidents>>
  BY DEF Restart, Tick
<1>3. EventsTyped'
  <2>1. /\ now \in 0..MaxTime /\ restarts \in 0..MaxRestarts
        /\ now' \in {now, now + 1} /\ now' \in 0..MaxTime
        /\ restarts' \in 0..MaxRestarts
    BY PipelineBounds DEF PipelineInv, EventsTyped, Restart, Tick
  <2>2. seen' \subseteq {DedupKey(r) : r \in RawEvents}
    BY DEF PipelineInv, EventsTyped, Restart, Tick
  <2>3. \A t \in 0..now : t \in 0..now'
    BY <2>1
  <2> QED
    BY <1>2, <2>1, <2>2, <2>3 DEF PipelineInv, EventsTyped
<1> QED
  BY <1>1, <1>2, <1>3, EventsGrow

\* Incidents that stay as they are still tell what they told when more events have reached the
\* caller.
LEMMA DeliverKeeps ==
  ASSUME PipelineInv, NEW id \in DOMAIN events, Deliver(id)
  PROVE  PipelineInv'
<1>1. /\ id \notin reached
      /\ pending' = Append(pending, id)
      /\ reached' = reached \cup {id}
      /\ UNCHANGED <<seen, events, started, restarts, now, incidents>>
  BY DEF Deliver
<1>2. EventsInv' /\ EventsTyped'
  BY <1>1 DEF PipelineInv, EventsInv, EventsTyped
<1>3. /\ pending \in Seq(Nat) /\ Range(pending) \subseteq reached /\ reached \subseteq DOMAIN events
      /\ \A p, q \in DOMAIN pending : pending[p] = pending[q] => p = q
  BY DEF PipelineInv, PendingTyped
<1>4. id \in Nat
  <2>1. events \in Seq(MadeEvents)
    BY DEF PipelineInv, EventsInv
  <2>2. DOMAIN events = 1..Len(events) /\ Len(events) \in Nat
    BY <2>1, LenProperties
  <2> QED
    BY <2>2
<1>5. /\ pending' \in Seq(Nat)
      /\ Range(pending') = Range(pending) \cup {id}
      /\ DOMAIN pending' = DOMAIN pending \cup {Len(pending) + 1}
      /\ \A i \in DOMAIN pending : pending'[i] = pending[i]
      /\ pending'[Len(pending) + 1] = id
  <2>1. Nat \cup {id} = Nat
    BY <1>4
  <2> QED
    BY <1>1, <1>3, <2>1, AppendRange
<1>6. \A p \in DOMAIN pending : pending[p] # id
  BY <1>1, <1>3 DEF Range
<1>7. PendingTyped'
  <2>1. \A p, q \in DOMAIN pending' : pending'[p] = pending'[q] => p = q
    BY <1>3, <1>5, <1>6
  <2> QED
    BY <1>1, <1>3, <1>5, <2>1 DEF PendingTyped
<1>8. (incidents \in Seq(Range(incidents)))'
  BY <1>1 DEF PipelineInv
<1>9. (\A batch \in Range(incidents) :
         batch.handed \subseteq reached /\ ToldWell(events, batch.handed, batch.told))'
  BY <1>1 DEF PipelineInv, ToldWell, TellsIn, OneIncidentEach
<1> QED
  BY <1>2, <1>7, <1>8, <1>9 DEF PipelineInv

\* The batch the caller hands over: what waits, each event once and for itself.
LEMMA BatchIsUncollapsed ==
  ASSUME PipelineInv
  PROVE  /\ Uncollapsed(Batch)
         /\ DOMAIN Batch = DOMAIN pending
         /\ \A p \in DOMAIN Batch :
              /\ Batch[p].id = pending[p]
              /\ pending[p] \in DOMAIN events /\ pending[p] \in Range(pending)
              /\ Batch[p].severity = events[pending[p]].severity
              /\ Batch[p].asset_id = events[pending[p]].asset_id
              /\ Batch[p].observed_at = events[pending[p]].observed_at
         /\ Logged(events, Batch)
<1>1. /\ pending \in Seq(Nat) /\ Range(pending) \subseteq DOMAIN events
      /\ \A p, q \in DOMAIN pending : pending[p] = pending[q] => p = q
  BY DEF PipelineInv, PendingTyped
<1>2. DOMAIN pending = 1..Len(pending) /\ Len(pending) \in Nat
  BY <1>1, LenProperties
<1>3. DOMAIN Batch = DOMAIN pending
  BY DEF Batch
<1>4. ASSUME NEW p \in DOMAIN pending
      PROVE  /\ Batch[p].id = pending[p]
             /\ Batch[p].severity = events[pending[p]].severity
             /\ Batch[p].asset_id = events[pending[p]].asset_id
             /\ Batch[p].observed_at = events[pending[p]].observed_at
             /\ Batch[p].key = events[pending[p]].raw.key
             /\ Batch[p].refs = {pending[p]}
             /\ DOMAIN Batch[p] = EventFields
  BY DEF Batch, EventFields
<1>5. \A p \in DOMAIN pending : pending[p] \in DOMAIN events /\ pending[p] \in Range(pending)
  BY <1>1 DEF Range
<1>6. Len(Batch) = Len(pending)
  <2>1. Batch = [k \in 1..Len(pending) |-> Batch[k]]
    BY <1>2 DEF Batch
  <2> QED
    BY <1>2, <1>3, <2>1, ListIsSequence
<1>7. \A i \in DOMAIN events : events[i].observed_at \in Nat
  BY DEF PipelineInv, EventsInv, EventsTyped
<1>8. Timed(Batch)
  BY <1>2, <1>3, <1>4, <1>5, <1>6, <1>7 DEF Timed
<1>9. Uncollapsed(Batch)
  <2>1. \A p \in DOMAIN Batch : DOMAIN Batch[p] = EventFields /\ Batch[p].refs = {Batch[p].id}
    BY <1>3, <1>4
  <2>2. \A p, q \in DOMAIN Batch : Batch[p].id = Batch[q].id => p = q
    BY <1>1, <1>3, <1>4
  <2> QED
    BY <1>8, <2>1, <2>2 DEF Uncollapsed
<1>10. Logged(events, Batch)
  BY <1>3, <1>4, <1>5 DEF Logged
<1> QED
  BY <1>3, <1>4, <1>5, <1>9, <1>10

\* Correlating what waits accounts for it, once, and leaves the earlier incidents alone.
LEMMA CorrelateKeeps ==
  ASSUME PipelineInv, Correlate
  PROVE  PipelineInv'
<1> DEFINE batch == Batch
           deduped == DedupeByCorrelationKey(batch)
           new == [handed |-> Range(pending), told |-> IncidentsOf(deduped)]
<1>1. /\ incidents' = Append(incidents, new)
      /\ pending' = <<>>
      /\ UNCHANGED <<seen, events, started, restarts, now, reached>>
  BY DEF Correlate, IncidentsOf
<1>2. /\ Uncollapsed(batch) /\ Logged(events, batch)
      /\ DOMAIN batch = DOMAIN pending
      /\ \A p \in DOMAIN batch :
           /\ batch[p].id = pending[p]
           /\ pending[p] \in DOMAIN events
           /\ batch[p].severity = events[pending[p]].severity
  BY BatchIsUncollapsed
<1> HIDE DEF batch
<1>3. DedupedWell(batch, deduped)
  BY <1>2, DedupeTells
<1> HIDE DEF deduped
<1>4. {batch[p].id : p \in DOMAIN batch} = Range(pending)
  BY <1>2 DEF Range
<1>5. \A p \in DOMAIN batch : batch[p].severity \in Range(Severities)
  <2>1. \A i \in DOMAIN events : events[i].severity \in Range(Severities)
    BY NormalizedSeverity DEF PipelineInv, EventsTyped
  <2> QED
    BY <1>2, <2>1
<1>6. ToldWell(events, Range(pending), IncidentsOf(deduped))
  BY <1>2, <1>3, <1>4, <1>5, BatchTold
<1>7. EventsInv' /\ EventsTyped'
  BY <1>1 DEF PipelineInv, EventsInv, EventsTyped
<1>8. PendingTyped'
  <2>1. pending' \in Seq(Nat) /\ DOMAIN pending' = {} /\ Range(pending') = {}
    BY <1>1 DEF Range
  <2>2. reached \subseteq DOMAIN events
    BY DEF PipelineInv, PendingTyped
  <2> QED
    BY <1>1, <2>1, <2>2 DEF PendingTyped
<1>9. new.handed = Range(pending) /\ new.told = IncidentsOf(deduped)
  OBVIOUS
<1> HIDE DEF new
<1>10. /\ incidents' \in Seq(Range(incidents'))
       /\ Range(incidents') = Range(incidents) \cup {new}
  <2>1. incidents \in Seq(Range(incidents))
    BY DEF PipelineInv
  <2> QED
    BY <1>1, <2>1, OneMore
<1>11. \A b \in Range(incidents') :
         b.handed \subseteq reached /\ ToldWell(events, b.handed, b.told)
  <2>1. Range(pending) \subseteq reached
    BY DEF PipelineInv, PendingTyped
  <2>2. \A b \in Range(incidents) :
          b.handed \subseteq reached /\ ToldWell(events, b.handed, b.told)
    BY DEF PipelineInv
  <2> QED
    BY <1>6, <1>9, <1>10, <2>1, <2>2
<1>12. (\A b \in Range(incidents) :
          b.handed \subseteq reached /\ ToldWell(events, b.handed, b.told))'
  BY <1>1, <1>11 DEF ToldWell, TellsIn, OneIncidentEach
<1> QED
  BY <1>7, <1>8, <1>10, <1>12 DEF PipelineInv

LEMMA NextPipeline == PipelineInv /\ [Next]_vars => PipelineInv'
<1> SUFFICES ASSUME PipelineInv, [Next]_vars PROVE PipelineInv'
  OBVIOUS
<1>1. CASE UNCHANGED vars
  <2>1. UNCHANGED <<seen, events, started, restarts, now, pending, reached, incidents>>
    BY <1>1 DEF vars
  <2>2. EventsInv' /\ EventsTyped'
    BY <2>1 DEF PipelineInv, EventsInv, EventsTyped
  <2>3. DOMAIN events \subseteq DOMAIN events' /\ \A i \in DOMAIN events : events'[i] = events[i]
    BY <2>1
  <2> QED
    BY <2>1, <2>2, <2>3, EventsGrow
<1> QED
  BY <1>1, ProcessKeeps, RestartOrTickKeeps, DeliverKeeps, CorrelateKeeps DEF Next

LEMMA PipelineInvariant == Spec => []PipelineInv
<1> QED
  BY InitPipeline, NextPipeline, PTL DEF Spec

-----------------------------------------------------------------------------
(* The theorems.                                                           *)

LEMMA TypesByInv == PipelineInv => TypeOK
<1> SUFFICES ASSUME PipelineInv PROVE TypeOK
  OBVIOUS
<1>1. EventsInv /\ EventsTyped /\ PendingTyped
  BY DEF PipelineInv
<1>2. \A i \in DOMAIN events : events[i].severity \in Range(Severities)
  BY <1>1, NormalizedSeverity DEF EventsTyped
<1>3. \A batch \in Range(incidents) :
        /\ batch.handed \subseteq reached
        /\ \A incident \in batch.told : incident.evidence_refs \subseteq batch.handed
  BY DEF PipelineInv, ToldWell
<1> QED
  BY <1>1, <1>2, <1>3 DEF TypeOK, EventsInv, EventsTyped, PendingTyped

\* The state keeps its types through any number of alerts, restarts and batches.
THEOREM TypeCorrect == Spec => []TypeOK
<1> QED
  BY PipelineInvariant, TypesByInv, PTL

LEMMA AccountedByInv == PipelineInv => EveryEventAccountedOnce
<1> SUFFICES ASSUME PipelineInv PROVE EveryEventAccountedOnce
  OBVIOUS
<1>1. ASSUME NEW id \in Range(pending)
      PROVE  LET deduped == DedupeByCorrelationKey(Batch)
             IN  Cardinality({k \in DOMAIN deduped : id \in deduped[k].refs}) = 1
  <2> DEFINE batch == Batch
             deduped == DedupeByCorrelationKey(batch)
  <2>1. /\ Uncollapsed(batch) /\ DOMAIN batch = DOMAIN pending
        /\ \A p \in DOMAIN batch : batch[p].id = pending[p]
    BY BatchIsUncollapsed
  <2> HIDE DEF batch
  <2>2. DedupedWell(batch, deduped)
    BY <2>1, DedupeTells
  <2> HIDE DEF deduped
  <2>3. PICK p \in DOMAIN batch : batch[p].id = id
    BY <2>1 DEF Range
  <2>4. PICK k \in DOMAIN deduped : id \in deduped[k].refs
    BY <2>2, <2>3 DEF DedupedWell
  <2>5. {l \in DOMAIN deduped : id \in deduped[l].refs} = {k}
    BY <2>2, <2>4 DEF DedupedWell
  <2>6. Cardinality({l \in DOMAIN deduped : id \in deduped[l].refs}) = 1
    BY <2>5, FS_Singleton
  <2> QED
    BY <2>6 DEF batch, deduped
<1>2. ASSUME NEW batch \in Range(incidents), NEW id \in batch.handed
      PROVE  Cardinality({m \in ListedBy(batch.told) : TellsOf(m, id)}) = 1
  <2>1. \A m : TellsOf(m, id) <=> TellsIn(events, m, id)
    BY DEF TellsOf, TellsIn
  <2>2. PICK m \in ListedBy(batch.told) :
          /\ TellsIn(events, m, id)
          /\ \A n \in ListedBy(batch.told) : TellsIn(events, n, id) => n = m
    BY DEF PipelineInv, ToldWell
  <2>3. {n \in ListedBy(batch.told) : TellsOf(n, id)} = {m}
    BY <2>1, <2>2
  <2> QED
    BY <2>3, FS_Singleton
<1> QED
  BY <1>1, <1>2 DEF EveryEventAccountedOnce

\* dedupe_by_correlation_key loses no reference and gives none twice, and the incidents of a
\* batch tell of each of its events once, itself or by the oldest of its activity, for any
\* window and any order of arrival.
THEOREM EventsAreAccounted == Spec => []EveryEventAccountedOnce
<1> QED
  BY PipelineInvariant, AccountedByInv, PTL

LEMMA ActivityByInv == PipelineInv => OneIncidentPerActivity
BY DEF PipelineInv, ToldWell, OneIncidentEach, OneIncidentPerActivity

\* An activity marked with one key is told of by at most one incident of a batch.
THEOREM ActivitiesGiveOneIncident == Spec => []OneIncidentPerActivity
<1> QED
  BY PipelineInvariant, ActivityByInv, PTL

LEMMA SeparatedByInv == PipelineInv => WindowSeparates
BY DEF PipelineInv, ToldWell, Separated, WindowSeparates

\* group_by_asset_and_window cuts the events of an asset where the gap exceeds the window and
\* nowhere else, for any window and any order of arrival.
THEOREM WindowsSeparate == Spec => []WindowSeparates
<1> QED
  BY PipelineInvariant, SeparatedByInv, PTL

LEMMA SeverityByInv == PipelineInv => SeverityNotUnderstated
<1> SUFFICES ASSUME PipelineInv, NEW batch \in Range(incidents), NEW m \in ListedBy(batch.told),
                    \E i \in 1..4 : Severities[i] = events[ListedId(m)].raw.severity_native.text
             PROVE  SeverityRank(events[ListedId(m)].raw.severity_native.text)
                      <= SeverityRank(m[1].severity)
  BY DEF SeverityNotUnderstated
<1>1. /\ ListedId(m) \in DOMAIN events
      /\ SeverityRank(events[ListedId(m)].severity) <= SeverityRank(m[1].severity)
  BY DEF PipelineInv, ToldWell
<1>2. events[ListedId(m)].severity = events[ListedId(m)].raw.severity_native.text
  BY <1>1, NormalizedSeverity DEF PipelineInv, EventsTyped
<1> QED
  BY <1>1, <1>2

\* What a source says in the common scale is not played down by the incident it ends in.
THEOREM SeverityIsKept == Spec => []SeverityNotUnderstated
<1> QED
  BY PipelineInvariant, SeverityByInv, PTL

-----------------------------------------------------------------------------
(* The backtest and the gate.                                              *)

\* The runs of a rule with the correlator's window are the correlator's groups.
LEMMA RunsAreGroups ==
  ASSUME NEW list, Timed(list), list \in Seq(Range(list)), NEW rule, rule.timeframe = Window
  PROVE  Runs(list, rule) = {GroupAt(list, o) : o \in Openings(list)}
<1> DEFINE n == Len(list)
           Whole(a, b) == /\ a = 1 \/ Apart(list, a, rule)
                          /\ b = n \/ Apart(list, b + 1, rule)
                          /\ \A k \in (a + 1)..b : ~Apart(list, k, rule)
<1>1. n \in Nat /\ DOMAIN list = 1..n
  BY DEF Timed
<1>2. \A k \in 1..n : k \in Openings(list) <=> k = 1 \/ Apart(list, k, rule)
  BY <1>1 DEF Openings, Apart
<1>3. \A g : g \in Runs(list, rule) <=>
        \E r \in (1..n) \X (1..n) : r[1] <= r[2] /\ Whole(r[1], r[2]) /\ g = SubSeq(list, r[1], r[2])
  BY DEF Runs
<1>4. \A o \in Openings(list) : GroupAt(list, o) = SubSeq(list, o, LastOf(list, o))
  BY GroupIsPart
<1> HIDE DEF n
<1>5. ASSUME NEW a \in 1..n, NEW b \in 1..n, a <= b, Whole(a, b)
      PROVE  a \in Openings(list) /\ b = LastOf(list, a)
  <2>1. a \in Openings(list)
    BY <1>2, <1>5
  <2> DEFINE last == LastOf(list, a)
  <2>2. /\ last \in a..n
        /\ \A k \in (a + 1)..last : k \notin Openings(list)
        /\ last = n \/ last + 1 \in Openings(list)
    BY <2>1, GroupSpan DEF n
  <2> HIDE DEF last
  <2>3. ~(last < b)
    <3> SUFFICES ASSUME last < b PROVE FALSE
      OBVIOUS
    <3>1. last + 1 \in (a + 1)..b /\ last + 1 \in 1..n /\ last + 1 # 1 /\ last # n
      BY <1>1, <2>2
    <3>2. Apart(list, last + 1, rule)
      BY <1>2, <2>2, <3>1
    <3> QED
      BY <1>5, <3>1, <3>2
  <2>4. ~(b < last)
    <3> SUFFICES ASSUME b < last PROVE FALSE
      OBVIOUS
    <3>1. b + 1 \in (a + 1)..last /\ b + 1 \in 1..n /\ b # n
      <4>1. a \in Nat /\ b \in Nat /\ last \in Nat /\ last <= n /\ a <= b /\ 1 <= b
        BY <1>1, <1>5, <2>2
      <4> QED
        BY <1>1, <4>1
    <3>2. b + 1 \in Openings(list)
      BY <1>2, <1>5, <3>1
    <3> QED
      BY <2>2, <3>1, <3>2
  <2>5. last \in Int /\ b \in Int
    BY <1>1, <2>2
  <2> QED
    BY <2>1, <2>3, <2>4, <2>5 DEF last
<1>6. ASSUME NEW o \in Openings(list)
      PROVE  /\ o \in 1..n /\ LastOf(list, o) \in 1..n /\ o <= LastOf(list, o)
             /\ Whole(o, LastOf(list, o))
  <2> DEFINE last == LastOf(list, o)
  <2>1. /\ o \in 1..n /\ last \in o..n
        /\ \A k \in (o + 1)..last : k \notin Openings(list)
        /\ last = n \/ last + 1 \in Openings(list)
    BY GroupSpan DEF n
  <2> HIDE DEF last
  <2>2. last \in 1..n /\ o <= last
    BY <1>1, <2>1
  <2>3. o = 1 \/ Apart(list, o, rule)
    BY <1>2, <2>1
  <2>4. last = n \/ Apart(list, last + 1, rule)
    <3>1. last # n => last + 1 \in 1..n /\ last + 1 # 1
      BY <1>1, <2>2
    <3> QED
      BY <1>2, <2>1, <3>1
  <2>5. \A k \in (o + 1)..last : ~Apart(list, k, rule)
    <3>1. \A k \in (o + 1)..last : k \in 1..n
      BY <1>1, <2>1
    <3> QED
      BY <1>2, <2>1, <3>1
  <2> QED
    BY <2>1, <2>2, <2>3, <2>4, <2>5 DEF last
<1> HIDE DEF Whole
<1>7. ASSUME NEW g \in Runs(list, rule)
      PROVE  \E o \in Openings(list) : g = GroupAt(list, o)
  <2>1. PICK r \in (1..n) \X (1..n) :
          r[1] <= r[2] /\ Whole(r[1], r[2]) /\ g = SubSeq(list, r[1], r[2])
    BY <1>3
  <2> QED
    BY <1>4, <1>5, <2>1
<1>8. ASSUME NEW o \in Openings(list) PROVE GroupAt(list, o) \in Runs(list, rule)
  <2> DEFINE r == <<o, LastOf(list, o)>>
  <2>1. r \in (1..n) \X (1..n) /\ r[1] = o /\ r[2] = LastOf(list, o)
    BY <1>6
  <2> QED
    BY <1>3, <1>4, <1>6, <2>1
<1> QED
  BY <1>7, <1>8

\* What a rule matches are events of the batch.
LEMMA MatchedTimed ==
  ASSUME NEW batch, Timed(batch), NEW rule
  PROVE  Timed(Matched(batch, rule))
<1> DEFINE places == {p \in DOMAIN batch : batch[p].sid = rule.parent_rule_sid}
           matched == Matched(batch, rule)
<1>1. places \in SUBSET (1..Len(batch)) /\ Len(batch) \in Nat
  BY DEF Timed
<1>2. \A p \in places : batch[p].observed_at \in Nat
  BY DEF Timed
<1>3. matched = InArrivalOrder(batch, places)
  BY DEF Matched
<1> HIDE DEF places
<1>4. PICK order : ListsPlaces(matched, batch, places, order)
  BY <1>1, <1>3, ArrivalLists
<1> HIDE DEF matched
<1> QED
  BY <1>2, <1>4 DEF ListsPlaces, Timed, matched

\* The runs of the events with one key, which name one asset.
LEMMA KeyList ==
  ASSUME NEW matched, Timed(matched), NEW rule, NEW p \in DOMAIN matched
  PROVE  LET places == {q \in DOMAIN matched :
                          CorrelationKey(matched[q], rule) = CorrelationKey(matched[p], rule)}
             list == SortedByTime(matched, places)
         IN  /\ Timed(list) /\ list \in Seq(Range(list))
             /\ \A i, j \in DOMAIN list : i <= j => list[i].observed_at <= list[j].observed_at
             /\ \A k \in DOMAIN list : \E q \in DOMAIN matched :
                  list[k] = matched[q] /\ matched[q].asset_id = matched[p].asset_id
<1> DEFINE places == {q \in DOMAIN matched :
                        CorrelationKey(matched[q], rule) = CorrelationKey(matched[p], rule)}
           list == SortedByTime(matched, places)
<1>1. places \in SUBSET (DOMAIN matched)
  OBVIOUS
<1>2. \A q \in places : q \in DOMAIN matched /\ matched[q].asset_id = matched[p].asset_id
  BY DEF CorrelationKey
<1> HIDE DEF places
<1>3. /\ \E order : ListsPlaces(list, matched, places, order)
      /\ \A k \in DOMAIN list : list[k].observed_at \in Nat
      /\ \A i, j \in DOMAIN list : i <= j => list[i].observed_at <= list[j].observed_at
  BY <1>1, SortedLists
<1>4. PICK order : ListsPlaces(list, matched, places, order)
  BY <1>3
<1> HIDE DEF list
<1>5. /\ DOMAIN list = 1..Len(list) /\ Len(list) \in Nat
      /\ DOMAIN order = DOMAIN list
      /\ list = [k \in DOMAIN order |-> matched[order[k]]]
      /\ \A k \in DOMAIN list : order[k] \in places /\ list[k] = matched[order[k]]
  BY <1>4 DEF ListsPlaces
<1>6. Timed(list)
  BY <1>3, <1>5 DEF Timed
<1>7. list \in Seq(Range(list))
  <2>1. list = [k \in 1..Len(list) |-> list[k]]
    BY <1>5
  <2> QED
    BY <1>5, <2>1, ListIsSequence
<1>8. \A k \in DOMAIN list : \E q \in DOMAIN matched :
        list[k] = matched[q] /\ matched[q].asset_id = matched[p].asset_id
  BY <1>2, <1>5
<1> QED
  BY <1>3, <1>6, <1>7, <1>8 DEF places, list

\* Whatever a rule looks at besides the asset, its groups lie inside the correlator's.
LEMMA GroupsRefine ==
  ASSUME NEW matched, Timed(matched), NEW rule, rule.timeframe = Window,
         NEW g \in GroupByKeyAndWindow(matched, rule)
  PROVE  \E c \in GroupByAssetAndWindow(matched) : Range(g) \subseteq Range(c)
<1> DEFINE Sub(p) == SortedByTime(matched,
                       {q \in DOMAIN matched :
                          CorrelationKey(matched[q], rule) = CorrelationKey(matched[p], rule)})
<1>1. PICK p \in DOMAIN matched : g \in Runs(Sub(p), rule)
  BY DEF GroupByKeyAndWindow
<1> DEFINE list == Sub(p)
           a == matched[p].asset_id
           mine == OfAsset(matched, a)
<1>2. /\ Timed(list) /\ list \in Seq(Range(list))
      /\ \A i, j \in DOMAIN list : i <= j => list[i].observed_at <= list[j].observed_at
      /\ \A k \in DOMAIN list : \E q \in DOMAIN matched : list[k] = matched[q] /\ matched[q].asset_id = a
  BY KeyList
<1> HIDE DEF a
<1>3. Timed(mine) /\ mine \in Seq(Range(mine))
      /\ \A i, j \in DOMAIN mine : i <= j => mine[i].observed_at <= mine[j].observed_at
  BY AssetList
<1>4. PICK order : ListsPlaces(mine, matched, Naming(matched, a), order)
  BY AssetList
<1>5. \A q \in DOMAIN matched : matched[q].asset_id = a => \E l \in DOMAIN mine : mine[l] = matched[q]
  BY <1>4 DEF ListsPlaces, Naming
<1>6. g \in Runs(list, rule)
  BY <1>1
<1> HIDE DEF list, mine
<1>7. PICK o \in Openings(list) : g = GroupAt(list, o)
  BY <1>2, <1>6, RunsAreGroups
<1>8. /\ Len(g) \in Nat \ {0} /\ DOMAIN g = 1..Len(g)
      /\ \A i \in DOMAIN g : /\ o + i - 1 \in o..LastOf(list, o)
                             /\ o + i - 1 \in DOMAIN list
                             /\ g[i] = list[o + i - 1]
  BY <1>2, <1>7, GroupIsPart
<1>9. /\ o \in 1..Len(list) /\ Len(list) \in Nat /\ LastOf(list, o) \in o..Len(list)
      /\ \A k \in (o + 1)..LastOf(list, o) : k \notin Openings(list)
  BY <1>2, GroupSpan DEF Timed
<1>10. ASSUME NEW i \in DOMAIN g PROVE \E l \in DOMAIN mine : mine[l] = g[i]
  BY <1>2, <1>5, <1>8
<1>11. ASSUME NEW i \in 2..Len(g)
       PROVE  /\ g[i].observed_at \in Nat /\ g[i - 1].observed_at \in Nat
              /\ g[i].observed_at - g[i - 1].observed_at \in 0..Window
  <2> DEFINE n == o + i - 1
  <2>1. i \in DOMAIN g /\ i - 1 \in DOMAIN g
    BY <1>8
  <2>2. n \in (o + 1)..LastOf(list, o) /\ n \in DOMAIN list /\ n - 1 \in DOMAIN list /\ n # 1
    <3>1. o + (i - 1) - 1 = n - 1
      BY <1>9
    <3> QED
      BY <1>8, <1>9, <2>1, <3>1
  <2>3. g[i] = list[n] /\ g[i - 1] = list[n - 1]
    <3>1. g[i] = list[n] /\ g[i - 1] = list[o + (i - 1) - 1]
      BY <1>8, <2>1
    <3>2. o + (i - 1) - 1 = n - 1
      BY <1>9
    <3> QED
      BY <3>1, <3>2
  <2> HIDE DEF n
  <2>4. n \notin Openings(list)
    BY <1>9, <2>2
  <2>5. ~(list[n].observed_at - list[n - 1].observed_at > Window)
    BY <2>2, <2>4 DEF Openings
  <2>6. list[n].observed_at \in Nat /\ list[n - 1].observed_at \in Nat
    BY <1>2, <2>2 DEF Timed
  <2>7. list[n - 1].observed_at <= list[n].observed_at
    <3>1. n - 1 <= n
      BY <1>9, <2>2
    <3> QED
      BY <1>2, <2>2, <3>1
  <2> QED
    BY <2>3, <2>5, <2>6, <2>7, WindowAssumption
<1>12. 1 \in DOMAIN g
  BY <1>8
<1>13. PICK f \in DOMAIN mine : mine[f] = g[1]
  BY <1>10, <1>12
<1>14. PICK w \in Openings(mine) : f \in w..LastOf(mine, w)
  BY <1>3, <1>13, InSomeGroup
<1> DEFINE c == GroupAt(mine, w)
           out == {i \in DOMAIN g : ~\E l \in w..LastOf(mine, w) : mine[l] = g[i]}
<1>15. out = {}
  <2> SUFFICES ASSUME out # {} PROVE FALSE
    OBVIOUS
  <2>1. out \in SUBSET Nat
    BY <1>8
  <2>2. PICK i \in out : \A j \in out : i <= j
    BY <2>1, LeastNat
  <2>3. i # 1 /\ i \in DOMAIN g
    BY <1>13, <1>14, <2>2
  <2>4. i \in 2..Len(g) /\ i - 1 \in DOMAIN g /\ ~(i <= i - 1)
    BY <1>8, <2>3
  <2>5. i - 1 \notin out
    BY <2>2, <2>4
  <2>6. PICK k \in w..LastOf(mine, w) : mine[k] = g[i - 1]
    BY <2>4, <2>5
  <2>7. PICK l \in DOMAIN mine : mine[l] = g[i]
    BY <1>10, <2>3
  <2>8. PICK v \in Openings(mine) : l \in v..LastOf(mine, v)
    BY <1>3, InSomeGroup
  <2>9. v # w
    BY <2>2, <2>7, <2>8
  <2>10. v \in Nat /\ w \in Nat
    <3>1. v \in 1..Len(mine) /\ w \in 1..Len(mine)
      BY <1>3, GroupSpan
    <3> QED
      BY <3>1
  <2>11. /\ g[i].observed_at \in Nat /\ g[i - 1].observed_at \in Nat
         /\ g[i].observed_at - g[i - 1].observed_at \in 0..Window
    BY <1>11, <2>4
  <2>12. ~(g[i].observed_at - g[i - 1].observed_at > Window)
         /\ ~(g[i - 1].observed_at - g[i].observed_at > Window)
    <3>1. \A x, y \in Nat : x - y \in 0..Window => ~(x - y > Window) /\ ~(y - x > Window)
      BY WindowAssumption
    <3> QED
      BY <2>11, <3>1
  <2>13. CASE w < v
    <3>1. mine[l].observed_at - mine[k].observed_at > Window
      BY <1>3, <2>6, <2>8, <2>13, GapBetween
    <3> QED
      BY <2>6, <2>7, <2>12, <3>1
  <2>14. CASE v < w
    <3>1. mine[k].observed_at - mine[l].observed_at > Window
      BY <1>3, <2>6, <2>8, <2>14, GapBetween
    <3> QED
      BY <2>6, <2>7, <2>12, <3>1
  <2> QED
    BY <2>9, <2>10, <2>13, <2>14
<1>16. \A l \in w..LastOf(mine, w) : l - w + 1 \in DOMAIN c /\ c[l - w + 1] = mine[l]
  BY <1>3, <1>14, GroupIsPart
<1>17. Range(g) \subseteq Range(c)
  <2> SUFFICES ASSUME NEW i \in DOMAIN g PROVE g[i] \in Range(c)
    BY DEF Range
  <2>1. PICK l \in w..LastOf(mine, w) : mine[l] = g[i]
    BY <1>15
  <2> HIDE DEF c
  <2> QED
    BY <1>16, <2>1 DEF Range
<1>18. c \in GroupByAssetAndWindow(matched)
  <2>1. GroupFrom(matched, c, a, w)
    BY <1>14 DEF GroupFrom, mine, a
  <2> QED
    BY <2>1, GroupsAreFrom
<1> QED
  BY <1>17, <1>18

\* A rule that correlates by asset alone makes the correlator's groups.
LEMMA GroupsByAsset ==
  ASSUME NEW matched, Timed(matched), NEW rule, rule.timeframe = Window,
         ~rule.same_source_ip, ~rule.same_user
  PROVE  GroupByKeyAndWindow(matched, rule) = GroupByAssetAndWindow(matched)
<1> DEFINE Same(p) == {q \in DOMAIN matched :
                         CorrelationKey(matched[q], rule) = CorrelationKey(matched[p], rule)}
<1>1. ASSUME NEW p \in DOMAIN matched
      PROVE  SortedByTime(matched, Same(p)) = OfAsset(matched, matched[p].asset_id)
  <2>1. \A q \in DOMAIN matched :
          CorrelationKey(matched[q], rule) = CorrelationKey(matched[p], rule)
            <=> matched[q].asset_id = matched[p].asset_id
    BY DEF CorrelationKey
  <2>2. Same(p) = {q \in DOMAIN matched : matched[q].asset_id = matched[p].asset_id}
    BY <2>1
  <2> QED
    BY <2>2 DEF OfAsset
<1>2. ASSUME NEW asset_id
      PROVE  Runs(OfAsset(matched, asset_id), rule) =
               {GroupAt(OfAsset(matched, asset_id), o) : o \in Openings(OfAsset(matched, asset_id))}
  BY AssetList, RunsAreGroups
<1>3. GroupByKeyAndWindow(matched, rule) =
        UNION {Runs(OfAsset(matched, matched[p].asset_id), rule) : p \in DOMAIN matched}
  BY <1>1 DEF GroupByKeyAndWindow
<1>4. GroupByAssetAndWindow(matched) =
        UNION {Runs(OfAsset(matched, asset_id), rule) :
                 asset_id \in {matched[p].asset_id : p \in DOMAIN matched}}
  BY <1>2 DEF GroupByAssetAndWindow
<1> QED
  BY <1>3, <1>4

LEMMA BacktestByInv == PipelineInv => BacktestFollowsCorrelator
<1> SUFFICES ASSUME PipelineInv,
                    NEW rule \in Rules, rule.frequency \notin {None, 0}, rule.timeframe = Window, Window > 0
             PROVE  LET matched == Matched(Batch, rule)
                        correlated == GroupByAssetAndWindow(matched)
                    IN  /\ ~rule.same_source_ip /\ ~rule.same_user =>
                             RunBacktest(Batch, rule).estimated_alerts =
                               Cardinality({g \in correlated : Len(g) >= rule.frequency})
                        /\ \A g \in GroupByKeyAndWindow(matched, rule) :
                             \E c \in correlated : Range(g) \subseteq Range(c)
  BY DEF BacktestFollowsCorrelator
<1> DEFINE matched == Matched(Batch, rule)
<1>1. Timed(matched)
  BY BatchIsUncollapsed, MatchedTimed DEF Uncollapsed
<1>2. rule.timeframe \notin {None, 0}
  BY NoneAssumption, WindowAssumption
<1>3. RunBacktest(Batch, rule).estimated_alerts =
        Cardinality({g \in GroupByKeyAndWindow(matched, rule) : Len(g) >= rule.frequency})
  BY <1>2 DEF RunBacktest, EstimatedAlerts
<1> HIDE DEF matched
<1>4. ~rule.same_source_ip /\ ~rule.same_user =>
        GroupByKeyAndWindow(matched, rule) = GroupByAssetAndWindow(matched)
  BY <1>1, GroupsByAsset
<1>5. \A g \in GroupByKeyAndWindow(matched, rule) :
        \E c \in GroupByAssetAndWindow(matched) : Range(g) \subseteq Range(c)
  BY <1>1, GroupsRefine
<1> QED
  BY <1>3, <1>4, <1>5 DEF matched

\* The backtest's groups are the correlator's for a rule that correlates by asset alone, and
\* lie inside them for any other, for any history, window and frequency.
THEOREM BacktestIsTheCorrelators == Spec => []BacktestFollowsCorrelator
<1> QED
  BY PipelineInvariant, BacktestByInv, PTL

\* The largest of some counts.
LEMMA MaxCount ==
  ASSUME NEW n \in Nat, NEW S \in SUBSET (0..n), 0 \in S
  PROVE  Max(S) \in S /\ \A c \in S : c <= Max(S)
<1>1. CASE S = {0}
  <2>1. \E x \in S : \A y \in S : x >= y
    BY <1>1
  <2> QED
    BY <2>1 DEF Max
<1>2. CASE S # {0}
  <2> DEFINE P == S \ {0}
  <2>1. P \in SUBSET (1..n) /\ P # {}
    BY <1>2
  <2>2. Max(P) \in P /\ \A p \in P : p <= Max(P)
    BY <2>1, MaxPlace
  <2>3. Max(P) \in S /\ \A y \in S : Max(P) >= y
    <3>1. Max(P) \in 1..n
      BY <2>1, <2>2
    <3> HIDE DEF P
    <3>2. \A y \in P : y \in 1..n /\ Max(P) >= y
      BY <2>1, <2>2
    <3> QED
      BY <2>2, <3>1, <3>2 DEF P
  <2>4. \E x \in S : \A y \in S : x >= y
    BY <2>3
  <2> QED
    BY <2>4 DEF Max
<1> QED
  BY <1>1, <1>2

\* The times of a window as long as an hour are of two hours of the clock.
LEMMA TwoHours ==
  ASSUME NEW from \in Nat, NEW t \in from..(from + HourLength - 1)
  PROVE  t \div HourLength \in {from \div HourLength, from \div HourLength + 1}
BY HourAssumption

\* The places of the events of an hour of the clock.
InHour(matched, h) == {q \in DOMAIN matched : Hour(matched[q]) = h}

\* No hour of the clock has more events than the busiest.
LEMMA BusiestHour ==
  ASSUME NEW matched, Timed(matched), NEW h
  PROVE  /\ IsFiniteSet(InHour(matched, h)) /\ Cardinality(InHour(matched, h)) \in Nat
         /\ Cardinality(InHour(matched, h)) <= MaxAlertsPerHour(matched)
         /\ MaxAlertsPerHour(matched) \in Nat
<1> DEFINE counts == {0} \cup {Cardinality(InHour(matched, Hour(matched[p]))) : p \in DOMAIN matched}
           n == Len(matched)
<1>1. n \in Nat /\ DOMAIN matched = 1..n
  BY DEF Timed
<1> HIDE DEF n
<1>2. IsFiniteSet(1..n) /\ Cardinality(1..n) = n
  BY <1>1, FS_Interval
<1>3. ASSUME NEW i
      PROVE  IsFiniteSet(InHour(matched, i)) /\ Cardinality(InHour(matched, i)) \in 0..n
  <2>1. InHour(matched, i) \subseteq 1..n
    BY <1>1 DEF InHour
  <2>2. IsFiniteSet(InHour(matched, i)) /\ Cardinality(InHour(matched, i)) <= Cardinality(1..n)
    BY <1>2, <2>1, FS_Subset
  <2>3. Cardinality(InHour(matched, i)) \in Nat
    BY <2>2, FS_CardinalityType
  <2> QED
    BY <1>1, <1>2, <2>2, <2>3
<1>4. MaxAlertsPerHour(matched) = Max(counts)
  BY DEF MaxAlertsPerHour, InHour
<1>5. counts \in SUBSET (0..n) /\ 0 \in counts
  BY <1>1, <1>3
<1>6. Cardinality(InHour(matched, h)) \in counts
  <2>1. CASE InHour(matched, h) = {}
    BY <2>1, FS_EmptySet
  <2>2. CASE InHour(matched, h) # {}
    BY <2>2 DEF InHour
  <2> QED
    BY <2>1, <2>2
<1> HIDE DEF counts
<1>7. Max(counts) \in counts /\ \A c \in counts : c <= Max(counts)
  BY <1>1, <1>5, MaxCount
<1>8. Max(counts) \in 0..n
  BY <1>5, <1>7
<1>9. Max(counts) \in Nat
  BY <1>1, <1>8
<1> QED
  BY <1>3, <1>4, <1>6, <1>7, <1>9

LEMMA QuietByInv == PipelineInv => AuthorisedRuleIsQuiet
<1> SUFFICES ASSUME PipelineInv, NEW rule \in Rules, NEW max \in 1..MaxEvents,
                    AuthorizeDeployment("CONFIRMED_THREAT", RunBacktest(Batch, rule), TRUE, max),
                    NEW from \in 0..now
             PROVE  LET matched == Matched(Batch, rule)
                    IN  Cardinality({p \in DOMAIN matched :
                          matched[p].observed_at \in from..(from + HourLength - 1)}) <= 2 * max
  BY DEF AuthorisedRuleIsQuiet
<1> DEFINE matched == Matched(Batch, rule)
           window == {p \in DOMAIN matched :
                        matched[p].observed_at \in from..(from + HourLength - 1)}
           h == from \div HourLength
           A == InHour(matched, h)
           B == InHour(matched, h + 1)
<1>1. Timed(matched)
  BY BatchIsUncollapsed, MatchedTimed DEF Uncollapsed
<1>2. MaxAlertsPerHour(matched) <= max
  BY DEF AuthorizeDeployment, RunBacktest
<1>3. from \in Nat /\ max \in Nat
  BY DEF PipelineInv, EventsInv
<1> HIDE DEF matched, h
<1>4. window \subseteq A \cup B
  <2> SUFFICES ASSUME NEW p \in window PROVE p \in A \cup B
    OBVIOUS
  <2>1. matched[p].observed_at \div HourLength \in {h, h + 1}
    BY <1>3, TwoHours DEF h
  <2> QED
    BY <2>1 DEF Hour, InHour
<1>5. /\ IsFiniteSet(A) /\ Cardinality(A) \in Nat
      /\ Cardinality(A) <= MaxAlertsPerHour(matched) /\ MaxAlertsPerHour(matched) \in Nat
  BY <1>1, BusiestHour
<1>6. /\ IsFiniteSet(B) /\ Cardinality(B) \in Nat
      /\ Cardinality(B) <= MaxAlertsPerHour(matched)
  BY <1>1, BusiestHour
<1> HIDE DEF window, A, B
<1>7. /\ IsFiniteSet(A \cup B) /\ Cardinality(A \cup B) \in Nat
      /\ Cardinality(A \cup B) <= Cardinality(A) + Cardinality(B)
  <2>1. /\ IsFiniteSet(A \cup B) /\ IsFiniteSet(A \cap B)
        /\ Cardinality(A \cup B) = Cardinality(A) + Cardinality(B) - Cardinality(A \cap B)
    BY <1>5, <1>6, FS_Union, FS_Intersection
  <2> QED
    BY <1>5, <1>6, <2>1, FS_CardinalityType
<1>8. Cardinality(window) \in Nat /\ Cardinality(window) <= Cardinality(A \cup B)
  BY <1>4, <1>7, FS_Subset, FS_CardinalityType
<1>9. Cardinality(window) <= 2 * max
  BY <1>2, <1>3, <1>5, <1>6, <1>7, <1>8
<1> QED
  BY <1>9 DEF window, matched

\* What the gate lets pass is bounded in every window of an hour, for any hour, any history
\* and any limit.
THEOREM AuthorisedRulesAreQuiet == Spec => []AuthorisedRuleIsQuiet
<1> QED
  BY PipelineInvariant, QuietByInv, PTL
=============================================================================
