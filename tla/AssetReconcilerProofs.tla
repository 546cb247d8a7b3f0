------------------------- MODULE AssetReconcilerProofs -------------------------
(***************************************************************************)
(* Proofs about AssetReconciler, for any fragments, any ranking and any    *)
(* number of reports.  A snapshot is worked out from the fragments at some *)
(* places of the list; the lemmas say what SeenByField tells of them, that *)
(* some claim has the highest authority, and what ResolveConflict makes of *)
(* both; the theorems follow from the invariant that every snapshot kept   *)
(* was worked out so.                                                      *)
(***************************************************************************)
EXTENDS AssetReconciler, SequenceTheorems, WellFoundedInduction, TLAPS

-----------------------------------------------------------------------------
(* The greatest and the least of a set of places.                          *)

\* A set of numbers that is not empty has a least one.
LEMMA LeastNat ==
  ASSUME NEW S \in SUBSET Nat, S # {}
  PROVE  \E m \in S : \A k \in S : m <= k
<1> DEFINE R == {p \in Nat \X Nat : p[1] < p[2]}
<1>1. R = OpToRel(<, Nat)
  BY DEF OpToRel
<1>2. IsWellFoundedOn(R, Nat)
  BY <1>1, NatLessThanWellFounded
<1> HIDE DEF R
<1>3. PICK m \in S : \A k \in S : ~ (<<k, m>> \in R)
  BY <1>2, WFMin
<1>4. ASSUME NEW k \in S  PROVE m <= k
  <2>1. k \in Nat /\ m \in Nat
    OBVIOUS
  <2>2. k < m => <<k, m>> \in R
    BY <2>1 DEF R
  <2> QED
    BY <1>3, <2>1, <2>2
<1> QED
  BY <1>3, <1>4

\* Max of some places is one of them, and none is after it.
LEMMA MaxPlace ==
  ASSUME NEW n \in Nat, NEW S \in SUBSET (1..n), S # {}
  PROVE  Max(S) \in S /\ \A p \in S : p <= Max(S)
<1> DEFINE B == {k \in 0..n : \A p \in S : p <= k}
<1>1. n \in B /\ B \in SUBSET Nat
  OBVIOUS
<1>2. PICK m \in B : \A k \in B : m <= k
  BY <1>1, LeastNat
<1>3. m \in S
  <2> SUFFICES ASSUME m \notin S PROVE FALSE
    OBVIOUS
  <2>1. PICK s \in S : TRUE
    OBVIOUS
  <2>2. m \in 0..n /\ s \in 1..n /\ s <= m
    BY <1>2, <2>1
  <2>3. \A p \in S : p <= m - 1
    BY <1>2
  <2>4. m - 1 \in 0..n
    BY <2>2
  <2>5. m - 1 \in B
    BY <2>3, <2>4
  <2> QED
    BY <1>2, <2>2, <2>5
<1>4. \E x \in S : \A y \in S : x >= y
  BY <1>2, <1>3
<1> QED
  BY <1>4 DEF Max

\* Min of some places is one of them, and none is before it.
LEMMA MinPlace ==
  ASSUME NEW n \in Nat, NEW S \in SUBSET (1..n), S # {}
  PROVE  Min(S) \in S /\ \A p \in S : Min(S) <= p
<1>1. S \in SUBSET Nat
  OBVIOUS
<1>2. PICK m \in S : \A k \in S : m <= k
  BY <1>1, LeastNat
<1>3. \E x \in S : \A y \in S : x =< y
  BY <1>2
<1> QED
  BY <1>3 DEF Min

\* Whatever integers the places are given, some place has the highest.
LEMMA HighestPlace ==
  ASSUME NEW n \in Nat, NEW S \in SUBSET (1..n), S # {}, NEW rank, \A p \in S : rank[p] \in Int
  PROVE  \E p \in S : \A q \in S : rank[q] <= rank[p]
<1> DEFINE Up(k) == S \cap 1..k
           Tops(k) == {p \in Up(k) : \A q \in Up(k) : rank[q] <= rank[p]}
           B == {k \in 0..n : Up(k) # {} /\ Tops(k) = {}}
<1>1. B = {}
  <2> SUFFICES ASSUME B # {} PROVE FALSE
    OBVIOUS
  <2>1. B \in SUBSET Nat
    OBVIOUS
  <2>2. PICK m \in B : \A k \in B : m <= k
    BY <2>1, LeastNat
  <2>3. m \in 0..n /\ Up(m) # {} /\ Tops(m) = {}
    BY <2>2
  <2>4. m # 0
    BY <2>3
  <2>5. m - 1 \in 0..n /\ m \in 1..n
    BY <2>3, <2>4
  <2>6. m - 1 \notin B
    BY <2>2, <2>5
  <2>7. Up(m) \subseteq Up(m - 1) \cup {m} /\ Up(m - 1) \subseteq Up(m)
    BY <2>5
  <2>8. CASE m \notin S
    <3>1. Up(m) = Up(m - 1)
      BY <2>7, <2>8
    <3>2. Tops(m) = Tops(m - 1)
      BY <3>1
    <3> QED
      BY <2>3, <2>5, <2>6, <3>1, <3>2
  <2>9. CASE m \in S /\ Up(m - 1) = {}
    <3>1. Up(m) = {m}
      BY <2>5, <2>7, <2>9
    <3>2. m \in Tops(m)
      BY <3>1, <2>9
    <3> QED
      BY <2>3, <3>2
  <2>10. CASE m \in S /\ Up(m - 1) # {}
    <3>1. PICK t : t \in Tops(m - 1)
      BY <2>5, <2>6, <2>10
    <3>2. t \in S /\ t \in Up(m) /\ \A q \in Up(m - 1) : rank[q] <= rank[t]
      BY <3>1, <2>7
    <3>3. m \in Up(m)
      BY <2>5, <2>10
    <3>4. CASE rank[m] <= rank[t]
      <4>1. \A q \in Up(m) : rank[q] <= rank[t]
        BY <2>7, <3>2, <3>4
      <4> QED
        BY <2>3, <3>2, <4>1
    <3>5. CASE ~(rank[m] <= rank[t])
      <4>1. \A q \in Up(m - 1) : rank[q] <= rank[m]
        BY <3>2, <3>5, <2>10
      <4>2. \A q \in Up(m) : rank[q] <= rank[m]
        BY <2>7, <2>10, <4>1
      <4> QED
        BY <2>3, <3>3, <4>2
    <3> QED
      BY <3>4, <3>5
  <2> QED
    BY <2>8, <2>9, <2>10
<1>2. Up(n) = S /\ n \notin B
  BY <1>1
<1>3. PICK t : t \in Tops(n)
  BY <1>2
<1> QED
  BY <1>2, <1>3

-----------------------------------------------------------------------------
(* What reconcile works out from the fragments at some places.             *)

\* frags holds fragments connectors may report, at places of a list of length n
Placed(frags, n) == DOMAIN frags \subseteq 1..n /\ \A p \in DOMAIN frags : frags[p] \in Fragments

\* A source that speaks of a field has a last word on it, at the last place where it speaks.
LEMMA LastWordIsSaid ==
  ASSUME NEW n \in Nat, NEW frags, Placed(frags, n), NEW field,
         NEW source \in Speakers(field, frags)
  PROVE  /\ By(source, field, frags) \in SUBSET (1..n)
         /\ By(source, field, frags) # {}
         /\ Max(By(source, field, frags)) \in By(source, field, frags)
         /\ \A p \in By(source, field, frags) : p <= Max(By(source, field, frags))
<1>1. By(source, field, frags) \in SUBSET (1..n)
  BY DEF Placed, By, With
<1>2. By(source, field, frags) # {}
  BY DEF Speakers, By
<1> QED
  BY <1>1, <1>2, MaxPlace

\* seen_by_field tells each speaker once, with its last word, and all at the same time.
LEMMA ClaimsTell ==
  ASSUME NEW n \in Nat, NEW frags, Placed(frags, n), NEW field, NEW claims,
         claims = SeenByField(field, frags)
  PROVE  /\ DOMAIN claims \in SUBSET (1..n)
         /\ \A p \in DOMAIN claims :
              /\ claims[p].source \in Speakers(field, frags)
              /\ claims[p].value = LastWord(claims[p].source, field, frags)
              /\ claims[p].observed_at = 0
         /\ \A source \in Speakers(field, frags) : \E p \in DOMAIN claims :
              claims[p].source = source
         /\ \A p, q \in DOMAIN claims : claims[p].source = claims[q].source => p = q
<1> DEFINE firsts == {p \in With(field, frags) :
                        \A q \in By(frags[p].source, field, frags) : p <= q}
<1>1. claims = [p \in firsts |-> [source |-> frags[p].source,
                                  value |-> LastWord(frags[p].source, field, frags),
                                  observed_at |-> 0]]
  BY DEF SeenByField
<1>2. DOMAIN claims = firsts
  BY <1>1
<1>3. firsts \in SUBSET (1..n)
  BY DEF Placed, With
<1>4. ASSUME NEW p \in firsts
      PROVE  /\ claims[p].source = frags[p].source
             /\ claims[p].value = LastWord(frags[p].source, field, frags)
             /\ claims[p].observed_at = 0
             /\ frags[p].source \in Speakers(field, frags)
  <2>1. claims[p] = [source |-> frags[p].source,
                     value |-> LastWord(frags[p].source, field, frags), observed_at |-> 0]
    BY <1>1
  <2>2. frags[p].source \in Speakers(field, frags)
    BY DEF Speakers
  <2> QED
    BY <2>1, <2>2
<1>5. ASSUME NEW source \in Speakers(field, frags)
      PROVE  \E p \in firsts : claims[p].source = source
  <2>1. /\ By(source, field, frags) \in SUBSET (1..n)
        /\ By(source, field, frags) # {}
    BY LastWordIsSaid
  <2>2. PICK p \in By(source, field, frags) : \A q \in By(source, field, frags) : p <= q
    BY <2>1, MinPlace
  <2>3. p \in With(field, frags) /\ frags[p].source = source
    BY DEF By
  <2>4. p \in firsts
    BY <2>2, <2>3
  <2> QED
    BY <1>4, <2>3, <2>4
<1>6. ASSUME NEW p \in firsts, NEW q \in firsts, claims[p].source = claims[q].source
      PROVE  p = q
  <2>1. frags[p].source = frags[q].source
    BY <1>4, <1>6
  <2>2. p \in By(frags[q].source, field, frags) /\ q \in By(frags[p].source, field, frags)
    BY <2>1 DEF By
  <2>3. p <= q /\ q <= p
    BY <2>2
  <2> QED
    BY <1>3, <2>3
<1> HIDE DEF firsts
<1>7. /\ \A p \in DOMAIN claims :
           /\ claims[p].source \in Speakers(field, frags)
           /\ claims[p].value = LastWord(claims[p].source, field, frags)
           /\ claims[p].observed_at = 0
      /\ \A source \in Speakers(field, frags) : \E p \in DOMAIN claims :
           claims[p].source = source
  BY <1>2, <1>4, <1>5
<1>8. \A p, q \in DOMAIN claims : claims[p].source = claims[q].source => p = q
  BY <1>2, <1>6
<1>9. DOMAIN claims \in SUBSET (1..n)
  BY <1>2, <1>3
<1> QED
  BY <1>7, <1>8, <1>9

\* The claims come from the speakers, and their values are the speakers' last words.
LEMMA ClaimsSay ==
  ASSUME NEW n \in Nat, NEW frags, Placed(frags, n), NEW field, NEW claims,
         claims = SeenByField(field, frags)
  PROVE  /\ ClaimSources(claims) = Speakers(field, frags)
         /\ ClaimValues(claims) = LastWords(Speakers(field, frags), field, frags)
<1>1. /\ \A p \in DOMAIN claims :
           /\ claims[p].source \in Speakers(field, frags)
           /\ claims[p].value = LastWord(claims[p].source, field, frags)
      /\ \A source \in Speakers(field, frags) : \E p \in DOMAIN claims :
           claims[p].source = source
  BY ClaimsTell
<1> QED
  BY <1>1 DEF ClaimSources, ClaimValues, LastWords

\* A winner's value is its last word.
LEMMA WinnersValue ==
  ASSUME NEW n \in Nat, NEW frags, Placed(frags, n), NEW field, NEW claims,
         claims = SeenByField(field, frags), NEW source \in Speakers(field, frags)
  PROVE  ValueOf(source, claims) = LastWord(source, field, frags)
<1>1. PICK p \in DOMAIN claims : claims[p].source = source
  BY ClaimsTell
<1> DEFINE c == CHOOSE q \in DOMAIN claims : claims[q].source = source
<1>2. c \in DOMAIN claims /\ claims[c].source = source
  BY <1>1
<1>3. claims[c].value = LastWord(source, field, frags)
  BY <1>2, ClaimsTell
<1> QED
  BY <1>3 DEF ValueOf

\* The last report of a field is the last word of the source that made it.
LEMMA LastIsSomeonesWord ==
  ASSUME NEW n \in Nat, NEW frags, Placed(frags, n), NEW field, With(field, frags) # {}
  PROVE  \E source \in Speakers(field, frags) :
           LastValue(field, frags) = LastWord(source, field, frags)
<1>1. With(field, frags) \in SUBSET (1..n)
  BY DEF With, Placed
<1> DEFINE m == Max(With(field, frags))
           source == frags[m].source
<1>2. m \in With(field, frags) /\ \A p \in With(field, frags) : p <= m
  BY <1>1, MaxPlace
<1>3. source \in Speakers(field, frags)
  BY <1>2 DEF Speakers
<1>4. m \in By(source, field, frags)
  BY <1>2 DEF By
<1> DEFINE k == Max(By(source, field, frags))
<1>5. k \in By(source, field, frags) /\ m <= k
  BY <1>3, <1>4, LastWordIsSaid
<1>6. k \in With(field, frags)
  BY <1>5 DEF By
<1>7. k = m
  <2>1. k <= m /\ m <= k /\ k \in Nat /\ m \in Nat
    BY <1>1, <1>2, <1>5, <1>6
  <2> QED
    BY <2>1
<1>8. LastValue(field, frags) = LastWord(source, field, frags)
  BY <1>7 DEF LastValue, LastWord
<1> QED
  BY <1>3, <1>8

\* A field is in conflict when the last words of its speakers differ.
LEMMA ConflictIsDisagreement ==
  ASSUME NEW n \in Nat, NEW frags, Placed(frags, n), NEW field, With(field, frags) # {}
  PROVE  LET said == LastWords(Speakers(field, frags), field, frags)
         IN  /\ said # {}
             /\ InConflict(field, frags) <=> \E v, w \in said : v # w
             /\ InConflict(field, frags) <=> ~\E v \in said : said = {v}
<1> DEFINE claims == SeenByField(field, frags)
           said == LastWords(Speakers(field, frags), field, frags)
<1>1. ClaimValues(claims) = said
  BY ClaimsSay
<1>2. Speakers(field, frags) # {}
  BY DEF Speakers
<1>3. said # {}
  BY <1>2 DEF LastWords
<1>4. InConflict(field, frags) <=> \E v, w \in ClaimValues(claims) : v # w
  BY DEF InConflict, Agree, ClaimValues
<1> QED
  BY <1>1, <1>3, <1>4

-----------------------------------------------------------------------------
(* What a ranking decides.                                                 *)

\* Among ranked speakers some claim is at the top; the top claims tell the last words of the
\* authorities, and none of them is fresher than another.
LEMMA TopTells ==
  ASSUME NEW n \in Nat, NEW frags, Placed(frags, n), NEW field, With(field, frags) # {},
         NEW ranking \in Rankings \ {None}, Speakers(field, frags) \subseteq DOMAIN ranking,
         NEW claims, claims = SeenByField(field, frags), NEW top, top = TopClaims(claims, ranking)
  PROVE  /\ top \in SUBSET (1..n)
         /\ top \in SUBSET (DOMAIN claims)
         /\ top # {}
         /\ {claims[p].value : p \in top}
              = LastWords(Authorities(field, frags, ranking), field, frags)
         /\ Freshest(claims, top) = top
<1>1. /\ DOMAIN claims \in SUBSET (1..n)
      /\ \A p \in DOMAIN claims :
           /\ claims[p].source \in Speakers(field, frags)
           /\ claims[p].value = LastWord(claims[p].source, field, frags)
           /\ claims[p].observed_at = 0
      /\ \A source \in Speakers(field, frags) : \E p \in DOMAIN claims :
           claims[p].source = source
  BY ClaimsTell
<1> DEFINE rank == [p \in DOMAIN claims |-> ranking[claims[p].source]]
<1>2. \A p \in DOMAIN claims : rank[p] \in Int
  BY <1>1, RankingsAssumption
<1>3. DOMAIN claims # {}
  BY <1>1 DEF Speakers
<1>4. \E p \in DOMAIN claims : \A q \in DOMAIN claims : rank[q] <= rank[p]
  <2> HIDE DEF rank
  <2> QED
    BY <1>1, <1>2, <1>3, HighestPlace
<1>5. top = {p \in DOMAIN claims : \A q \in DOMAIN claims : rank[q] <= rank[p]}
  BY DEF TopClaims
<1>6. top # {} /\ top \in SUBSET (DOMAIN claims)
  BY <1>4, <1>5
<1>7. ASSUME NEW p \in DOMAIN claims
      PROVE  p \in top <=> claims[p].source \in Authorities(field, frags, ranking)
  <2>1. p \in top <=> \A q \in DOMAIN claims :
                        ranking[claims[q].source] <= ranking[claims[p].source]
    BY DEF TopClaims
  <2>2. Speakers(field, frags) \cap DOMAIN ranking = Speakers(field, frags)
    OBVIOUS
  <2>3. claims[p].source \in Authorities(field, frags, ranking)
        <=> \A other \in Speakers(field, frags) : ranking[other] <= ranking[claims[p].source]
    BY <1>1, <2>2 DEF Authorities
  <2> QED
    BY <1>1, <2>1, <2>3
<1>8. Authorities(field, frags, ranking) \subseteq Speakers(field, frags)
  BY DEF Authorities
<1>9. {claims[p].value : p \in top}
        = LastWords(Authorities(field, frags, ranking), field, frags)
  BY <1>1, <1>6, <1>7, <1>8 DEF LastWords
<1>10. Freshest(claims, top) = top
  BY <1>1, <1>6 DEF Freshest
<1> QED
  BY <1>1, <1>6, <1>9, <1>10

\* Of claims in conflict one wins exactly if all the speakers are ranked and the highest of
\* them agree, and then what it says is what they say.
LEMMA AuthorityDecides ==
  ASSUME NEW n \in Nat, NEW frags, Placed(frags, n), NEW field, With(field, frags) # {},
         InConflict(field, frags), NEW ranking \in Rankings \ {None}
  PROVE  LET winner == ResolveConflict(SeenByField(field, frags), ranking).winning_source
             highest == LastWords(Authorities(field, frags, ranking), field, frags)
         IN  IF Speakers(field, frags) \subseteq DOMAIN ranking
                /\ \E v \in highest : highest = {v}
             THEN /\ winner # None
                  /\ winner \in Speakers(field, frags)
                  /\ LastWord(winner, field, frags) \in highest
             ELSE winner = None
<1> DEFINE claims == SeenByField(field, frags)
           winner == ResolveConflict(claims, ranking).winning_source
           highest == LastWords(Authorities(field, frags, ranking), field, frags)
           top == TopClaims(claims, ranking)
<1>1. /\ DOMAIN claims \in SUBSET (1..n)
      /\ \A p \in DOMAIN claims :
           /\ claims[p].source \in Speakers(field, frags)
           /\ claims[p].value = LastWord(claims[p].source, field, frags)
  BY ClaimsTell
<1>2. ClaimSources(claims) = Speakers(field, frags)
  BY ClaimsSay
<1>3. ~Agree(claims, DOMAIN claims)
  BY DEF InConflict
<1>4. DOMAIN claims # {}
  BY <1>3 DEF Agree
<1>5. \A p \in DOMAIN claims : claims[p].source # None
  BY <1>1, SourcesAssumption DEF Speakers, With, Placed
<1> HIDE DEF claims
<1>6. CASE ~(Speakers(field, frags) \subseteq DOMAIN ranking)
  <2>1. winner = None
    BY <1>2, <1>3, <1>4, <1>6 DEF ResolveConflict, Resolution
  <2> QED
    BY <1>6, <2>1 DEF claims
<1>7. CASE Speakers(field, frags) \subseteq DOMAIN ranking
  <2>1. winner = ResolveByAuthority(claims, ranking).winning_source
    BY <1>2, <1>3, <1>4, <1>7 DEF ResolveConflict
  <2>2. /\ top \in SUBSET (1..n)
        /\ top \in SUBSET (DOMAIN claims)
        /\ top # {}
        /\ {claims[p].value : p \in top} = highest
        /\ Freshest(claims, top) = top
    BY <1>7, TopTells DEF claims
  <2>3. Min(top) \in top
    BY <2>2, MinPlace
  <2>4. CASE top = {Min(top)} \/ Agree(claims, top)
    <3>1. winner = claims[Min(top)].source
      BY <2>1, <2>4 DEF ResolveByAuthority, Won, Resolution
    <3>2. Agree(claims, top)
      BY <2>4 DEF Agree
    <3>3. claims[Min(top)].value \in highest
      BY <2>2, <2>3
    <3>4. highest = {claims[Min(top)].value}
      BY <2>2, <2>3, <3>2 DEF Agree
    <3>5. winner \in Speakers(field, frags) /\ winner # None
          /\ LastWord(winner, field, frags) \in highest
      BY <1>1, <1>5, <2>2, <2>3, <3>1, <3>3
    <3> QED
      BY <1>7, <3>4, <3>5 DEF claims
  <2>5. CASE ~(top = {Min(top)} \/ Agree(claims, top))
    <3>1. winner = None
      BY <2>1, <2>2, <2>5 DEF ResolveByAuthority, Resolution
    <3>2. PICK p \in top, q \in top : claims[p].value # claims[q].value
      BY <2>5 DEF Agree
    <3>3. claims[p].value \in highest /\ claims[q].value \in highest
      BY <2>2, <3>2
    <3>4. ~\E v \in highest : highest = {v}
      BY <3>2, <3>3
    <3> QED
      BY <3>1, <3>4 DEF claims
  <2> QED
    BY <2>4, <2>5
<1> QED
  BY <1>6, <1>7

\* Under a ranking reconcile merges of a field its governed value, and nothing when it has
\* none.
LEMMA FieldIsGoverned ==
  ASSUME NEW n \in Nat, NEW frags, Placed(frags, n), NEW field \in SeenFields(frags),
         NEW ranking \in Rankings \ {None}
  PROVE  LET governed == GovernedValues(field, frags, ranking)
             merged == Reconcile(frags, ranking).merged
         IN  IF governed = {} THEN field \notin DOMAIN merged
             ELSE field \in DOMAIN merged /\ merged[field] \in governed
<1> DEFINE claims == SeenByField(field, frags)
           winner == ResolveConflict(claims, ranking).winning_source
           said == LastWords(Speakers(field, frags), field, frags)
           highest == LastWords(Authorities(field, frags, ranking), field, frags)
           governed == GovernedValues(field, frags, ranking)
           merged == Reconcile(frags, ranking).merged
<1>1. With(field, frags) # {}
  BY DEF SeenFields
<1>2. /\ DOMAIN merged = GovernedFields(frags, ranking)
      /\ field \in DOMAIN merged => merged[field] = MergedValue(field, frags, ranking)
  BY DEF Reconcile
<1>3. /\ said # {}
      /\ InConflict(field, frags) <=> ~\E v \in said : said = {v}
  BY <1>1, ConflictIsDisagreement
<1>4. CASE ~InConflict(field, frags)
  <2>1. governed = said
    BY <1>3, <1>4 DEF GovernedValues
  <2>2. field \in DOMAIN merged
    BY <1>2, <1>4 DEF GovernedFields
  <2>3. merged[field] = LastValue(field, frags)
    BY <1>2, <1>4, <2>2 DEF MergedValue
  <2>4. LastValue(field, frags) \in said
    BY <1>1, LastIsSomeonesWord DEF LastWords
  <2> QED
    BY <1>3, <2>1, <2>2, <2>3, <2>4
<1>5. CASE InConflict(field, frags) /\ Speakers(field, frags) \subseteq DOMAIN ranking
           /\ \E v \in highest : highest = {v}
  <2>1. governed = highest /\ highest # {}
    BY <1>3, <1>5 DEF GovernedValues
  <2>2. /\ winner # None
        /\ winner \in Speakers(field, frags)
        /\ LastWord(winner, field, frags) \in highest
    BY <1>1, <1>5, AuthorityDecides
  <2>3. field \in DOMAIN merged
    BY <1>2, <2>2 DEF GovernedFields
  <2>4. merged[field] = ValueOf(winner, claims)
    BY <1>2, <1>5, <2>2, <2>3 DEF MergedValue
  <2>5. ValueOf(winner, claims) = LastWord(winner, field, frags)
    BY <2>2, WinnersValue
  <2> QED
    BY <2>1, <2>2, <2>3, <2>4, <2>5
<1>6. CASE InConflict(field, frags) /\ ~(/\ Speakers(field, frags) \subseteq DOMAIN ranking
                                         /\ \E v \in highest : highest = {v})
  <2>1. governed = {}
    BY <1>3, <1>6 DEF GovernedValues
  <2>2. winner = None
    BY <1>1, <1>6, AuthorityDecides
  <2>3. field \notin DOMAIN merged
    BY <1>2, <1>6, <2>2 DEF GovernedFields
  <2> QED
    BY <2>1, <2>3
<1> QED
  BY <1>4, <1>5, <1>6

\* With or without a ranking, reconcile reports each field whose speakers differ, with all
\* that they said.
LEMMA ConflictIsReported ==
  ASSUME NEW n \in Nat, NEW frags, Placed(frags, n), NEW field \in SeenFields(frags),
         NEW ranking, \E v, w \in LastWords(Speakers(field, frags), field, frags) : v # w
  PROVE  \E c \in Reconcile(frags, ranking).conflicts :
           /\ c.field = field
           /\ ClaimValues(c.values) = LastWords(Speakers(field, frags), field, frags)
<1>1. InConflict(field, frags)
  BY ConflictIsDisagreement DEF SeenFields
<1> DEFINE c == Conflict(field, frags, ranking)
<1>2. c \in Reconcile(frags, ranking).conflicts
  BY <1>1 DEF Reconcile
<1>3. c.field = field /\ c.values = SeenByField(field, frags)
  BY DEF Conflict
<1>4. ClaimValues(c.values) = LastWords(Speakers(field, frags), field, frags)
  BY <1>3, ClaimsSay
<1> QED
  BY <1>2, <1>3, <1>4

-----------------------------------------------------------------------------
(* The invariant: every snapshot was worked out from reports still in the  *)
(* list, and one as built from all that the one as designed had.           *)

WorkedOut(s) ==
  /\ Placed(s.reports, Len(fragments))
  /\ \A p \in DOMAIN s.reports : s.reports[p] = fragments[p]
  /\ \A p \in DOMAIN s.reports : s.reports[p].asset_id = s.asset_id
  /\ s.ranking \in Rankings
  /\ s.merged = Reconcile(s.reports, s.ranking).merged
  /\ s.conflicts = Reconcile(s.reports, s.ranking).conflicts
  /\ s.payload = Payload(s.merged)

SnapshotsWorkedOut == \A s \in Snapshots : WorkedOut(s)

BuiltFromMore ==
  as_designed # None /\ as_built # None /\ as_designed.asset_id = as_built.asset_id
    => DOMAIN as_designed.reports \subseteq DOMAIN as_built.reports

IInv ==
  /\ fragments \in Seq(Fragments)
  /\ SnapshotsWorkedOut
  /\ BuiltFromMore

LEMMA InitIInv == Init => IInv
BY EmptySeq DEF Init, IInv, SnapshotsWorkedOut, Snapshots, BuiltFromMore

LEMMA ReportKeeps ==
  ASSUME IInv, NEW fragment \in Fragments, Report(fragment)
  PROVE  IInv'
<1>1. fragments \in Seq(Fragments) /\ fragments' = Append(fragments, fragment)
  BY DEF IInv, Report
<1>2. /\ fragments' \in Seq(Fragments)
      /\ Len(fragments') = Len(fragments) + 1
      /\ \A p \in 1..Len(fragments) : fragments'[p] = fragments[p]
  BY <1>1, AppendProperties
<1>3. as_built' = as_built /\ as_designed' = as_designed
  BY DEF Report
<1>4. ASSUME NEW s \in Snapshots PROVE WorkedOut(s)'
  <2>1. WorkedOut(s)
    BY DEF IInv, SnapshotsWorkedOut
  <2>2. Len(fragments) \in Nat
    BY <1>1
  <2>3. DOMAIN s.reports \subseteq 1..Len(fragments)
    BY <2>1 DEF WorkedOut, Placed
  <2>4. DOMAIN s.reports \subseteq 1..Len(fragments')
    BY <1>2, <2>2, <2>3
  <2>5. \A p \in DOMAIN s.reports : s.reports[p] = fragments'[p]
    BY <1>2, <2>1, <2>3 DEF WorkedOut
  <2> QED
    BY <2>1, <2>4, <2>5 DEF WorkedOut, Placed
<1>5. SnapshotsWorkedOut'
  BY <1>3, <1>4 DEF SnapshotsWorkedOut, Snapshots
<1>6. BuiltFromMore'
  BY <1>3 DEF IInv, BuiltFromMore
<1> QED
  BY <1>2, <1>5, <1>6 DEF IInv

LEMMA BuildAssetSnapshotKeeps ==
  ASSUME IInv, NEW asset_id \in AssetIds, NEW ranking \in Rankings,
         BuildAssetSnapshot(asset_id, ranking)
  PROVE  IInv'
<1> DEFINE places == {p \in DOMAIN fragments : fragments[p].asset_id = asset_id}
           frags == Restrict(fragments, places)
           result == Reconcile(frags, ranking)
           built == [asset_id |-> asset_id, ranking |-> ranking, reports |-> frags,
                     merged |-> result.merged, conflicts |-> result.conflicts,
                     payload |-> Payload(result.merged)]
<1>1. /\ as_built' = built
      /\ fragments' = fragments
      /\ as_designed' = as_designed
  BY DEF BuildAssetSnapshot
<1>2. DOMAIN frags = places /\ \A p \in places : frags[p] = fragments[p]
  BY DEF Restrict
<1>3. fragments \in Seq(Fragments)
  BY DEF IInv
<1>4. DOMAIN fragments = 1..Len(fragments) /\ \A p \in DOMAIN fragments : fragments[p] \in Fragments
  BY <1>3
<1>5. Placed(frags, Len(fragments))
  BY <1>2, <1>4 DEF Placed
<1> HIDE DEF frags
<1>6. /\ built.asset_id = asset_id /\ built.ranking = ranking /\ built.reports = frags
      /\ built.merged = result.merged /\ built.conflicts = result.conflicts
      /\ built.payload = Payload(result.merged)
  BY DEF built
<1> HIDE DEF built
<1>7. WorkedOut(built)
  BY <1>2, <1>5, <1>6 DEF WorkedOut
<1>8. \A s : WorkedOut(s)' <=> WorkedOut(s)
  BY <1>1 DEF WorkedOut
<1>9. SnapshotsWorkedOut'
  BY <1>1, <1>7, <1>8 DEF IInv, SnapshotsWorkedOut, Snapshots
<1>10. ASSUME as_designed # None, as_designed.asset_id = asset_id
       PROVE  DOMAIN as_designed.reports \subseteq places
  <2>1. WorkedOut(as_designed)
    BY <1>10 DEF IInv, SnapshotsWorkedOut, Snapshots
  <2> QED
    BY <1>4, <1>10, <2>1 DEF WorkedOut, Placed
<1>11. BuiltFromMore'
  BY <1>1, <1>2, <1>6, <1>10 DEF BuiltFromMore
<1> QED
  BY <1>1, <1>3, <1>9, <1>11 DEF IInv

LEMMA KeepAsDesignedKeeps == IInv /\ KeepAsDesigned => IInv'
<1> SUFFICES ASSUME IInv, KeepAsDesigned PROVE IInv'
  OBVIOUS
<1>1. /\ as_built # None
      /\ as_designed' = as_built /\ as_built' = as_built /\ fragments' = fragments
  BY DEF KeepAsDesigned
<1>2. \A s : WorkedOut(s)' <=> WorkedOut(s)
  BY <1>1 DEF WorkedOut
<1>3. SnapshotsWorkedOut'
  BY <1>1, <1>2 DEF IInv, SnapshotsWorkedOut, Snapshots
<1>4. BuiltFromMore'
  BY <1>1 DEF BuiltFromMore
<1> QED
  BY <1>1, <1>3, <1>4 DEF IInv

LEMMA NextIInv == IInv /\ [Next]_vars => IInv'
<1> SUFFICES ASSUME IInv, [Next]_vars PROVE IInv'
  OBVIOUS
<1>1. CASE UNCHANGED vars
  <2>1. fragments' = fragments /\ as_designed' = as_designed /\ as_built' = as_built
    BY <1>1 DEF vars
  <2>2. \A s : WorkedOut(s)' <=> WorkedOut(s)
    BY <2>1 DEF WorkedOut
  <2> QED
    BY <2>1, <2>2 DEF IInv, SnapshotsWorkedOut, Snapshots, BuiltFromMore
<1> QED
  BY <1>1, ReportKeeps, BuildAssetSnapshotKeeps, KeepAsDesignedKeeps DEF Next

LEMMA Invariant == Spec => []IInv
<1> QED
  BY InitIInv, NextIInv, PTL DEF Spec

-----------------------------------------------------------------------------
(* The theorems.                                                           *)

\* What IInv says of a snapshot.
LEMMA SnapshotFacts ==
  ASSUME IInv, NEW s \in Snapshots
  PROVE  WorkedOut(s) /\ Len(fragments) \in Nat /\ Placed(s.reports, Len(fragments))
<1>1. WorkedOut(s) /\ Len(fragments) \in Nat
  BY DEF IInv, SnapshotsWorkedOut
<1> QED
  BY <1>1 DEF WorkedOut

LEMMA GovernedByIInv == IInv => SnapshotIsGoverned
<1> SUFFICES ASSUME IInv, NEW s \in Snapshots, s.ranking # None, NEW field \in SeenFields(s.reports)
             PROVE  LET governed == GovernedValues(field, s.reports, s.ranking)
                    IN  IF governed = {} THEN field \notin DOMAIN s.merged
                        ELSE field \in DOMAIN s.merged /\ s.merged[field] \in governed
  BY DEF SnapshotIsGoverned
<1>1. /\ Len(fragments) \in Nat /\ Placed(s.reports, Len(fragments))
      /\ s.ranking \in Rankings \ {None}
      /\ s.merged = Reconcile(s.reports, s.ranking).merged
  BY SnapshotFacts DEF WorkedOut
<1> QED
  BY <1>1, FieldIsGoverned

\* reconcile never settles a field by order of arrival when it is given a ranking: for any
\* ranking, any fragments and however often the sources report.
THEOREM SnapshotsAreGoverned == Spec => []SnapshotIsGoverned
<1> QED
  BY Invariant, GovernedByIInv, PTL

LEMMA ToldByIInv == IInv => ConflictNeverSilent
<1> SUFFICES ASSUME IInv, NEW s \in Snapshots, NEW field \in SeenFields(s.reports),
                    \E v, w \in LastWords(Speakers(field, s.reports), field, s.reports) : v # w
             PROVE  \E c \in s.conflicts :
                      /\ c.field = field
                      /\ ClaimValues(c.values)
                           = LastWords(Speakers(field, s.reports), field, s.reports)
  BY DEF ConflictNeverSilent
<1>1. /\ Len(fragments) \in Nat /\ Placed(s.reports, Len(fragments))
      /\ s.conflicts = Reconcile(s.reports, s.ranking).conflicts
  BY SnapshotFacts DEF WorkedOut
<1> QED
  BY <1>1, ConflictIsReported

\* reconcile reports every field its sources differ on, with all that they said last.
THEOREM ConflictsAreTold == Spec => []ConflictNeverSilent
<1> QED
  BY Invariant, ToldByIInv, PTL

\* In a snapshot where all sources are ranked and one of them alone at the top, a field that
\* source speaks of has its last word.
LEMMA AuthorityHasIt ==
  ASSUME NEW n \in Nat, NEW frags, Placed(frags, n), NEW ranking \in Rankings \ {None},
         Sources \subseteq DOMAIN ranking, NEW field \in _MERGEABLE_FIELDS,
         NEW source \in Speakers(field, frags),
         \A other \in Sources \ {source} : ranking[other] < ranking[source]
  PROVE  Get(Payload(Reconcile(frags, ranking).merged), field) = LastWord(source, field, frags)
<1> DEFINE merged == Reconcile(frags, ranking).merged
           said == LastWords(Speakers(field, frags), field, frags)
           highest == LastWords(Authorities(field, frags, ranking), field, frags)
           word == LastWord(source, field, frags)
<1>1. field \in SeenFields(frags)
  BY DEF Speakers, SeenFields
<1>2. Speakers(field, frags) \subseteq Sources
  BY DEF Speakers, Sources, With, Placed
<1>3. \A other \in Sources : ranking[other] \in Int
  BY RankingsAssumption
<1>4. Authorities(field, frags, ranking) = {source}
  <2>1. source \in Authorities(field, frags, ranking)
    <3>1. \A other \in Sources : ranking[other] <= ranking[source]
      BY <1>2, <1>3
    <3> QED
      BY <1>2, <3>1 DEF Authorities
  <2>2. ASSUME NEW other \in Authorities(field, frags, ranking) PROVE other = source
    <3>1. other \in Sources /\ source \in Sources /\ ranking[source] <= ranking[other]
      BY <1>2 DEF Authorities
    <3> QED
      BY <1>3, <3>1
  <2> QED
    BY <2>1, <2>2
<1>5. highest = {word}
  BY <1>4 DEF LastWords
<1>6. word \in said
  BY DEF LastWords
<1>7. GovernedValues(field, frags, ranking) = {word}
  <2>1. Speakers(field, frags) \subseteq DOMAIN ranking
    BY <1>2
  <2>2. CASE \E v \in said : said = {v}
    <3>1. said = {word}
      BY <1>6, <2>2
    <3> QED
      BY <2>2, <3>1 DEF GovernedValues
  <2>3. CASE ~\E v \in said : said = {v}
    BY <1>5, <2>1, <2>3 DEF GovernedValues
  <2> QED
    BY <2>2, <2>3
<1>8. field \in DOMAIN merged /\ merged[field] = word
  BY <1>1, <1>7, FieldIsGoverned
<1> HIDE DEF merged
<1>9. field \in DOMAIN Payload(merged) /\ Payload(merged)[field] = word
  BY <1>8 DEF Payload
<1> QED
  BY <1>9 DEF Get, merged

LEMMA DriftSeenByIInv == IInv => DriftSeesTheAuthority
<1> DEFINE d == as_designed
           b == as_built
<1> SUFFICES ASSUME IInv, as_designed # None, as_built # None, d.asset_id = b.asset_id,
                    d.ranking = b.ranking, b.ranking # None, Sources \subseteq DOMAIN b.ranking,
                    NEW field \in SeenFields(d.reports),
                    NEW source \in Speakers(field, d.reports),
                    \A other \in Sources \ {source} : b.ranking[other] < b.ranking[source],
                    LastWord(source, field, d.reports) # LastWord(source, field, b.reports)
             PROVE  field \in DetectDrift(d.payload, b.payload)
  BY DEF DriftSeesTheAuthority
<1>1. /\ Len(fragments) \in Nat
      /\ WorkedOut(d) /\ Placed(d.reports, Len(fragments))
      /\ WorkedOut(b) /\ Placed(b.reports, Len(fragments))
  BY SnapshotFacts DEF Snapshots
<1>2. DOMAIN d.reports \subseteq DOMAIN b.reports
  BY DEF IInv, BuiltFromMore
<1>3. field \in _MERGEABLE_FIELDS
  BY DEF SeenFields
<1>4. source \in Speakers(field, b.reports)
  <2>1. PICK p \in DOMAIN d.reports : field \in DOMAIN d.reports[p].fields
                                      /\ d.reports[p].source = source
    BY DEF Speakers, With
  <2>2. p \in DOMAIN b.reports /\ b.reports[p] = d.reports[p]
    BY <1>1, <1>2 DEF WorkedOut
  <2> QED
    BY <2>1, <2>2 DEF Speakers, With
<1>5. Get(d.payload, field) = LastWord(source, field, d.reports)
  BY <1>1, <1>3, AuthorityHasIt DEF WorkedOut
<1>6. Get(b.payload, field) = LastWord(source, field, b.reports)
  BY <1>1, <1>3, <1>4, AuthorityHasIt DEF WorkedOut
<1> QED
  BY <1>3, <1>5, <1>6 DEF DetectDrift

\* detect_drift sees the highest authority change its word, whatever the others say.
THEOREM AuthorityDriftIsSeen == Spec => []DriftSeesTheAuthority
<1> QED
  BY Invariant, DriftSeenByIInv, PTL
=============================================================================
