---------------------------- MODULE Ledger_proofs ----------------------------
(***************************************************************************)
(* Proofs about Ledger: whatever the numbers of transactions and accounts, *)
(* however long the history and however it was cut into pages and batches, *)
(* the rows are those the events up to the cursor call for.                *)
(*                                                                         *)
(* The argument has three parts.  The pages reorder the events they drain, *)
(* but never two upserts of one transaction, so the last one of a batch is *)
(* its latest (AccumulatesOrders, BatchIs).  The statements of a batch     *)
(* then make of each row what Follows says (UpsertedRows, LinkedBothWays,  *)
(* BatchApplied).  And Follows carries the invariant over (LedgerFollows,  *)
(* LinksFollow, AccountsApplied).                                          *)
(*                                                                         *)
(* That a finite set of events can be put in the order of the pages is an  *)
(* induction on its size, done by least counterexample (NatMin, Sorting).  *)
(***************************************************************************)
EXTENDS Ledger, FiniteSetTheorems, TLAPS

-----------------------------------------------------------------------------
(* Least and greatest numbers, and sorting *)

LEMMA NatMin ==
  ASSUME NEW T, T \subseteq Nat, T # {}
  PROVE  \E m \in T : \A n \in T : m <= n
<1> DEFINE R == {ss \in Nat \X Nat : ss[1] < ss[2]}
<1>1. IsWellFoundedOn(R, Nat)
  BY NatLessThanWellFounded DEF OpToRel
<1>2. PICK x \in T : \A y \in T : ~ (<<y, x>> \in R)
  <2> HIDE DEF R
  <2> QED
    BY <1>1, WFMin
<1>3. ASSUME NEW n \in T
      PROVE  x <= n
  <2>1. n \in Nat /\ x \in Nat /\ (n < x => <<n, x>> \in R)
    OBVIOUS
  <2> QED
    BY <2>1, <1>2
<1> QED
  BY <1>3

LEMMA NatMax ==
  ASSUME NEW n \in Nat, NEW T, T \subseteq 1..n, T # {}
  PROVE  \E m \in T : \A x \in T : x <= m
<1> DEFINE above == {b \in 1..n : \A x \in T : x <= b}
<1>1. above \subseteq Nat /\ n \in above
  <2>1. n \in 1..n /\ \A x \in T : x <= n
    <3>1. PICK x \in T : TRUE
      OBVIOUS
    <3>2. x \in 1..n
      OBVIOUS
    <3> QED
      BY <3>2
  <2> QED
    BY <2>1
<1>2. PICK m \in above : \A b \in above : m <= b
  <2> HIDE DEF above
  <2> QED
    BY <1>1, NatMin
<1>3. m \in T
  <2>1. SUFFICES ASSUME m \notin T
                 PROVE  FALSE
    OBVIOUS
  <2>2. \A x \in T : x <= m - 1 /\ 1 <= x
    BY <2>1
  <2>3. m \in 1..n /\ m - 1 \in 1..n /\ \A x \in T : x <= m - 1
    <3>1. PICK x \in T : TRUE
      OBVIOUS
    <3>2. x <= m - 1 /\ 1 <= x /\ x \in Nat /\ m \in 1..n
      BY <2>2
    <3> QED
      BY <3>2, <2>2
  <2> QED
    <3>1. m - 1 \in above
      BY <2>3
    <3>2. m <= m - 1
      BY <3>1, <1>2
    <3> QED
      BY <3>2, <2>3
<1> QED
  BY <1>3

(* A finite set has an enumeration in the order of a relation when each of  *)
(* its subsets has a first element: by induction on how many there are.     *)
LEMMA Sorting ==
  ASSUME NEW S, IsFiniteSet(S), NEW R,
         \A T \in (SUBSET S) \ {{}} : \E m \in T : \A x \in T \ {m} : <<m, x>> \in R
  PROVE  \E order \in SetToSeqs(S) :
           \A k, l \in DOMAIN order : k < l => <<order[k], order[l]>> \in R
<1> DEFINE Ordered(T, s) == /\ s \in [1..Cardinality(T) -> T]
                            /\ \A k, l \in DOMAIN s : k # l => s[k] # s[l]
                            /\ \A k, l \in DOMAIN s : k < l => <<s[k], s[l]>> \in R
           unordered == {n \in Nat : \E T \in SUBSET S : Cardinality(T) = n /\ ~\E s : Ordered(T, s)}
<1>1. unordered = {}
  <2>1. SUFFICES ASSUME unordered # {}
                 PROVE  FALSE
    OBVIOUS
  <2>2. PICK n \in unordered : \A x \in unordered : n <= x
    <3>1. unordered \subseteq Nat
      OBVIOUS
    <3> HIDE DEF unordered
    <3> QED
      BY <3>1, <2>1, NatMin
  <2>3. PICK T \in SUBSET S : Cardinality(T) = n /\ ~\E s : Ordered(T, s)
    OBVIOUS
  <2>4. IsFiniteSet(T) /\ n \in Nat
    BY FS_Subset
  <2>5. T # {}
    <3>1. SUFFICES ASSUME T = {}
                   PROVE  FALSE
      OBVIOUS
    <3>2. n = 0
      BY <3>1, <2>3, FS_EmptySet
    <3>3. Ordered(T, [k \in 1..0 |-> k])
      BY <3>1, <3>2, <2>3
    <3> QED
      BY <3>3, <2>3
  <2>6. PICK m \in T : \A x \in T \ {m} : <<m, x>> \in R
    BY <2>5
  <2> DEFINE U == T \ {m}
  <2>7. U \subseteq S /\ Cardinality(U) = n - 1 /\ n - 1 \in Nat
    <3>1. Cardinality(U) = n - 1 /\ IsFiniteSet(U)
      BY <2>3, <2>4, <2>6, FS_RemoveElement
    <3> QED
      BY <3>1, FS_CardinalityType
  <2>8. PICK s : Ordered(U, s)
    <3>1. n - 1 \notin unordered
      <4>1. n - 1 \in unordered => n <= n - 1
        BY <2>2
      <4> HIDE DEF unordered
      <4> QED
        BY <4>1, <2>4
    <3> QED
      BY <3>1, <2>7
  <2> DEFINE new == [k \in 1..n |-> IF k = 1 THEN m ELSE s[k - 1]]
  <2>9. \A k \in 2..n : k - 1 \in 1..(n - 1) /\ k - 1 \in DOMAIN s /\ new[k] = s[k - 1] /\ new[k] \in U
    <3> SUFFICES ASSUME NEW k \in 2..n
                 PROVE  k - 1 \in 1..(n - 1) /\ k - 1 \in DOMAIN s /\ new[k] = s[k - 1] /\ new[k] \in U
      OBVIOUS
    <3>1. k - 1 \in 1..(n - 1) /\ k \in 1..n /\ k # 1
      BY <2>4
    <3>2. new[k] = s[k - 1]
      BY <3>1
    <3> HIDE DEF new, U
    <3> QED
      BY <3>1, <3>2, <2>7, <2>8
  <2>10. 1 \in 1..n /\ new[1] = m /\ DOMAIN new = 1..n /\ \A k \in 1..n : k = 1 \/ k \in 2..n
    BY <2>4, <2>7
  <2> HIDE DEF new, U
  <2>11. Ordered(T, new)
    <3>1. new \in [1..n -> T]
      BY <2>9, <2>10 DEF U, new
    <3>2. \A k, l \in 1..n : k # l => new[k] # new[l]
      <4> SUFFICES ASSUME NEW k \in 1..n, NEW l \in 1..n, k # l
                   PROVE  new[k] # new[l]
        OBVIOUS
      <4>1. CASE k = 1
        BY <4>1, <2>9, <2>10 DEF U
      <4>2. CASE l = 1
        BY <4>2, <2>9, <2>10 DEF U
      <4>3. CASE k # 1 /\ l # 1
        <5>1. k - 1 # l - 1
          BY <2>4
        <5> QED
          BY <4>3, <5>1, <2>8, <2>9, <2>10
      <4> QED
        BY <4>1, <4>2, <4>3
    <3>3. \A k, l \in 1..n : k < l => <<new[k], new[l]>> \in R
      <4> SUFFICES ASSUME NEW k \in 1..n, NEW l \in 1..n, k < l
                   PROVE  <<new[k], new[l]>> \in R
        OBVIOUS
      <4>1. l \in 2..n
        BY <2>4
      <4>2. CASE k = 1
        BY <4>1, <4>2, <2>6, <2>9, <2>10 DEF U
      <4>3. CASE k # 1
        <5>1. k \in 2..n /\ k - 1 < l - 1
          BY <4>3, <2>4
        <5> QED
          BY <4>1, <5>1, <2>8, <2>9
      <4> QED
        BY <4>2, <4>3
    <3> QED
      BY <3>1, <3>2, <3>3, <2>3, <2>10
  <2> QED
    BY <2>11, <2>3
<1>2. Cardinality(S) \in Nat
  BY FS_CardinalityType
<1>3. PICK s : Ordered(S, s)
  BY <1>1, <1>2
<1>4. s \in SetToSeqs(S)
  BY <1>3 DEF SetToSeqs
<1> QED
  BY <1>3, <1>4
-----------------------------------------------------------------------------
(* Plaid's history *)

Published == [kind : {"added", "modified"}, id : TxnIds, raw : Payload]
               \cup [kind : {"removed"}, id : TxnIds]

(* The first event of a transaction is its arrival, and no later one takes  *)
(* the pending transaction it names back.                                   *)
Before(j) == {i \in 1..(j - 1) : feed[i].id = feed[j].id /\ feed[i].kind # "removed"}
Rule(j) ==
  /\ feed[j].kind = "added" => Before(j) = {}
  /\ feed[j].kind = "removed" => Before(j) # {}
  /\ feed[j].kind # "removed" =>
       /\ feed[j].raw.pend \in {NULL, Predecessor[feed[j].id]}
       /\ \A i \in Before(j) : feed[i].raw.pend # NULL => feed[j].raw.pend = feed[i].raw.pend
FeedRules == \A j \in 1..Len(feed) : Rule(j)

FeedOK == feed \in Seq(Published) /\ FeedRules

Greatest(T) == CHOOSE i \in T : \A j \in T : j <= i

LEMMA GreatestIs ==
  ASSUME NEW n \in Nat, NEW T, T \subseteq 1..n, T # {}
  PROVE  Greatest(T) \in T /\ \A j \in T : j <= Greatest(T)
BY NatMax DEF Greatest

LEMMA LatestRawIs ==
  \A t, n : LatestRaw(t, n) = feed[Greatest(UpsertsOf(t, n))].raw
BY DEF LatestRaw, Greatest

LEMMA LatestUpsert ==
  ASSUME NEW t, NEW n \in Nat, UpsertsOf(t, n) # {}
  PROVE  LET m == Greatest(UpsertsOf(t, n))
         IN  /\ m \in UpsertsOf(t, n) /\ m \in 1..n /\ feed[m].id = t /\ feed[m].kind # "removed"
             /\ LatestRaw(t, n) = feed[m].raw
             /\ \A j \in UpsertsOf(t, n) : j <= m
<1>1. UpsertsOf(t, n) \subseteq 1..n
  BY DEF UpsertsOf
<1>2. /\ Greatest(UpsertsOf(t, n)) \in UpsertsOf(t, n)
      /\ \A j \in UpsertsOf(t, n) : j <= Greatest(UpsertsOf(t, n))
  BY <1>1, GreatestIs
<1> QED
  BY <1>2, LatestRawIs DEF UpsertsOf

(* What the events after n say of a transaction is what is new after n. *)
LEMMA LaterUpserts ==
  ASSUME NEW t, NEW n \in Nat, NEW m \in Nat, n <= m
  PROVE  /\ UpsertsOf(t, n) \subseteq UpsertsOf(t, m)
         /\ UpsertsOf(t, m) \subseteq UpsertsOf(t, n)
              \cup {i \in (n + 1)..m : feed[i].id = t /\ feed[i].kind # "removed"}
         /\ {i \in (n + 1)..m : feed[i].id = t /\ feed[i].kind # "removed"} \subseteq UpsertsOf(t, m)
BY DEF UpsertsOf

(* A transaction whose events are all up to n is as it was at n. *)
LEMMA NothingLater ==
  ASSUME NEW t, NEW n \in Nat, NEW m \in Nat, n <= m,
         \A i \in (n + 1)..m : ~(feed[i].id = t /\ feed[i].kind # "removed")
  PROVE  UpsertsOf(t, m) = UpsertsOf(t, n) /\ LatestRaw(t, m) = LatestRaw(t, n)
<1>1. UpsertsOf(t, m) = UpsertsOf(t, n)
  BY DEF UpsertsOf
<1> QED
  BY <1>1, LatestRawIs

(* The pending transaction a row names stays named. *)
LEMMA PendingStaysNamed ==
  ASSUME FeedOK, NEW t, NEW n \in 0..Len(feed), NEW m \in n..Len(feed),
         UpsertsOf(t, n) # {}, LatestRaw(t, n).pend # NULL
  PROVE  LatestRaw(t, m).pend = LatestRaw(t, n).pend
<1> DEFINE i == Greatest(UpsertsOf(t, n))
           j == Greatest(UpsertsOf(t, m))
<1>1. /\ i \in UpsertsOf(t, n) /\ i \in 1..n /\ feed[i].id = t /\ feed[i].kind # "removed"
      /\ LatestRaw(t, n) = feed[i].raw
  BY LatestUpsert
<1>2. UpsertsOf(t, n) \subseteq UpsertsOf(t, m)
  BY LaterUpserts
<1>3. /\ j \in UpsertsOf(t, m) /\ j \in 1..m /\ feed[j].id = t /\ feed[j].kind # "removed"
      /\ LatestRaw(t, m) = feed[j].raw /\ i <= j
  BY <1>1, <1>2, LatestUpsert
<1> HIDE DEF i, j
<1>4. CASE i = j
  BY <1>1, <1>3, <1>4
<1>5. CASE i < j
  <2>1. i \in Before(j) /\ j \in 1..Len(feed)
    BY <1>1, <1>3, <1>5 DEF Before
  <2> QED
    BY <1>1, <1>3, <2>1 DEF FeedOK, FeedRules, Rule
<1> QED
  BY <1>1, <1>3, <1>4, <1>5

LEMMA Appended ==
  ASSUME feed \in Seq(Published), NEW e \in Published, feed' = Append(feed, e)
  PROVE  /\ feed' \in Seq(Published) /\ Len(feed) \in Nat
         /\ Len(feed') = Len(feed) + 1 /\ feed'[Len(feed) + 1] = e
         /\ \A i \in 1..Len(feed) : feed'[i] = feed[i]
         /\ \A t : \A n \in 0..Len(feed) :
              /\ UpsertsOf(t, n)' = UpsertsOf(t, n)
              /\ RemovedIn(t, n)' <=> RemovedIn(t, n)
              /\ UpsertsOf(t, n) # {} => LatestRaw(t, n)' = LatestRaw(t, n)
<1>1. /\ feed' \in Seq(Published) /\ Len(feed) \in Nat
      /\ Len(feed') = Len(feed) + 1 /\ feed'[Len(feed) + 1] = e
      /\ \A i \in 1..Len(feed) : feed'[i] = feed[i]
  OBVIOUS
<1>2. ASSUME NEW t, NEW n \in 0..Len(feed)
      PROVE  /\ UpsertsOf(t, n)' = UpsertsOf(t, n)
             /\ RemovedIn(t, n)' <=> RemovedIn(t, n)
             /\ UpsertsOf(t, n) # {} => LatestRaw(t, n)' = LatestRaw(t, n)
  <2>1. \A i \in 1..n : feed'[i] = feed[i]
    BY <1>1
  <2>2. UpsertsOf(t, n)' = UpsertsOf(t, n)
    BY <2>1 DEF UpsertsOf
  <2>3. RemovedIn(t, n)' <=> RemovedIn(t, n)
    BY <2>1 DEF RemovedIn
  <2>4. ASSUME UpsertsOf(t, n) # {}
        PROVE  LatestRaw(t, n)' = LatestRaw(t, n)
    <3>1. LatestRaw(t, n)' = feed'[Greatest(UpsertsOf(t, n)')].raw
      BY DEF LatestRaw, Greatest
    <3>2. Greatest(UpsertsOf(t, n)) \in 1..n
      BY <2>4, <1>1, LatestUpsert
    <3> QED
      BY <3>1, <3>2, <2>1, <2>2, LatestRawIs
  <2> QED
    BY <2>2, <2>3, <2>4
<1> QED
  BY <1>1, <1>2

(* What is published keeps the rules of the history. *)
LEMMA FeedOKKept ==
  ASSUME FeedOK, NEW e \in Published, feed' = Append(feed, e),
         e.kind = "added" => UpsertsOf(e.id, Len(feed)) = {},
         e.kind = "removed" => UpsertsOf(e.id, Len(feed)) # {},
         e.kind # "removed" => /\ e.raw.pend \in {NULL, Predecessor[e.id]}
                               /\ \A i \in UpsertsOf(e.id, Len(feed)) :
                                    feed[i].raw.pend # NULL => e.raw.pend = feed[i].raw.pend
  PROVE  FeedOK'
<1>1. /\ feed' \in Seq(Published) /\ Len(feed) \in Nat
      /\ Len(feed') = Len(feed) + 1 /\ feed'[Len(feed) + 1] = e
      /\ \A i \in 1..Len(feed) : feed'[i] = feed[i]
  BY Appended DEF FeedOK
<1>2. ASSUME NEW j \in 1..Len(feed')
      PROVE  Rule(j)'
  <2>1. CASE j = Len(feed) + 1
    <3>1. Before(j)' = UpsertsOf(e.id, Len(feed))
      BY <2>1, <1>1 DEF Before, UpsertsOf
    <3>2. \A i \in Before(j)' : feed'[i] = feed[i]
      BY <2>1, <1>1 DEF Before
    <3> QED
      BY <3>1, <3>2, <2>1, <1>1 DEF Rule
  <2>2. CASE j \in 1..Len(feed)
    <3>1. Before(j)' = Before(j)
      BY <2>2, <1>1 DEF Before
    <3>2. \A i \in Before(j) : feed'[i] = feed[i]
      BY <2>2, <1>1 DEF Before
    <3>3. Rule(j)
      BY <2>2 DEF FeedOK, FeedRules
    <3> QED
      BY <3>1, <3>2, <3>3, <2>2, <1>1 DEF Rule
  <2> QED
    BY <1>1, <2>1, <2>2
<1> QED
  BY <1>1, <1>2 DEF FeedOK, FeedRules

LEMMA PublishKeepsFeed ==
  ASSUME FeedOK, NEW t \in TxnIds, PublishUpsert(t) \/ PublishRemoval(t)
  PROVE  FeedOK' /\ \E e \in Published : feed' = Append(feed, e)
<1>1. Len(feed) \in Nat
  BY DEF FeedOK
<1>2. CASE PublishUpsert(t)
  <2>1. PICK kind \in {"added", "modified"}, raw \in Payload :
          LET before == UpsertsOf(t, Len(feed)) IN
            /\ raw.pend \in {NULL, Predecessor[t]}
            /\ before # {} => /\ kind = "modified"
                              /\ LatestRaw(t, Len(feed)).pend # NULL
                                   => raw.pend = LatestRaw(t, Len(feed)).pend
            /\ feed' = Append(feed, [kind |-> kind, id |-> t, raw |-> raw])
    BY <1>2 DEF PublishUpsert
  <2> DEFINE e == [kind |-> kind, id |-> t, raw |-> raw]
  <2>2. e \in Published /\ e.kind = kind /\ e.id = t /\ e.raw = raw /\ feed' = Append(feed, e)
    BY <2>1 DEF Published
  <2>3. ASSUME NEW i \in UpsertsOf(t, Len(feed)), feed[i].raw.pend # NULL
        PROVE  raw.pend = feed[i].raw.pend
    <3>1. i \in UpsertsOf(t, i) /\ i \in 1..Len(feed)
      BY <1>1 DEF UpsertsOf
    <3>2. /\ Greatest(UpsertsOf(t, i)) \in 1..i /\ i <= Greatest(UpsertsOf(t, i))
          /\ LatestRaw(t, i) = feed[Greatest(UpsertsOf(t, i))].raw
      BY <3>1, LatestUpsert
    <3>3. LatestRaw(t, i) = feed[i].raw
      BY <3>1, <3>2
    <3>4. LatestRaw(t, Len(feed)).pend = feed[i].raw.pend
      BY <1>1, <2>3, <3>1, <3>3, PendingStaysNamed
    <3> QED
      BY <2>1, <2>3, <3>4
  <2> HIDE DEF e
  <2>4. FeedOK'
    BY <2>1, <2>2, <2>3, FeedOKKept
  <2> QED
    BY <2>2, <2>4
<1>3. CASE PublishRemoval(t)
  <2> DEFINE e == [kind |-> "removed", id |-> t]
  <2>1. /\ e \in Published /\ e.kind = "removed" /\ e.id = t /\ feed' = Append(feed, e)
        /\ UpsertsOf(t, Len(feed)) # {}
    BY <1>3 DEF PublishRemoval, Published
  <2> HIDE DEF e
  <2> QED
    BY <2>1, FeedOKKept
<1> QED
  BY <1>2, <1>3

-----------------------------------------------------------------------------
(* What a sync accumulates *)

LEMMA PagesAreNumbered ==
  ASSUME FeedOK, NEW cuts \in SUBSET (1..Len(feed)), NEW k \in 1..Len(feed)
  PROVE  /\ PageOf(k, cuts) \in Nat /\ k \in Nat
         /\ \A j \in 1..Len(feed) : j < k => PageOf(j, cuts) <= PageOf(k, cuts)
<1>1. IsFiniteSet(1..Len(feed)) /\ k \in Nat
  BY FS_Interval DEF FeedOK
<1>2. IsFiniteSet(cuts)
  BY <1>1, FS_Subset
<1>3. IsFiniteSet({c \in cuts : c < k})
  BY <1>2, FS_Subset
<1>4. ASSUME NEW j \in 1..Len(feed), j < k
      PROVE  PageOf(j, cuts) <= PageOf(k, cuts)
  <2>1. j \in Nat /\ \A c \in cuts : c \in Nat
    BY DEF FeedOK
  <2>2. \A c \in cuts : c < j => c < k
    BY <1>1, <1>4, <2>1
  <2>3. {c \in cuts : c < j} \subseteq {c \in cuts : c < k}
    BY <2>2, Zenon
  <2> QED
    BY <1>3, <2>3, FS_Subset, FS_CardinalityType DEF PageOf
<1> QED
  BY <1>1, <1>3, <1>4, FS_CardinalityType DEF PageOf

(* The order of the pages agrees with that of the events of a transaction, *)
(* since only its first event can be an addition.                          *)
LEMMA AccumulatesOrders ==
  ASSUME FeedOK, NEW cuts \in SUBSET (1..Len(feed)),
         NEW i \in 1..Len(feed), NEW j \in 1..Len(feed)
  PROVE  /\ Accumulates(i, j, cuts) => ~Accumulates(j, i, cuts)
         /\ i < j /\ feed[i].id = feed[j].id /\ feed[i].kind # "removed" /\ feed[j].kind # "removed"
              => Accumulates(i, j, cuts)
<1>1. PageOf(i, cuts) \in Nat /\ PageOf(j, cuts) \in Nat /\ i \in Nat /\ j \in Nat
  BY PagesAreNumbered
<1>2. Accumulates(i, j, cuts) => ~Accumulates(j, i, cuts)
  BY <1>1 DEF Accumulates
<1>3. ASSUME i < j, feed[i].id = feed[j].id, feed[i].kind # "removed", feed[j].kind # "removed"
      PROVE  Accumulates(i, j, cuts)
  <2>1. i \in Before(j)
    BY <1>3 DEF Before
  <2>2. feed[j].kind = "modified" /\ feed[i].kind \in {"added", "modified"}
    BY <1>3, <2>1 DEF FeedOK, FeedRules, Rule, Published
  <2>3. PageOf(i, cuts) <= PageOf(j, cuts)
    BY <1>3, PagesAreNumbered
  <2> QED
    BY <1>1, <1>3, <2>2, <2>3 DEF Accumulates
<1> QED
  BY <1>2, <1>3

LEMMA FirstAccumulated ==
  ASSUME FeedOK, NEW cuts \in SUBSET (1..Len(feed)),
         NEW T \in SUBSET (1..Len(feed)), T # {}, \A i \in T : feed[i].kind # "removed"
  PROVE  \E m \in T : \A x \in T \ {m} : Accumulates(m, x, cuts)
<1>1. \A k \in 1..Len(feed) : PageOf(k, cuts) \in Nat /\ (k \in T => feed[k].kind \in {"added", "modified"})
  BY PagesAreNumbered DEF FeedOK, Published
<1> DEFINE pages == {PageOf(k, cuts) : k \in T}
<1>2. PICK p \in pages : \A q \in pages : p <= q
  <2>1. pages \subseteq Nat /\ pages # {}
    BY <1>1
  <2> HIDE DEF pages
  <2> QED
    BY <2>1, NatMin
<1> DEFINE page == {k \in T : PageOf(k, cuts) = p}
           added == {k \in page : feed[k].kind = "added"}
           group == IF added = {} THEN page ELSE added
<1>3. group \subseteq page /\ page # {} /\ group # {} /\ group \subseteq Nat
  OBVIOUS
<1>4. PICK m \in group : \A x \in group : m <= x
  <2> HIDE DEF group
  <2> QED
    BY <1>3, NatMin
<1>5. m \in T /\ PageOf(m, cuts) = p
  BY <1>3
<1>6. ASSUME NEW x \in T \ {m}
      PROVE  Accumulates(m, x, cuts)
  <2>1. PageOf(x, cuts) \in Nat /\ p \in Nat /\ p <= PageOf(x, cuts) /\ m \in Nat /\ x \in Nat
    BY <1>1, <1>2, <1>5
  <2>2. CASE PageOf(x, cuts) # p
    BY <2>1, <2>2, <1>5 DEF Accumulates
  <2>3. CASE x \in page /\ added = {}
    <3>1. feed[x].kind = "modified" /\ feed[m].kind = "modified" /\ m < x
      BY <2>1, <2>3, <1>1, <1>3, <1>4
    <3> QED
      BY <2>3, <1>5, <3>1 DEF Accumulates
  <2>4. CASE x \in page /\ added # {}
    <3>1. feed[m].kind = "added" /\ (feed[x].kind = "modified" \/ (feed[x].kind = "added" /\ m < x))
      BY <2>1, <2>4, <1>1, <1>4
    <3> QED
      BY <2>4, <1>5, <3>1 DEF Accumulates
  <2> QED
    BY <2>2, <2>3, <2>4
<1> QED
  BY <1>5, <1>6

Upserts(from, to) == {i \in (from + 1)..to : feed[i].kind # "removed"}
Removals(from, to) == {i \in (from + 1)..to : feed[i].kind = "removed"}
Ids(events) == {feed[i].id : i \in events}

LEMMA InPageOrderIs ==
  ASSUME FeedOK, NEW cuts \in SUBSET (1..Len(feed)),
         NEW from \in 0..Len(feed), NEW to \in from..Len(feed)
  PROVE  LET order == InPageOrder(Upserts(from, to), cuts)
         IN  /\ \E n \in Nat : order \in [1..n -> Upserts(from, to)]
             /\ \A i \in Upserts(from, to) : \E k \in DOMAIN order : order[k] = i
             /\ \A k, l \in DOMAIN order : k < l => Accumulates(order[k], order[l], cuts)
<1> DEFINE S == Upserts(from, to)
           R == {p \in S \X S : Accumulates(p[1], p[2], cuts)}
<1>1. S \in SUBSET (1..Len(feed)) /\ \A i \in S : feed[i].kind # "removed"
  BY DEF FeedOK, Upserts
<1>2. IsFiniteSet(S)
  <2>1. IsFiniteSet(1..Len(feed))
    BY FS_Interval DEF FeedOK
  <2> QED
    BY <1>1, <2>1, FS_Subset
<1>3. ASSUME NEW T \in (SUBSET S) \ {{}}
      PROVE  \E m \in T : \A x \in T \ {m} : <<m, x>> \in R
  <2>1. T \in SUBSET (1..Len(feed)) /\ T # {} /\ \A i \in T : feed[i].kind # "removed"
    BY <1>1
  <2>2. PICK m \in T : \A x \in T \ {m} : Accumulates(m, x, cuts)
    BY <2>1, FirstAccumulated
  <2>3. \A x \in T \ {m} : m \in S /\ x \in S
    OBVIOUS
  <2> QED
    BY <2>2, <2>3
<1>4. \E order \in SetToSeqs(S) : \A k, l \in DOMAIN order : k < l => <<order[k], order[l]>> \in R
  <2> HIDE DEF R, S
  <2> QED
    BY <1>2, <1>3, Sorting
<1>5. \E order \in SetToSeqs(S) :
        \A k, l \in DOMAIN order : k < l => Accumulates(order[k], order[l], cuts)
  <2> HIDE DEF S
  <2> QED
    BY <1>4
<1> DEFINE order == InPageOrder(S, cuts)
<1>6. /\ order \in SetToSeqs(S)
      /\ \A k, l \in DOMAIN order : k < l => Accumulates(order[k], order[l], cuts)
  <2> HIDE DEF S
  <2> QED
    BY <1>5 DEF InPageOrder
<1> HIDE DEF order, S, R
<1>7. /\ order \in [1..Cardinality(S) -> S] /\ Cardinality(S) \in Nat
      /\ \A k, l \in 1..Cardinality(S) : k # l => order[k] # order[l]
  BY <1>2, <1>6, FS_CardinalityType DEF SetToSeqs
<1>8. order \in Surjection(1..Cardinality(S), S)
  <2>1. order \in Injection(1..Cardinality(S), S)
    BY <1>7 DEF Injection, IsInjective
  <2>2. Cardinality(1..Cardinality(S)) = Cardinality(S)
    BY <1>7, FS_Interval
  <2> QED
    BY <1>2, <2>1, <2>2, FS_Injection
<1>9. \A i \in S : \E k \in DOMAIN order : order[k] = i
  BY <1>7, <1>8 DEF Surjection
<1> QED
  BY <1>6, <1>7, <1>9 DEF S, order

(* What a batch is made of: of each transaction that Plaid upserted in it   *)
(* the latest state, however the pages were cut.                            *)
LEMMA BatchIs ==
  ASSUME FeedOK, NEW cuts \in SUBSET (1..Len(feed)), NEW listed,
         NEW from \in 0..Len(feed), NEW to \in from..Len(feed)
  PROVE  LET batch == Batch(from, to, cuts, listed)
             new == DedupeTransactions(batch.upserts)
         IN  /\ batch.accounts = listed /\ batch.next_cursor = to
             /\ batch.removed = Ids(Removals(from, to))
             /\ DOMAIN new = Ids(Upserts(from, to))
             /\ \A t \in DOMAIN new : new[t] = LatestRaw(t, to)
<1> DEFINE order == InPageOrder(Upserts(from, to), cuts)
           upserts == [k \in DOMAIN order |-> [id |-> feed[order[k]].id, raw |-> feed[order[k]].raw]]
           batch == Batch(from, to, cuts, listed)
           new == DedupeTransactions(upserts)
<1>1. /\ batch.accounts = listed /\ batch.next_cursor = to /\ batch.upserts = upserts
      /\ batch.removed = Ids(Removals(from, to))
  BY DEF Batch, Upserts, Removals, Ids
<1>2. PICK n \in Nat : order \in [1..n -> Upserts(from, to)]
  BY InPageOrderIs
<1>3. \A i \in Upserts(from, to) : \E k \in 1..n : order[k] = i
  <2>1. \A i \in Upserts(from, to) : \E k \in DOMAIN order : order[k] = i
    BY InPageOrderIs
  <2>2. DOMAIN order = 1..n
    BY <1>2
  <2> HIDE DEF order
  <2> QED
    BY <2>1, <2>2
<1>4. \A k, l \in 1..n : k < l => Accumulates(order[k], order[l], cuts)
  BY <1>2, InPageOrderIs
<1> HIDE DEF order
<1>5. /\ DOMAIN upserts = 1..n
      /\ \A k \in 1..n : upserts[k].id = feed[order[k]].id /\ upserts[k].raw = feed[order[k]].raw
  BY <1>2
<1> HIDE DEF upserts
<1>6. {upserts[k].id : k \in DOMAIN upserts} = {feed[i].id : i \in Upserts(from, to)}
  <2>1. ASSUME NEW k \in 1..n
        PROVE  upserts[k].id \in {feed[i].id : i \in Upserts(from, to)}
    <3>1. order[k] \in Upserts(from, to)
      BY <1>2
    <3> QED
      BY <3>1, <1>5
  <2>2. ASSUME NEW i \in Upserts(from, to)
        PROVE  \E k \in 1..n : upserts[k].id = feed[i].id
    BY <1>3, <1>5
  <2>3. DOMAIN upserts = 1..n
    BY <1>5
  <2> QED
    BY <2>1, <2>2, <2>3, Zenon
<1>7. DOMAIN new = Ids(Upserts(from, to))
  BY <1>6 DEF DedupeTransactions, Ids
<1>8. ASSUME NEW t \in DOMAIN new
      PROVE  new[t] = LatestRaw(t, to)
  <2> DEFINE at == {k \in DOMAIN upserts : upserts[k].id = t}
             last == Greatest(at)
             latest == Greatest(UpsertsOf(t, to))
  <2>1. new[t] = upserts[last].raw
    BY <1>6, <1>7 DEF DedupeTransactions, Greatest, Ids
  <2>2. at \subseteq 1..n /\ at # {}
    BY <1>5, <1>6, <1>7 DEF Ids
  <2>3. last \in at /\ \A k \in at : k <= last
    <3> HIDE DEF at
    <3> QED
      BY <2>2, GreatestIs
  <2> HIDE DEF last
  <2>4. last \in 1..n /\ feed[order[last]].id = t /\ order[last] \in Upserts(from, to)
    BY <1>2, <1>5, <2>3
  <2>5. order[last] \in UpsertsOf(t, to) /\ to \in Nat
    BY <2>4 DEF UpsertsOf, Upserts, FeedOK
  <2>6. /\ latest \in UpsertsOf(t, to) /\ order[last] <= latest /\ latest \in 1..to
        /\ feed[latest].id = t /\ feed[latest].kind # "removed" /\ LatestRaw(t, to) = feed[latest].raw
    BY <2>5, LatestUpsert
  <2> HIDE DEF latest
  <2>7. latest \in Upserts(from, to)
    BY <2>4, <2>6 DEF Upserts
  <2>8. PICK k \in 1..n : order[k] = latest
    BY <2>7, <1>3
  <2>9. k \in at
    BY <1>5, <2>6, <2>8
  <2>10. k <= last
    BY <2>3, <2>9
  <2>11. CASE k = last
    BY <2>1, <2>4, <2>6, <2>8, <2>11, <1>5
  <2>12. CASE k < last
    <3>1. Accumulates(latest, order[last], cuts)
      BY <1>4, <2>4, <2>8, <2>12
    <3>2. order[last] \in 1..Len(feed) /\ latest \in 1..Len(feed) /\ feed[order[last]].kind # "removed"
      BY <2>4, <2>7 DEF Upserts, FeedOK
    <3>3. order[last] = latest
      BY <3>1, <3>2, <2>4, <2>6, AccumulatesOrders
    <3> QED
      BY <3>1, <3>2, <3>3, AccumulatesOrders
  <2> QED
    BY <2>4, <2>10, <2>11, <2>12
<1> QED
  BY <1>1, <1>7, <1>8

-----------------------------------------------------------------------------
(* What the statements of a batch do to a row *)

Row == [raw : Payload, first_seen_at : Nat, removed_at : Nat,
        superseded_by : TxnIds \cup {NULL}, superseded_at : Nat]
AccountRow == [first_seen_at : Nat, missing_since : Nat]
Tables(keys, row) == UNION {[K -> row] : K \in SUBSET keys}

LEMMA TablesAre ==
  ASSUME NEW keys, NEW row
  PROVE  /\ \A T \in Tables(keys, row) : /\ DOMAIN T \subseteq keys
                                         /\ T \in [DOMAIN T -> row]
         /\ \A K \in SUBSET keys : [K -> row] \subseteq Tables(keys, row)
BY DEF Tables

LEMMA FirstStampIs ==
  ASSUME NEW old \in Nat, NEW stamp \in Nat \ {0}
  PROVE  /\ FirstStamp(old, stamp) \in Nat /\ FirstStamp(old, stamp) # 0
         /\ old # 0 => FirstStamp(old, stamp) = old
BY DEF FirstStamp

(* Statements 3 and 4: the rows of the batch take its raw, and those that    *)
(* are removed their stamp.                                                 *)
RowsUpserted(txns, D, new, removed, stamp, after) ==
  /\ after \in Tables(TxnIds, Row) /\ DOMAIN after = DOMAIN txns \cup D
  /\ \A t \in D : after[t].raw = new[t]
  /\ \A t \in DOMAIN txns :
       /\ t \notin D => after[t].raw = txns[t].raw
       /\ after[t].first_seen_at = txns[t].first_seen_at
       /\ after[t].superseded_by = txns[t].superseded_by
       /\ after[t].superseded_at = txns[t].superseded_at
       /\ after[t].removed_at = IF t \in removed THEN FirstStamp(txns[t].removed_at, stamp)
                                ELSE txns[t].removed_at
  /\ \A t \in D \ DOMAIN txns :
       /\ after[t].superseded_by = NULL /\ after[t].superseded_at = 0
       /\ after[t].removed_at # 0 <=> t \in removed

LEMMA UpsertedRows ==
  ASSUME NEW txns \in Tables(TxnIds, Row), NEW D \in SUBSET TxnIds, NEW new \in [D -> Payload],
         NEW removed, NEW stamp \in Nat \ {0}
  PROVE  RowsUpserted(txns, D, new, removed, stamp,
           SoftDeleteTransactions(UpsertTransactions(txns, new, stamp), removed, stamp))
<1> DEFINE upserted == UpsertTransactions(txns, new, stamp)
           after == SoftDeleteTransactions(upserted, removed, stamp)
<1>1. DOMAIN txns \subseteq TxnIds /\ \A t \in DOMAIN txns : txns[t] \in Row
  BY TablesAre
<1>2. /\ DOMAIN upserted = DOMAIN txns \cup D
      /\ \A t \in D \cap DOMAIN txns : upserted[t] = [txns[t] EXCEPT !.raw = new[t]]
      /\ \A t \in DOMAIN txns \ D : upserted[t] = txns[t]
      /\ \A t \in D \ DOMAIN txns :
           upserted[t] = [raw |-> new[t], first_seen_at |-> stamp, removed_at |-> 0,
                          superseded_by |-> NULL, superseded_at |-> 0]
  BY DEF UpsertTransactions
<1> HIDE DEF upserted
<1>3. \A t \in DOMAIN upserted : upserted[t] \in Row
  BY <1>1, <1>2 DEF Row
<1>4. /\ DOMAIN after = DOMAIN upserted
      /\ \A t \in DOMAIN upserted :
           after[t] = IF t \in removed
                      THEN [upserted[t] EXCEPT !.removed_at = FirstStamp(upserted[t].removed_at, stamp)]
                      ELSE upserted[t]
      /\ after \in [DOMAIN upserted -> {after[t] : t \in DOMAIN upserted}]
  BY DEF SoftDeleteTransactions
<1> HIDE DEF after
<1>5. \A t \in DOMAIN upserted :
        /\ after[t] \in Row
        /\ after[t].raw = upserted[t].raw
        /\ after[t].first_seen_at = upserted[t].first_seen_at
        /\ after[t].superseded_by = upserted[t].superseded_by
        /\ after[t].superseded_at = upserted[t].superseded_at
        /\ after[t].removed_at = IF t \in removed THEN FirstStamp(upserted[t].removed_at, stamp)
                                 ELSE upserted[t].removed_at
  <2> SUFFICES ASSUME NEW t \in DOMAIN upserted
               PROVE  /\ after[t] \in Row
                      /\ after[t].raw = upserted[t].raw
                      /\ after[t].first_seen_at = upserted[t].first_seen_at
                      /\ after[t].superseded_by = upserted[t].superseded_by
                      /\ after[t].superseded_at = upserted[t].superseded_at
                      /\ after[t].removed_at = IF t \in removed THEN FirstStamp(upserted[t].removed_at, stamp)
                                               ELSE upserted[t].removed_at
    OBVIOUS
  <2>1. upserted[t] \in Row /\ FirstStamp(upserted[t].removed_at, stamp) \in Nat
    BY <1>3, FirstStampIs DEF Row
  <2> QED
    BY <2>1, <1>4 DEF Row
<1>6. after \in Tables(TxnIds, Row)
  <2>1. after \in [DOMAIN upserted -> Row] /\ DOMAIN upserted \in SUBSET TxnIds
    BY <1>1, <1>2, <1>4, <1>5
  <2> QED
    BY <2>1, TablesAre
<1>7. \A t \in D \ DOMAIN txns : after[t].removed_at # 0 <=> t \in removed
  BY <1>2, <1>5 DEF FirstStamp
<1>8. RowsUpserted(txns, D, new, removed, stamp, after)
  BY <1>1, <1>2, <1>4, <1>5, <1>6, <1>7 DEF Row, RowsUpserted
<1> QED
  BY <1>8 DEF after, upserted

(* Statement 5, once: a row that a new link points from is linked to one it *)
(* points to, and the others are as they were.                              *)
Offered(links, row, p) == {q \in TxnIds : <<p, q>> \in links /\ q # row.superseded_by}

LEMMA LinkedRows ==
  ASSUME NEW txns \in Tables(TxnIds, Row), NEW links, NEW stamp \in Nat \ {0},
         NEW after \in Superseded(txns, links, stamp)
  PROVE  /\ after \in Tables(TxnIds, Row) /\ DOMAIN after = DOMAIN txns
         /\ \A p \in DOMAIN txns :
              /\ after[p].raw = txns[p].raw
              /\ after[p].first_seen_at = txns[p].first_seen_at
              /\ after[p].removed_at = txns[p].removed_at
              /\ Offered(links, txns[p], p) = {} => after[p] = txns[p]
              /\ Offered(links, txns[p], p) # {} =>
                   /\ after[p].superseded_by \in Offered(links, txns[p], p)
                   /\ after[p].superseded_at = FirstStamp(txns[p].superseded_at, stamp)
<1> DEFINE posted(p) == {q \in TxnIds : <<p, q>> \in links /\ q # txns[p].superseded_by}
           hit == {p \in DOMAIN txns : posted(p) # {}}
<1>1. PICK pick \in {f \in [hit -> TxnIds] : \A p \in hit : f[p] \in posted(p)} :
        after = [p \in DOMAIN txns |->
                   IF p \in hit
                   THEN [txns[p] EXCEPT !.superseded_by = pick[p],
                                        !.superseded_at = FirstStamp(txns[p].superseded_at, stamp)]
                   ELSE txns[p]]
  BY DEF Superseded
<1>2. DOMAIN txns \subseteq TxnIds /\ \A p \in DOMAIN txns : txns[p] \in Row
  BY TablesAre
<1>3. \A p \in DOMAIN txns : posted(p) = Offered(links, txns[p], p)
  BY DEF Offered
<1>4. \A p \in DOMAIN txns : p \in hit <=> Offered(links, txns[p], p) # {}
  BY <1>3
<1>5. \A p \in hit : pick[p] \in Offered(links, txns[p], p) /\ pick[p] \in TxnIds
  BY <1>1, <1>3
<1> HIDE DEF hit, posted
<1>6. /\ DOMAIN after = DOMAIN txns
      /\ \A p \in DOMAIN txns :
           after[p] = IF p \in hit
                      THEN [txns[p] EXCEPT !.superseded_by = pick[p],
                                           !.superseded_at = FirstStamp(txns[p].superseded_at, stamp)]
                      ELSE txns[p]
  BY <1>1
<1>7. ASSUME NEW p \in DOMAIN txns
      PROVE  /\ after[p] \in Row
             /\ after[p].raw = txns[p].raw
             /\ after[p].first_seen_at = txns[p].first_seen_at
             /\ after[p].removed_at = txns[p].removed_at
             /\ p \notin hit => after[p] = txns[p]
             /\ p \in hit => /\ after[p].superseded_by = pick[p]
                             /\ after[p].superseded_at = FirstStamp(txns[p].superseded_at, stamp)
  <2>1. CASE p \in hit
    <3>1. pick[p] \in TxnIds /\ FirstStamp(txns[p].superseded_at, stamp) \in Nat
      BY <2>1, <1>2, <1>5, FirstStampIs DEF Row
    <3> QED
      BY <2>1, <3>1, <1>2, <1>6 DEF Row
  <2>2. CASE p \notin hit
    BY <2>2, <1>2, <1>6
  <2> QED
    BY <2>1, <2>2
<1>8. after \in Tables(TxnIds, Row)
  <2>1. after \in [DOMAIN txns -> Row]
    BY <1>1, <1>6, <1>7
  <2> QED
    BY <2>1, <1>2, TablesAre
<1> QED
  BY <1>4, <1>5, <1>6, <1>7, <1>8

(* Statement 5, both ways: what a pending row is linked to in the end is     *)
(* among the rows that name it, unless no statement had a new link for it.  *)
Naming(txns, p) == {q \in DOMAIN txns : txns[q].raw.pend = p}
Linked(row) == row.superseded_by # NULL <=> row.superseded_at # 0

LEMMA LinkedBothWays ==
  ASSUME NEW txns \in Tables(TxnIds, Row), NEW D \in SUBSET DOMAIN txns, NEW new \in [D -> Payload],
         \A t \in D : txns[t].raw = new[t],
         NEW stamp \in Nat \ {0}, NEW after \in LinkPendingTransactions(txns, new, stamp)
  PROVE  /\ after \in Tables(TxnIds, Row) /\ DOMAIN after = DOMAIN txns
         /\ \A p \in DOMAIN txns :
              /\ after[p].raw = txns[p].raw
              /\ after[p].first_seen_at = txns[p].first_seen_at
              /\ after[p].removed_at = txns[p].removed_at
              /\ Naming(txns, p) \subseteq {txns[p].superseded_by} => after[p] = txns[p]
              /\ Linked(txns[p]) =>
                   /\ Linked(after[p])
                   /\ txns[p].superseded_at # 0 => after[p].superseded_at = txns[p].superseded_at
                   /\ \/ after[p].superseded_by \in Naming(txns, p)
                      \/ /\ after[p] = txns[p]
                         /\ p \in D => Naming(txns, p) = {}
                         /\ Naming(txns, p) \cap D \subseteq {txns[p].superseded_by}
<1>1. PICK linked \in Superseded(txns, ForwardLinks(new), stamp) :
        after \in Superseded(linked, ReverseLinks(linked, new), stamp)
  BY DEF LinkPendingTransactions
<1>2. /\ linked \in Tables(TxnIds, Row) /\ DOMAIN linked = DOMAIN txns
      /\ after \in Tables(TxnIds, Row) /\ DOMAIN after = DOMAIN txns
      /\ \A p \in DOMAIN txns :
           /\ linked[p].raw = txns[p].raw /\ after[p].raw = txns[p].raw
           /\ after[p].first_seen_at = txns[p].first_seen_at
           /\ after[p].removed_at = txns[p].removed_at
  BY <1>1, LinkedRows
<1>3. /\ NULL \notin TxnIds /\ DOMAIN txns \subseteq TxnIds
      /\ \A p \in DOMAIN txns : txns[p] \in Row /\ linked[p] \in Row /\ after[p] \in Row
  BY <1>2, TablesAre, NullAssumption
<1>4. ASSUME NEW p \in DOMAIN txns
      PROVE  /\ Offered(ForwardLinks(new), txns[p], p) = (Naming(txns, p) \cap D) \ {txns[p].superseded_by}
             /\ p \in D => Offered(ReverseLinks(linked, new), linked[p], p)
                             = Naming(txns, p) \ {linked[p].superseded_by}
             /\ p \notin D => Offered(ReverseLinks(linked, new), linked[p], p) = {}
  <2>1. p # NULL /\ DOMAIN new = D
    BY <1>3
  <2>2. \A q : <<p, q>> \in ForwardLinks(new) <=> q \in D /\ new[q].pend = p
    BY <2>1 DEF ForwardLinks
  <2>3. \A q : <<p, q>> \in ReverseLinks(linked, new) <=> p \in D /\ q \in DOMAIN txns /\ txns[q].raw.pend = p
    BY <1>2, <2>1 DEF ReverseLinks
  <2> QED
    BY <1>3, <2>2, <2>3 DEF Offered, Naming
<1>5. ASSUME NEW p \in DOMAIN txns
      PROVE  /\ (Naming(txns, p) \cap D) \subseteq {txns[p].superseded_by} => linked[p] = txns[p]
             /\ ~((Naming(txns, p) \cap D) \subseteq {txns[p].superseded_by}) =>
                  /\ linked[p].superseded_by \in Naming(txns, p)
                  /\ linked[p].superseded_at = FirstStamp(txns[p].superseded_at, stamp)
             /\ p \notin D \/ Naming(txns, p) \subseteq {linked[p].superseded_by} => after[p] = linked[p]
             /\ ~(p \notin D \/ Naming(txns, p) \subseteq {linked[p].superseded_by}) =>
                  /\ after[p].superseded_by \in Naming(txns, p)
                  /\ after[p].superseded_at = FirstStamp(linked[p].superseded_at, stamp)
  <2>1. /\ Offered(ForwardLinks(new), txns[p], p) = {} => linked[p] = txns[p]
        /\ Offered(ForwardLinks(new), txns[p], p) # {} =>
             /\ linked[p].superseded_by \in Offered(ForwardLinks(new), txns[p], p)
             /\ linked[p].superseded_at = FirstStamp(txns[p].superseded_at, stamp)
    BY <1>1, LinkedRows
  <2>2. /\ Offered(ReverseLinks(linked, new), linked[p], p) = {} => after[p] = linked[p]
        /\ Offered(ReverseLinks(linked, new), linked[p], p) # {} =>
             /\ after[p].superseded_by \in Offered(ReverseLinks(linked, new), linked[p], p)
             /\ after[p].superseded_at = FirstStamp(linked[p].superseded_at, stamp)
    BY <1>1, <1>2, LinkedRows
  <2> QED
    BY <1>4, <2>1, <2>2
<1>6. ASSUME NEW p \in DOMAIN txns
      PROVE  /\ Naming(txns, p) \subseteq {txns[p].superseded_by} => after[p] = txns[p]
             /\ Linked(txns[p]) =>
                  /\ Linked(after[p])
                  /\ txns[p].superseded_at # 0 => after[p].superseded_at = txns[p].superseded_at
                  /\ \/ after[p].superseded_by \in Naming(txns, p)
                     \/ /\ after[p] = txns[p]
                        /\ p \in D => Naming(txns, p) = {}
                        /\ Naming(txns, p) \cap D \subseteq {txns[p].superseded_by}
  <2>1. Naming(txns, p) \subseteq DOMAIN txns /\ NULL \notin Naming(txns, p)
    BY <1>3 DEF Naming
  <2>2. /\ txns[p].superseded_at \in Nat /\ linked[p].superseded_at \in Nat
        /\ \A old \in Nat : FirstStamp(old, stamp) # 0 /\ (old # 0 => FirstStamp(old, stamp) = old)
    BY <1>3, FirstStampIs DEF Row
  <2> QED
    BY <1>5, <2>1, <2>2 DEF Linked
<1> QED
  BY <1>2, <1>6

-----------------------------------------------------------------------------
(* The inductive invariant *)

ItemRow == [status : {"active", "error", "removed"}, cursor : Nat \cup {NULL}, error : BOOLEAN]

Typed ==
  /\ now \in Nat
  /\ db \in [item : ItemRow, accounts : Tables(AccountIds, AccountRow), txns : Tables(TxnIds, Row)]
  /\ Position(db.item.cursor) \in 0..Len(feed)
  /\ \A t \in DOMAIN db.txns : Linked(db.txns[t])

IInv == FeedOK /\ Typed /\ LedgerFollowsFeed /\ PendingLinksExact /\ MissingMatchesListing

(* What a batch of the events from+1..to makes of the rows. *)
LinkOf(txns, t) == IF t \in DOMAIN txns THEN txns[t].superseded_by ELSE NULL

Follows(old, new, from, to, stamp) ==
  LET D == Ids(Upserts(from, to))
      removed == Ids(Removals(from, to))
  IN  /\ new \in Tables(TxnIds, Row) /\ DOMAIN new = DOMAIN old \cup D
      /\ \A t \in D : new[t].raw = LatestRaw(t, to)
      /\ \A t \in DOMAIN old :
           /\ t \notin D => new[t].raw = old[t].raw
           /\ new[t].first_seen_at = old[t].first_seen_at
           /\ new[t].removed_at = IF t \in removed THEN FirstStamp(old[t].removed_at, stamp)
                                  ELSE old[t].removed_at
           /\ old[t].superseded_at # 0 => new[t].superseded_at = old[t].superseded_at
           /\ Naming(new, t) \subseteq {old[t].superseded_by} =>
                new[t].superseded_by = old[t].superseded_by /\ new[t].superseded_at = old[t].superseded_at
      /\ \A t \in D \ DOMAIN old : new[t].removed_at # 0 <=> t \in removed
      /\ \A p \in DOMAIN new :
           /\ Linked(new[p])
           /\ \/ new[p].superseded_by \in Naming(new, p)
              \/ /\ new[p].superseded_by = LinkOf(old, p)
                 /\ p \in D => Naming(new, p) = {}
                 /\ Naming(new, p) \cap D \subseteq {LinkOf(old, p)}

LEMMA BatchApplied ==
  ASSUME FeedOK, Typed, NEW cuts \in SUBSET (1..Len(feed)), NEW listed \in SUBSET AccountIds,
         NEW from \in 0..Len(feed), NEW to \in from..Len(feed), NEW stamp \in Nat \ {0},
         NEW after \in ApplySyncBatch(db, Batch(from, to, cuts, listed), stamp)
  PROVE  /\ after = [item |-> [status |-> "active", cursor |-> to, error |-> FALSE],
                     accounts |-> ApplyAccounts(db.accounts, listed, stamp), txns |-> after.txns]
         /\ Follows(db.txns, after.txns, from, to, stamp)
<1> DEFINE D == Ids(Upserts(from, to))
           removed == Ids(Removals(from, to))
           new == DedupeTransactions(Batch(from, to, cuts, listed).upserts)
           rows == db.txns
           mid == SoftDeleteTransactions(UpsertTransactions(rows, new, stamp), removed, stamp)
           txns == after.txns
<1>1. /\ DOMAIN new = D /\ \A t \in D : new[t] = LatestRaw(t, to)
      /\ Batch(from, to, cuts, listed).accounts = listed
      /\ Batch(from, to, cuts, listed).next_cursor = to
      /\ Batch(from, to, cuts, listed).removed = removed
  BY BatchIs
<1>2. /\ after = [item |-> [status |-> "active", cursor |-> to, error |-> FALSE],
                  accounts |-> ApplyAccounts(db.accounts, listed, stamp), txns |-> txns]
      /\ txns \in ApplyTransactions(rows, new, removed, stamp)
  BY <1>1 DEF ApplySyncBatch
<1>3. D \in SUBSET TxnIds /\ \A t \in D : LatestRaw(t, to) \in Payload
  <2> SUFFICES ASSUME NEW i \in Upserts(from, to)
               PROVE  feed[i].id \in TxnIds /\ LatestRaw(feed[i].id, to) \in Payload
    BY DEF Ids
  <2>1. i \in UpsertsOf(feed[i].id, to) /\ i \in 1..Len(feed) /\ to \in Nat
    BY DEF Upserts, UpsertsOf, FeedOK
  <2>2. PICK m \in 1..to : feed[m].kind # "removed" /\ LatestRaw(feed[i].id, to) = feed[m].raw
    BY <2>1, LatestUpsert
  <2>3. feed[i] \in Published /\ feed[m] \in Published
    BY <2>1, <2>2 DEF FeedOK
  <2> QED
    BY <2>2, <2>3 DEF Published
<1> HIDE DEF D, removed, new
<1>4. new \in [D -> Payload]
  <2>1. new = [t \in D |-> new[t]]
    BY <1>1 DEF DedupeTransactions, new
  <2> QED
    BY <2>1, <1>1, <1>3
<1>5. rows \in Tables(TxnIds, Row)
  BY DEF Typed
<1> HIDE DEF rows
<1>6. RowsUpserted(rows, D, new, removed, stamp, mid)
  BY <1>3, <1>4, <1>5, UpsertedRows
<1>7. txns \in LinkPendingTransactions(mid, new, stamp)
  BY <1>2 DEF ApplyTransactions
<1> HIDE DEF mid, txns
<1>8. /\ txns \in Tables(TxnIds, Row) /\ DOMAIN txns = DOMAIN mid
      /\ \A p \in DOMAIN mid :
           /\ txns[p].raw = mid[p].raw
           /\ txns[p].first_seen_at = mid[p].first_seen_at
           /\ txns[p].removed_at = mid[p].removed_at
           /\ Naming(mid, p) \subseteq {mid[p].superseded_by} => txns[p] = mid[p]
           /\ Linked(mid[p]) =>
                /\ Linked(txns[p])
                /\ mid[p].superseded_at # 0 => txns[p].superseded_at = mid[p].superseded_at
                /\ \/ txns[p].superseded_by \in Naming(mid, p)
                   \/ /\ txns[p] = mid[p]
                      /\ p \in D => Naming(mid, p) = {}
                      /\ Naming(mid, p) \cap D \subseteq {mid[p].superseded_by}
  <2>1. D \in SUBSET DOMAIN mid
    BY <1>6 DEF RowsUpserted
  <2>2. mid \in Tables(TxnIds, Row) /\ \A t \in D : mid[t].raw = new[t]
    BY <1>6 DEF RowsUpserted
  <2> QED
    BY <2>1, <2>2, <1>4, <1>7, LinkedBothWays
<1>9. \A p \in DOMAIN mid : Linked(mid[p]) /\ mid[p].superseded_by = LinkOf(rows, p)
  BY <1>6 DEF RowsUpserted, Typed, Linked, LinkOf, rows
<1>10. \A p \in DOMAIN mid : Naming(mid, p) = Naming(txns, p)
  BY <1>8 DEF Naming
<1>11. Follows(rows, txns, from, to, stamp)
  <2>1. ASSUME NEW t \in DOMAIN rows
        PROVE  /\ t \notin D => txns[t].raw = rows[t].raw
               /\ txns[t].first_seen_at = rows[t].first_seen_at
               /\ txns[t].removed_at = IF t \in removed THEN FirstStamp(rows[t].removed_at, stamp)
                                       ELSE rows[t].removed_at
               /\ rows[t].superseded_at # 0 => txns[t].superseded_at = rows[t].superseded_at
               /\ Naming(txns, t) \subseteq {rows[t].superseded_by} =>
                    /\ txns[t].superseded_by = rows[t].superseded_by
                    /\ txns[t].superseded_at = rows[t].superseded_at
    BY <1>6, <1>8, <1>9, <1>10 DEF RowsUpserted
  <2>2. ASSUME NEW p \in DOMAIN txns
        PROVE  /\ Linked(txns[p])
               /\ \/ txns[p].superseded_by \in Naming(txns, p)
                  \/ /\ txns[p].superseded_by = LinkOf(rows, p)
                     /\ p \in D => Naming(txns, p) = {}
                     /\ Naming(txns, p) \cap D \subseteq {LinkOf(rows, p)}
    BY <1>8, <1>9, <1>10
  <2>3. \A t \in D \ DOMAIN rows : txns[t].removed_at # 0 <=> t \in removed
    BY <1>6, <1>8 DEF RowsUpserted
  <2>4. /\ txns \in Tables(TxnIds, Row) /\ DOMAIN txns = DOMAIN rows \cup D
        /\ \A t \in D : txns[t].raw = LatestRaw(t, to)
    BY <1>1, <1>6, <1>8 DEF RowsUpserted
  <2> QED
    BY <2>1, <2>2, <2>3, <2>4 DEF Follows, D, removed
<1> QED
  BY <1>2, <1>11 DEF txns, rows

LEMMA NullIsNoNumber == NULL \notin Nat /\ NULL \notin TxnIds
BY NullAssumption, LedgerAssumption

LEMMA PositionOf ==
  ASSUME NEW cursor \in Nat \cup {NULL}
  PROVE  /\ Position(cursor) \in Nat
         /\ cursor \in Nat => Position(cursor) = cursor
BY NullIsNoNumber DEF Position

(* Between two cursors: which transactions are there, and which are removed. *)
LEMMA Between ==
  ASSUME FeedOK, NEW from \in 0..Len(feed), NEW to \in from..Len(feed), NEW t
  PROVE  /\ from \in Nat /\ to \in Nat /\ from <= to
         /\ UpsertsOf(t, to) # {} <=> UpsertsOf(t, from) # {} \/ t \in Ids(Upserts(from, to))
         /\ t \notin Ids(Upserts(from, to)) => LatestRaw(t, to) = LatestRaw(t, from)
         /\ RemovedIn(t, to) <=> RemovedIn(t, from) \/ t \in Ids(Removals(from, to))
         /\ RemovedIn(t, from) => UpsertsOf(t, from) # {}
<1>1. from \in Nat /\ to \in Nat /\ from <= to
  BY DEF FeedOK
<1>2. t \in Ids(Upserts(from, to)) <=> \E i \in (from + 1)..to : feed[i].id = t /\ feed[i].kind # "removed"
  BY DEF Ids, Upserts
<1>3. t \in Ids(Removals(from, to)) <=> \E i \in (from + 1)..to : feed[i].id = t /\ feed[i].kind = "removed"
  BY DEF Ids, Removals
<1>4. \A i : i \in 1..to <=> i \in 1..from \/ i \in (from + 1)..to
  BY <1>1
<1>5. UpsertsOf(t, to) # {} <=> UpsertsOf(t, from) # {} \/ t \in Ids(Upserts(from, to))
  BY <1>2, <1>4 DEF UpsertsOf
<1>6. t \notin Ids(Upserts(from, to)) => LatestRaw(t, to) = LatestRaw(t, from)
  BY <1>1, <1>2, NothingLater
<1>7. RemovedIn(t, to) <=> RemovedIn(t, from) \/ t \in Ids(Removals(from, to))
  BY <1>3, <1>4 DEF RemovedIn
<1>8. ASSUME RemovedIn(t, from)
      PROVE  UpsertsOf(t, from) # {}
  <2>1. PICK j \in 1..from : feed[j].id = t /\ feed[j].kind = "removed"
    BY <1>8 DEF RemovedIn
  <2>2. Before(j) # {}
    BY <1>1, <2>1 DEF FeedOK, FeedRules, Rule
  <2>3. Before(j) \subseteq UpsertsOf(t, from)
    BY <1>1, <2>1 DEF Before, UpsertsOf
  <2> QED
    BY <2>2, <2>3
<1> QED
  BY <1>1, <1>5, <1>6, <1>7, <1>8

LEMMA LedgerFollows ==
  ASSUME IInv, NEW to \in Position(db.item.cursor)..Len(feed), NEW stamp \in Nat \ {0}, NEW new,
         Follows(db.txns, new, Position(db.item.cursor), to, stamp)
  PROVE  /\ DOMAIN new = {t \in TxnIds : UpsertsOf(t, to) # {}}
         /\ \A t \in DOMAIN new : /\ new[t].raw = LatestRaw(t, to)
                                  /\ new[t].removed_at # 0 <=> RemovedIn(t, to)
<1> DEFINE from == Position(db.item.cursor)
           D == Ids(Upserts(from, to))
           removed == Ids(Removals(from, to))
           old == db.txns
<1>1. FeedOK /\ from \in 0..Len(feed)
  BY DEF IInv, Typed
<1>2. \A t : /\ UpsertsOf(t, to) # {} <=> UpsertsOf(t, from) # {} \/ t \in D
             /\ t \notin D => LatestRaw(t, to) = LatestRaw(t, from)
             /\ RemovedIn(t, to) <=> RemovedIn(t, from) \/ t \in removed
             /\ RemovedIn(t, from) => UpsertsOf(t, from) # {}
  BY <1>1, Between
<1>3. /\ DOMAIN old = {t \in TxnIds : UpsertsOf(t, from) # {}}
      /\ \A t \in DOMAIN old : /\ old[t].raw = LatestRaw(t, from)
                               /\ old[t].removed_at # 0 <=> RemovedIn(t, from)
                               /\ old[t].removed_at \in Nat
  <2>1. \A t \in DOMAIN old : old[t] \in Row
    BY TablesAre DEF IInv, Typed
  <2> QED
    BY <2>1 DEF IInv, LedgerFollowsFeed, Row
<1>4. DOMAIN new = DOMAIN old \cup D /\ DOMAIN new \subseteq TxnIds
  BY TablesAre DEF Follows
<1>5. DOMAIN new = {t \in TxnIds : UpsertsOf(t, to) # {}}
  BY <1>2, <1>3, <1>4
<1>6. /\ \A t \in D : new[t].raw = LatestRaw(t, to)
      /\ \A t \in DOMAIN old :
           /\ t \notin D => new[t].raw = old[t].raw
           /\ new[t].removed_at = IF t \in removed THEN FirstStamp(old[t].removed_at, stamp)
                                  ELSE old[t].removed_at
      /\ \A t \in D \ DOMAIN old : new[t].removed_at # 0 <=> t \in removed
  BY DEF Follows
<1> HIDE DEF from, D, removed, old
<1>0. \A t \in DOMAIN old : /\ old[t].raw = LatestRaw(t, from)
                            /\ old[t].removed_at # 0 <=> RemovedIn(t, from)
                            /\ old[t].removed_at \in Nat
  BY <1>3
<1>7. ASSUME NEW t \in DOMAIN new
      PROVE  new[t].raw = LatestRaw(t, to) /\ (new[t].removed_at # 0 <=> RemovedIn(t, to))
  <2>1. CASE t \in DOMAIN old
    <3>1. /\ t \in D => new[t].raw = LatestRaw(t, to)
          /\ t \notin D => new[t].raw = old[t].raw
          /\ new[t].removed_at = IF t \in removed THEN FirstStamp(old[t].removed_at, stamp)
                                 ELSE old[t].removed_at
      BY <2>1, <1>6
    <3>2. new[t].raw = LatestRaw(t, to)
      BY <2>1, <3>1, <1>2, <1>0
    <3>3. old[t].removed_at \in Nat /\ (old[t].removed_at # 0 <=> RemovedIn(t, from))
      BY <2>1, <1>0
    <3>4. FirstStamp(old[t].removed_at, stamp) # 0
      BY <3>3, FirstStampIs
    <3>5. RemovedIn(t, to) <=> RemovedIn(t, from) \/ t \in removed
      BY <1>2
    <3> QED
      BY <3>1, <3>2, <3>3, <3>4, <3>5
  <2>2. CASE t \notin DOMAIN old
    <3>1. t \in D /\ new[t].raw = LatestRaw(t, to) /\ (new[t].removed_at # 0 <=> t \in removed)
      BY <2>2, <1>4, <1>6
    <3>2. UpsertsOf(t, from) = {}
      BY <2>2, <1>3, <1>4
    <3> QED
      BY <3>1, <3>2, <1>2
  <2> QED
    BY <2>1, <2>2
<1> QED
  BY <1>5, <1>7

(* A row that names a pending transaction goes on naming it. *)
LEMMA NamingGrows ==
  ASSUME IInv, NEW to \in Position(db.item.cursor)..Len(feed), NEW stamp \in Nat \ {0}, NEW new,
         Follows(db.txns, new, Position(db.item.cursor), to, stamp), NEW p \in TxnIds
  PROVE  Naming(db.txns, p) \subseteq Naming(new, p)
<1> DEFINE from == Position(db.item.cursor)
           D == Ids(Upserts(from, to))
           old == db.txns
<1>1. FeedOK /\ from \in 0..Len(feed) /\ p # NULL
  BY NullIsNoNumber DEF IInv, Typed
<1>2. \A q \in DOMAIN old : /\ q \in TxnIds /\ UpsertsOf(q, from) # {}
                            /\ old[q].raw = LatestRaw(q, from)
  BY DEF IInv, LedgerFollowsFeed
<1>3. /\ DOMAIN new = DOMAIN old \cup D
      /\ \A q \in D : new[q].raw = LatestRaw(q, to)
      /\ \A q \in DOMAIN old \ D : new[q].raw = old[q].raw
  BY DEF Follows
<1> HIDE DEF from, D, old
<1>4. ASSUME NEW q \in DOMAIN old, old[q].raw.pend = p
      PROVE  q \in DOMAIN new /\ new[q].raw.pend = p
  <2>1. LatestRaw(q, to).pend = p
    <3>1. LatestRaw(q, from).pend # NULL /\ UpsertsOf(q, from) # {}
      BY <1>1, <1>2, <1>4
    <3>2. to \in from..Len(feed)
      BY DEF from
    <3>3. LatestRaw(q, to).pend = LatestRaw(q, from).pend
      BY <1>1, <3>1, <3>2, PendingStaysNamed
    <3> QED
      BY <3>3, <1>2, <1>4
  <2> QED
    BY <2>1, <1>3, <1>4
<1> QED
  BY <1>4 DEF Naming, old

(* The links of the batch are those of PendingLinksExact. *)
LEMMA LinksFollow ==
  ASSUME IInv, NEW to \in Position(db.item.cursor)..Len(feed), NEW stamp \in Nat \ {0}, NEW new,
         Follows(db.txns, new, Position(db.item.cursor), to, stamp), NEW p \in DOMAIN new
  PROVE  IF Naming(new, p) = {} THEN new[p].superseded_by = NULL
         ELSE new[p].superseded_by \in Naming(new, p) /\ new[p].superseded_at # 0
<1> DEFINE D == Ids(Upserts(Position(db.item.cursor), to))
           old == db.txns
<1>1. DOMAIN new \subseteq TxnIds
  BY TablesAre DEF Follows
<1>2. Naming(old, p) \subseteq Naming(new, p)
  BY <1>1, NamingGrows
<1>3. p \in DOMAIN old => IF Naming(old, p) = {} THEN old[p].superseded_by = NULL
                         ELSE old[p].superseded_by \in Naming(old, p)
  BY DEF IInv, PendingLinksExact, Naming
<1>4. /\ DOMAIN new = DOMAIN old \cup D
      /\ \A q \in DOMAIN old \ D : new[q].raw = old[q].raw
      /\ Linked(new[p])
      /\ \/ new[p].superseded_by \in Naming(new, p)
         \/ /\ new[p].superseded_by = LinkOf(old, p)
            /\ p \in D => Naming(new, p) = {}
            /\ Naming(new, p) \cap D \subseteq {LinkOf(old, p)}
  BY DEF Follows
<1> HIDE DEF D, old
<1>5. NULL \notin Naming(new, p)
  BY <1>1, NullIsNoNumber DEF Naming
<1>6. CASE Naming(new, p) = {}
  <2>1. new[p].superseded_by = LinkOf(old, p)
    BY <1>4, <1>6
  <2> QED
    BY <2>1, <1>2, <1>3, <1>6 DEF LinkOf
<1>7. CASE Naming(new, p) # {}
  <2>1. SUFFICES new[p].superseded_by \in Naming(new, p)
    BY <1>4, <1>5, <1>7 DEF Linked
  <2>2. CASE new[p].superseded_by \notin Naming(new, p)
    <3>1. PICK q \in Naming(new, p) : TRUE
      BY <1>7
    <3>2. /\ p \notin D /\ p \in DOMAIN old
          /\ new[p].superseded_by = old[p].superseded_by
          /\ Naming(new, p) \cap D \subseteq {old[p].superseded_by}
      BY <1>4, <1>7, <2>2 DEF LinkOf
    <3>3. q \notin D
      BY <2>2, <3>1, <3>2
    <3>4. q \in Naming(old, p)
      BY <1>4, <3>1, <3>3 DEF Naming
    <3> QED
      BY <1>2, <1>3, <2>2, <3>2, <3>4
  <2> QED
    BY <2>2
<1> QED
  BY <1>6, <1>7

-----------------------------------------------------------------------------
(* Accounts *)

(* Steps 1 and 2: who is stored, who is flagged, and which flags stay. *)
AccountsFollow(old, new, listed) ==
  /\ new \in Tables(AccountIds, AccountRow) /\ DOMAIN new = DOMAIN old \cup listed
  /\ listed = {} => new = old
  /\ listed # {} => \A a \in DOMAIN new : new[a].missing_since # 0 <=> a \notin listed
  /\ \A a \in DOMAIN old :
       old[a].missing_since # 0 /\ new[a].missing_since # 0 => new[a].missing_since = old[a].missing_since

LEMMA AccountsApplied ==
  ASSUME NEW accounts \in Tables(AccountIds, AccountRow), NEW listed \in SUBSET AccountIds,
         NEW stamp \in Nat \ {0}
  PROVE  AccountsFollow(accounts, ApplyAccounts(accounts, listed, stamp), listed)
<1>0. PICK after : after = ApplyAccounts(accounts, listed, stamp)
  OBVIOUS
<1> DEFINE upserted == UpsertAccounts(accounts, listed, stamp)
<1>1. DOMAIN accounts \subseteq AccountIds /\ accounts \in [DOMAIN accounts -> AccountRow]
  BY TablesAre
<1>2. /\ DOMAIN upserted = DOMAIN accounts \cup listed
      /\ \A a \in DOMAIN accounts \ listed : upserted[a] = accounts[a]
      /\ \A a \in DOMAIN accounts \cap listed : upserted[a] = [accounts[a] EXCEPT !.missing_since = 0]
      /\ \A a \in listed \ DOMAIN accounts : upserted[a] = [first_seen_at |-> stamp, missing_since |-> 0]
      /\ upserted = [a \in DOMAIN upserted |-> upserted[a]]
  BY DEF UpsertAccounts
<1> HIDE DEF upserted
<1>3. \A a \in DOMAIN upserted : /\ upserted[a] \in AccountRow
                                 /\ a \in listed => upserted[a].missing_since = 0
  BY <1>1, <1>2 DEF AccountRow
<1>4. CASE listed = {}
  <2>1. after = upserted
    BY <1>0, <1>4 DEF ApplyAccounts, upserted
  <2>2. upserted = accounts
    BY <1>1, <1>2, <1>4
  <2> QED
    BY <1>0, <1>4, <2>1, <2>2 DEF AccountsFollow
<1>5. CASE listed # {}
  <2>1. after = MarkMissingAccounts(upserted, listed, stamp)
    BY <1>0, <1>5 DEF ApplyAccounts, upserted
  <2>2. /\ DOMAIN after = DOMAIN upserted /\ after = [a \in DOMAIN upserted |-> after[a]]
        /\ \A a \in DOMAIN upserted :
             after[a] = IF a \in listed THEN upserted[a]
                        ELSE [upserted[a] EXCEPT !.missing_since = FirstStamp(upserted[a].missing_since, stamp)]
    BY <2>1 DEF MarkMissingAccounts
  <2>3. ASSUME NEW a \in DOMAIN upserted
        PROVE  /\ after[a] \in AccountRow
               /\ after[a].missing_since = IF a \in listed THEN 0
                                           ELSE FirstStamp(upserted[a].missing_since, stamp)
    <3>1. upserted[a] \in AccountRow /\ FirstStamp(upserted[a].missing_since, stamp) \in Nat
      BY <1>3, FirstStampIs DEF AccountRow
    <3> QED
      BY <3>1, <1>3, <2>2 DEF AccountRow
  <2>4. after \in Tables(AccountIds, AccountRow)
    <3>1. after \in [DOMAIN upserted -> AccountRow]
      BY <2>2, <2>3
    <3>2. DOMAIN upserted \in SUBSET AccountIds
      BY <1>1, <1>2
    <3> QED
      BY <3>1, <3>2, TablesAre
  <2>5. \A a \in DOMAIN upserted : /\ upserted[a].missing_since \in Nat
                                   /\ FirstStamp(upserted[a].missing_since, stamp) # 0
                                   /\ upserted[a].missing_since # 0 =>
                                        FirstStamp(upserted[a].missing_since, stamp) = upserted[a].missing_since
    BY <1>3, FirstStampIs DEF AccountRow
  <2>6. \A a \in DOMAIN after : after[a].missing_since # 0 <=> a \notin listed
    BY <2>2, <2>3, <2>5
  <2>7. \A a \in DOMAIN accounts :
          accounts[a].missing_since # 0 /\ after[a].missing_since # 0
            => after[a].missing_since = accounts[a].missing_since
    BY <1>2, <2>2, <2>3, <2>5
  <2> QED
    BY <1>0, <1>2, <1>5, <2>2, <2>4, <2>6, <2>7 DEF AccountsFollow
<1> QED
  BY <1>4, <1>5

-----------------------------------------------------------------------------
(* The steps *)

LEMMA InitKeeps ==
  ASSUME Init
  PROVE  IInv
<1>1. FeedOK
  BY DEF Init, FeedOK, FeedRules
<1>2. Position(db.item.cursor) = 0 /\ Len(feed) = 0
  BY DEF Init, Position
<1>3. db.txns = <<>> /\ db.accounts = <<>> /\ DOMAIN db.txns = {} /\ DOMAIN db.accounts = {}
  BY DEF Init
<1>4. Typed
  <2>1. <<>> \in Tables(TxnIds, Row) /\ <<>> \in Tables(AccountIds, AccountRow)
    <3>1. <<>> \in [{} -> Row] /\ <<>> \in [{} -> AccountRow]
      OBVIOUS
    <3> QED
      BY <3>1, TablesAre
  <2> QED
    BY <1>2, <1>3, <2>1 DEF Init, Typed, ItemRow
<1>5. LedgerFollowsFeed
  BY <1>2, <1>3 DEF LedgerFollowsFeed, UpsertsOf
<1>6. PendingLinksExact /\ MissingMatchesListing
  BY <1>3 DEF Init, PendingLinksExact, MissingMatchesListing
<1> QED
  BY <1>1, <1>4, <1>5, <1>6 DEF IInv

(* Plaid publishes: what is up to the cursor does not change. *)
LEMMA PublishKeeps ==
  ASSUME IInv, NEW t \in TxnIds, PublishUpsert(t) \/ PublishRemoval(t)
  PROVE  IInv'
<1>1. UNCHANGED <<db, now, listing>>
  BY DEF PublishUpsert, PublishRemoval
<1>2. FeedOK' /\ \E e \in Published : feed' = Append(feed, e)
  BY PublishKeepsFeed DEF IInv
<1>3. PICK e \in Published : feed' = Append(feed, e)
  BY <1>2
<1>4. PICK n \in 0..Len(feed) : Position(db.item.cursor) = n /\ Position(db'.item.cursor) = n
  BY <1>1 DEF IInv, Typed
<1>5. /\ Len(feed') = Len(feed) + 1 /\ Len(feed) \in Nat
      /\ \A u : /\ UpsertsOf(u, n)' = UpsertsOf(u, n)
                /\ RemovedIn(u, n)' <=> RemovedIn(u, n)
                /\ UpsertsOf(u, n) # {} => LatestRaw(u, n)' = LatestRaw(u, n)
  <2>1. feed \in Seq(Published)
    BY DEF IInv, FeedOK
  <2> QED
    BY <1>3, <1>4, <2>1, Appended
<1>6. Typed'
  <2>1. n \in 0..Len(feed')
    BY <1>4, <1>5
  <2> QED
    BY <1>1, <1>4, <2>1 DEF IInv, Typed
<1>7. LedgerFollowsFeed'
  <2>1. /\ DOMAIN db.txns = {u \in TxnIds : UpsertsOf(u, n) # {}}
        /\ \A u \in DOMAIN db.txns : /\ db.txns[u].raw = LatestRaw(u, n)
                                     /\ db.txns[u].removed_at # 0 <=> RemovedIn(u, n)
    BY <1>4 DEF IInv, LedgerFollowsFeed
  <2>2. {u \in TxnIds : UpsertsOf(u, n)' # {}} = {u \in TxnIds : UpsertsOf(u, n) # {}}
    BY <1>5
  <2>3. \A u \in DOMAIN db.txns : UpsertsOf(u, n) # {}
    BY <2>1
  <2>4. \A u \in DOMAIN db.txns : /\ db.txns[u].raw = LatestRaw(u, n)'
                                  /\ db.txns[u].removed_at # 0 <=> RemovedIn(u, n)'
    BY <2>1, <2>3, <1>5
  <2>5. db' = db
    BY <1>1
  <2> QED
    BY <2>1, <2>2, <2>4, <2>5, <1>4 DEF LedgerFollowsFeed
<1>8. PendingLinksExact' /\ MissingMatchesListing'
  BY <1>1 DEF IInv, PendingLinksExact, MissingMatchesListing
<1> QED
  BY <1>2, <1>6, <1>7, <1>8 DEF IInv

LEMMA SameFeed ==
  ASSUME feed' = feed
  PROVE  /\ FeedOK' <=> FeedOK
         /\ \A t, n : /\ UpsertsOf(t, n)' = UpsertsOf(t, n)
                      /\ RemovedIn(t, n)' <=> RemovedIn(t, n)
                      /\ LatestRaw(t, n)' = LatestRaw(t, n)
BY DEF FeedOK, FeedRules, Rule, Before, UpsertsOf, RemovedIn, LatestRaw

(* Steps that touch only the item row, and not its cursor. *)
LEMMA ItemKeeps ==
  ASSUME IInv, UNCHANGED <<feed, now, listing>>, NEW row \in ItemRow, row.cursor = db.item.cursor,
         db' = [db EXCEPT !.item = row]
  PROVE  IInv'
<1>1. /\ db'.item = row /\ db'.txns = db.txns /\ db'.accounts = db.accounts
      /\ db' \in [item : ItemRow, accounts : Tables(AccountIds, AccountRow), txns : Tables(TxnIds, Row)]
  BY DEF IInv, Typed
<1>2. Typed'
  BY <1>1 DEF IInv, Typed
<1>3. LedgerFollowsFeed'
  BY <1>1, SameFeed DEF IInv, LedgerFollowsFeed
<1>4. FeedOK' /\ PendingLinksExact' /\ MissingMatchesListing'
  BY <1>1, SameFeed DEF IInv, PendingLinksExact, MissingMatchesListing
<1> QED
  BY <1>2, <1>3, <1>4 DEF IInv

LEMMA StatusKeeps ==
  ASSUME IInv, RefuseBatch \/ Relink \/ MarkItemRemoved
  PROVE  IInv' /\ db'.txns = db.txns /\ db'.accounts = db.accounts
<1>1. /\ UNCHANGED <<feed, now, listing>>
      /\ \/ db' = [db EXCEPT !.item = [db.item EXCEPT !.status = "error", !.error = TRUE]]
         \/ db' = [db EXCEPT !.item = [db.item EXCEPT !.status = "active", !.error = FALSE]]
         \/ db' = [db EXCEPT !.item = [db.item EXCEPT !.status = "removed"]]
  BY DEF RefuseBatch, Relink, MarkItemRemoved
<1>2. PICK row \in ItemRow : row.cursor = db.item.cursor /\ db' = [db EXCEPT !.item = row]
  <2>1. db.item \in ItemRow
    BY DEF IInv, Typed
  <2> QED
    BY <1>1, <2>1 DEF ItemRow
<1>3. IInv'
  BY <1>1, <1>2, ItemKeeps
<1>4. db'.txns = db.txns /\ db'.accounts = db.accounts
  BY <1>2 DEF IInv, Typed
<1> QED
  BY <1>3, <1>4

(* What is drained is cut into some pages. *)
LEMMA DrainedIs ==
  ASSUME NEW from \in Nat, NEW n \in Nat, NEW to \in from..n, NEW batch \in Drained(from, to)
  PROVE  \E cuts \in SUBSET (1..n) : batch = Batch(from, to, cuts, {})
<1>1. PICK cuts \in SUBSET ((from + 1)..(to - 1)) : batch = Batch(from, to, cuts, {})
  BY DEF Drained
<1>2. (from + 1)..(to - 1) \subseteq 1..n
  OBVIOUS
<1> QED
  BY <1>1, <1>2

(* What a commit is: some events drained, with some account list. *)
LEMMA Committed ==
  ASSUME IInv, CommitBatch
  PROVE  \E to \in Position(db.item.cursor)..Len(feed), listed \in SUBSET AccountIds :
           /\ db' = [item |-> [status |-> "active", cursor |-> to, error |-> FALSE],
                     accounts |-> ApplyAccounts(db.accounts, listed, now + 1), txns |-> db'.txns]
           /\ Follows(db.txns, db'.txns, Position(db.item.cursor), to, now + 1)
           /\ listing' = IF listed = {} THEN listing ELSE listed
           /\ now' = now + 1 /\ feed' = feed
<1> DEFINE from == Position(db.item.cursor)
<1>1. PICK batch \in Batches :
        /\ db' \in ApplySyncBatch(db, batch, now + 1)
        /\ listing' = IF batch.accounts = {} THEN listing ELSE batch.accounts
  BY DEF CommitBatch
<1>2. PICK to \in from..Len(feed), cuts \in SUBSET (1..Len(feed)), listed \in SUBSET AccountIds :
        batch = Batch(from, to, cuts, listed)
  <2> DEFINE drained == UNION {Drained(from, to) : to \in from..Len(feed)}
  <2>1. Batches = {[b EXCEPT !.accounts = listed] : b \in drained, listed \in SUBSET AccountIds}
    BY DEF Batches
  <2>2. PICK b \in drained, listed \in SUBSET AccountIds : batch = [b EXCEPT !.accounts = listed]
    <3> HIDE DEF drained
    <3> QED
      BY <1>1, <2>1
  <2>3. PICK to \in from..Len(feed), cuts \in SUBSET (1..Len(feed)) : b = Batch(from, to, cuts, {})
    <3>1. PICK to \in from..Len(feed) : b \in Drained(from, to)
      OBVIOUS
    <3>2. from \in Nat /\ Len(feed) \in Nat
      BY DEF IInv, Typed, FeedOK
    <3> QED
      BY <3>1, <3>2, DrainedIs
  <2>4. batch = Batch(from, to, cuts, listed)
    <3> DEFINE upserts == Batch(from, to, cuts, {}).upserts
               removed == Batch(from, to, cuts, {}).removed
               Rec(l) == [accounts |-> l, upserts |-> upserts, removed |-> removed, next_cursor |-> to]
    <3>1. \A l : Batch(from, to, cuts, l) = Rec(l)
      BY DEF Batch
    <3>2. b = Rec({})
      <4> HIDE DEF Rec
      <4> QED
        BY <2>3, <3>1
    <3> HIDE DEF upserts, removed
    <3>3. [b EXCEPT !.accounts = listed] = Rec(listed)
      BY <3>2
    <3> HIDE DEF Rec
    <3> QED
      BY <2>2, <3>1, <3>3
  <2> HIDE DEF from
  <2> QED
    BY <2>4
<1>3. FeedOK /\ Typed /\ from \in 0..Len(feed) /\ now + 1 \in Nat \ {0}
  BY DEF IInv, Typed
<1>4. batch.accounts = listed
  BY <1>2 DEF Batch
<1> HIDE DEF from
<1>5. /\ db' = [item |-> [status |-> "active", cursor |-> to, error |-> FALSE],
                accounts |-> ApplyAccounts(db.accounts, listed, now + 1), txns |-> db'.txns]
      /\ Follows(db.txns, db'.txns, from, to, now + 1)
  BY <1>1, <1>2, <1>3, BatchApplied
<1> QED
  BY <1>1, <1>4, <1>5 DEF CommitBatch, from

LEMMA CommitKeeps ==
  ASSUME IInv, CommitBatch
  PROVE  IInv'
<1>1. PICK to \in Position(db.item.cursor)..Len(feed), listed \in SUBSET AccountIds :
        /\ db' = [item |-> [status |-> "active", cursor |-> to, error |-> FALSE],
                  accounts |-> ApplyAccounts(db.accounts, listed, now + 1), txns |-> db'.txns]
        /\ Follows(db.txns, db'.txns, Position(db.item.cursor), to, now + 1)
        /\ listing' = IF listed = {} THEN listing ELSE listed
        /\ now' = now + 1 /\ feed' = feed
  BY Committed
<1>2. /\ now + 1 \in Nat \ {0} /\ db.accounts \in Tables(AccountIds, AccountRow)
      /\ Position(db.item.cursor) \in 0..Len(feed) /\ Len(feed) \in Nat
  BY DEF IInv, Typed, FeedOK
<1>0. PICK accounts : accounts = ApplyAccounts(db.accounts, listed, now + 1)
  OBVIOUS
<1> DEFINE txns == db'.txns
<1>3. /\ db'.item = [status |-> "active", cursor |-> to, error |-> FALSE]
      /\ db'.accounts = accounts /\ Position(db'.item.cursor) = to /\ to \in 0..Len(feed) /\ to \in Nat
  <2>1. to \in Nat /\ to \in 0..Len(feed)
    BY <1>2
  <2>2. db'.item = [status |-> "active", cursor |-> to, error |-> FALSE] /\ db'.accounts = accounts
    BY <1>0, <1>1
  <2>3. Position(db'.item.cursor) = to
    BY <2>1, <2>2, PositionOf
  <2> QED
    BY <2>1, <2>2, <2>3
<1>4. /\ accounts \in Tables(AccountIds, AccountRow) /\ DOMAIN accounts = DOMAIN db.accounts \cup listed
      /\ listed = {} => accounts = db.accounts
      /\ listed # {} => \A a \in DOMAIN accounts : accounts[a].missing_since # 0 <=> a \notin listed
  <2>1. AccountsFollow(db.accounts, ApplyAccounts(db.accounts, listed, now + 1), listed)
    BY <1>2, AccountsApplied
  <2> QED
    BY <1>0, <2>1 DEF AccountsFollow
<1>5. /\ DOMAIN txns = {t \in TxnIds : UpsertsOf(t, to) # {}}
      /\ \A t \in DOMAIN txns : /\ txns[t].raw = LatestRaw(t, to)
                                /\ txns[t].removed_at # 0 <=> RemovedIn(t, to)
  BY <1>1, <1>2, LedgerFollows
<1>6. \A p \in DOMAIN txns : IF Naming(txns, p) = {} THEN txns[p].superseded_by = NULL
                            ELSE txns[p].superseded_by \in Naming(txns, p) /\ txns[p].superseded_at # 0
  BY <1>1, <1>2, LinksFollow
<1>7. txns \in Tables(TxnIds, Row) /\ \A t \in DOMAIN txns : Linked(txns[t])
  BY <1>1 DEF Follows
<1>8. Typed'
  <2>1. db' \in [item : ItemRow, accounts : Tables(AccountIds, AccountRow), txns : Tables(TxnIds, Row)]
    <3>1. db'.item \in ItemRow /\ db'.accounts \in Tables(AccountIds, AccountRow)
      BY <1>3, <1>4 DEF ItemRow
    <3>2. db' = [item |-> db'.item, accounts |-> db'.accounts, txns |-> db'.txns]
      BY <1>1, <1>3
    <3> QED
      BY <3>1, <3>2, <1>7
  <2> QED
    BY <1>1, <1>2, <1>3, <1>7, <2>1 DEF Typed
<1>9. LedgerFollowsFeed'
  BY <1>1, <1>3, <1>5, SameFeed DEF LedgerFollowsFeed
<1>10. PendingLinksExact'
  BY <1>6 DEF PendingLinksExact, Naming
<1>11. MissingMatchesListing'
  BY <1>1, <1>3, <1>4 DEF IInv, MissingMatchesListing
<1>12. FeedOK'
  BY <1>1, SameFeed DEF IInv
<1> QED
  BY <1>8, <1>9, <1>10, <1>11, <1>12 DEF IInv

LEMMA IInvKept ==
  ASSUME IInv, [Next]_vars
  PROVE  IInv'
<1>1. CASE UNCHANGED vars
  BY <1>1, SameFeed DEF vars, IInv, Typed, LedgerFollowsFeed, PendingLinksExact, MissingMatchesListing
<1>2. CASE \E t \in TxnIds : PublishUpsert(t) \/ PublishRemoval(t)
  BY <1>2, PublishKeeps
<1>3. CASE CommitBatch
  BY <1>3, CommitKeeps
<1>4. CASE RefuseBatch \/ Relink \/ MarkItemRemoved
  BY <1>4, StatusKeeps
<1> QED
  BY <1>1, <1>2, <1>3, <1>4 DEF Next

LEMMA Invariant == Spec => []IInv
<1>1. Init => IInv
  BY InitKeeps
<1>2. IInv /\ [Next]_vars => IInv'
  BY IInvKept
<1> QED
  BY <1>1, <1>2, PTL DEF Spec

-----------------------------------------------------------------------------
(* Theorems *)

(* However the history was cut, into batches and pages, and whichever batches *)
(* were refused, the stored rows are those of the events up to the cursor    *)
(* (ApplySyncBatch, steps 3, 4 and 6).                                       *)
THEOREM LedgerIsFeed == Spec => []LedgerFollowsFeed
BY Invariant, PTL DEF IInv

(* A pending row is linked exactly when a stored row names it, and to one    *)
(* that does, in whichever order they arrive (linkPendingTransactions).      *)
THEOREM LinksAreExact == Spec => []PendingLinksExact
BY Invariant, PTL DEF IInv

(* The missing accounts are those the last listing left out (upsertAccounts, *)
(* markMissingAccounts).                                                     *)
THEOREM MissingIsListing == Spec => []MissingMatchesListing
BY Invariant, PTL DEF IInv

RowsKeepStamps(old, new) ==
  \A t \in DOMAIN old :
    /\ t \in DOMAIN new
    /\ new[t].first_seen_at = old[t].first_seen_at
    /\ old[t].removed_at # 0 => new[t].removed_at = old[t].removed_at
    /\ old[t].superseded_at # 0 => /\ new[t].superseded_at = old[t].superseded_at
                                   /\ new[t].superseded_by # NULL

AccountsKeepStamps(old, new) ==
  \A a \in DOMAIN old :
    /\ a \in DOMAIN new
    /\ old[a].missing_since # 0 /\ new[a].missing_since # 0 => new[a].missing_since = old[a].missing_since

LEMMA CommitKeepsStamps ==
  ASSUME IInv, CommitBatch
  PROVE  RowsKeepStamps(db.txns, db'.txns) /\ AccountsKeepStamps(db.accounts, db'.accounts)
<1>1. PICK to \in Position(db.item.cursor)..Len(feed), listed \in SUBSET AccountIds :
        /\ db' = [item |-> [status |-> "active", cursor |-> to, error |-> FALSE],
                  accounts |-> ApplyAccounts(db.accounts, listed, now + 1), txns |-> db'.txns]
        /\ Follows(db.txns, db'.txns, Position(db.item.cursor), to, now + 1)
  BY Committed
<1>2. now + 1 \in Nat \ {0} /\ db.accounts \in Tables(AccountIds, AccountRow)
  BY DEF IInv, Typed
<1>3. AccountsKeepStamps(db.accounts, db'.accounts)
  <2>1. AccountsFollow(db.accounts, ApplyAccounts(db.accounts, listed, now + 1), listed)
    BY <1>2, AccountsApplied
  <2> QED
    BY <1>1, <2>1 DEF AccountsFollow, AccountsKeepStamps
<1> DEFINE old == db.txns
           new == db'.txns
<1>4. /\ \A t \in DOMAIN old : old[t] \in Row
      /\ DOMAIN old \subseteq DOMAIN new
      /\ \A t \in DOMAIN old :
           /\ new[t].first_seen_at = old[t].first_seen_at
           /\ \/ new[t].removed_at = FirstStamp(old[t].removed_at, now + 1)
              \/ new[t].removed_at = old[t].removed_at
           /\ old[t].superseded_at # 0 => new[t].superseded_at = old[t].superseded_at
      /\ \A t \in DOMAIN new : Linked(new[t])
  BY <1>1, TablesAre DEF Follows, IInv, Typed
<1> HIDE DEF old, new
<1>5. \A t \in DOMAIN old : old[t].removed_at # 0 =>
                               FirstStamp(old[t].removed_at, now + 1) = old[t].removed_at
  BY <1>2, <1>4, FirstStampIs DEF Row
<1>6. RowsKeepStamps(old, new)
  BY <1>4, <1>5 DEF RowsKeepStamps, Linked
<1> QED
  BY <1>3, <1>6 DEF old, new

(* No step deletes a row or rewrites a stamp (COALESCE in every statement).  *)
THEOREM StampsKept == Spec => StampsWrittenOnce
<1>1. ASSUME IInv, [Next]_vars
      PROVE  RowsKeepStamps(db.txns, db'.txns) /\ AccountsKeepStamps(db.accounts, db'.accounts)
  <2>1. CASE CommitBatch
    BY <1>1, <2>1, CommitKeepsStamps
  <2>2. CASE ~CommitBatch
    <3>1. db'.txns = db.txns /\ db'.accounts = db.accounts
      BY <1>1, <2>2, StatusKeeps DEF Next, vars, PublishUpsert, PublishRemoval
    <3>2. \A t \in DOMAIN db.txns : Linked(db.txns[t])
      BY <1>1 DEF IInv, Typed
    <3> QED
      BY <3>1, <3>2 DEF RowsKeepStamps, AccountsKeepStamps, Linked
  <2> QED
    BY <2>1, <2>2
<1>2. ASSUME IInv, [Next]_vars
      PROVE  KeepsStamps
  BY <1>1, <1>2 DEF KeepsStamps, RowsKeepStamps, AccountsKeepStamps
<1> QED
  BY <1>2, Invariant, PTL DEF Spec, StampsWrittenOnce

(* Fetching again what is committed changes no row but for rival links. *)
LEMMA BatchReplayed ==
  ASSUME IInv, NEW from \in 0..Position(db.item.cursor), NEW cuts \in SUBSET (1..Position(db.item.cursor)),
         NEW after \in ApplySyncBatch(db, Batch(from, Position(db.item.cursor), cuts, {}), now + 1)
  PROVE  /\ after.txns \in Tables(TxnIds, Row) /\ DOMAIN after.txns = DOMAIN db.txns
         /\ \A t \in DOMAIN db.txns :
              \/ after.txns[t] = db.txns[t]
              \/ /\ db.txns[t].superseded_by \in PostedOf(t)
                 /\ \E q \in PostedOf(t) : after.txns[t] = [db.txns[t] EXCEPT !.superseded_by = q]
<1> DEFINE n == Position(db.item.cursor)
           old == db.txns
           new == after.txns
           D == Ids(Upserts(from, n))
           removed == Ids(Removals(from, n))
<1>1. /\ from \in 0..n /\ cuts \in SUBSET (1..n)
      /\ after \in ApplySyncBatch(db, Batch(from, n, cuts, {}), now + 1)
  OBVIOUS
<1>2. FeedOK /\ Typed /\ n \in 0..Len(feed) /\ Len(feed) \in Nat /\ now + 1 \in Nat \ {0}
  BY DEF IInv, Typed, FeedOK
<1>3. from \in 0..Len(feed) /\ n \in from..Len(feed)
  BY <1>1, <1>2
<1>4. Follows(old, new, from, n, now + 1)
  <2>1. cuts \in SUBSET (1..Len(feed)) /\ {} \in SUBSET AccountIds
    BY <1>1, <1>2
  <2> HIDE DEF n
  <2> QED
    BY <1>1, <1>2, <1>3, <2>1, BatchApplied
<1>5. /\ DOMAIN old = {t \in TxnIds : UpsertsOf(t, n) # {}}
      /\ \A t \in DOMAIN old : /\ old[t] \in Row /\ old[t].raw = LatestRaw(t, n)
                               /\ old[t].removed_at # 0 <=> RemovedIn(t, n)
      /\ \A p \in DOMAIN old :
           /\ Naming(old, p) = {} => old[p].superseded_by = NULL
           /\ Naming(old, p) # {} =>
                old[p].superseded_by \in Naming(old, p) /\ old[p].superseded_at # 0
  BY TablesAre DEF IInv, Typed, LedgerFollowsFeed, PendingLinksExact, Naming
<1>6. /\ new \in Tables(TxnIds, Row) /\ DOMAIN new = DOMAIN old \cup D
      /\ \A t \in D : new[t].raw = LatestRaw(t, n)
      /\ \A t \in DOMAIN old :
           /\ t \notin D => new[t].raw = old[t].raw
           /\ new[t].first_seen_at = old[t].first_seen_at
           /\ new[t].removed_at = IF t \in removed THEN FirstStamp(old[t].removed_at, now + 1)
                                  ELSE old[t].removed_at
           /\ old[t].superseded_at # 0 => new[t].superseded_at = old[t].superseded_at
           /\ Naming(new, t) \subseteq {old[t].superseded_by} =>
                new[t].superseded_by = old[t].superseded_by /\ new[t].superseded_at = old[t].superseded_at
      /\ \A p \in DOMAIN new : \/ new[p].superseded_by \in Naming(new, p)
                               \/ new[p].superseded_by = LinkOf(old, p)
  BY <1>4 DEF Follows
<1>7. \A t : /\ t \in D => UpsertsOf(t, n) # {}
             /\ t \in removed => RemovedIn(t, n)
  BY <1>2, <1>3, Between
<1>8. D \subseteq TxnIds /\ old \in [DOMAIN old -> Row] /\ new \in [DOMAIN new -> Row]
  BY <1>2, <1>6, TablesAre DEF Typed
<1> HIDE DEF n, old, new, D, removed
<1>9. DOMAIN new = DOMAIN old /\ \A t \in DOMAIN old : new[t].raw = old[t].raw
  BY <1>5, <1>6, <1>7, <1>8
<1>10. \A t \in DOMAIN old : new[t].removed_at = old[t].removed_at
  <2>1. \A t \in DOMAIN old : t \in removed => FirstStamp(old[t].removed_at, now + 1) = old[t].removed_at
    BY <1>2, <1>5, <1>7, FirstStampIs DEF Row
  <2> QED
    BY <1>6, <2>1
<1>11. \A p \in DOMAIN old : Naming(new, p) = Naming(old, p) /\ Naming(old, p) = PostedOf(p)
  BY <1>9 DEF Naming, PostedOf, old
<1>12. ASSUME NEW t \in DOMAIN old
       PROVE  \/ new[t] = old[t]
              \/ /\ old[t].superseded_by \in PostedOf(t)
                 /\ \E q \in PostedOf(t) : new[t] = [old[t] EXCEPT !.superseded_by = q]
  <2>1. new[t] \in Row /\ old[t] \in Row
    BY <1>8, <1>9
  <2>2. /\ new[t].raw = old[t].raw /\ new[t].first_seen_at = old[t].first_seen_at
        /\ new[t].removed_at = old[t].removed_at
    BY <1>6, <1>9, <1>10
  <2>3. CASE Naming(old, t) = {}
    <3>1. /\ new[t].superseded_by = old[t].superseded_by
          /\ new[t].superseded_at = old[t].superseded_at
      BY <1>6, <1>11, <2>3
    <3> QED
      BY <2>1, <2>2, <3>1 DEF Row
  <2>4. CASE Naming(old, t) # {}
    <3>1. old[t].superseded_by \in PostedOf(t) /\ new[t].superseded_at = old[t].superseded_at
      BY <1>5, <1>6, <1>11, <2>4
    <3>2. new[t].superseded_by \in PostedOf(t)
      BY <1>6, <1>9, <1>11, <3>1 DEF LinkOf
    <3>3. new[t] = [old[t] EXCEPT !.superseded_by = new[t].superseded_by]
      BY <2>1, <2>2, <3>1 DEF Row
    <3> QED
      BY <3>1, <3>2, <3>3
  <2> QED
    BY <2>3, <2>4
<1> QED
  BY <1>6, <1>9, <1>12 DEF new, old

LEMMA Replayed ==
  ASSUME IInv
  PROVE  ReplayOnlyRelinks /\ Replays \subseteq Tables(TxnIds, Row)
<1> DEFINE n == Position(db.item.cursor)
           from == {m \in 0..n : n > 0}
           Results(m, cuts) == ApplySyncBatch(db, Batch(m, n, cuts, {}), now + 1)
<1>1. \A txns \in Replays : \E m \in from, cuts \in SUBSET (1..n) :
        \E after \in Results(m, cuts) : txns = after.txns
  <2>1. \A txns \in Replays : \E m \in from : \E batch \in Drained(m, n) :
          \E after \in ApplySyncBatch(db, batch, now + 1) : txns = after.txns
    BY DEF Replays
  <2>2. n \in Nat
    BY DEF IInv, Typed
  <2>3. ASSUME NEW m \in from, NEW batch \in Drained(m, n)
        PROVE  \E cuts \in SUBSET (1..n) : batch = Batch(m, n, cuts, {})
    <3> HIDE DEF n
    <3> QED
      BY <2>2, DrainedIs
  <2> QED
    BY <2>1, <2>3
<1>2. \A m \in from : m \in 0..n
  OBVIOUS
<1> HIDE DEF from, Results
<1>3. ASSUME NEW txns \in Replays
      PROVE  /\ txns \in Tables(TxnIds, Row) /\ DOMAIN txns = DOMAIN db.txns
             /\ \A t \in DOMAIN db.txns :
                  \/ txns[t] = db.txns[t]
                  \/ /\ db.txns[t].superseded_by \in PostedOf(t)
                     /\ \E q \in PostedOf(t) : txns[t] = [db.txns[t] EXCEPT !.superseded_by = q]
  <2>1. PICK m \in from, cuts \in SUBSET (1..n) : \E after \in Results(m, cuts) : txns = after.txns
    BY <1>1
  <2>2. PICK after \in Results(m, cuts) : txns = after.txns
    BY <2>1
  <2> QED
    BY <1>2, <2>2, BatchReplayed DEF Results
<1> QED
  BY <1>3 DEF ReplayOnlyRelinks

(* Fetching again what is committed, from any point on and in any pages,     *)
(* leaves every row as it is, but that of a pending row several posted ones  *)
(* name it may choose another (upsertTransactionSQL compares raw,            *)
(* linkPendingTransactions the link).                                        *)
THEOREM ReplayRelinksOnly == Spec => []ReplayOnlyRelinks
BY Replayed, Invariant, PTL

(* At most one stored row names a pending one. *)
LEMMA OneNames ==
  ASSUME \A q, r \in TxnIds : Predecessor[q] # NULL /\ Predecessor[q] = Predecessor[r] => q = r,
         IInv, NEW p \in DOMAIN db.txns, NEW q \in PostedOf(p), NEW r \in PostedOf(p)
  PROVE  q = r
<1> DEFINE n == Position(db.item.cursor)
<1>1. FeedOK /\ Typed /\ n \in 0..Len(feed) /\ Len(feed) \in Nat
  BY DEF IInv, Typed, FeedOK
<1>2. /\ DOMAIN db.txns = {t \in TxnIds : UpsertsOf(t, n) # {}}
      /\ \A t \in DOMAIN db.txns : db.txns[t].raw = LatestRaw(t, n)
  BY DEF IInv, LedgerFollowsFeed
<1> HIDE DEF n
<1>3. p \in TxnIds /\ p # NULL
  BY <1>2, NullIsNoNumber
<1>4. ASSUME NEW s \in PostedOf(p)
      PROVE  s \in TxnIds /\ Predecessor[s] = p
  <2>1. s \in DOMAIN db.txns /\ db.txns[s].raw.pend = p
    BY DEF PostedOf
  <2>2. UpsertsOf(s, n) # {} /\ s \in TxnIds /\ db.txns[s].raw = LatestRaw(s, n)
    BY <1>2, <2>1
  <2>3. PICK m \in 1..n : feed[m].id = s /\ feed[m].kind # "removed" /\ LatestRaw(s, n) = feed[m].raw
    <3>1. n \in Nat
      BY <1>1
    <3> QED
      BY <2>2, <3>1, LatestUpsert
  <2>4. m \in 1..Len(feed)
    BY <1>1
  <2>5. feed[m].raw.pend \in {NULL, Predecessor[s]}
    BY <1>1, <2>3, <2>4 DEF FeedOK, FeedRules, Rule
  <2> QED
    BY <1>3, <2>1, <2>2, <2>3, <2>5
<1> QED
  BY <1>3, <1>4

(* "Replays are no-ops", if no two posted transactions name the same pending *)
(* one (linkPendingTransactions).                                            *)
THEOREM ReplayIsIdle ==
  ASSUME \A q, r \in TxnIds : Predecessor[q] # NULL /\ Predecessor[q] = Predecessor[r] => q = r
  PROVE  Spec => []ReplaysAreNoOps
<1>1. IInv => ReplaysAreNoOps
  <2> SUFFICES ASSUME IInv, NEW txns \in Replays
               PROVE  txns = db.txns
    BY DEF ReplaysAreNoOps
  <2>1. /\ txns \in [DOMAIN txns -> Row]
        /\ db.txns \in [DOMAIN db.txns -> Row]
    BY Replayed, TablesAre DEF IInv, Typed
  <2>2. /\ DOMAIN txns = DOMAIN db.txns
        /\ \A t \in DOMAIN txns :
             \/ txns[t] = db.txns[t]
             \/ /\ db.txns[t].superseded_by \in PostedOf(t)
                /\ \E q \in PostedOf(t) : txns[t] = [db.txns[t] EXCEPT !.superseded_by = q]
    BY Replayed DEF ReplayOnlyRelinks
  <2>3. \A t \in DOMAIN txns : txns[t] = db.txns[t]
    <3> SUFFICES ASSUME NEW t \in DOMAIN txns, db.txns[t].superseded_by \in PostedOf(t),
                        NEW q \in PostedOf(t), txns[t] = [db.txns[t] EXCEPT !.superseded_by = q]
                 PROVE  txns[t] = db.txns[t]
      BY <2>2
    <3>1. q = db.txns[t].superseded_by
      BY <2>2, OneNames
    <3>2. db.txns[t] \in Row
      BY <2>1, <2>2
    <3> QED
      BY <3>1, <3>2 DEF Row
  <2> QED
    BY <2>1, <2>2, <2>3
<1> QED
  BY <1>1, Invariant, PTL

=============================================================================
