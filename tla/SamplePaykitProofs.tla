------------------------- MODULE SamplePaykitProofs -------------------------
(***************************************************************************)
(* The client finds its TxOuts and computes its balance correctly, for any *)
(* number of TxOuts, RNGs and blocks, whichever servers answer it and      *)
(* whichever requests fail.                                                *)
(***************************************************************************)
EXTENDS SamplePaykit, FiniteSetTheorems, TLAPS

-----------------------------------------------------------------------------
(* The outputs of one RNG are handed out in the order of the TxOuts: the    *)
(* index of a TxOut's search key is its rank among those of the same RNG.   *)

Rank(P, i) == Cardinality({j \in P : j < i})

\* A rank is a natural number.
LEMMA RankType ==
  ASSUME NEW P, IsFiniteSet(P), NEW i
  PROVE  /\ IsFiniteSet({j \in P : j < i})
         /\ Rank(P, i) \in Nat /\ Rank(P, i) <= Cardinality(P)
<1>1. {j \in P : j < i} \in SUBSET P
  OBVIOUS
<1>2. /\ IsFiniteSet({j \in P : j < i})
      /\ Cardinality({j \in P : j < i}) <= Cardinality(P)
  BY <1>1, FS_Subset, Zenon
<1> QED
  BY <1>2, FS_CardinalityType, Zenon DEF Rank

\* A set of naturals that is not empty has a least element.
LEMMA LeastNatural ==
  ASSUME NEW T, T \subseteq Nat, T # {}
  PROVE  \E x \in T : \A y \in T : x <= y
<1> DEFINE R == OpToRel(<, Nat)
<1>1. IsWellFoundedOn(R, Nat)
  BY NatLessThanWellFounded, Zenon
<1>2. \A x, y \in Nat : x < y => <<x, y>> \in R
  BY DEF OpToRel
<1> HIDE DEF R
<1>3. PICK x \in T : \A y \in T : ~ (<<y, x>> \in R)
  BY <1>1, WFMin, Zenon
<1>4. \A y \in T : y \in Nat /\ x \in Nat /\ ~(y < x)
  BY <1>2, <1>3, Zenon
<1> QED
  BY <1>4

\* What lies below every one of its own elements is told apart by the rank.
LEMMA DownsetRank ==
  ASSUME NEW P, P \subseteq Nat, IsFiniteSet(P), NEW Q \in SUBSET P,
         \A i \in Q : \A j \in P : j < i => j \in Q
  PROVE  /\ IsFiniteSet(Q) /\ Cardinality(Q) \in Nat
         /\ \A i \in P : i \in Q <=> Rank(P, i) < Cardinality(Q)
<1>1. IsFiniteSet(Q) /\ Cardinality(Q) \in Nat
  BY FS_Subset, FS_CardinalityType, Zenon
<1>2. ASSUME NEW i \in Q PROVE Rank(P, i) < Cardinality(Q)
  <2> DEFINE S == {j \in P : j < i}
  <2>1. i \in Nat /\ i \notin S
    OBVIOUS
  <2>5. S \cup {i} \in SUBSET Q
    BY <1>2, Zenon
  <2>2. IsFiniteSet(S) /\ Rank(P, i) \in Nat /\ Rank(P, i) = Cardinality(S)
    BY RankType, Zenon DEF Rank
  <2> HIDE DEF S
  <2>3. Cardinality(S \cup {i}) = Cardinality(S) + 1
    BY <2>1, <2>2, FS_AddElement, Zenon
  <2>4. Cardinality(S \cup {i}) <= Cardinality(Q)
    BY <1>1, <2>5, FS_Subset, Zenon
  <2> QED
    BY <1>1, <2>2, <2>3, <2>4
<1>3. ASSUME NEW i \in P, i \notin Q PROVE ~(Rank(P, i) < Cardinality(Q))
  <2> DEFINE S == {j \in P : j < i}
  <2>1. Q \in SUBSET S
    <3> SUFFICES ASSUME NEW j \in Q PROVE j < i
      OBVIOUS
    <3>1. ~(i < j) /\ i # j /\ i \in Nat /\ j \in Nat
      BY <1>3
    <3> QED
      BY <3>1
  <2>2. IsFiniteSet(S) /\ Rank(P, i) \in Nat /\ Rank(P, i) = Cardinality(S)
    BY RankType, Zenon DEF Rank
  <2> HIDE DEF S
  <2>3. Cardinality(Q) <= Cardinality(S)
    BY <2>1, <2>2, FS_Subset, Zenon
  <2> QED
    BY <1>1, <2>2, <2>3
<1> QED
  BY <1>1, <1>2, <1>3, Zenon

\* Different members of a set have different ranks, in their order.
LEMMA RankStrict ==
  ASSUME NEW P, P \subseteq Nat, IsFiniteSet(P), NEW i \in P, NEW j \in P, i < j
  PROVE  Rank(P, i) < Rank(P, j)
<1> DEFINE Q == {k \in P : k < j}
<1>1. /\ Q \in SUBSET P /\ i \in Q
      /\ \A k \in Q : \A l \in P : l < k => l \in Q
  OBVIOUS
<1>2. Rank(P, j) = Cardinality(Q)
  BY DEF Rank
<1> HIDE DEF Q
<1>3. \A k \in P : k \in Q <=> Rank(P, k) < Cardinality(Q)
  BY <1>1, DownsetRank, Zenon
<1> QED
  BY <1>1, <1>2, <1>3

\* Records are published in the order of the ledger, so that publishing more
\* changes no rank and gives no rank that was in use.
LEMMA PublishRanks ==
  ASSUME NEW P, NEW N, P \subseteq Nat, N \subseteq Nat, IsFiniteSet(P), IsFiniteSet(N),
         \A i \in P : \A j \in N : i < j
  PROVE  /\ \A i \in P : Rank(P \cup N, i) = Rank(P, i)
         /\ \A i \in N : Cardinality(P) <= Rank(P \cup N, i)
<1>1. ASSUME NEW i \in P PROVE Rank(P \cup N, i) = Rank(P, i)
  <2>1. \A j \in N : ~(j < i)
    OBVIOUS
  <2>2. {j \in P \cup N : j < i} = {j \in P : j < i}
    BY <2>1, Zenon
  <2> QED
    BY <2>2 DEF Rank
<1>2. ASSUME NEW i \in N PROVE Cardinality(P) <= Rank(P \cup N, i)
  <2>1. P \in SUBSET {j \in P \cup N : j < i}
    BY <1>2
  <2>2. IsFiniteSet(P \cup N)
    BY FS_Union, Zenon
  <2>3. IsFiniteSet({j \in P \cup N : j < i})
    BY <2>2, RankType, Zenon
  <2> QED
    BY <2>1, <2>3, FS_Subset, Zenon DEF Rank
<1> QED
  BY <1>1, <1>2

\* A request for the outputs u .. u + m - 1 of an RNG with TxOuts P of which the
\* server has loaded L: what is found is counted, and an RNG of which less than
\* m were found has nothing more among L.
LEMMA RoundRanks ==
  ASSUME NEW P, P \subseteq Nat, IsFiniteSet(P), NEW L \in SUBSET P,
         \A i \in L : \A j \in P : j < i => j \in L,
         NEW u \in Nat, NEW m \in Nat,
         Cardinality({i \in P : Rank(P, i) < u}) = u
  PROVE  LET F == {i \in L : u <= Rank(P, i) /\ Rank(P, i) < u + m}
             v == u + Cardinality(F)
         IN  /\ Cardinality(F) \in Nat
             /\ \A i \in P : Rank(P, i) < v <=> Rank(P, i) < u \/ i \in F
             /\ Cardinality({i \in P : Rank(P, i) < v}) = v
             /\ v < u + m => \A i \in L : Rank(P, i) < v
<1> DEFINE F == {i \in L : u <= Rank(P, i) /\ Rank(P, i) < u + m}
           G == {i \in P : Rank(P, i) < u}
           v == u + Cardinality(F)
<1>1. \A i \in P : Rank(P, i) \in Nat
  BY RankType, Zenon
<1>2. F \in SUBSET P /\ G \in SUBSET P /\ G \cap F = {}
  <2>1. F \in SUBSET P /\ G \in SUBSET P
    BY Zenon
  <2>2. \A i \in G : i \notin F
    BY <1>1
  <2> HIDE DEF F, G
  <2> QED
    BY <2>1, <2>2
<1>3. IsFiniteSet(F) /\ IsFiniteSet(G) /\ Cardinality(F) \in Nat /\ Cardinality(G) = u
  <2>1. IsFiniteSet(F) /\ IsFiniteSet(G) /\ Cardinality(G) = u
    BY <1>2, FS_Subset, Zenon
  <2> QED
    BY <2>1, FS_CardinalityType, Zenon
<1>4. ASSUME NEW i \in G \cup F, NEW j \in P, j < i PROVE j \in G \cup F
  <2>1. Rank(P, j) < Rank(P, i) /\ Rank(P, i) \in Nat /\ Rank(P, j) \in Nat
    BY <1>1, <1>2, <1>4, RankStrict, Zenon
  <2>2. CASE i \in G
    BY <2>1, <2>2
  <2>3. CASE i \in F
    <3>1. j \in L /\ Rank(P, j) < u + m
      BY <1>4, <2>1, <2>3
    <3> QED
      BY <2>1, <3>1
  <2> QED
    BY <1>4, <2>2, <2>3
<1>5. Cardinality(G \cup F) = v
  <2> HIDE DEF F, G
  <2>1. Cardinality(G \cup F) = Cardinality(G) + Cardinality(F) - Cardinality(G \cap F)
    BY <1>3, FS_Union, Zenon
  <2>2. Cardinality(G \cap F) = 0
    BY <1>2, FS_EmptySet, Zenon
  <2> QED
    BY <1>3, <2>1, <2>2
<1>6. \A i \in P : i \in G \cup F <=> Rank(P, i) < v
  <2>1. G \cup F \in SUBSET P
    BY <1>2
  <2> HIDE DEF F, G, v
  <2> QED
    BY <1>4, <1>5, <2>1, DownsetRank, Zenon
<1>7. {i \in P : Rank(P, i) < v} = G \cup F
  <2> HIDE DEF F, G, v
  <2> QED
    BY <1>2, <1>6, Zenon
<1>8. ASSUME v < u + m, NEW i \in L PROVE Rank(P, i) < v
  <2> SUFFICES ASSUME ~(Rank(P, i) < v) PROVE FALSE
    OBVIOUS
  <2> DEFINE T == P \ (G \cup F)
  <2>1. T \subseteq Nat /\ i \in T
    BY <1>6 , Zenon
  <2>2. PICK j \in T : \A k \in T : j <= k
    <3> HIDE DEF T
    <3> QED
      BY <2>1, LeastNatural, Zenon
  <2>3. j \in P /\ j \in Nat /\ j <= i /\ i \in Nat /\ j \notin G \cup F
    BY <2>1, <2>2
  <2>4. {k \in P : k < j} = G \cup F
    <3>1. ASSUME NEW k \in P, k < j PROVE k \in G \cup F
      BY <2>2, <2>3, <3>1
    <3>2. ASSUME NEW k \in G \cup F PROVE k \in P /\ k < j
      <4>1. k \in P /\ ~(j < k) /\ j # k
        BY <1>2, <1>4, <2>3
      <4> QED
        BY <2>3, <4>1
    <3> HIDE DEF F, G
    <3> QED
      BY <3>1, <3>2, Zenon
  <2>5. Rank(P, j) = v
    BY <1>5, <2>4, Zenon DEF Rank
  <2>6. j \in L
    <3>1. j = i \/ j < i
      BY <2>3
    <3> QED
      BY <2>3, <3>1
  <2>7. v \in Nat /\ u <= v
    BY <1>3
  <2> HIDE DEF v
  <2>8. j \in F
    BY <1>8, <2>5, <2>6, <2>7
  <2> QED
    BY <2>3, <2>8
<1>9. \A i \in P : Rank(P, i) < v <=> Rank(P, i) < u \/ i \in F
  BY <1>6
<1> QED
  BY <1>3, <1>5, <1>7, <1>8, <1>9

\* A finite set of naturals has a largest and a least element.
LEMMA MaxNatural ==
  ASSUME NEW S, S \subseteq Nat, IsFiniteSet(S), S # {}
  PROVE  Max(S) \in S /\ \A x \in S : x <= Max(S)
<1>1. Cardinality(S) \in Nat /\ \A x \in S : Rank(S, x) \in Nat /\ Rank(S, x) <= Cardinality(S)
  BY RankType, FS_CardinalityType, Zenon
<1> DEFINE D(x) == Cardinality(S) - Rank(S, x)
           T == {D(x) : x \in S}
<1>2. T \subseteq Nat /\ T # {}
  <2>1. \A x \in S : D(x) \in Nat
    BY <1>1
  <2> HIDE DEF D
  <2> QED
    BY <2>1, Zenon
<1> HIDE DEF T
<1>3. PICK d \in T : \A e \in T : d <= e
  BY <1>2, LeastNatural, Zenon
<1>4. PICK x \in S : d = D(x)
  BY <1>3 DEF T
<1>5. ASSUME NEW y \in S PROVE y <= x
  <2> SUFFICES ASSUME x < y PROVE FALSE
    OBVIOUS
  <2>1. Rank(S, x) < Rank(S, y)
    BY RankStrict, Zenon
  <2>2. D(x) <= D(y)
    BY <1>3, <1>4 DEF T
  <2> QED
    BY <1>1, <2>1, <2>2
<1>6. \E z \in S : \A y \in S : z >= y
  BY <1>5
<1>7. Max(S) \in S /\ \A y \in S : Max(S) >= y
  BY <1>6, Zenon DEF Max
<1> QED
  BY <1>7

\* Min is the least member.
LEMMA MinNatural ==
  ASSUME NEW S, S \subseteq Nat, S # {}
  PROVE  Min(S) \in S /\ \A x \in S : Min(S) <= x
<1>1. \E x \in S : \A y \in S : x <= y
  BY LeastNatural, Zenon
<1> QED
  BY <1>1, Zenon DEF Min

\* The larger and the smaller of two numbers.
LEMMA MaxOfTwo ==
  ASSUME NEW a \in Int, NEW b \in Int
  PROVE  Max({a, b}) = IF a <= b THEN b ELSE a
<1> DEFINE m == IF a <= b THEN b ELSE a
<1>1. m \in {a, b} /\ \A y \in {a, b} : m >= y
  OBVIOUS
<1>2. Max({a, b}) \in {a, b} /\ \A y \in {a, b} : Max({a, b}) >= y
  BY <1>1, Zenon DEF Max
<1> QED
  BY <1>2

\* The minimum of two numbers.
LEMMA MinOfTwo ==
  ASSUME NEW a \in Int, NEW b \in Int
  PROVE  Min({a, b}) = IF a <= b THEN a ELSE b
<1> DEFINE m == IF a <= b THEN a ELSE b
<1>1. m \in {a, b} /\ \A y \in {a, b} : m <= y
  OBVIOUS
<1>2. Min({a, b}) \in {a, b} /\ \A y \in {a, b} : Min({a, b}) <= y
  BY <1>1, Zenon DEF Min
<1> QED
  BY <1>2

-----------------------------------------------------------------------------
(* The inductive invariant. *)

\* TxOuts enter the ledger in the order of their indices, and are spent later.
LedgerInv ==
    /\ \A i \in TxOuts : /\ born[i] < height /\ spent[i] < height
                         /\ spent[i] # NotYet => born[i] # NotYet /\ born[i] < spent[i]
    /\ \A i, j \in TxOuts : i < j /\ born[j] # NotYet =>
                              born[i] # NotYet /\ born[i] <= born[j]

\* The TxOuts of the scanned blocks are published, under announced RNGs.
DbInv ==
    \A i \in TxOuts :
        /\ rng[i] # NoRng <=> born[i] # NotYet /\ born[i] < scanned
        /\ rng[i] # NoRng => \E n \in DOMAIN events : events[n] = rng[i]

\* The TxOuts published under RNG r.
Pub(r) == {i \in TxOuts : rng[i] = r}

\* The client knows the RNGs of the events that it was sent, and counts what it
\* has found of each.
RngInv ==
    \A r \in Rngs :
        /\ r \in Known <=>
             \E n \in 1..next_start_from_user_event_id : events[n] = r
        /\ r \in Known =>
             Cardinality({i \in Pub(r) : Rank(Pub(r), i) < user_rngs[r]}) = user_rngs[r]

\* The client has found TxOut i.
Gotten(i) == rng[i] \in Known /\ IndexOf(i) < user_rngs[rng[i]]

\* A dead RNG has no TxOut in the blocks the poll covers that was not found.
DeadInv ==
    /\ poll.dead \subseteq Known
    /\ \A i \in TxOuts : rng[i] \in poll.dead /\ born[i] < poll.count => Gotten(i)

\* With no change between the two reads of a query, the client knows the RNG of
\* every TxOut in those blocks, and finds none below its block count again.
NoRaceInv ==
    /\ poll.pc = "first" => poll.seen = Len(events)
    /\ poll.pc = "loop" =>
         \A i \in TxOuts :
           /\ born[i] # NotYet /\ born[i] < poll.count => rng[i] \in Known
           /\ i \in poll.results => born[i] >= highest_processed_block_count
    /\ \A i \in TxOuts :
         born[i] # NotYet /\ born[i] < highest_processed_block_count => Gotten(i)

PollInv ==
    /\ poll.pc \in {"idle", "first"} => poll.results = {} /\ poll.dead = {}
    /\ poll.pc = "first" => next_start_from_user_event_id <= poll.seen
    /\ poll.pc = "loop" => DeadInv
    /\ ~EventRace => NoRaceInv

\* The results that the poll has not returned yet.
Pending == IF poll.pc = "loop" THEN poll.results ELSE {}

\* The wallet holds what was found, and what it holds of each key image is true.
WalletInv ==
    \A i \in TxOuts :
        /\ Gotten(i) <=> owned_tx_outs[i].status # "not_owned" \/ i \in Pending
        /\ i \in Pending \/ owned_tx_outs[i].status = "not_owned" =>
             owned_tx_outs[i] = NotOwned
        /\ owned_tx_outs[i].status = "not_spent" =>
             /\ born[i] < owned_tx_outs[i].at /\ owned_tx_outs[i].at <= height
             /\ ~SpentBefore(i, owned_tx_outs[i].at)
             /\ key_image_data_completeness <= owned_tx_outs[i].at
        /\ owned_tx_outs[i].status = "spent" =>
             spent[i] # NotYet /\ owned_tx_outs[i].at = spent[i]

\* A transaction lands before its tombstone block, and is said to have expired
\* when that is past.
TxInv ==
    /\ tx.landed # NotYet => tx.landed < tx.tombstone
    /\ tx.told = "expired" => tx.landed = NotYet /\ tx.tombstone <= height

Inv == TypeOK /\ LedgerInv /\ DbInv /\ RngInv /\ PollInv /\ WalletInv /\ TxInv


-----------------------------------------------------------------------------
(* Facts about single states. *)

\* The types of what the proofs look at, from TypeOK.
LEMMA Typing ==
  ASSUME TypeOK
  PROVE  /\ height \in Nat /\ scanned \in Nat /\ scanned <= height /\ height <= MaxHeight
         /\ \A i \in TxOuts : /\ i \in Nat /\ rng[i] \in Rngs \cup {NoRng}
                              /\ born[i] \in Int /\ (born[i] = NotYet \/ born[i] \in Nat)
                              /\ spent[i] \in Int /\ (spent[i] = NotYet \/ spent[i] \in Nat)
         /\ \A r \in Rngs : /\ user_rngs[r] \in Int /\ r # NoRng
                            /\ user_rngs[r] = Unknown \/ user_rngs[r] \in Nat
         /\ highest_processed_block_count \in Nat
         /\ highest_processed_block_count <= scanned
         /\ next_start_from_user_event_id \in Nat
         /\ next_start_from_user_event_id <= Len(events)
         /\ Len(events) \in Nat /\ events \in Seq(Rngs) /\ DOMAIN events = 1..Len(events)
         /\ poll.seen \in Nat /\ poll.seen <= Len(events)
         /\ poll.count \in Nat /\ poll.count <= scanned
         /\ poll.multiplier \in Nat /\ 2 <= poll.multiplier
         /\ poll.dead \subseteq Rngs /\ poll.results \subseteq TxOuts
<1>1. PollingTypeOK
  BY DEF TypeOK
<1>2. events \in Seq(Rngs) /\ DOMAIN events = 1..Len(events) /\ Len(events) \in Nat
  BY <1>1 DEF PollingTypeOK
<1>3. /\ poll.seen \in 0..Len(events) /\ poll.count \in 0..scanned
      /\ poll.multiplier \in 2..MAX_MULTIPLIER
      /\ poll.dead \subseteq Rngs /\ poll.results \subseteq TxOuts
  BY <1>1 DEF PollingTypeOK
<1>4. /\ height \in 0..MaxHeight /\ scanned \in 0..height
      /\ highest_processed_block_count \in 0..scanned
      /\ next_start_from_user_event_id \in 0..Len(events)
  BY <1>1, Zenon DEF PollingTypeOK
<1>5. \A i \in TxOuts : /\ rng[i] \in Rngs \cup {NoRng}
                        /\ born[i] \in Nat \cup {NotYet} /\ spent[i] \in Nat \cup {NotYet}
  BY <1>1 DEF PollingTypeOK
<1>6. \A r \in Rngs : user_rngs[r] \in Nat \cup {Unknown}
  BY <1>1 DEF PollingTypeOK
<1>7. TxOuts \subseteq Nat /\ NoRng \notin Rngs /\ MaxHeight \in Nat /\ MAX_MULTIPLIER \in Nat
  BY PollingConstants
<1>8. height \in Nat /\ scanned \in Nat /\ scanned <= height /\ height <= MaxHeight
  BY <1>4, <1>7
<1>9. /\ highest_processed_block_count \in Nat
      /\ highest_processed_block_count <= scanned
      /\ next_start_from_user_event_id \in Nat
      /\ next_start_from_user_event_id <= Len(events)
      /\ poll.seen \in Nat /\ poll.seen <= Len(events)
      /\ poll.count \in Nat /\ poll.count <= scanned
      /\ poll.multiplier \in Nat /\ 2 <= poll.multiplier
  BY <1>2, <1>3, <1>4, <1>7, <1>8
<1>10. \A i \in TxOuts : /\ i \in Nat
                         /\ born[i] \in Int /\ (born[i] = NotYet \/ born[i] \in Nat)
                         /\ spent[i] \in Int /\ (spent[i] = NotYet \/ spent[i] \in Nat)
  <2> SUFFICES ASSUME NEW i \in TxOuts
               PROVE  /\ i \in Nat
                      /\ born[i] \in Int /\ (born[i] = NotYet \/ born[i] \in Nat)
                      /\ spent[i] \in Int /\ (spent[i] = NotYet \/ spent[i] \in Nat)
    OBVIOUS
  <2>1. born[i] \in Nat \cup {NotYet} /\ spent[i] \in Nat \cup {NotYet}
    BY <1>5
  <2> QED
    BY <1>7, <2>1 DEF NotYet
<1>11. \A r \in Rngs : /\ user_rngs[r] \in Int /\ r # NoRng
                       /\ user_rngs[r] = Unknown \/ user_rngs[r] \in Nat
  BY <1>6, <1>7 DEF Unknown
<1> QED
  BY <1>2, <1>3, <1>5, <1>8, <1>9, <1>10, <1>11, Zenon

\* What the client has found does not change with the ledger.
LEMMA Same ==
  ASSUME UNCHANGED <<rng, user_rngs>>
  PROVE  /\ Known' = Known
         /\ \A i : Gotten(i)' <=> Gotten(i)
         /\ \A r : Pub(r)' = Pub(r)
<1>1. rng' = rng /\ user_rngs' = user_rngs
  OBVIOUS
<1>2. Known' = Known
  BY <1>1 DEF Known
<1>3. \A i : IndexOf(i)' = IndexOf(i)
  BY <1>1 DEF IndexOf
<1>4. \A r : Pub(r)' = Pub(r)
  BY <1>1 DEF Pub
<1> QED
  BY <1>1, <1>2, <1>3, <1>4 DEF Gotten

\* A found TxOut is published.
LEMMA FoundIsPublished ==
  ASSUME TypeOK, DbInv, NEW i \in TxOuts, rng[i] \in Rngs
  PROVE  rng[i] # NoRng /\ born[i] # NotYet /\ born[i] \in Nat /\ born[i] < scanned
<1>1. rng[i] # NoRng
  BY PollingConstants
<1> QED
  BY <1>1, Typing DEF DbInv

-----------------------------------------------------------------------------
(* A block is appended to the ledger. *)

\* A block of the ledger: TxOuts are born and spent, nothing is searched.
LEMMA AppendPreserves ==
  ASSUME Inv, NEW spends \in SUBSET Spendable, AppendBlock(spends),
         UNCHANGED <<db_vars, rng_set_vars, poll, wallet_vars>>
  PROVE  /\ PollingTypeOK' /\ LedgerInv' /\ DbInv' /\ RngInv' /\ PollInv' /\ WalletInv'
         /\ height' = height + 1 /\ height' <= MaxHeight
<1>1. /\ TypeOK /\ PollingTypeOK /\ LedgerInv /\ DbInv /\ RngInv /\ PollInv /\ WalletInv
  BY DEF Inv, TypeOK
<1>2. /\ scanned' = scanned /\ rng' = rng /\ events' = events /\ poll' = poll
      /\ user_rngs' = user_rngs
      /\ highest_processed_block_count' = highest_processed_block_count
      /\ next_start_from_user_event_id' = next_start_from_user_event_id
      /\ owned_tx_outs' = owned_tx_outs
      /\ key_image_data_completeness' = key_image_data_completeness
  BY DEF db_vars, rng_set_vars, wallet_vars
<1>3. /\ height < MaxHeight /\ height' = height + 1
      /\ spent' = [i \in TxOuts |-> IF i \in spends THEN height ELSE spent[i]]
  BY DEF AppendBlock
<1>4. PICK new \in {{i \in Unborn : i < n} : n \in Unborn \cup {Max(TxOuts) + 1}} :
         born' = [i \in TxOuts |-> IF i \in new THEN height ELSE born[i]]
  BY DEF AppendBlock
<1>5. PICK n \in Unborn \cup {Max(TxOuts) + 1} : new = {i \in Unborn : i < n}
  BY <1>4
<1>6. /\ height \in Nat /\ scanned \in Nat /\ scanned <= height /\ height <= MaxHeight
      /\ highest_processed_block_count \in Nat /\ highest_processed_block_count <= scanned
      /\ poll.count \in Nat /\ poll.count <= scanned
      /\ \A i \in TxOuts : /\ i \in Nat
                           /\ born[i] \in Int /\ (born[i] = NotYet \/ born[i] \in Nat)
                           /\ spent[i] \in Int /\ (spent[i] = NotYet \/ spent[i] \in Nat)
  BY <1>1, Typing, Zenon
<1>7. /\ \A i \in new : born[i] = NotYet
      /\ \A i \in TxOuts : \A j \in new : i < j /\ born[i] = NotYet => i \in new
  <2>1. \A i \in new : i \in Unborn /\ born[i] = NotYet
    BY <1>5 DEF Unborn
  <2>2. ASSUME NEW i \in TxOuts, NEW j \in new, i < j, born[i] = NotYet PROVE i \in new
    <3>1. i \in Unborn /\ j \in TxOuts /\ i \in Nat /\ j \in Nat /\ j < n
      BY <1>5, <1>6, <2>2 DEF Unborn
    <3>2. n \in Int
      <4>1. CASE n \in Unborn
        BY <1>6, <4>1 DEF Unborn
      <4>2. CASE n = Max(TxOuts) + 1
        <5>1. Max(TxOuts) \in TxOuts
          BY <3>1, MaxNatural, PollingConstants, Zenon
        <5> QED
          BY <1>6, <4>2, <5>1
      <4> QED
        BY <4>1, <4>2
    <3> QED
      BY <1>5, <2>2, <3>1, <3>2
  <2> QED
    BY <2>1, <2>2
<1>8. \A i \in TxOuts : born'[i] = IF i \in new THEN height ELSE born[i]
  BY <1>4
<1>9. \A i \in TxOuts : spent'[i] = IF i \in spends THEN height ELSE spent[i]
  BY <1>3
<1>10. \A i \in spends : i \in TxOuts /\ spent[i] = NotYet /\ born[i] # NotYet
  BY DEF Spendable
<1>11. PollingTypeOK'
  <2>1. height' \in 0..MaxHeight /\ scanned' \in 0..height'
    <3>1. MaxHeight \in Nat /\ height + 1 <= MaxHeight /\ 0 <= height + 1
      BY <1>3, <1>6, PollingConstants
    <3> QED
      BY <1>2, <1>3, <1>6, <3>1
  <2>2. /\ born' \in [TxOuts -> Nat \cup {NotYet}]
        /\ spent' \in [TxOuts -> Nat \cup {NotYet}]
    BY <1>3, <1>4, <1>6
  <2> QED
    BY <1>1, <1>2, <2>1, <2>2, Zenon DEF PollingTypeOK
<1>12. LedgerInv'
  <2>1. \A i \in TxOuts : /\ born[i] < height /\ spent[i] < height
                          /\ spent[i] # NotYet => born[i] # NotYet /\ born[i] < spent[i]
    BY <1>1 DEF LedgerInv
  <2>2. \A i, j \in TxOuts : i < j /\ born[j] # NotYet =>
                              born[i] # NotYet /\ born[i] <= born[j]
    BY <1>1 DEF LedgerInv
  <2>3. ASSUME NEW i \in TxOuts
        PROVE  /\ born'[i] < height' /\ spent'[i] < height'
               /\ spent'[i] # NotYet => born'[i] # NotYet /\ born'[i] < spent'[i]
    BY <1>3, <1>6, <1>7, <1>8, <1>9, <1>10, <2>1 DEF NotYet
  <2>4. ASSUME NEW i \in TxOuts, NEW j \in TxOuts, i < j, born'[j] # NotYet
        PROVE  born'[i] # NotYet /\ born'[i] <= born'[j]
    <3>1. height # NotYet
      BY <1>6 DEF NotYet
    <3>2. CASE j \in new
      BY <1>6, <1>7, <1>8, <2>1, <2>4, <3>1, <3>2
    <3>3. CASE j \notin new
      BY <1>6, <1>7, <1>8, <2>2, <2>4, <3>1, <3>3
    <3> QED
      BY <3>2, <3>3
  <2> QED
    BY <2>3, <2>4 DEF LedgerInv
<1>13. \A i \in TxOuts :
         \/ born'[i] = born[i]
         \/ born[i] = NotYet /\ born'[i] = height /\ rng[i] = NoRng
  BY <1>1, <1>7, <1>8 DEF DbInv
<1>14. \A i \in TxOuts :
         \/ spent'[i] = spent[i]
         \/ spent[i] = NotYet /\ spent'[i] = height
  BY <1>9, <1>10
<1>15. DbInv'
  <2>1. \A i \in TxOuts :
        /\ rng[i] # NoRng <=> born[i] # NotYet /\ born[i] < scanned
        /\ rng[i] # NoRng => \E k \in DOMAIN events : events[k] = rng[i]
    BY <1>1 DEF DbInv
  <2>2. \A i \in TxOuts : rng[i] # NoRng <=> born'[i] # NotYet /\ born'[i] < scanned
    BY <1>6, <1>13, <2>1
  <2> QED
    BY <1>2, <2>1, <2>2 DEF DbInv
<1>16. Known' = Known /\ (\A i : Gotten(i)' <=> Gotten(i)) /\ (\A r : Pub(r)' = Pub(r))
  BY <1>2, Same, Zenon
<1>17. RngInv'
  BY <1>1, <1>2, <1>16 DEF RngInv
<1>18. ASSUME NEW i \in TxOuts, Gotten(i) \/ rng[i] \in Rngs PROVE born'[i] = born[i]
  BY <1>13, <1>18, PollingConstants DEF Gotten, Known
<1>19. Pending' = Pending
  BY <1>2 DEF Pending
<1>20. PollInv'
  <2>1. ASSUME poll.pc = "loop" PROVE DeadInv'
    <3>1. DeadInv
      BY <1>1, <2>1 DEF PollInv
    <3>2. \A i \in TxOuts : rng[i] \in poll.dead => born'[i] = born[i]
      BY <1>18, <3>1 DEF DeadInv, Known
    <3> QED
      BY <1>2, <1>16, <3>1, <3>2 DEF DeadInv
  <2>2. ASSUME ~EventRace PROVE NoRaceInv'
    <3>1. NoRaceInv
      BY <1>1, <2>2 DEF PollInv
    <3>2. poll'.pc = "first" => poll'.seen = Len(events')
      BY <1>2, <3>1 DEF NoRaceInv
    <3>3. ASSUME poll.pc = "loop", NEW i \in TxOuts, born'[i] # NotYet, born'[i] < poll.count
          PROVE  rng[i] \in Known
      <4>1. born'[i] = born[i]
        BY <1>6, <1>13, <3>3
      <4> QED
        BY <3>1, <3>3, <4>1 DEF NoRaceInv
    <3>4. ASSUME poll.pc = "loop", NEW i \in TxOuts, i \in poll.results
          PROVE  born'[i] >= highest_processed_block_count
      <4>1. Gotten(i)
        BY <1>1, <3>4 DEF WalletInv, Pending
      <4>2. born'[i] = born[i]
        BY <1>18, <4>1
      <4> QED
        BY <3>1, <3>4, <4>2 DEF NoRaceInv
    <3>5. ASSUME NEW i \in TxOuts, born'[i] # NotYet,
                 born'[i] < highest_processed_block_count
          PROVE  Gotten(i)
      <4>1. born'[i] = born[i]
        BY <1>6, <1>13, <3>5
      <4> QED
        BY <3>1, <3>5, <4>1 DEF NoRaceInv
    <3> QED
      BY <1>2, <1>16, <3>2, <3>3, <3>4, <3>5 DEF NoRaceInv
  <2> QED
    BY <1>1, <1>2, <2>1, <2>2 DEF PollInv
<1>21. WalletInv'
  <2> SUFFICES ASSUME NEW i \in TxOuts
      PROVE  /\ Gotten(i) <=> owned_tx_outs[i].status # "not_owned" \/ i \in Pending
             /\ i \in Pending \/ owned_tx_outs[i].status = "not_owned" =>
                  owned_tx_outs[i] = NotOwned
             /\ owned_tx_outs[i].status = "not_spent" =>
                  /\ born'[i] < owned_tx_outs[i].at /\ owned_tx_outs[i].at <= height'
                  /\ ~SpentBefore(i, owned_tx_outs[i].at)'
                  /\ key_image_data_completeness <= owned_tx_outs[i].at
             /\ owned_tx_outs[i].status = "spent" =>
                  spent'[i] # NotYet /\ owned_tx_outs[i].at = spent'[i]
    BY <1>2, <1>16, <1>19 DEF WalletInv
  <2>1. /\ Gotten(i) <=> owned_tx_outs[i].status # "not_owned" \/ i \in Pending
        /\ i \in Pending \/ owned_tx_outs[i].status = "not_owned" =>
             owned_tx_outs[i] = NotOwned
        /\ owned_tx_outs[i].status = "not_spent" =>
             /\ born[i] < owned_tx_outs[i].at /\ owned_tx_outs[i].at <= height
             /\ ~SpentBefore(i, owned_tx_outs[i].at)
             /\ key_image_data_completeness <= owned_tx_outs[i].at
        /\ owned_tx_outs[i].status = "spent" =>
             spent[i] # NotYet /\ owned_tx_outs[i].at = spent[i]
    BY <1>1 DEF WalletInv
  <2>2. owned_tx_outs[i].at \in Nat
    BY <1>1, PollingConstants DEF TypeOK
  <2>3. ASSUME owned_tx_outs[i].status = "not_spent"
        PROVE  /\ born'[i] < owned_tx_outs[i].at /\ owned_tx_outs[i].at <= height'
               /\ ~SpentBefore(i, owned_tx_outs[i].at)'
    <3>1. born'[i] = born[i]
      BY <1>18, <2>1, <2>3
    <3>2. born'[i] < owned_tx_outs[i].at /\ owned_tx_outs[i].at <= height'
      BY <1>3, <1>6, <2>1, <2>2, <2>3, <3>1
    <3>3. ~(spent'[i] # NotYet /\ spent'[i] < owned_tx_outs[i].at)
      BY <1>6, <1>14, <2>1, <2>2, <2>3 DEF SpentBefore
    <3> QED
      BY <1>2, <3>2, <3>3 DEF SpentBefore
  <2> QED
    BY <1>14, <2>1, <2>3, Zenon
<1>22. height' = height + 1 /\ height' <= MaxHeight
  <2>1. MaxHeight \in Nat /\ height \in Nat
    BY <1>6, PollingConstants
  <2> QED
    BY <1>3, <2>1
<1> QED
  BY <1>11, <1>12, <1>15, <1>17, <1>20, <1>21, <1>22

-----------------------------------------------------------------------------
(* Ingest announces an RNG and publishes the next block. *)

\* A new RNG is announced to the user.
LEMMA NewRngPreserves ==
  ASSUME Inv, NewRngEvent, EventRace \/ poll.pc # "first",
         UNCHANGED <<rng_set_vars, poll, wallet_vars, tx>>
  PROVE  Inv'
<1>1. /\ TypeOK /\ PollingTypeOK /\ LedgerInv /\ DbInv /\ RngInv /\ PollInv
      /\ WalletInv /\ TxInv
  BY DEF Inv, TypeOK
<1>2. /\ height' = height /\ born' = born /\ spent' = spent
      /\ scanned' = scanned /\ rng' = rng /\ poll' = poll /\ user_rngs' = user_rngs
      /\ highest_processed_block_count' = highest_processed_block_count
      /\ next_start_from_user_event_id' = next_start_from_user_event_id
      /\ owned_tx_outs' = owned_tx_outs
      /\ key_image_data_completeness' = key_image_data_completeness /\ tx' = tx
  BY DEF NewRngEvent, ledger_vars, rng_set_vars, wallet_vars
<1>3. PICK q \in Rngs : events' = Append(events, q)
  BY DEF NewRngEvent
<1>4. /\ events \in Seq(Rngs) /\ DOMAIN events = 1..Len(events) /\ Len(events) \in Nat
      /\ next_start_from_user_event_id \in Nat
      /\ next_start_from_user_event_id <= Len(events)
      /\ poll.seen \in Nat /\ poll.seen <= Len(events)
  BY <1>1, Typing, Zenon
<1>5. /\ events' \in Seq(Rngs) /\ Len(events') = Len(events) + 1
      /\ \A n \in 1..Len(events) : events'[n] = events[n] /\ n \in DOMAIN events'
  BY <1>3, <1>4
<1>6. TypeOK'
  <2>1. next_start_from_user_event_id' \in 0..Len(events')
    BY <1>2, <1>4, <1>5
  <2>2. poll' \in [pc: {"idle", "first", "loop", "returned"}, seen: 0..Len(events'),
                 count: 0..scanned', multiplier: 2..MAX_MULTIPLIER,
                 dead: SUBSET Rngs, results: SUBSET TxOuts]
    <3>1. 0..Len(events) \subseteq 0..Len(events')
      BY <1>4, <1>5
    <3>2. poll \in [pc: {"idle", "first", "loop", "returned"}, seen: 0..Len(events),
                    count: 0..scanned, multiplier: 2..MAX_MULTIPLIER,
                    dead: SUBSET Rngs, results: SUBSET TxOuts]
      BY <1>1 DEF PollingTypeOK
    <3> QED
      BY <1>2, <3>1, <3>2
  <2>3. PollingTypeOK'
    BY <1>1, <1>2, <1>5, <2>1, <2>2, Zenon DEF PollingTypeOK
  <2> QED
    BY <1>1, <1>2, <2>3, Zenon DEF TypeOK
<1>7. LedgerInv' /\ TxInv'
  BY <1>1, <1>2 DEF LedgerInv, TxInv
<1>8. DbInv'
  <2>1. \A i \in TxOuts :
        /\ rng[i] # NoRng <=> born[i] # NotYet /\ born[i] < scanned
        /\ rng[i] # NoRng => \E n \in DOMAIN events : events[n] = rng[i]
    BY <1>1 DEF DbInv
  <2>2. \A i \in TxOuts : rng[i] # NoRng => \E n \in DOMAIN events' : events'[n] = rng[i]
    BY <1>4, <1>5, <2>1
  <2> QED
    BY <1>2, <2>1, <2>2 DEF DbInv
<1>9. Known' = Known /\ (\A i : Gotten(i)' <=> Gotten(i)) /\ (\A r : Pub(r)' = Pub(r))
  BY <1>2, Same, Zenon
<1>10. RngInv'
  <2>1. \A n \in 1..next_start_from_user_event_id : events'[n] = events[n]
    BY <1>4, <1>5
  <2> QED
    BY <1>1, <1>2, <1>9, <2>1 DEF RngInv
<1>11. PollInv'
  <2>1. poll.pc = "loop" => DeadInv'
    BY <1>1, <1>2, <1>9 DEF PollInv, DeadInv
  <2>2. ~EventRace => NoRaceInv'
    <3> SUFFICES ASSUME ~EventRace PROVE NoRaceInv'
      OBVIOUS
    <3>1. NoRaceInv /\ poll.pc # "first"
      BY <1>1 DEF PollInv
    <3> QED
      BY <1>2, <1>9, <3>1 DEF NoRaceInv
  <2> QED
    BY <1>1, <1>2, <2>1, <2>2 DEF PollInv
<1>12. WalletInv'
  <2>1. Pending' = Pending
    BY <1>2 DEF Pending
  <2>2. \A i, h : SpentBefore(i, h)' <=> SpentBefore(i, h)
    BY <1>2 DEF SpentBefore
  <2> QED
    BY <1>1, <1>2, <1>9, <2>1, <2>2 DEF WalletInv, SpentBefore
<1> QED
  BY <1>6, <1>7, <1>8, <1>10, <1>11, <1>12 DEF Inv

\* The ingest servers publish the next block of the ledger.
LEMMA PublishPreserves ==
  ASSUME Inv, PublishBlock, EventRace \/ poll.pc # "first",
         UNCHANGED <<rng_set_vars, poll, wallet_vars, tx>>
  PROVE  Inv'
<1>1. /\ TypeOK /\ PollingTypeOK /\ LedgerInv /\ DbInv /\ RngInv /\ PollInv
      /\ WalletInv /\ TxInv
  BY DEF Inv, TypeOK
<1>2. /\ height' = height /\ born' = born /\ spent' = spent /\ events' = events
      /\ poll' = poll /\ user_rngs' = user_rngs
      /\ highest_processed_block_count' = highest_processed_block_count
      /\ next_start_from_user_event_id' = next_start_from_user_event_id
      /\ owned_tx_outs' = owned_tx_outs
      /\ key_image_data_completeness' = key_image_data_completeness /\ tx' = tx
  BY DEF PublishBlock, ledger_vars, rng_set_vars, wallet_vars
<1>3. scanned < height /\ scanned' = scanned + 1
  BY DEF PublishBlock
<1>4. PICK f \in [BornIn(scanned) -> {events[n] : n \in DOMAIN events}] :
         rng' = [i \in TxOuts |-> IF i \in BornIn(scanned) THEN f[i] ELSE rng[i]]
  BY DEF PublishBlock
<1>5. /\ height \in Nat /\ scanned \in Nat
      /\ highest_processed_block_count \in Nat /\ highest_processed_block_count <= scanned
      /\ poll.count \in Nat /\ poll.count <= scanned
      /\ events \in Seq(Rngs) /\ DOMAIN events = 1..Len(events)
  BY <1>1, Typing, Zenon
<1>6. \A i \in TxOuts : /\ i \in Nat /\ rng[i] \in Rngs \cup {NoRng}
                        /\ born[i] \in Int /\ (born[i] = NotYet \/ born[i] \in Nat)
  BY <1>1, Typing, Zenon
<1>7. \A i \in TxOuts :
        /\ rng[i] # NoRng <=> born[i] # NotYet /\ born[i] < scanned
        /\ rng[i] # NoRng => \E n \in DOMAIN events : events[n] = rng[i]
  BY <1>1 DEF DbInv
<1>8. \A i \in TxOuts :
        /\ born[i] # scanned => rng'[i] = rng[i]
        /\ born[i] = scanned => /\ rng[i] = NoRng /\ rng'[i] \in Rngs
                                /\ \E n \in DOMAIN events : events[n] = rng'[i]
  <2> SUFFICES ASSUME NEW i \in TxOuts
               PROVE  /\ born[i] # scanned => rng'[i] = rng[i]
                      /\ born[i] = scanned =>
                           /\ rng[i] = NoRng /\ rng'[i] \in Rngs
                           /\ \E n \in DOMAIN events : events[n] = rng'[i]
    OBVIOUS
  <2>1. rng'[i] = IF born[i] = scanned THEN f[i] ELSE rng[i]
    BY <1>4 DEF BornIn
  <2>2. ASSUME born[i] = scanned
        PROVE  rng[i] = NoRng /\ \E n \in DOMAIN events : events[n] = f[i]
    <3>1. f[i] \in {events[n] : n \in DOMAIN events}
      BY <1>4, <2>2 DEF BornIn
    <3> QED
      BY <1>5, <1>7, <2>2, <3>1
  <2>3. \A n \in DOMAIN events : events[n] \in Rngs
    BY <1>5
  <2> QED
    BY <2>1, <2>2, <2>3
<1>9. \A i \in TxOuts : rng[i] \in Rngs => rng'[i] = rng[i] /\ rng[i] # NoRng
  BY <1>8, PollingConstants
<1>10. TypeOK'
  <2>1. scanned' \in 0..height' /\ 0..scanned \subseteq 0..scanned'
    BY <1>2, <1>3, <1>5
  <2>2. rng' \in [TxOuts -> Rngs \cup {NoRng}]
    <3>1. \A i \in TxOuts : rng'[i] \in Rngs \cup {NoRng}
      BY <1>6, <1>8
    <3>2. rng' = [i \in TxOuts |-> rng'[i]]
      BY <1>4
    <3> QED
      BY <3>1, <3>2
  <2>3. poll' \in [pc: {"idle", "first", "loop", "returned"}, seen: 0..Len(events'),
                 count: 0..scanned', multiplier: 2..MAX_MULTIPLIER,
                 dead: SUBSET Rngs, results: SUBSET TxOuts]
    <3>1. poll \in [pc: {"idle", "first", "loop", "returned"}, seen: 0..Len(events),
                    count: 0..scanned, multiplier: 2..MAX_MULTIPLIER,
                    dead: SUBSET Rngs, results: SUBSET TxOuts]
      BY <1>1 DEF PollingTypeOK
    <3> QED
      BY <1>2, <2>1, <3>1
  <2>4. highest_processed_block_count' \in 0..scanned'
    BY <1>1, <1>2, <2>1, Zenon DEF PollingTypeOK
  <2>5. PollingTypeOK'
    BY <1>1, <1>2, <2>1, <2>2, <2>3, <2>4, Zenon DEF PollingTypeOK
  <2> QED
    BY <1>1, <1>2, <2>5, Zenon DEF TypeOK
<1>11. LedgerInv' /\ TxInv'
  BY <1>1, <1>2 DEF LedgerInv, TxInv
<1>12. DbInv'
  <2> SUFFICES ASSUME NEW i \in TxOuts
               PROVE  /\ rng'[i] # NoRng <=> born[i] # NotYet /\ born[i] < scanned'
                      /\ rng'[i] # NoRng => \E n \in DOMAIN events : events[n] = rng'[i]
    BY <1>2 DEF DbInv
  <2>1. CASE born[i] = scanned
    <3>1. rng'[i] # NoRng
      BY <1>8, <2>1, PollingConstants
    <3>2. born[i] # NotYet /\ born[i] < scanned'
      BY <1>3, <1>5, <2>1 DEF NotYet
    <3> QED
      BY <1>8, <2>1, <3>1, <3>2
  <2>2. CASE born[i] # scanned
    <3>1. born[i] < scanned' <=> born[i] < scanned
      BY <1>3, <1>5, <1>6, <2>2
    <3> QED
      BY <1>7, <1>8, <2>2, <3>1
  <2> QED
    BY <2>1, <2>2
<1>13. Known' = Known
  BY <1>2 DEF Known
<1>14. ASSUME NEW r \in Rngs
       PROVE  /\ Pub(r) \subseteq Pub(r)'
              /\ \A i \in Pub(r) : Rank(Pub(r)', i) = Rank(Pub(r), i)
              /\ \A i \in Pub(r)' \ Pub(r) : /\ Cardinality(Pub(r)) <= Rank(Pub(r)', i)
                                             /\ born[i] = scanned
  <2> DEFINE P == Pub(r)
             N == {i \in TxOuts : born[i] = scanned /\ rng'[i] = r}
  <2>1. P \subseteq Nat /\ N \subseteq Nat /\ IsFiniteSet(P) /\ IsFiniteSet(N)
    <3>1. P \in SUBSET TxOuts /\ N \in SUBSET TxOuts
      BY DEF Pub
    <3> HIDE DEF P, N
    <3> QED
      BY <3>1, FS_Subset, PollingConstants, Zenon
  <2>2. Pub(r)' = P \cup N
    BY <1>8, <1>9 DEF Pub
  <2>3. ASSUME NEW i \in P, NEW j \in N PROVE i < j
    <3>1. i \in TxOuts /\ j \in TxOuts /\ rng[i] = r /\ born[j] = scanned
      BY DEF Pub
    <3>2. born[i] # NotYet /\ born[i] < scanned
      BY <1>7, <1>9, <3>1
    <3>3. j < i => born[j] <= born[i]
      BY <1>1, <3>1, <3>2 DEF LedgerInv
    <3> QED
      BY <1>5, <1>6, <3>1, <3>2, <3>3
  <2>4. /\ \A i \in P : Rank(P \cup N, i) = Rank(P, i)
        /\ \A i \in N : Cardinality(P) <= Rank(P \cup N, i)
    <3> HIDE DEF P, N
    <3> QED
      BY <2>1, <2>3, PublishRanks, Zenon
  <2>5. \A i \in N : born[i] = scanned
    OBVIOUS
  <2> HIDE DEF N
  <2> QED
    BY <2>2, <2>4, <2>5
<1>15. ASSUME NEW r \in Rngs, r \in Known
       PROVE  {i \in Pub(r)' : Rank(Pub(r)', i) < user_rngs[r]}
                = {i \in Pub(r) : Rank(Pub(r), i) < user_rngs[r]}
  <2> DEFINE G == {i \in Pub(r) : Rank(Pub(r), i) < user_rngs[r]}
  <2>1. Cardinality(G) = user_rngs[r]
    BY <1>1, <1>15 DEF RngInv
  <2>2. /\ IsFiniteSet(Pub(r)) /\ Cardinality(Pub(r)) \in Nat
        /\ G \in SUBSET Pub(r)
    <3>1. Pub(r) \in SUBSET TxOuts
      BY DEF Pub
    <3>2. IsFiniteSet(Pub(r))
      BY <3>1, FS_Subset, PollingConstants, Zenon
    <3> QED
      BY <3>2, FS_CardinalityType, Zenon
  <2>3. Cardinality(G) <= Cardinality(Pub(r))
    <3> HIDE DEF G
    <3> QED
      BY <2>2, FS_Subset, Zenon
  <2>4. IsFiniteSet(Pub(r)')
    <3>1. Pub(r)' \in SUBSET TxOuts
      BY DEF Pub
    <3> QED
      BY <3>1, FS_Subset, PollingConstants, Zenon
  <2>5. \A i : Rank(Pub(r)', i) \in Nat
    BY <2>4, RankType, Zenon
  <2>6. user_rngs[r] \in Int
    BY <1>1, Typing, Zenon
  <2>7. \A i \in Pub(r)' \ Pub(r) : ~(Rank(Pub(r)', i) < user_rngs[r])
    <3> HIDE DEF G
    <3> QED
      BY <1>14, <2>1, <2>2, <2>3, <2>5, <2>6
  <2> QED
    BY <1>14, <2>7
<1>16. RngInv'
  BY <1>1, <1>2, <1>13, <1>15, ZenonT(60) DEF RngInv
<1>17. \A i \in TxOuts : Gotten(i)' <=> Gotten(i)
  <2> SUFFICES ASSUME NEW i \in TxOuts PROVE Gotten(i)' <=> Gotten(i)
    OBVIOUS
  <2>1. PICK q : q = rng[i]
    OBVIOUS
  <2>2. PICK r : r = rng'[i]
    OBVIOUS
  <2>3. /\ IndexOf(i) = Rank(Pub(q), i) /\ i \in Pub(q)
        /\ IndexOf(i)' = Rank(Pub(r)', i) /\ i \in Pub(r)'
    <3>1. {j \in TxOuts : rng[j] = rng[i] /\ j < i} = {j \in Pub(q) : j < i}
      BY <2>1 DEF Pub
    <3>2. {j \in TxOuts : rng'[j] = rng'[i] /\ j < i} = {j \in Pub(r)' : j < i}
      BY <2>2 DEF Pub
    <3> QED
      BY <2>1, <2>2, <3>1, <3>2 DEF IndexOf, Rank, Pub
  <2>4. CASE q \in Known
    <3>1. r = q /\ q \in Rngs
      BY <1>9, <2>1, <2>2, <2>4 DEF Known
    <3>2. Rank(Pub(r)', i) = Rank(Pub(q), i)
      BY <1>14, <2>3, <3>1
    <3> QED
      BY <1>2, <1>13, <2>1, <2>2, <2>3, <3>1, <3>2 DEF Gotten
  <2>5. CASE q \notin Known /\ r \in Known
    <3>1. r # q /\ r \in Rngs
      BY <2>5 DEF Known
    <3>2. i \in Pub(r)' /\ i \notin Pub(r)
      BY <2>1, <2>3, <3>1 DEF Pub
    <3>3. ~(Rank(Pub(r)', i) < user_rngs[r])
      BY <1>15, <2>5, <3>1, <3>2
    <3> QED
      BY <1>2, <2>1, <2>2, <2>3, <2>5, <3>3 DEF Gotten
  <2>6. CASE q \notin Known /\ r \notin Known
    BY <1>13, <2>1, <2>2, <2>6 DEF Gotten
  <2> QED
    BY <2>4, <2>5, <2>6
<1>18. Pending' = Pending
  BY <1>2 DEF Pending
<1>19. PollInv'
  <2>1. ASSUME poll.pc = "loop" PROVE DeadInv'
    <3>1. DeadInv
      BY <1>1, <2>1 DEF PollInv
    <3>2. ASSUME NEW i \in TxOuts, rng'[i] \in poll.dead, born[i] < poll.count
          PROVE  Gotten(i)
      <4>1. rng'[i] = rng[i]
        BY <1>5, <1>6, <1>8, <3>2
      <4> QED
        BY <3>1, <3>2, <4>1 DEF DeadInv
    <3> QED
      BY <1>2, <1>13, <1>17, <3>1, <3>2 DEF DeadInv
  <2>2. ASSUME ~EventRace PROVE NoRaceInv'
    <3>1. NoRaceInv
      BY <1>1, <2>2 DEF PollInv
    <3>2. ASSUME poll.pc = "loop", NEW i \in TxOuts, born[i] # NotYet, born[i] < poll.count
          PROVE  rng'[i] \in Known
      <4>1. rng'[i] = rng[i]
        BY <1>5, <1>6, <1>8, <3>2
      <4> QED
        BY <3>1, <3>2, <4>1 DEF NoRaceInv
    <3> QED
      BY <1>2, <1>13, <1>17, <3>1, <3>2 DEF NoRaceInv
  <2> QED
    BY <1>1, <1>2, <2>1, <2>2 DEF PollInv
<1>20. WalletInv'
  <2>1. \A i, h : SpentBefore(i, h)' <=> SpentBefore(i, h)
    BY <1>2 DEF SpentBefore
  <2> QED
    BY <1>1, <1>2, <1>17, <1>18, <2>1 DEF WalletInv, SpentBefore
<1> QED
  BY <1>10, <1>11, <1>12, <1>16, <1>19, <1>20 DEF Inv

-----------------------------------------------------------------------------
(* Transactions. *)

\* A step that leaves all but the transaction alone.
LEMMA TxOnly ==
  ASSUME Inv, UNCHANGED <<polling_vars, wallet_vars>>,
         tx' \in [inputs: SUBSET TxOuts, tombstone: Nat, landed: Nat \cup {NotYet},
                  told: {"unknown", "appeared", "expired"}],
         TxInv'
  PROVE  Inv'
<1>1. /\ TypeOK /\ PollingTypeOK /\ LedgerInv /\ DbInv /\ RngInv /\ PollInv /\ WalletInv
  BY DEF Inv, TypeOK
<1>2. /\ height' = height /\ born' = born /\ spent' = spent /\ scanned' = scanned
      /\ rng' = rng /\ events' = events /\ poll' = poll /\ user_rngs' = user_rngs
      /\ highest_processed_block_count' = highest_processed_block_count
      /\ next_start_from_user_event_id' = next_start_from_user_event_id
      /\ owned_tx_outs' = owned_tx_outs
      /\ key_image_data_completeness' = key_image_data_completeness
  BY DEF polling_vars, ledger_vars, db_vars, rng_set_vars, wallet_vars
<1>3. Known' = Known /\ (\A i : Gotten(i)' <=> Gotten(i)) /\ (\A r : Pub(r)' = Pub(r))
  BY <1>2, Same, Zenon
<1>4. TypeOK'
  <2>1. PollingTypeOK'
    BY <1>1, <1>2, Zenon DEF PollingTypeOK
  <2> QED
    BY <1>1, <1>2, <2>1, Zenon DEF TypeOK
<1>5. LedgerInv' /\ DbInv' /\ RngInv'
  BY <1>1, <1>2, <1>3 DEF LedgerInv, DbInv, RngInv
<1>6. PollInv'
  BY <1>1, <1>2, <1>3 DEF PollInv, DeadInv, NoRaceInv
<1>7. WalletInv'
  <2>1. Pending' = Pending
    BY <1>2 DEF Pending
  <2> QED
    BY <1>1, <1>2, <1>3, <2>1 DEF WalletInv, SpentBefore
<1> QED
  BY <1>4, <1>5, <1>6, <1>7 DEF Inv

\* send_transaction and is_transaction_present, and their failure.
LEMMA TxStepPreserves ==
  ASSUME Inv, SendTransaction \/ IsTransactionPresent \/ LookupFails
  PROVE  Inv'
<1>1. TypeOK /\ TxInv
  BY DEF Inv
<1>2. /\ tx \in [inputs: SUBSET TxOuts, tombstone: Nat, landed: Nat \cup {NotYet},
                 told: {"unknown", "appeared", "expired"}]
      /\ height \in Nat
  BY <1>1, Typing DEF TypeOK
<1>3. UNCHANGED <<polling_vars, wallet_vars>> /\ height' = height
  BY Zenon DEF SendTransaction, IsTransactionPresent, LookupFails, polling_vars, ledger_vars
<1>4. CASE SendTransaction
  <2>1. PICK inputs \in SUBSET get_unspent_txos, n \in 0..height :
           tx' = [NoTx EXCEPT !.inputs = inputs, !.tombstone = n + NEW_TX_BLOCK_ATTEMPTS]
    BY <1>4, Zenon DEF SendTransaction
  <2>2. /\ inputs \subseteq TxOuts /\ n + NEW_TX_BLOCK_ATTEMPTS \in Nat
    BY <1>2, PaykitConstants DEF get_unspent_txos, Owned
  <2>3. tx' \in [inputs: SUBSET TxOuts, tombstone: Nat, landed: Nat \cup {NotYet},
                 told: {"unknown", "appeared", "expired"}]
    BY <2>1, <2>2, Zenon DEF NoTx
  <2>4. TxInv'
    BY <2>1 DEF TxInv, NoTx
  <2> QED
    BY <1>3, <2>3, <2>4, TxOnly
<1>5. CASE IsTransactionPresent
  <2>a. PICK n \in 0..height : \E h \in n..height :
         tx' = [tx EXCEPT !.told =
                  IF tx.landed # NotYet /\ tx.landed < h THEN "appeared"
                  ELSE IF Expired(n) THEN "expired" ELSE "unknown"]
    BY <1>5 DEF IsTransactionPresent
  <2>1. PICK h \in n..height :
         tx' = [tx EXCEPT !.told =
                  IF tx.landed # NotYet /\ tx.landed < h THEN "appeared"
                  ELSE IF Expired(n) THEN "expired" ELSE "unknown"]
    BY <2>a
  <2>2. tx' \in [inputs: SUBSET TxOuts, tombstone: Nat, landed: Nat \cup {NotYet},
                 told: {"unknown", "appeared", "expired"}]
    BY <1>2, <2>1
  <2>3. /\ tx'.landed = tx.landed /\ tx'.tombstone = tx.tombstone
        /\ tx'.told = "expired" => ~(tx.landed # NotYet /\ tx.landed < h) /\ n >= tx.tombstone
    BY <1>2, <2>1 DEF Expired
  <2>4. tx.tombstone \in Nat /\ (tx.landed = NotYet \/ tx.landed \in Nat)
    BY <1>2
  <2>5. tx.landed # NotYet => tx.landed < tx.tombstone
    BY <1>1 DEF TxInv
  <2>6. ASSUME tx'.told = "expired" PROVE tx.landed = NotYet /\ tx.tombstone <= height
    BY <1>2, <2>3, <2>4, <2>5, <2>6
  <2>7. TxInv'
    BY <1>3, <2>3, <2>5, <2>6 DEF TxInv
  <2> QED
    BY <1>3, <2>2, <2>7, TxOnly
<1>6. CASE LookupFails
  <2>1. tx' = [tx EXCEPT !.told = "unknown"]
    BY <1>6 DEF LookupFails
  <2>2. tx' \in [inputs: SUBSET TxOuts, tombstone: Nat, landed: Nat \cup {NotYet},
                 told: {"unknown", "appeared", "expired"}]
    BY <1>2, <2>1
  <2>3. TxInv'
    BY <1>1, <1>2, <2>1 DEF TxInv
  <2> QED
    BY <1>3, <2>2, <2>3, TxOnly
<1> QED
  BY <1>4, <1>5, <1>6

\* A block lands, with the transaction or without it.
LEMMA BlockPreserves ==
  ASSUME Inv, TransactionLands \/ OtherBlock
  PROVE  Inv'
<1>1. TypeOK /\ TxInv
  BY DEF Inv
<1>2. /\ tx \in [inputs: SUBSET TxOuts, tombstone: Nat, landed: Nat \cup {NotYet},
                 told: {"unknown", "appeared", "expired"}]
      /\ height \in Nat
  BY <1>1, Typing DEF TypeOK
<1>3. PICK spends \in SUBSET Spendable :
        AppendBlock(spends) /\ UNCHANGED <<db_vars, rng_set_vars, poll, wallet_vars>>
  BY DEF TransactionLands, OtherBlock
<1>4. /\ PollingTypeOK' /\ LedgerInv' /\ DbInv' /\ RngInv' /\ PollInv' /\ WalletInv'
      /\ height' = height + 1
  BY <1>3, AppendPreserves
<1>5. /\ tx' \in [inputs: SUBSET TxOuts, tombstone: Nat, landed: Nat \cup {NotYet},
                  told: {"unknown", "appeared", "expired"}]
      /\ TxInv'
  <2>1. CASE TransactionLands
    <3>1. tx' = [tx EXCEPT !.landed = height] /\ height < tx.tombstone
      BY <2>1 DEF TransactionLands
    <3>2. /\ tx' \in [inputs: SUBSET TxOuts, tombstone: Nat, landed: Nat \cup {NotYet},
                      told: {"unknown", "appeared", "expired"}]
          /\ tx'.landed = height /\ tx'.tombstone = tx.tombstone /\ tx'.told = tx.told
          /\ tx.tombstone \in Nat
      BY <1>2, <3>1
    <3>3. tx.told # "expired"
      BY <1>1, <1>2, <3>1, <3>2 DEF TxInv
    <3> QED
      BY <3>1, <3>2, <3>3 DEF TxInv
  <2>2. CASE OtherBlock
    <3>1. tx' = tx
      BY <2>2 DEF OtherBlock
    <3>2. tx.tombstone \in Nat
      BY <1>2
    <3> QED
      BY <1>1, <1>2, <1>4, <3>1, <3>2 DEF TxInv
  <2> QED
    BY <2>1, <2>2
<1>6. TypeOK'
  <2>1. /\ owned_tx_outs' = owned_tx_outs
        /\ key_image_data_completeness' = key_image_data_completeness
    BY <1>3 DEF wallet_vars
  <2> QED
    BY <1>1, <1>4, <1>5, <2>1, Zenon DEF TypeOK
<1> QED
  BY <1>4, <1>5, <1>6 DEF Inv

-----------------------------------------------------------------------------
(* Key images. *)

\* A step that ends a poll leaves the rest of the polling state alone.
LEMMA PollOver ==
  ASSUME Inv, poll.pc = "returned", poll' = NoPoll,
         UNCHANGED <<ledger_vars, db_vars, rng_set_vars, tx>>
  PROVE  /\ PollingTypeOK' /\ LedgerInv' /\ DbInv' /\ RngInv' /\ PollInv' /\ TxInv'
         /\ Pending = {} /\ Pending' = {}
         /\ \A i : Gotten(i)' <=> Gotten(i)
<1>1. /\ TypeOK /\ PollingTypeOK /\ LedgerInv /\ DbInv /\ RngInv /\ PollInv /\ TxInv
  BY DEF Inv, TypeOK
<1>2. /\ height' = height /\ born' = born /\ spent' = spent /\ scanned' = scanned
      /\ rng' = rng /\ events' = events /\ user_rngs' = user_rngs /\ tx' = tx
      /\ highest_processed_block_count' = highest_processed_block_count
      /\ next_start_from_user_event_id' = next_start_from_user_event_id
  BY DEF ledger_vars, db_vars, rng_set_vars
<1>3. Known' = Known /\ (\A i : Gotten(i)' <=> Gotten(i)) /\ (\A r : Pub(r)' = Pub(r))
  BY <1>2, Same, Zenon
<1>4. PollingTypeOK'
  <2>1. scanned \in Nat /\ Len(events) \in Nat /\ MAX_MULTIPLIER \in Nat /\ MAX_MULTIPLIER >= 2
    BY <1>1, Typing, PollingConstants
  <2>2. 0 \in 0..Len(events) /\ 0 \in 0..scanned /\ 2 \in 2..MAX_MULTIPLIER
    BY <2>1
  <2>3. poll' \in [pc: {"idle", "first", "loop", "returned"}, seen: 0..Len(events),
                   count: 0..scanned, multiplier: 2..MAX_MULTIPLIER,
                   dead: SUBSET Rngs, results: SUBSET TxOuts]
    BY <2>2 DEF NoPoll
  <2> QED
    BY <1>1, <1>2, <2>3, Zenon DEF PollingTypeOK
<1>5. LedgerInv' /\ DbInv' /\ RngInv' /\ TxInv'
  BY <1>1, <1>2, <1>3 DEF LedgerInv, DbInv, RngInv, TxInv
<1>6. poll'.pc = "idle" /\ poll'.results = {} /\ poll'.dead = {}
  BY DEF NoPoll
<1>7. PollInv'
  BY <1>1, <1>2, <1>3, <1>6 DEF PollInv, NoRaceInv
<1> QED
  BY <1>3, <1>4, <1>5, <1>6, <1>7 DEF Pending

\* The request for the key images fails.
LEMMA KeyImagesFailPreserves ==
  ASSUME Inv, KeyImagesFail
  PROVE  Inv'
<1>1. TypeOK /\ WalletInv
  BY DEF Inv
<1>2. /\ PollingTypeOK' /\ LedgerInv' /\ DbInv' /\ RngInv' /\ PollInv' /\ TxInv'
      /\ Pending = {} /\ Pending' = {}
      /\ \A i : Gotten(i)' <=> Gotten(i)
  BY PollOver DEF KeyImagesFail
<1>3. /\ born' = born /\ spent' = spent /\ height' = height /\ tx' = tx
      /\ owned_tx_outs' = owned_tx_outs
      /\ key_image_data_completeness' = key_image_data_completeness
  BY DEF KeyImagesFail, ledger_vars, wallet_vars
<1>4. TypeOK'
  BY <1>1, <1>2, <1>3, Zenon DEF TypeOK
<1>5. WalletInv'
  BY <1>1, <1>2, <1>3 DEF WalletInv, SpentBefore
<1> QED
  BY <1>2, <1>4, <1>5 DEF Inv

\* Answers about key images never lower the completeness.
LEMMA KeyImagesPreserve ==
  ASSUME Inv, PollForKeyImages
  PROVE  Inv' /\ key_image_data_completeness <= key_image_data_completeness'
<1>1. TypeOK /\ LedgerInv /\ WalletInv
  BY DEF Inv
<1>2. /\ PollingTypeOK' /\ LedgerInv' /\ DbInv' /\ RngInv' /\ PollInv' /\ TxInv'
      /\ Pending = {} /\ Pending' = {}
      /\ \A i : Gotten(i)' <=> Gotten(i)
  BY PollOver DEF PollForKeyImages
<1>3. born' = born /\ spent' = spent /\ height' = height /\ tx' = tx
  BY DEF PollForKeyImages, ledger_vars
<1>4. PICK n \in 0..height : \E seen \in [Owned("not_spent") -> {n, height}] :
         \E failed \in SUBSET Owned("not_spent") :
           owned_tx_outs' = [i \in TxOuts |->
                               IF i \in Owned("not_spent") \ failed
                               THEN Checked(i, n, seen[i]) ELSE owned_tx_outs[i]]
           /\ key_image_data_completeness' = Completeness(owned_tx_outs', n)
  BY DEF PollForKeyImages
<1>5. PICK seen \in [Owned("not_spent") -> {n, height}] :
         \E failed \in SUBSET Owned("not_spent") :
           owned_tx_outs' = [i \in TxOuts |->
                               IF i \in Owned("not_spent") \ failed
                               THEN Checked(i, n, seen[i]) ELSE owned_tx_outs[i]]
           /\ key_image_data_completeness' = Completeness(owned_tx_outs', n)
  BY <1>4
<1>6. PICK failed \in SUBSET Owned("not_spent") :
           owned_tx_outs' = [i \in TxOuts |->
                               IF i \in Owned("not_spent") \ failed
                               THEN Checked(i, n, seen[i]) ELSE owned_tx_outs[i]]
           /\ key_image_data_completeness' = Completeness(owned_tx_outs', n)
  BY <1>5
<1>7. /\ height \in Nat /\ height <= MaxHeight /\ MaxHeight \in Nat /\ n \in Nat /\ n <= height
      /\ BLOCK_COUNT_MAX \in Nat /\ BLOCK_COUNT_MAX > MaxHeight
  <2>1. height \in Nat /\ height <= MaxHeight
    BY <1>1, Typing, Zenon
  <2> QED
    BY <1>4, <2>1, PollingConstants, PaykitConstants
<1>8. \A i \in TxOuts :
        /\ spent[i] \in Int /\ (spent[i] = NotYet \/ spent[i] \in Nat) /\ spent[i] < height
        /\ born[i] \in Int
  <2>1. \A i \in TxOuts :
        /\ spent[i] \in Int /\ (spent[i] = NotYet \/ spent[i] \in Nat) /\ born[i] \in Int
    BY <1>1, Typing, Zenon
  <2> QED
    BY <1>1, <2>1 DEF LedgerInv
<1>9. \A i \in TxOuts :
        /\ owned_tx_outs[i].at \in Nat /\ owned_tx_outs[i].at <= MaxHeight
        /\ owned_tx_outs[i].status \in {"not_owned", "not_spent", "spent"}
        /\ owned_tx_outs[i] \in [status: {"not_owned", "not_spent", "spent"}, at: 0..MaxHeight]
  BY <1>1, <1>7 DEF TypeOK
<1>10. /\ key_image_data_completeness \in Nat
       /\ key_image_data_completeness <= BLOCK_COUNT_MAX
  BY <1>1, <1>7 DEF TypeOK
<1> DEFINE o == owned_tx_outs
           Asked(i) == i \in Owned("not_spent") \ failed
<1>11. \A i \in TxOuts : o'[i] = IF Asked(i) THEN Checked(i, n, seen[i]) ELSE o[i]
  BY <1>6
<1>12. ASSUME NEW i \in TxOuts, Asked(i)
       PROVE  /\ o[i].status = "not_spent" /\ seen[i] \in Nat /\ n <= seen[i]
              /\ seen[i] <= height
              /\ \/ SpentBefore(i, seen[i]) /\ o'[i] = SpentAt(spent[i])
                 \/ /\ ~SpentBefore(i, seen[i])
                    /\ o'[i] = NotSpent(IF o[i].at <= n THEN n ELSE o[i].at)
  <2>1. o[i].status = "not_spent" /\ seen[i] \in {n, height}
    BY <1>5, <1>12 DEF Owned
  <2>2. Max({o[i].at, n}) = IF o[i].at <= n THEN n ELSE o[i].at
    BY <1>7, <1>9, MaxOfTwo
  <2> QED
    BY <1>7, <1>11, <1>12, <2>1, <2>2 DEF Checked
<1>13. ASSUME NEW i \in TxOuts
       PROVE  /\ o[i].status = "not_spent" =>
                  /\ born[i] < o[i].at /\ o[i].at <= height
                  /\ ~SpentBefore(i, o[i].at)
                  /\ key_image_data_completeness <= o[i].at
              /\ o[i].status = "spent" => spent[i] # NotYet /\ o[i].at = spent[i]
              /\ Gotten(i) <=> o[i].status # "not_owned"
              /\ o[i].status = "not_owned" => o[i] = NotOwned
  BY <1>1, <1>2, ZenonT(60) DEF WalletInv
<1>14. ASSUME NEW i \in TxOuts
       PROVE  /\ o'[i] \in [status: {"not_owned", "not_spent", "spent"}, at: 0..MaxHeight]
              /\ o'[i].status = "not_spent" =>
                  /\ born[i] < o'[i].at /\ o'[i].at <= height
                  /\ ~SpentBefore(i, o'[i].at)
                  /\ key_image_data_completeness <= o'[i].at
              /\ o'[i].status = "spent" => spent[i] # NotYet /\ o'[i].at = spent[i]
              /\ Gotten(i) <=> o'[i].status # "not_owned"
              /\ o'[i].status = "not_owned" => o'[i] = NotOwned
  <2>1. CASE ~Asked(i)
    BY <1>9, <1>11, <1>13, <2>1, ZenonT(60)
  <2>2. CASE Asked(i) /\ SpentBefore(i, seen[i])
    <3>1. o'[i] = SpentAt(spent[i]) /\ o[i].status = "not_spent"
      BY <1>12, <2>2
    <3>2. spent[i] # NotYet /\ spent[i] \in 0..MaxHeight
      BY <1>7, <1>8, <2>2 DEF SpentBefore
    <3> QED
      <4>1. o'[i].status = "spent" /\ o'[i].at = spent[i]
        BY <3>1 DEF SpentAt
      <4>2. o'[i] \in [status: {"not_owned", "not_spent", "spent"}, at: 0..MaxHeight]
        BY <3>1, <3>2 DEF SpentAt
      <4> QED
        BY <1>13, <3>1, <3>2, <4>1, <4>2, ZenonT(60)
  <2>3. CASE Asked(i) /\ ~SpentBefore(i, seen[i])
    <3> DEFINE a == IF o[i].at <= n THEN n ELSE o[i].at
    <3>1. /\ o'[i] = NotSpent(a) /\ o[i].status = "not_spent"
          /\ seen[i] \in Nat /\ n <= seen[i] /\ seen[i] <= height
      BY <1>12, <2>3
    <3>2. /\ born[i] < o[i].at /\ o[i].at <= height /\ ~SpentBefore(i, o[i].at)
          /\ key_image_data_completeness <= o[i].at /\ o[i].at \in Nat
      BY <1>9, <1>13, <3>1
    <3>3. a \in 0..MaxHeight /\ a <= height
      BY <1>7, <3>2
    <3>4. born[i] < a /\ key_image_data_completeness <= a
      BY <1>7, <1>8, <1>10, <3>2
    <3>5. ~SpentBefore(i, a)
      BY <1>7, <1>8, <2>3, <3>1, <3>2 DEF SpentBefore
    <3>6. o'[i].status = "not_spent" /\ o'[i].at = a
      BY <3>1 DEF NotSpent
    <3> HIDE DEF a
    <3> QED
      BY <1>13, <3>1, <3>3, <3>4, <3>5, <3>6 DEF NotSpent
  <2> QED
    BY <2>1, <2>2, <2>3, ZenonT(60)
<1> DEFINE S == {o'[i].at : i \in {j \in TxOuts : o'[j].status = "not_spent"}}
           T == {BLOCK_COUNT_MAX} \cup S
<1>15. key_image_data_completeness' = Min(T)
  BY <1>6 DEF Completeness
<1>16. /\ \A x \in T : x \in Nat /\ x \in 0..MaxHeight \cup {BLOCK_COUNT_MAX}
       /\ \A x \in T : key_image_data_completeness <= x
  <2>1. \A x \in S : x \in 0..MaxHeight /\ key_image_data_completeness <= x
    BY <1>14
  <2> HIDE DEF S
  <2> QED
    BY <1>7, <1>10, <2>1
<1>17. Min(T) \in T /\ \A x \in T : Min(T) <= x
  <2>1. T \subseteq Nat /\ T # {}
    BY <1>16
  <2> HIDE DEF T
  <2> QED
    BY <2>1, MinNatural, Zenon
<1>18. /\ key_image_data_completeness' \in 0..MaxHeight \cup {BLOCK_COUNT_MAX}
       /\ key_image_data_completeness <= key_image_data_completeness'
  <2> HIDE DEF T
  <2> QED
    BY <1>15, <1>16, <1>17
<1>19. \A i \in TxOuts : o'[i].status = "not_spent" => key_image_data_completeness' <= o'[i].at
  BY <1>15, <1>17
<1>20. TypeOK'
  <2>1. owned_tx_outs' \in [TxOuts -> [status: {"not_owned", "not_spent", "spent"},
                                       at: 0..MaxHeight]]
    <3>1. owned_tx_outs' = [i \in TxOuts |-> owned_tx_outs'[i]]
      BY <1>6
    <3> QED
      BY <1>14, <3>1
  <2> QED
    BY <1>1, <1>2, <1>3, <1>18, <2>1, Zenon DEF TypeOK
<1>21. WalletInv'
  <2>1. \A i, h : SpentBefore(i, h)' <=> SpentBefore(i, h)
    BY <1>3 DEF SpentBefore
  <2> QED
    BY <1>2, <1>3, <1>14, <1>19, <2>1 DEF WalletInv, SpentBefore
<1> QED
  BY <1>2, <1>18, <1>20, <1>21 DEF Inv

-----------------------------------------------------------------------------
(* poll_fog_for_txos. *)

\* What the poll returns is consumed: the wallet then holds all that was found.
\* Below the client's block count nothing was, so that the number of blocks of
\* the balance does not go backwards.
LEMMA ConsumePreserves ==
  ASSUME Inv, UNCHANGED <<height, born, spent>>, poll'.pc = "returned",
         poll'.results = Pending, \A i \in TxOuts : Gotten(i)' <=> Gotten(i),
         consume_new_txo_records(poll'.results)
  PROVE  /\ owned_tx_outs' \in [TxOuts -> [status: {"not_owned", "not_spent", "spent"},
                                           at: 0..MaxHeight]]
         /\ key_image_data_completeness' \in 0..MaxHeight \cup {BLOCK_COUNT_MAX}
         /\ WalletInv'
         /\ ~EventRace => \/ key_image_data_completeness' >= key_image_data_completeness
                          \/ key_image_data_completeness' >= highest_processed_block_count
<1>1. TypeOK /\ LedgerInv /\ DbInv /\ PollInv /\ WalletInv
  BY DEF Inv
<1> DEFINE R == Pending
           o == owned_tx_outs
           k == key_image_data_completeness
           S == {born[i] + 1 : i \in R}
           T == {k} \cup S
<1>2. /\ owned_tx_outs' = [i \in TxOuts |-> IF i \in R THEN NotSpent(born[i] + 1)
                                            ELSE owned_tx_outs[i]]
      /\ key_image_data_completeness' = Min(T)
  BY DEF consume_new_txo_records
<1>3. height \in Nat /\ height <= MaxHeight /\ MaxHeight \in Nat /\ BLOCK_COUNT_MAX \in Nat
  <2>1. height \in Nat /\ height <= MaxHeight
    BY <1>1, Typing, Zenon
  <2> QED
    BY <2>1, PollingConstants, PaykitConstants
<1>4. /\ k \in Nat /\ k \in 0..MaxHeight \cup {BLOCK_COUNT_MAX}
      /\ \A i \in TxOuts :
           owned_tx_outs[i] \in [status: {"not_owned", "not_spent", "spent"}, at: 0..MaxHeight]
  BY <1>1, <1>3 DEF TypeOK
<1>5. \A i \in R : i \in TxOuts /\ Gotten(i)
  <2>1. R \subseteq TxOuts
    BY <1>1, Typing DEF Pending
  <2> QED
    BY <1>1, <2>1 DEF WalletInv
<1>6. \A i \in R : /\ born[i] \in Nat /\ born[i] + 1 <= height
                   /\ ~SpentBefore(i, born[i] + 1)
  <2> SUFFICES ASSUME NEW i \in R
               PROVE  born[i] \in Nat /\ born[i] + 1 <= height /\ ~SpentBefore(i, born[i] + 1)
    OBVIOUS
  <2>1. i \in TxOuts /\ rng[i] \in Rngs
    BY <1>5 DEF Gotten, Known
  <2>2. born[i] \in Nat
    BY <1>1, <2>1, FoundIsPublished
  <2>3. /\ born[i] < height
        /\ spent[i] # NotYet => born[i] < spent[i]
    BY <1>1, <2>1 DEF LedgerInv
  <2>4. spent[i] \in Int
    BY <1>1, <2>1, Typing, ZenonT(60)
  <2> QED
    BY <1>3, <2>2, <2>3, <2>4 DEF SpentBefore
<1>7. \A x \in S : x \in 0..MaxHeight /\ \E i \in R : x = born[i] + 1
  BY <1>3, <1>6
<1>8. Min(T) \in T /\ \A x \in T : Min(T) <= x
  <2>1. T \subseteq Nat /\ T # {}
    <3> HIDE DEF S
    <3> QED
      BY <1>4, <1>7
  <2> HIDE DEF T
  <2> QED
    BY <2>1, MinNatural, Zenon
<1>9. k' \in 0..MaxHeight \cup {BLOCK_COUNT_MAX} /\ k' <= k
  BY <1>2, <1>4, <1>7, <1>8
<1>10. \A i \in TxOuts : o'[i] = IF i \in R THEN NotSpent(born[i] + 1) ELSE o[i]
  BY <1>2
<1>11. owned_tx_outs' \in [TxOuts -> [status: {"not_owned", "not_spent", "spent"},
                                      at: 0..MaxHeight]]
  <2>1. \A i \in R : NotSpent(born[i] + 1) \in
           [status: {"not_owned", "not_spent", "spent"}, at: 0..MaxHeight]
    BY <1>3, <1>6 DEF NotSpent
  <2> HIDE DEF R
  <2> QED
    BY <1>2, <1>4, <2>1
<1>12. WalletInv'
  <2> SUFFICES ASSUME NEW i \in TxOuts
      PROVE  /\ Gotten(i) <=> o'[i].status # "not_owned"
             /\ o'[i].status = "not_owned" => o'[i] = NotOwned
             /\ o'[i].status = "not_spent" =>
                  /\ born[i] < o'[i].at /\ o'[i].at <= height
                  /\ ~SpentBefore(i, o'[i].at)
                  /\ k' <= o'[i].at
             /\ o'[i].status = "spent" => spent[i] # NotYet /\ o'[i].at = spent[i]
    <3>1. Pending' = {}
      BY ZenonT(60) DEF Pending
    <3> QED
      BY <3>1, ZenonT(60) DEF WalletInv, SpentBefore
  <2>1. /\ Gotten(i) <=> o[i].status # "not_owned" \/ i \in R
        /\ o[i].status = "not_owned" => o[i] = NotOwned
        /\ o[i].status = "not_spent" =>
             /\ born[i] < o[i].at /\ o[i].at <= height
             /\ ~SpentBefore(i, o[i].at)
             /\ k <= o[i].at
        /\ o[i].status = "spent" => spent[i] # NotYet /\ o[i].at = spent[i]
    BY <1>1, ZenonT(60) DEF WalletInv
  <2>2. CASE i \in R
    <3>a. o'[i] = NotSpent(born[i] + 1)
      BY <1>10, <2>2, ZenonT(60)
    <3>1. o'[i].status = "not_spent" /\ o'[i].at = born[i] + 1
      BY <3>a DEF NotSpent
    <3>2. k' <= born[i] + 1
      BY <1>2, <1>8, <2>2
    <3> QED
      BY <1>5, <1>6, <2>2, <3>1, <3>2
  <2>3. CASE i \notin R
    <3>1. o'[i] = o[i]
      BY <1>10, <2>3
    <3>2. o[i].at \in Nat /\ k' \in Nat /\ k \in Nat
      BY <1>3, <1>4, <1>9
    <3> QED
      BY <1>9, <2>1, <2>3, <3>1, <3>2
  <2> QED
    BY <2>2, <2>3, Zenon
<1>13. ASSUME ~EventRace PROVE k' >= k \/ k' >= highest_processed_block_count
  <2>1. CASE k' = k
    BY <1>4, <2>1
  <2>2. CASE k' \in S
    <3>1. PICK i \in R : k' = born[i] + 1
      BY <1>7, <2>2
    <3>2. poll.pc = "loop" /\ i \in poll.results /\ i \in TxOuts
      BY <1>5, <3>1 DEF Pending
    <3>3. born[i] >= highest_processed_block_count
      BY <1>1, <1>13, <3>2 DEF PollInv, NoRaceInv
    <3>4. highest_processed_block_count \in Nat
      BY <1>1, Typing, ZenonT(60)
    <3> QED
      BY <1>6, <3>1, <3>3, <3>4
  <2> QED
    BY <1>2, <1>8, <2>1, <2>2
<1> QED
  BY <1>9, <1>11, <1>12, <1>13

\* The wallet does not change while the poll goes on.
LEMMA PollingWallet ==
  ASSUME WalletInv, UNCHANGED <<height, born, spent, wallet_vars>>,
         \A i \in TxOuts : Gotten(i)' <=> Gotten(i), Pending' = Pending
  PROVE  WalletInv'
<1>1. /\ born' = born /\ spent' = spent /\ height' = height
      /\ owned_tx_outs' = owned_tx_outs
      /\ key_image_data_completeness' = key_image_data_completeness
  BY DEF wallet_vars
<1> QED
  BY <1>1 DEF WalletInv, SpentBefore

\* The first request reads the user events.
LEMMA PollBeginPreserves ==
  ASSUME Inv, PollBegin, UNCHANGED <<wallet_vars, tx>>
  PROVE  Inv'
<1>1. /\ TypeOK /\ PollingTypeOK /\ LedgerInv /\ DbInv /\ RngInv /\ PollInv /\ WalletInv /\ TxInv
  BY DEF Inv, TypeOK
<1>2. /\ height' = height /\ born' = born /\ spent' = spent /\ scanned' = scanned
      /\ rng' = rng /\ events' = events /\ user_rngs' = user_rngs /\ tx' = tx
      /\ highest_processed_block_count' = highest_processed_block_count
      /\ next_start_from_user_event_id' = next_start_from_user_event_id
      /\ owned_tx_outs' = owned_tx_outs
      /\ key_image_data_completeness' = key_image_data_completeness
  BY DEF PollBegin, ledger_vars, db_vars, rng_set_vars, wallet_vars
<1>3. Known' = Known /\ (\A i : Gotten(i)' <=> Gotten(i)) /\ (\A r : Pub(r)' = Pub(r))
  BY <1>2, Same, Zenon
<1>4. poll.pc = "idle" /\ poll' = [NoPoll EXCEPT !.pc = "first", !.seen = Len(events)]
  BY DEF PollBegin
<1>5. /\ poll'.pc = "first" /\ poll'.seen = Len(events) /\ poll'.results = {}
      /\ poll'.dead = {}
  BY <1>4 DEF NoPoll
<1>6. /\ scanned \in Nat /\ Len(events) \in Nat
      /\ next_start_from_user_event_id <= Len(events)
  BY <1>1, Typing, Zenon
<1>7. TypeOK'
  <2>1. Len(events) \in 0..Len(events) /\ 0 \in 0..scanned /\ 2 \in 2..MAX_MULTIPLIER
    BY <1>6, PollingConstants
  <2>2. poll' \in [pc: {"idle", "first", "loop", "returned"}, seen: 0..Len(events),
                   count: 0..scanned, multiplier: 2..MAX_MULTIPLIER,
                   dead: SUBSET Rngs, results: SUBSET TxOuts]
    BY <1>4, <2>1, Zenon DEF NoPoll
  <2>3. PollingTypeOK'
    BY <1>1, <1>2, <2>2, Zenon DEF PollingTypeOK
  <2> QED
    BY <1>1, <1>2, <2>3, Zenon DEF TypeOK
<1>8. LedgerInv' /\ DbInv' /\ RngInv' /\ TxInv'
  BY <1>1, <1>2, <1>3, Zenon DEF LedgerInv, DbInv, RngInv, TxInv
<1>9. PollInv'
  <2>1. ~EventRace => NoRaceInv'
    BY <1>1, <1>2, <1>3, <1>5, Zenon DEF PollInv, NoRaceInv
  <2> QED
    BY <1>2, <1>5, <1>6, <2>1 DEF PollInv
<1>10. WalletInv'
  <2>1. Pending' = Pending
    BY <1>4, <1>5 DEF Pending
  <2> QED
    BY <1>1, <1>2, <1>3, <2>1, PollingWallet DEF wallet_vars
<1> QED
  BY <1>7, <1>8, <1>9, <1>10 DEF Inv

\* New RNGs start with their first output, of which nothing was found yet.
LEMMA FirstResponseRngs ==
  ASSUME Inv, FirstResponse
  PROVE  /\ user_rngs' \in [Rngs -> Nat \cup {Unknown}]
         /\ \A r \in Rngs : /\ r \in Known' <=> \E n \in 1..poll.seen : events[n] = r
                            /\ r \in Known => user_rngs'[r] = user_rngs[r]
                            /\ r \in Known' \ Known => user_rngs'[r] = 0
         /\ Known \subseteq Known'
<1>1. TypeOK /\ RngInv /\ PollInv
  BY DEF Inv
<1>2. user_rngs' = ingest_rng_records(poll.seen) /\ poll.pc = "first"
  BY DEF FirstResponse
<1>3. /\ next_start_from_user_event_id \in Nat /\ poll.seen \in Nat
      /\ next_start_from_user_event_id <= poll.seen
      /\ \A r \in Rngs : user_rngs[r] \in Int /\ (user_rngs[r] = Unknown \/ user_rngs[r] \in Nat)
  <2>1. /\ next_start_from_user_event_id \in Nat /\ poll.seen \in Nat
        /\ \A r \in Rngs : user_rngs[r] \in Int /\ (user_rngs[r] = Unknown \/ user_rngs[r] \in Nat)
    BY <1>1, Typing, Zenon
  <2> QED
    BY <1>1, <1>2, <2>1 DEF PollInv
<1> DEFINE New(r) == \E n \in (next_start_from_user_event_id + 1)..poll.seen : events[n] = r
<1>4. ASSUME NEW r \in Rngs
      PROVE  user_rngs'[r] = IF New(r) /\ user_rngs[r] = Unknown THEN 0 ELSE user_rngs[r]
  <2>1. Max({user_rngs[r], 0}) = IF user_rngs[r] <= 0 THEN 0 ELSE user_rngs[r]
    BY <1>3, MaxOfTwo
  <2>2. user_rngs'[r] = IF New(r) THEN Max({user_rngs[r], 0}) ELSE user_rngs[r]
    BY <1>2 DEF ingest_rng_records
  <2> HIDE DEF New
  <2> QED
    BY <1>3, <2>1, <2>2 DEF Unknown
<1>5. \A r \in Rngs : (\E n \in 1..poll.seen : events[n] = r) <=>
                        (\E n \in 1..next_start_from_user_event_id : events[n] = r) \/ New(r)
  BY <1>3
<1>6. \A r \in Rngs : r \in Known <=> \E n \in 1..next_start_from_user_event_id : events[n] = r
  BY <1>1, Zenon DEF RngInv
<1>7. \A r \in Rngs : /\ r \in Known <=> user_rngs[r] # Unknown
                      /\ r \in Known' <=> user_rngs'[r] # Unknown
  BY DEF Known
<1>8. 0 # Unknown
  BY DEF Unknown
<1>9. \A r \in Rngs : /\ r \in Known' <=> \E n \in 1..poll.seen : events[n] = r
                      /\ r \in Known => user_rngs'[r] = user_rngs[r]
                      /\ r \in Known' \ Known => user_rngs'[r] = 0
  <2> HIDE DEF New
  <2> QED
    BY <1>4, <1>5, <1>6, <1>7, <1>8
<1>10. user_rngs' \in [Rngs -> Nat \cup {Unknown}]
  <2>1. \A r \in Rngs : user_rngs'[r] \in Nat \cup {Unknown}
    BY <1>3, <1>4
  <2>2. user_rngs' = [r \in Rngs |-> user_rngs'[r]]
    BY <1>2 DEF ingest_rng_records
  <2> QED
    BY <2>1, <2>2
<1>11. Known \subseteq Known'
  BY <1>7, <1>9 DEF Known
<1> QED
  BY <1>9, <1>10, <1>11

\* The first response: the RNG records and some server's block count.
LEMMA FirstResponsePreserves ==
  ASSUME Inv, PollForTxOuts, FirstResponse
  PROVE  /\ Inv'
         /\ ~EventRace => \/ key_image_data_completeness' >= key_image_data_completeness
                          \/ key_image_data_completeness' >= highest_processed_block_count
<1>1. /\ TypeOK /\ PollingTypeOK /\ LedgerInv /\ DbInv /\ RngInv /\ PollInv /\ WalletInv /\ TxInv
  BY DEF Inv, TypeOK
<1>2. /\ height' = height /\ born' = born /\ spent' = spent /\ scanned' = scanned
      /\ rng' = rng /\ events' = events /\ tx' = tx
      /\ highest_processed_block_count' = highest_processed_block_count
      /\ next_start_from_user_event_id' = poll.seen /\ poll.pc = "first"
  BY DEF PollForTxOuts, FirstResponse, ledger_vars, db_vars
<1>3. PICK count \in 0..scanned :
         poll' = IF highest_processed_block_count >= count
                 THEN [poll EXCEPT !.pc = "returned"]
                 ELSE [poll EXCEPT !.pc = "loop", !.count = count]
  BY Zenon DEF FirstResponse
<1>4. /\ user_rngs' \in [Rngs -> Nat \cup {Unknown}]
      /\ \A r \in Rngs : /\ r \in Known' <=> \E n \in 1..poll.seen : events[n] = r
                         /\ r \in Known => user_rngs'[r] = user_rngs[r]
                         /\ r \in Known' \ Known => user_rngs'[r] = 0
      /\ Known \subseteq Known'
  BY FirstResponseRngs
<1>5. \A r : Pub(r)' = Pub(r)
  BY <1>2 DEF Pub
<1>6. \A r, i : Rank(Pub(r), i) \in Nat
  <2>1. \A r : Pub(r) \in SUBSET TxOuts
    BY DEF Pub
  <2>2. \A r : IsFiniteSet(Pub(r))
    BY <2>1, FS_Subset, PollingConstants, Zenon
  <2> QED
    BY <2>2, RankType, Zenon
<1>7. \A i \in TxOuts : Gotten(i)' <=> Gotten(i)
  <2> SUFFICES ASSUME NEW i \in TxOuts PROVE Gotten(i)' <=> Gotten(i)
    OBVIOUS
  <2>1. IndexOf(i)' = IndexOf(i)
    BY <1>2 DEF IndexOf
  <2>2. {j \in TxOuts : rng[j] = rng[i] /\ j < i} = {j \in Pub(rng[i]) : j < i}
    BY DEF Pub
  <2>3. IndexOf(i) \in Nat
    BY <1>6, <2>2 DEF IndexOf, Rank
  <2>4. rng[i] \in Known' => rng[i] \in Rngs
    BY DEF Known
  <2> QED
    BY <1>2, <1>4, <2>1, <2>3, <2>4 DEF Gotten
<1>8. RngInv'
  <2> SUFFICES ASSUME NEW r \in Rngs
      PROVE  /\ r \in Known' <=> \E n \in 1..poll.seen : events[n] = r
             /\ r \in Known' =>
                 Cardinality({i \in Pub(r) : Rank(Pub(r), i) < user_rngs'[r]}) = user_rngs'[r]
    BY <1>2, <1>5 DEF RngInv
  <2>1. CASE r \in Known
    BY <1>1, <1>4, <2>1 DEF RngInv
  <2>2. CASE r \in Known' \ Known
    <3>1. user_rngs'[r] = 0
      BY <1>4, <2>2
    <3>2. {i \in Pub(r) : Rank(Pub(r), i) < 0} = {}
      BY <1>6
    <3> QED
      BY <1>4, <3>1, <3>2, FS_EmptySet
  <2>3. CASE r \notin Known'
    BY <1>4, <2>3
  <2> QED
    BY <1>4, <2>1, <2>2, <2>3
<1>9. poll.results = {} /\ poll.dead = {}
  BY <1>1, <1>2 DEF PollInv
<1>10. poll \in [pc: {"idle", "first", "loop", "returned"}, seen: 0..Len(events),
                   count: 0..scanned, multiplier: 2..MAX_MULTIPLIER,
                   dead: SUBSET Rngs, results: SUBSET TxOuts]
  BY <1>1 DEF PollingTypeOK
<1>11. /\ poll' \in [pc: {"idle", "first", "loop", "returned"}, seen: 0..Len(events),
                   count: 0..scanned, multiplier: 2..MAX_MULTIPLIER,
                   dead: SUBSET Rngs, results: SUBSET TxOuts]
       /\ poll'.pc \in {"returned", "loop"} /\ poll'.results = {} /\ poll'.dead = {}
  BY <1>3, <1>9, <1>10, Zenon
<1>12. PollingTypeOK'
  <2>1. next_start_from_user_event_id' \in 0..Len(events')
    BY <1>2, <1>10
  <2> QED
    BY <1>1, <1>2, <1>4, <1>11, <2>1, Zenon DEF PollingTypeOK
<1>13. LedgerInv' /\ DbInv' /\ TxInv'
  BY <1>1, <1>2 DEF LedgerInv, DbInv, TxInv
<1>14. PollInv'
  <2>1. DeadInv'
    BY <1>11 DEF DeadInv
  <2>2. ASSUME ~EventRace PROVE NoRaceInv'
    <3>1. NoRaceInv /\ poll.seen = Len(events)
      BY <1>1, <1>2, <2>2, Zenon DEF PollInv, NoRaceInv
    <3>2. ASSUME NEW i \in TxOuts, poll'.pc = "loop", born[i] # NotYet, born[i] < poll'.count
          PROVE  rng[i] \in Known'
      <4>1. poll'.count = count
        BY <1>3, <1>10, <3>2
      <4>2. born[i] \in Int /\ scanned \in Nat
        BY <1>1, Typing, Zenon
      <4>3. born[i] < scanned
        BY <3>2, <4>1, <4>2
      <4>4. rng[i] # NoRng /\ \E n \in DOMAIN events : events[n] = rng[i]
        BY <1>1, <3>2, <4>3 DEF DbInv
      <4>5. rng[i] \in Rngs /\ DOMAIN events = 1..Len(events)
        BY <1>1, <4>4, Typing
      <4> QED
        BY <1>4, <3>1, <4>4, <4>5
    <3> QED
      BY <1>2, <1>7, <1>11, <3>1, <3>2, ZenonT(60) DEF NoRaceInv
  <2> QED
    BY <1>11, <2>1, <2>2 DEF PollInv
<1>15. /\ owned_tx_outs' \in [TxOuts -> [status: {"not_owned", "not_spent", "spent"},
                                         at: 0..MaxHeight]]
       /\ key_image_data_completeness' \in 0..MaxHeight \cup {BLOCK_COUNT_MAX}
       /\ WalletInv'
       /\ ~EventRace => \/ key_image_data_completeness' >= key_image_data_completeness
                        \/ key_image_data_completeness' >= highest_processed_block_count
  <2>1. Pending = {}
    BY <1>2 DEF Pending
  <2>2. CASE poll'.pc = "returned"
    <3>1. consume_new_txo_records(poll'.results)
      BY <2>2 DEF PollForTxOuts
    <3> QED
      BY <1>2, <1>7, <1>11, <2>1, <2>2, <3>1, ConsumePreserves
  <2>3. CASE poll'.pc = "loop"
    <3>1. UNCHANGED wallet_vars
      BY <2>3 DEF PollForTxOuts
    <3>2. Pending' = Pending
      BY <1>11, <2>1, <2>3 DEF Pending
    <3>3. WalletInv'
      BY <1>1, <1>2, <1>7, <3>1, <3>2, PollingWallet
    <3>4. /\ owned_tx_outs' = owned_tx_outs
          /\ key_image_data_completeness' = key_image_data_completeness
      BY <3>1 DEF wallet_vars
    <3>5. key_image_data_completeness \in Nat
      BY <1>1, PollingConstants, PaykitConstants DEF TypeOK
    <3> QED
      BY <1>1, <3>3, <3>4, <3>5 DEF TypeOK
  <2> QED
    BY <1>11, <2>2, <2>3
<1>16. TypeOK'
  BY <1>1, <1>2, <1>12, <1>15, ZenonT(60) DEF TypeOK
<1> QED
  BY <1>8, <1>13, <1>14, <1>15, <1>16, Zenon DEF Inv

\* One request: each live RNG advances over what was found, and an RNG that has
\* not all the requested outputs has no more in the blocks of the server.
LEMMA RoundRngs ==
  ASSUME Inv, poll.pc = "loop", NEW loaded \in [Rngs -> Nat],
         user_rngs' = Advanced(Found(loaded)), rng' = rng
  PROVE  /\ user_rngs' \in [Rngs -> Nat \cup {Unknown}]
         /\ Known' = Known
         /\ \A r \in Known :
              Cardinality({i \in Pub(r) : Rank(Pub(r), i) < user_rngs'[r]}) = user_rngs'[r]
         /\ \A i \in Found(loaded) : i \in TxOuts /\ rng[i] \in Known /\ ~Gotten(i)
         /\ \A i \in TxOuts : Gotten(i)' <=> Gotten(i) \/ i \in Found(loaded)
         /\ \A r \in Known : user_rngs[r] + poll.multiplier > user_rngs'[r] =>
              r \in poll.dead \/
              \A i \in TxOuts : rng[i] = r /\ born[i] < loaded[r] => Gotten(i)'
<1>1. TypeOK /\ LedgerInv /\ DbInv /\ RngInv
  BY DEF Inv
<1>2. /\ poll.multiplier \in Nat
      /\ \A r \in Rngs : user_rngs[r] \in Int /\ (user_rngs[r] = Unknown \/ user_rngs[r] \in Nat)
      /\ \A i \in TxOuts : i \in Nat /\ born[i] \in Int
  BY <1>1, Typing, Zenon
<1> DEFINE F == Found(loaded)
           m == poll.multiplier
           Live == Known \ poll.dead
           Of(r) == {i \in F : rng[i] = r}
<1>3. \A r \in Rngs : user_rngs'[r] = user_rngs[r] + Cardinality(Of(r))
  BY DEF Advanced
<1>4. \A i : i \in F <=> /\ i \in TxOuts /\ rng[i] \in Live /\ born[i] < loaded[rng[i]]
                         /\ user_rngs[rng[i]] <= IndexOf(i)
                         /\ IndexOf(i) < user_rngs[rng[i]] + m
  BY DEF Found
<1>5. \A r : Pub(r) \subseteq Nat /\ IsFiniteSet(Pub(r)) /\ Pub(r) \subseteq TxOuts
  <2>1. \A r : Pub(r) \in SUBSET TxOuts
    BY DEF Pub
  <2> QED
    BY <2>1, FS_Subset, PollingConstants, Zenon
<1>6. \A i \in TxOuts : /\ IndexOf(i) = Rank(Pub(rng[i]), i) /\ i \in Pub(rng[i])
                        /\ IndexOf(i) \in Nat
  <2> SUFFICES ASSUME NEW i \in TxOuts
               PROVE  /\ IndexOf(i) = Rank(Pub(rng[i]), i) /\ i \in Pub(rng[i])
                      /\ IndexOf(i) \in Nat
    OBVIOUS
  <2>1. {j \in TxOuts : rng[j] = rng[i] /\ j < i} = {j \in Pub(rng[i]) : j < i}
    BY DEF Pub
  <2>2. Rank(Pub(rng[i]), i) \in Nat
    BY <1>5, RankType, Zenon
  <2> QED
    BY <2>1, <2>2 DEF IndexOf, Rank, Pub
<1>7. \A r \in Known : r \in Rngs /\ user_rngs[r] \in Nat
  BY <1>2 DEF Known
<1>8. ASSUME NEW r \in Rngs, r \notin Live PROVE Of(r) = {} /\ user_rngs'[r] = user_rngs[r]
  <2>1. Of(r) = {}
    BY <1>4, <1>8
  <2> QED
    BY <1>2, <1>3, <2>1, FS_EmptySet
<1>9. ASSUME NEW r \in Live
      PROVE  LET v == user_rngs'[r]
             IN  /\ v \in Nat
                 /\ \A i \in Pub(r) : Rank(Pub(r), i) < v <=>
                                        Rank(Pub(r), i) < user_rngs[r] \/ i \in F
                 /\ Cardinality({i \in Pub(r) : Rank(Pub(r), i) < v}) = v
                 /\ v < user_rngs[r] + m =>
                      \A i \in Pub(r) : born[i] < loaded[r] => Rank(Pub(r), i) < v
  <2> DEFINE P == Pub(r)
             L == {i \in P : born[i] < loaded[r]}
             u == user_rngs[r]
             E == {i \in L : u <= Rank(P, i) /\ Rank(P, i) < u + m}
  <2>1. r \in Known /\ r \in Rngs /\ u \in Nat
    BY <1>7, <1>9
  <2>2. Cardinality({i \in P : Rank(P, i) < u}) = u
    BY <1>1, <2>1, ZenonT(60) DEF RngInv
  <2>3. ASSUME NEW i \in L, NEW j \in P, j < i PROVE j \in L
    <3>1. i \in TxOuts /\ j \in TxOuts /\ rng[i] = r /\ born[i] < loaded[r]
      BY ZenonT(60) DEF Pub
    <3>2. born[i] # NotYet
      BY <1>1, <2>1, <3>1, FoundIsPublished
    <3>3. born[j] <= born[i]
      BY <1>1, <2>3, <3>1, <3>2, Zenon DEF LedgerInv
    <3>4. loaded[r] \in Nat
      BY <2>1
    <3> QED
      BY <1>2, <3>1, <3>3, <3>4
  <2>4. Of(r) = E
    <3>1. \A i : i \in Of(r) <=> /\ i \in TxOuts /\ rng[i] = r /\ born[i] < loaded[r]
                                 /\ u <= IndexOf(i) /\ IndexOf(i) < u + m
      BY <1>4, <1>9
    <3>2. \A i : i \in E <=> /\ i \in TxOuts /\ rng[i] = r /\ born[i] < loaded[r]
                             /\ u <= Rank(P, i) /\ Rank(P, i) < u + m
      BY DEF Pub
    <3> HIDE DEF E, Of
    <3>3. \A i : i \in Of(r) <=> i \in E
      BY <1>6, <3>1, <3>2, Zenon
    <3> QED
      BY <3>3, ZenonT(60)
  <2>5. L \in SUBSET P
    BY Zenon
  <2>6. P \subseteq Nat /\ IsFiniteSet(P)
    BY <1>5
  <2> HIDE DEF P, L
  <2>7. /\ Cardinality(E) \in Nat
        /\ \A i \in P : Rank(P, i) < u + Cardinality(E) <=> Rank(P, i) < u \/ i \in E
        /\ Cardinality({i \in P : Rank(P, i) < u + Cardinality(E)}) = u + Cardinality(E)
        /\ u + Cardinality(E) < u + m => \A i \in L : Rank(P, i) < u + Cardinality(E)
    BY <1>2, <2>1, <2>2, <2>3, <2>5, <2>6, RoundRanks, ZenonT(60)
  <2> HIDE DEF E
  <2>8. user_rngs'[r] = u + Cardinality(E)
    BY <1>3, <2>1, <2>4
  <2>9. \A i \in P : i \in F <=> i \in E
    BY <2>4 DEF P, Pub
  <2>10. \A i \in P : born[i] < loaded[r] => i \in L
    BY ZenonT(60) DEF L
  <2> HIDE DEF F, u
  <2>11. /\ user_rngs'[r] \in Nat
         /\ \A i \in P : Rank(P, i) < user_rngs'[r] <=> Rank(P, i) < u \/ i \in F
         /\ Cardinality({i \in P : Rank(P, i) < user_rngs'[r]}) = user_rngs'[r]
         /\ user_rngs'[r] < u + m =>
              \A i \in P : born[i] < loaded[r] => Rank(P, i) < user_rngs'[r]
    <3>1. user_rngs'[r] \in Nat
      BY <2>1, <2>7, <2>8
    <3>2. \A i \in P : Rank(P, i) < user_rngs'[r] <=> Rank(P, i) < u \/ i \in F
      BY <2>7, <2>8, <2>9, Zenon
    <3>3. Cardinality({i \in P : Rank(P, i) < user_rngs'[r]}) = user_rngs'[r]
      BY <2>7, <2>8, Zenon
    <3>4. user_rngs'[r] < u + m =>
            \A i \in P : born[i] < loaded[r] => Rank(P, i) < user_rngs'[r]
      BY <2>7, <2>8, <2>10, Zenon
    <3> QED
      BY <3>1, <3>2, <3>3, <3>4
  <2> QED
    BY <2>11, Zenon DEF P, u
<1>10. ASSUME NEW r \in Rngs PROVE /\ user_rngs'[r] \in Nat \cup {Unknown}
                                   /\ user_rngs'[r] # Unknown <=> user_rngs[r] # Unknown
  <2>1. CASE r \in Live
    <3>1. user_rngs'[r] \in Nat /\ user_rngs[r] \in Nat
      BY <1>7, <1>9, <2>1, ZenonT(60)
    <3> QED
      BY <3>1 DEF Unknown
  <2>2. CASE r \notin Live
    BY <1>2, <1>8, <2>2
  <2> QED
    BY <2>1, <2>2
<1>11. user_rngs' \in [Rngs -> Nat \cup {Unknown}]
  <2>1. user_rngs' = [r \in Rngs |-> user_rngs'[r]]
    BY DEF Advanced
  <2> QED
    BY <1>10, <2>1
<1>12. Known' = Known
  BY <1>10 DEF Known
<1>13. ASSUME NEW r \in Known
       PROVE  Cardinality({i \in Pub(r) : Rank(Pub(r), i) < user_rngs'[r]}) = user_rngs'[r]
  <2>1. CASE r \in Live
    BY <1>9, <2>1
  <2>2. CASE r \notin Live
    BY <1>1, <1>7, <1>8, <2>2, ZenonT(60) DEF RngInv
  <2> QED
    BY <2>1, <2>2
<1>14. \A i \in F : i \in TxOuts /\ rng[i] \in Known /\ ~Gotten(i)
  <2> SUFFICES ASSUME NEW i \in F PROVE i \in TxOuts /\ rng[i] \in Known /\ ~Gotten(i)
    OBVIOUS
  <2>1. i \in TxOuts /\ rng[i] \in Known /\ user_rngs[rng[i]] <= IndexOf(i)
    BY <1>4
  <2> QED
    BY <1>6, <1>7, <2>1 DEF Gotten
<1>15. \A i \in TxOuts : IndexOf(i)' = IndexOf(i)
  BY DEF IndexOf
<1>16. ASSUME NEW i \in TxOuts PROVE Gotten(i)' <=> Gotten(i) \/ i \in F
  <2>1. Gotten(i)' <=> rng[i] \in Known /\ IndexOf(i) < user_rngs'[rng[i]]
    BY <1>12, <1>15 DEF Gotten
  <2>2. CASE rng[i] \in Live
    <3>1. rng[i] \in Known
      BY <2>2
    <3>2. \A j \in Pub(rng[i]) : Rank(Pub(rng[i]), j) < user_rngs'[rng[i]] <=>
                                   Rank(Pub(rng[i]), j) < user_rngs[rng[i]] \/ j \in F
      <4> HIDE DEF F, Live
      <4> QED
        BY <1>9, <2>2, Zenon
    <3> HIDE DEF F
    <3> QED
      BY <1>6, <2>1, <3>1, <3>2 DEF Gotten
  <2>3. CASE rng[i] \notin Live
    <3>1. i \notin F
      BY <1>4, <2>3
    <3>2. rng[i] \in Known => user_rngs'[rng[i]] = user_rngs[rng[i]]
      BY <1>7, <1>8, <2>3
    <3> QED
      BY <2>1, <3>1, <3>2 DEF Gotten
  <2> QED
    BY <2>2, <2>3
<1>17. ASSUME NEW r \in Known, user_rngs[r] + m > user_rngs'[r], r \notin poll.dead,
              NEW i \in TxOuts, rng[i] = r, born[i] < loaded[r]
       PROVE  Gotten(i)'
  <2>1. r \in Live /\ i \in Pub(r) /\ user_rngs[r] \in Nat
    BY <1>7, <1>17 DEF Pub
  <2>2. /\ user_rngs'[r] \in Nat
        /\ user_rngs'[r] < user_rngs[r] + m => Rank(Pub(r), i) < user_rngs'[r]
    <3> HIDE DEF F, Live
    <3> QED
      BY <1>9, <1>17, <2>1, Zenon
  <2>3. Rank(Pub(r), i) < user_rngs'[r]
    BY <1>2, <1>17, <2>1, <2>2
  <2> QED
    BY <1>6, <1>12, <1>15, <1>17, <2>3 DEF Gotten
<1> QED
  <2> HIDE DEF F, Live
  <2> QED
    BY <1>11, <1>12, <1>13, <1>14, <1>16, <1>17 DEF F

\* A round of the loop, for the next outputs of the live RNGs.
LEMMA RoundPreserves ==
  ASSUME Inv, PollForTxOuts, Round
  PROVE  Inv' /\ key_image_data_completeness' = key_image_data_completeness
<1>1. /\ TypeOK /\ PollingTypeOK /\ LedgerInv /\ DbInv /\ RngInv /\ PollInv /\ WalletInv /\ TxInv
  BY DEF Inv, TypeOK
<1>2. /\ height' = height /\ born' = born /\ spent' = spent /\ scanned' = scanned
      /\ rng' = rng /\ events' = events /\ tx' = tx
      /\ highest_processed_block_count' = highest_processed_block_count
      /\ next_start_from_user_event_id' = next_start_from_user_event_id
      /\ poll.pc = "loop"
  BY DEF PollForTxOuts, Round, ledger_vars, db_vars
<1>3. PICK count \in 0..scanned : \E loaded \in [Rngs -> count..scanned] :
         /\ user_rngs' = Advanced(Found(loaded))
         /\ poll' = [poll EXCEPT
              !.count = Min({@, count}),
              !.results = @ \cup Found(loaded),
              !.dead = {r \in Known : user_rngs[r] + poll.multiplier > user_rngs'[r]},
              !.multiplier = Min({2 * @, MAX_MULTIPLIER})]
  BY ZenonT(60) DEF Round
<1>4. PICK loaded \in [Rngs -> count..scanned] :
         /\ user_rngs' = Advanced(Found(loaded))
         /\ poll' = [poll EXCEPT
              !.count = Min({@, count}),
              !.results = @ \cup Found(loaded),
              !.dead = {r \in Known : user_rngs[r] + poll.multiplier > user_rngs'[r]},
              !.multiplier = Min({2 * @, MAX_MULTIPLIER})]
  BY <1>3, Zenon
<1> DEFINE F == Found(loaded)
           D == {r \in Known : user_rngs[r] + poll.multiplier > user_rngs'[r]}
<1>5. /\ scanned \in Nat /\ count \in Nat /\ count <= scanned
      /\ poll.count \in Nat /\ poll.count <= scanned
      /\ poll.multiplier \in Nat /\ 2 <= poll.multiplier
      /\ MAX_MULTIPLIER \in Nat /\ MAX_MULTIPLIER >= 2
      /\ \A i \in TxOuts : born[i] \in Int
  <2>1. /\ scanned \in Nat /\ poll.count \in Nat /\ poll.count <= scanned
        /\ poll.multiplier \in Nat /\ 2 <= poll.multiplier
        /\ \A i \in TxOuts : born[i] \in Int
    BY <1>1, Typing, Zenon
  <2> QED
    BY <1>3, <2>1, PollingConstants
<1>6. loaded \in [Rngs -> Nat] /\ \A r \in Rngs : loaded[r] \in Nat /\ count <= loaded[r]
  BY <1>4, <1>5
<1>7. /\ user_rngs' \in [Rngs -> Nat \cup {Unknown}]
      /\ Known' = Known
      /\ \A r \in Known :
           Cardinality({i \in Pub(r) : Rank(Pub(r), i) < user_rngs'[r]}) = user_rngs'[r]
      /\ \A i \in F : i \in TxOuts /\ rng[i] \in Known /\ ~Gotten(i)
      /\ \A i \in TxOuts : Gotten(i)' <=> Gotten(i) \/ i \in F
      /\ \A r \in Known : user_rngs[r] + poll.multiplier > user_rngs'[r] =>
           r \in poll.dead \/
           \A i \in TxOuts : rng[i] = r /\ born[i] < loaded[r] => Gotten(i)'
  BY <1>2, <1>4, <1>6, RoundRngs
<1> DEFINE c == IF poll.count <= count THEN poll.count ELSE count
           n == IF 2 * poll.multiplier <= MAX_MULTIPLIER THEN 2 * poll.multiplier
                ELSE MAX_MULTIPLIER
<1>8. Min({poll.count, count}) = c /\ Min({2 * poll.multiplier, MAX_MULTIPLIER}) = n
  <2>1. poll.count \in Int /\ count \in Int /\ 2 * poll.multiplier \in Int /\ MAX_MULTIPLIER \in Int
    BY <1>5
  <2> QED
    BY <2>1, MinOfTwo
<1>9. /\ c \in 0..scanned /\ c <= poll.count /\ c <= count /\ c \in Nat
      /\ n \in 2..MAX_MULTIPLIER
  BY <1>5
<1>10. poll \in [pc: {"idle", "first", "loop", "returned"}, seen: 0..Len(events),
                   count: 0..scanned, multiplier: 2..MAX_MULTIPLIER,
                   dead: SUBSET Rngs, results: SUBSET TxOuts]
  BY <1>1 DEF PollingTypeOK
<1>11. poll' = [poll EXCEPT !.count = c, !.results = poll.results \cup F, !.dead = D,
                            !.multiplier = n]
  <2> HIDE DEF c, n
  <2> QED
    BY <1>4, <1>8, Zenon
<1>12. D \subseteq Known /\ D \subseteq Rngs /\ F \subseteq TxOuts /\ poll.results \subseteq TxOuts
  <2>1. D \subseteq Known /\ D \subseteq Rngs
    BY DEF Known
  <2>2. F \subseteq TxOuts
    BY DEF Found
  <2>3. poll.results \subseteq TxOuts
    BY <1>10
  <2> QED
    BY <2>1, <2>2, <2>3, Zenon
<1>13. /\ poll' \in [pc: {"idle", "first", "loop", "returned"}, seen: 0..Len(events),
                     count: 0..scanned, multiplier: 2..MAX_MULTIPLIER,
                     dead: SUBSET Rngs, results: SUBSET TxOuts]
       /\ poll'.pc = "loop" /\ poll'.count = c /\ poll'.dead = D
       /\ poll'.results = poll.results \cup F
  <2>1. poll.results \cup F \subseteq TxOuts
    BY <1>12
  <2> HIDE DEF c, n, D, F
  <2> QED
    BY <1>2, <1>9, <1>10, <1>11, <1>12, <2>1, Zenon
<1> HIDE DEF F, n, c
<1>14. /\ UNCHANGED wallet_vars /\ owned_tx_outs' = owned_tx_outs
       /\ key_image_data_completeness' = key_image_data_completeness
  BY <1>13 DEF PollForTxOuts, wallet_vars
<1>15. TypeOK'
  <2>1. PollingTypeOK'
    BY <1>1, <1>2, <1>7, <1>13, ZenonT(60) DEF PollingTypeOK
  <2> QED
    BY <1>1, <1>2, <1>14, <2>1, Zenon DEF TypeOK
<1>16. LedgerInv' /\ DbInv' /\ TxInv'
  BY <1>1, <1>2 DEF LedgerInv, DbInv, TxInv
<1>17. RngInv'
  <2>1. \A r : Pub(r)' = Pub(r)
    BY <1>2 DEF Pub
  <2> QED
    BY <1>1, <1>2, <1>7, <2>1, Zenon DEF RngInv
<1>18. PollInv'
  <2>1. DeadInv'
    <3>1. DeadInv
      BY <1>1, <1>2 DEF PollInv
    <3>2. ASSUME NEW i \in TxOuts, rng[i] \in D, born[i] < c PROVE Gotten(i)'
      <4>1. rng[i] \in Known /\ rng[i] \in Rngs
        BY <3>2 DEF Known
      <4>2. CASE rng[i] \in poll.dead
        <5>1. born[i] < poll.count
          BY <1>5, <1>9, <3>2
        <5> QED
          BY <1>7, <3>1, <4>2, <5>1 DEF DeadInv
      <4>3. CASE rng[i] \notin poll.dead
        <5>1. born[i] < loaded[rng[i]]
          BY <1>5, <1>6, <1>9, <3>2, <4>1
        <5> QED
          BY <1>7, <3>2, <4>1, <4>3, <5>1, Zenon
      <4> QED
        BY <4>2, <4>3
    <3> HIDE DEF D
    <3> QED
      BY <1>2, <1>7, <1>12, <1>13, <3>2, ZenonT(60) DEF DeadInv
  <2>2. ASSUME ~EventRace PROVE NoRaceInv'
    <3>1. NoRaceInv
      BY <1>1, <2>2 DEF PollInv
    <3>2. ASSUME NEW i \in TxOuts, born[i] # NotYet, born[i] < c PROVE rng[i] \in Known
      <4>1. born[i] < poll.count
        BY <1>5, <1>9, <3>2
      <4> QED
        BY <1>2, <3>1, <3>2, <4>1 DEF NoRaceInv
    <3>3. ASSUME NEW i \in F PROVE born[i] >= highest_processed_block_count
      <4>1. i \in TxOuts /\ rng[i] \in Rngs /\ ~Gotten(i)
        BY <1>7, Zenon DEF Known
      <4>2. born[i] # NotYet /\ born[i] \in Nat
        BY <1>1, <4>1, FoundIsPublished
      <4>3. ~(born[i] < highest_processed_block_count)
        BY <3>1, <4>1, <4>2, Zenon DEF NoRaceInv
      <4>4. highest_processed_block_count \in Nat
        BY <1>1, Typing, Zenon
      <4> QED
        BY <4>2, <4>3, <4>4
    <3>4. \A i \in TxOuts : i \in poll.results => born[i] >= highest_processed_block_count
      BY <1>2, <3>1 DEF NoRaceInv
    <3>5. \A i \in TxOuts :
            born[i] # NotYet /\ born[i] < highest_processed_block_count => Gotten(i)
      BY <3>1 DEF NoRaceInv
    <3> QED
      BY <1>2, <1>7, <1>13, <3>2, <3>3, <3>4, <3>5, ZenonT(60) DEF NoRaceInv
  <2> QED
    BY <1>13, <2>1, <2>2 DEF PollInv
<1>19. WalletInv'
  <2>1. Pending = poll.results /\ Pending' = poll.results \cup F
    BY <1>2, <1>13 DEF Pending
  <2> SUFFICES ASSUME NEW i \in TxOuts
      PROVE  /\ Gotten(i)' <=> owned_tx_outs[i].status # "not_owned" \/ i \in Pending'
             /\ i \in Pending' \/ owned_tx_outs[i].status = "not_owned" =>
                  owned_tx_outs[i] = NotOwned
             /\ owned_tx_outs[i].status = "not_spent" =>
                  /\ born[i] < owned_tx_outs[i].at /\ owned_tx_outs[i].at <= height
                  /\ ~SpentBefore(i, owned_tx_outs[i].at)
                  /\ key_image_data_completeness <= owned_tx_outs[i].at
             /\ owned_tx_outs[i].status = "spent" =>
                  spent[i] # NotYet /\ owned_tx_outs[i].at = spent[i]
    BY <1>2, <1>14 DEF WalletInv, SpentBefore
  <2>2. /\ Gotten(i) <=> owned_tx_outs[i].status # "not_owned" \/ i \in Pending
        /\ i \in Pending \/ owned_tx_outs[i].status = "not_owned" =>
             owned_tx_outs[i] = NotOwned
        /\ owned_tx_outs[i].status = "not_spent" =>
             /\ born[i] < owned_tx_outs[i].at /\ owned_tx_outs[i].at <= height
             /\ ~SpentBefore(i, owned_tx_outs[i].at)
             /\ key_image_data_completeness <= owned_tx_outs[i].at
        /\ owned_tx_outs[i].status = "spent" =>
             spent[i] # NotYet /\ owned_tx_outs[i].at = spent[i]
    BY <1>1 DEF WalletInv
  <2>3. i \in F => ~Gotten(i)
    BY <1>7
  <2>4. Gotten(i)' <=> Gotten(i) \/ i \in F
    BY <1>7
  <2>5. i \in Pending' <=> i \in Pending \/ i \in F
    BY <2>1
  <2> QED
    BY <2>2, <2>3, <2>4, <2>5, ZenonT(60)
<1> QED
  BY <1>14, <1>15, <1>16, <1>17, <1>18, <1>19 DEF Inv

\* The poll ends, or a request of it fails: below the new block count all was
\* found, as no RNG is alive any more.
LEMMA PollEndPreserves ==
  ASSUME Inv, PollForTxOuts, PollEnd \/ PollFails
  PROVE  /\ Inv' /\ highest_processed_block_count <= highest_processed_block_count'
         /\ ~EventRace => \/ key_image_data_completeness' >= key_image_data_completeness
                          \/ key_image_data_completeness' >= highest_processed_block_count
<1>1. /\ TypeOK /\ PollingTypeOK /\ LedgerInv /\ DbInv /\ RngInv /\ PollInv /\ WalletInv /\ TxInv
  BY DEF Inv, TypeOK
<1>2. /\ height' = height /\ born' = born /\ spent' = spent /\ scanned' = scanned
      /\ rng' = rng /\ events' = events /\ tx' = tx /\ user_rngs' = user_rngs
      /\ next_start_from_user_event_id' = next_start_from_user_event_id
      /\ poll.pc \in {"first", "loop"} /\ poll' = [poll EXCEPT !.pc = "returned"]
  BY DEF PollForTxOuts, PollEnd, PollFails, ledger_vars, db_vars, rng_set_vars
<1>3. Known' = Known /\ (\A i : Gotten(i)' <=> Gotten(i)) /\ (\A r : Pub(r)' = Pub(r))
  BY <1>2, Same, Zenon
<1>4. /\ scanned \in Nat
      /\ highest_processed_block_count \in Nat /\ highest_processed_block_count <= scanned
      /\ poll.count \in Nat /\ poll.count <= scanned
  BY <1>1, Typing, Zenon
<1>5. /\ highest_processed_block_count' \in Nat
      /\ highest_processed_block_count <= highest_processed_block_count'
      /\ highest_processed_block_count' <= scanned
      /\ \/ highest_processed_block_count' = highest_processed_block_count
         \/ PollEnd /\ highest_processed_block_count' = poll.count
  <2>1. Max({highest_processed_block_count, poll.count}) =
          IF highest_processed_block_count <= poll.count THEN poll.count
          ELSE highest_processed_block_count
    BY <1>4, MaxOfTwo
  <2>2. CASE PollEnd
    BY <1>4, <2>1, <2>2 DEF PollEnd
  <2>3. CASE PollFails
    BY <1>4, <2>3 DEF PollFails, rng_set_vars
  <2> QED
    BY <2>2, <2>3
<1>6. poll \in [pc: {"idle", "first", "loop", "returned"}, seen: 0..Len(events),
                   count: 0..scanned, multiplier: 2..MAX_MULTIPLIER,
                   dead: SUBSET Rngs, results: SUBSET TxOuts]
  BY <1>1 DEF PollingTypeOK
<1>7. /\ poll' \in [pc: {"idle", "first", "loop", "returned"}, seen: 0..Len(events),
                   count: 0..scanned, multiplier: 2..MAX_MULTIPLIER,
                   dead: SUBSET Rngs, results: SUBSET TxOuts]
      /\ poll'.pc = "returned" /\ poll'.results = poll.results
  BY <1>2, <1>6
<1>8. PollingTypeOK'
  <2>1. highest_processed_block_count' \in 0..scanned'
    BY <1>2, <1>4, <1>5
  <2> QED
    BY <1>1, <1>2, <1>7, <2>1, Zenon DEF PollingTypeOK
<1>9. LedgerInv' /\ DbInv' /\ RngInv' /\ TxInv'
  BY <1>1, <1>2, <1>3 DEF LedgerInv, DbInv, RngInv, TxInv
<1>10. PollInv'
  <2>1. ASSUME ~EventRace PROVE NoRaceInv'
    <3>1. NoRaceInv
      BY <1>1, <2>1 DEF PollInv
    <3>2. ASSUME NEW i \in TxOuts, born[i] # NotYet, born[i] < highest_processed_block_count'
          PROVE  Gotten(i)
      <4>1. CASE highest_processed_block_count' = highest_processed_block_count
        BY <3>1, <3>2, <4>1 DEF NoRaceInv
      <4>2. CASE PollEnd /\ highest_processed_block_count' = poll.count
        <5>1. poll.pc = "loop" /\ Cardinality(poll.dead) >= Cardinality(Known)
          BY <4>2 DEF PollEnd
        <5>2. DeadInv
          BY <1>1, <5>1 DEF PollInv
        <5>3. poll.dead = Known
          <6>1. Known \in SUBSET Rngs /\ poll.dead \in SUBSET Known
            BY <5>2 DEF Known, DeadInv
          <6>2. IsFiniteSet(Known)
            BY <6>1, FS_Subset, PollingConstants, Zenon
          <6>3. /\ Cardinality(poll.dead) <= Cardinality(Known) /\ IsFiniteSet(poll.dead)
                /\ Cardinality(Known) = Cardinality(poll.dead) => Known = poll.dead
            BY <6>1, <6>2, FS_Subset, Zenon
          <6>4. Cardinality(poll.dead) \in Nat /\ Cardinality(Known) \in Nat
            BY <6>2, <6>3, FS_CardinalityType, Zenon
          <6> QED
            BY <5>1, <6>3, <6>4
        <5>4. rng[i] \in Known
          BY <3>1, <3>2, <4>2, <5>1 DEF NoRaceInv
        <5> QED
          BY <3>2, <4>2, <5>2, <5>3, <5>4 DEF DeadInv
      <4> QED
        BY <1>5, <4>1, <4>2
    <3> QED
      BY <1>2, <1>3, <1>7, <3>2 DEF NoRaceInv
  <2> QED
    BY <1>7, <2>1 DEF PollInv
<1>11. /\ owned_tx_outs' \in [TxOuts -> [status: {"not_owned", "not_spent", "spent"},
                                         at: 0..MaxHeight]]
       /\ key_image_data_completeness' \in 0..MaxHeight \cup {BLOCK_COUNT_MAX}
       /\ WalletInv'
       /\ ~EventRace => \/ key_image_data_completeness' >= key_image_data_completeness
                        \/ key_image_data_completeness' >= highest_processed_block_count
  <2>1. poll.results = Pending
    BY <1>1, <1>2 DEF Pending, PollInv
  <2>2. consume_new_txo_records(poll'.results)
    BY <1>7, Zenon DEF PollForTxOuts
  <2> QED
    BY <1>2, <1>3, <1>7, <2>1, <2>2, ConsumePreserves
<1>12. TypeOK'
  BY <1>1, <1>2, <1>8, <1>11, Zenon DEF TypeOK
<1> QED
  BY <1>5, <1>9, <1>10, <1>11, <1>12, Zenon DEF Inv

-----------------------------------------------------------------------------
(* The theorems. *)

\* A wallet starts with nothing found.
LEMMA InitInv == Init => Inv
<1> SUFFICES ASSUME Init PROVE Inv
  OBVIOUS
<1>1. /\ height = 0 /\ scanned = 0
      /\ born = [i \in TxOuts |-> NotYet] /\ spent = [i \in TxOuts |-> NotYet]
      /\ rng = [i \in TxOuts |-> NoRng] /\ events = << >>
      /\ user_rngs = [r \in Rngs |-> Unknown]
      /\ highest_processed_block_count = 0 /\ next_start_from_user_event_id = 0
      /\ poll = NoPoll /\ owned_tx_outs = [i \in TxOuts |-> NotOwned]
      /\ key_image_data_completeness = BLOCK_COUNT_MAX /\ tx = NoTx
  BY DEF Init, PollingInit
<1>2. /\ events \in Seq(Rngs) /\ Len(events) = 0 /\ MaxHeight \in Nat
      /\ 0 \in 0..MaxHeight /\ 0 \in 0..0 /\ 2 \in 2..MAX_MULTIPLIER
  BY <1>1, PollingConstants
<1>3. Known = {} /\ Pending = {}
  BY <1>1 DEF Known, Pending, NoPoll
<1>4. TypeOK
  <2>1. poll \in [pc: {"idle", "first", "loop", "returned"}, seen: 0..Len(events),
                  count: 0..scanned, multiplier: 2..MAX_MULTIPLIER,
                  dead: SUBSET Rngs, results: SUBSET TxOuts]
    BY <1>1, <1>2 DEF NoPoll
  <2>2. /\ born \in [TxOuts -> Nat \cup {NotYet}] /\ spent \in [TxOuts -> Nat \cup {NotYet}]
        /\ rng \in [TxOuts -> Rngs \cup {NoRng}] /\ user_rngs \in [Rngs -> Nat \cup {Unknown}]
    BY <1>1
  <2>3. PollingTypeOK
    BY <1>1, <1>2, <2>1, <2>2 DEF PollingTypeOK
  <2>4. owned_tx_outs \in [TxOuts -> [status: {"not_owned", "not_spent", "spent"},
                                      at: 0..MaxHeight]]
    BY <1>1, <1>2 DEF NotOwned
  <2>5. tx \in [inputs: SUBSET TxOuts, tombstone: Nat, landed: Nat \cup {NotYet},
                told: {"unknown", "appeared", "expired"}]
    BY <1>1 DEF NoTx
  <2> QED
    BY <1>1, <2>3, <2>4, <2>5 DEF TypeOK
<1>5. LedgerInv
  BY <1>1 DEF LedgerInv, NotYet
<1>6. DbInv
  BY <1>1 DEF DbInv
<1>7. RngInv
  BY <1>1, <1>3 DEF RngInv
<1>8. poll.pc = "idle" /\ poll.results = {} /\ poll.dead = {}
  BY <1>1 DEF NoPoll
<1>9. PollInv
  BY <1>1, <1>8 DEF PollInv, NoRaceInv
<1>10. WalletInv
  <2>1. \A i \in TxOuts : owned_tx_outs[i] = NotOwned /\ NotOwned.status = "not_owned"
    BY <1>1 DEF NotOwned
  <2> QED
    BY <1>3, <2>1 DEF WalletInv, Gotten
<1>11. TxInv
  BY <1>1 DEF TxInv, NoTx
<1> QED
  BY <1>4, <1>5, <1>6, <1>7, <1>9, <1>10, <1>11 DEF Inv

\* A step that changes nothing.
LEMMA StutterInv == Inv /\ UNCHANGED vars => Inv'
<1> SUFFICES ASSUME Inv, UNCHANGED vars PROVE Inv'
  OBVIOUS
<1>1. UNCHANGED <<polling_vars, wallet_vars>> /\ tx' = tx
  BY DEF vars
<1>2. height' = height
  BY <1>1 DEF polling_vars, ledger_vars
<1>3. TypeOK /\ TxInv
  BY DEF Inv
<1>4. TxInv'
  BY <1>1, <1>2, <1>3 DEF TxInv
<1> QED
  BY <1>1, <1>3, <1>4, TxOnly DEF TypeOK

\* Every step keeps Inv.
LEMMA NextInv == Inv /\ [Next]_vars => Inv'
<1> SUFFICES ASSUME Inv, [Next]_vars PROVE Inv'
  OBVIOUS
<1>1. CASE PollForTxOuts
  <2>1. CASE PollBegin
    <3>1. UNCHANGED <<wallet_vars, tx>>
      BY <1>1, <2>1 DEF PollForTxOuts, PollBegin, NoPoll
    <3> QED
      BY <2>1, <3>1, PollBeginPreserves
  <2>2. CASE FirstResponse
    BY <1>1, <2>2, FirstResponsePreserves
  <2>3. CASE Round
    BY <1>1, <2>3, RoundPreserves
  <2>4. CASE PollEnd \/ PollFails
    BY <1>1, <2>4, PollEndPreserves
  <2> QED
    BY <1>1, <2>1, <2>2, <2>3, <2>4 DEF PollForTxOuts, PollStep
<1>2. CASE PollForKeyImages
  BY <1>2, KeyImagesPreserve
<1>3. CASE KeyImagesFail
  BY <1>3, KeyImagesFailPreserves
<1>4. CASE SendTransaction \/ IsTransactionPresent \/ LookupFails
  BY <1>4, TxStepPreserves
<1>5. CASE TransactionLands \/ OtherBlock
  BY <1>5, BlockPreserves
<1>6. CASE Ingest
  BY <1>6, NewRngPreserves, PublishPreserves DEF Ingest
<1>7. CASE UNCHANGED vars
  BY <1>7, StutterInv
<1> QED
  BY <1>1, <1>2, <1>3, <1>4, <1>5, <1>6, <1>7 DEF Next

\* The state of the client, the ledger and the database stays well typed.
THEOREM WalletTypes == Spec => []TypeOK
<1>1. Inv => TypeOK
  BY DEF Inv
<1> QED
  BY InitInv, NextInv, <1>1, PTL DEF Spec

\* For any number of RNGs, TxOuts and blocks, whichever servers answer the
\* requests of a poll and wherever an earlier poll failed: a client whose
\* queries read user events and block count of one state has found every TxOut
\* below its block count.
THEOREM EveryTxOutIsFound == ASSUME ~EventRace PROVE Spec => []AllFound
<1>1. ASSUME Inv PROVE AllFound
  <2>1. NoRaceInv
    BY <1>1 DEF Inv, PollInv
  <2> QED
    BY <2>1 DEF AllFound, NoRaceInv, Gotten
<1> QED
  BY InitInv, NextInv, <1>1, PTL DEF Spec

\* What the assertions of get_unspent_txos and get_balance claim of the cache.
THEOREM AssertionsHold == Spec => []WalletAssertions
<1>1. ASSUME Inv PROVE WalletAssertions
  <2>1. LedgerInv /\ WalletInv
    BY <1>1 DEF Inv
  <2> QED
    BY <2>1, Zenon DEF WalletAssertions, Owned, LedgerInv, WalletInv
<1> QED
  BY InitInv, NextInv, <1>1, PTL DEF Spec

\* The balance and its block count: get_balance adds up exactly the TxOuts that
\* a ledger of get_num_blocks blocks holds unspent.
THEOREM BalanceIsCorrect == ASSUME ~EventRace PROVE Spec => []BalanceCorrect
<1>1. ASSUME Inv, poll.pc = "idle"
      PROVE  get_balance = {i \in TxOuts :
                              /\ born[i] # NotYet /\ born[i] < get_num_blocks
                              /\ ~SpentBefore(i, get_num_blocks)}
  <2>1. TypeOK /\ DbInv /\ LedgerInv /\ WalletInv /\ NoRaceInv
    BY <1>1 DEF Inv, PollInv
  <2>2. /\ key_image_data_completeness \in Nat /\ highest_processed_block_count \in Nat
        /\ \A i \in TxOuts : /\ born[i] \in Int /\ spent[i] \in Int
                             /\ owned_tx_outs[i].at \in Nat
                             /\ owned_tx_outs[i].status \in {"not_owned", "not_spent", "spent"}
    <3>1. /\ highest_processed_block_count \in Nat
          /\ \A i \in TxOuts : born[i] \in Int /\ spent[i] \in Int
      BY <2>1, Typing, Zenon
    <3>2. key_image_data_completeness \in Nat
      BY <2>1, PaykitConstants, PollingConstants DEF TypeOK
    <3>3. \A i \in TxOuts : /\ owned_tx_outs[i].at \in Nat
                            /\ owned_tx_outs[i].status \in {"not_owned", "not_spent", "spent"}
      BY <2>1, PollingConstants DEF TypeOK
    <3> QED
      BY <3>1, <3>2, <3>3
  <2>3. /\ get_num_blocks \in Nat
        /\ get_num_blocks <= highest_processed_block_count
        /\ get_num_blocks <= key_image_data_completeness
    BY <2>2, MinOfTwo DEF get_num_blocks
  <2>4. Pending = {}
    BY <1>1 DEF Pending
  <2>5. ASSUME NEW i \in TxOuts
        PROVE  i \in get_balance <=> /\ born[i] # NotYet /\ born[i] < get_num_blocks
                                     /\ ~SpentBefore(i, get_num_blocks)
    <3>1. i \in get_balance <=>
            /\ owned_tx_outs[i] # NotOwned /\ born[i] < get_num_blocks
            /\ \/ owned_tx_outs[i].status = "not_spent"
               \/ owned_tx_outs[i].at >= get_num_blocks
      BY DEF get_balance, Owned
    <3>2. /\ Gotten(i) <=> owned_tx_outs[i].status # "not_owned"
          /\ owned_tx_outs[i].status = "not_owned" => owned_tx_outs[i] = NotOwned
          /\ owned_tx_outs[i].status = "not_spent" =>
               /\ ~SpentBefore(i, owned_tx_outs[i].at)
               /\ key_image_data_completeness <= owned_tx_outs[i].at
          /\ owned_tx_outs[i].status = "spent" =>
               spent[i] # NotYet /\ owned_tx_outs[i].at = spent[i]
      BY <2>1, <2>4, Zenon DEF WalletInv
    <3>3. NotOwned.status = "not_owned"
      BY DEF NotOwned
    <3>4. Gotten(i) => born[i] # NotYet
      <4> SUFFICES ASSUME Gotten(i) PROVE born[i] # NotYet
        OBVIOUS
      <4>1. rng[i] \in Rngs
        BY DEF Gotten, Known
      <4> QED
        BY <2>1, <4>1, FoundIsPublished
    <3>5. born[i] # NotYet /\ born[i] < get_num_blocks => Gotten(i)
      <4>1. born[i] < get_num_blocks => born[i] < highest_processed_block_count
        BY <2>2, <2>3
      <4> QED
        BY <2>1, <4>1 DEF NoRaceInv
    <3>6. owned_tx_outs[i].status = "not_spent" => ~SpentBefore(i, get_num_blocks)
      BY <2>2, <2>3, <3>2 DEF SpentBefore
    <3>7. owned_tx_outs[i].status = "spent" =>
            (~SpentBefore(i, get_num_blocks) <=> owned_tx_outs[i].at >= get_num_blocks)
      BY <2>2, <2>3, <3>2 DEF SpentBefore
    <3>8. owned_tx_outs[i].status \in {"not_owned", "not_spent", "spent"}
      BY <2>2
    <3> QED
      BY <3>1, <3>2, <3>3, <3>4, <3>5, <3>6, <3>7, <3>8
  <2>6. get_balance \subseteq TxOuts
    BY DEF get_balance
  <2> QED
    BY <2>5, <2>6
<1>2. Inv => BalanceCorrect
  BY <1>1 DEF BalanceCorrect
<1> QED
  BY InitInv, NextInv, <1>2, PTL DEF Spec

\* The number of blocks for which the balance is computed never decreases.
THEOREM BalanceMovesForward == ASSUME ~EventRace PROVE Spec => NumBlocksForward
<1>1. ASSUME Inv, [Next]_vars PROVE get_num_blocks' >= get_num_blocks
  <2>1. TypeOK /\ TypeOK'
    BY <1>1, NextInv DEF Inv
  <2>2. /\ key_image_data_completeness \in Nat /\ highest_processed_block_count \in Nat
        /\ key_image_data_completeness' \in Nat /\ highest_processed_block_count' \in Nat
    <3>1. key_image_data_completeness \in Nat
      BY <2>1, PaykitConstants, PollingConstants DEF TypeOK
    <3>2. key_image_data_completeness' \in Nat
      BY <2>1, PaykitConstants, PollingConstants DEF TypeOK
    <3>3. highest_processed_block_count \in Nat
      BY <2>1, Typing, Zenon
    <3>4. highest_processed_block_count' \in Nat
      <4>1. /\ highest_processed_block_count' \in 0..scanned'
            /\ scanned' \in 0..height' /\ height' \in 0..MaxHeight
        BY <2>1 DEF TypeOK, PollingTypeOK
      <4> QED
        BY <4>1, PollingConstants
    <3> QED
      BY <3>1, <3>2, <3>3, <3>4
  <2>3. /\ highest_processed_block_count <= highest_processed_block_count'
        /\ \/ key_image_data_completeness' >= key_image_data_completeness
           \/ key_image_data_completeness' >= highest_processed_block_count
    <3>1. CASE PollForTxOuts
      <4>1. CASE PollBegin
        <5>1. /\ key_image_data_completeness' = key_image_data_completeness
              /\ highest_processed_block_count' = highest_processed_block_count
          BY <3>1, <4>1 DEF PollForTxOuts, PollBegin, NoPoll, wallet_vars, rng_set_vars
        <5> QED
          BY <2>2, <5>1
      <4>2. CASE FirstResponse
        <5>1. highest_processed_block_count' = highest_processed_block_count
          BY <4>2 DEF FirstResponse
        <5>2. \/ key_image_data_completeness' >= key_image_data_completeness
              \/ key_image_data_completeness' >= highest_processed_block_count
          BY <1>1, <3>1, <4>2, FirstResponsePreserves
        <5> QED
          BY <2>2, <5>1, <5>2
      <4>3. CASE Round
        <5>1. highest_processed_block_count' = highest_processed_block_count
          BY <4>3 DEF Round
        <5>2. key_image_data_completeness' = key_image_data_completeness
          BY <1>1, <3>1, <4>3, RoundPreserves
        <5> QED
          BY <2>2, <5>1, <5>2
      <4>4. CASE PollEnd \/ PollFails
        BY <1>1, <3>1, <4>4, PollEndPreserves
      <4> QED
        BY <3>1, <4>1, <4>2, <4>3, <4>4 DEF PollForTxOuts, PollStep
    <3>2. CASE PollForKeyImages
      <4>1. highest_processed_block_count' = highest_processed_block_count
        BY <3>2 DEF PollForKeyImages, rng_set_vars
      <4>2. key_image_data_completeness <= key_image_data_completeness'
        BY <1>1, <3>2, KeyImagesPreserve
      <4> QED
        BY <2>2, <4>1, <4>2
    <3>3. CASE UNCHANGED <<rng_set_vars, wallet_vars>>
      <4>1. /\ key_image_data_completeness' = key_image_data_completeness
            /\ highest_processed_block_count' = highest_processed_block_count
        BY <3>3 DEF wallet_vars, rng_set_vars
      <4> QED
        BY <2>2, <4>1
    <3>4. CASE KeyImagesFail \/ TransactionLands \/ OtherBlock \/ Ingest
      BY <3>3, <3>4 DEF KeyImagesFail, TransactionLands, OtherBlock, Ingest
    <3>5. CASE SendTransaction \/ IsTransactionPresent \/ LookupFails
      BY <3>3, <3>5, Zenon DEF SendTransaction, IsTransactionPresent, LookupFails, polling_vars
    <3>6. CASE UNCHANGED vars
      BY <3>3, <3>6 DEF vars, polling_vars
    <3> QED
      BY <1>1, <3>1, <3>2, <3>4, <3>5, <3>6 DEF Next
  <2>4. /\ get_num_blocks =
             IF highest_processed_block_count <= key_image_data_completeness
             THEN highest_processed_block_count ELSE key_image_data_completeness
        /\ get_num_blocks' =
             IF highest_processed_block_count' <= key_image_data_completeness'
             THEN highest_processed_block_count' ELSE key_image_data_completeness'
    BY <2>2, MinOfTwo DEF get_num_blocks
  <2> QED
    BY <2>2, <2>3, <2>4
<1> QED
  BY InitInv, NextInv, <1>1, PTL DEF Spec, NumBlocksForward

\* is_transaction_present says "expired" only of a transaction that can never
\* land any more.
THEOREM ExpiredNeverLands == Spec => []ExpiredIsFinal
<1>1. Inv => ExpiredIsFinal
  BY DEF Inv, TxInv, ExpiredIsFinal
<1> QED
  BY InitInv, NextInv, <1>1, PTL DEF Spec

=============================================================================
