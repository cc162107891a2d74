-------------------------- MODULE ViewServerProofs --------------------------
(***************************************************************************)
(* The view server is right for every number of keys and blocks and every  *)
(* limit of the queue: below highest_processed_block_count nothing is      *)
(* missing, what is fetched arrives once and in order, and the queue is    *)
(* bounded.                                                                *)
(***************************************************************************)
EXTENDS ViewServer, SequenceTheorems, WellFoundedInduction, TLAPS

\* The tables.  A key has scanned blocks of the ledger from its start on; a lost
\* one has announced what it missed; a key that senders used for a block has
\* started by then and was published with an expiry above it.
TablesInv ==
    /\ \A k \in Keys : /\ ~keys[k].exists => keys[k] = NoRow
                       /\ keys[k].start <= keys[k].next /\ keys[k].next <= height
                       /\ keys[k].lost /\ keys[k].next < keys[k].expiry =>
                            [start |-> keys[k].next, end |-> keys[k].expiry] \in missed
    /\ \A b \in 0..(height - 1) : \A k \in used[b + 1] :
         keys[k].exists /\ keys[k].start <= b /\ b < keys[k].expiry

\* The fetcher's copy of the key records is of an earlier state of the tables.
CopyInv ==
    /\ \A k \in Keys : ingress_keys[k].exists =>
         /\ keys[k].exists /\ ingress_keys[k].start = keys[k].start
         /\ ingress_keys[k].lost => keys[k].lost /\ ingress_keys[k].next = keys[k].next
    /\ \A k \in fetcher.todo : ingress_keys[k].exists

\* Without StaleKeys, a busy fetcher knows every key and every key that may be
\* published; so for the blocks it has fetched, it knows every key that senders
\* used, and none as retired before.
FreshInv ==
    ~StaleKeys =>
    /\ ~FetcherIsIdle => \A k \in Keys :
         /\ keys[k].exists => ingress_keys[k].exists
         /\ ingress_keys[k].retired =>
              keys[k].retired /\ keys[k].expiry = ingress_keys[k].expiry
    /\ \A l \in Keys : \A b \in 0..fetcher.done[l] : \A k \in used[b + 1] :
         /\ ingress_keys[k].exists
         /\ ingress_keys[k].retired => b < ingress_keys[k].expiry

\* Only scanned blocks are fetched, only fetched ones are loaded, and the enclave
\* has every block of a key from its start to the last one loaded.
LoadedInv ==
    /\ \A k \in Keys :
         /\ fetcher.done[k] # NoBlock =>
              keys[k].exists /\ keys[k].start <= fetcher.done[k]
              /\ fetcher.done[k] < keys[k].next
         /\ poll.done[k] <= fetcher.done[k]
         /\ \A b \in keys[k].start..poll.done[k] : <<k, b>> \in enclave
    /\ processed <= height
    /\ poll.pc = "tick" => poll.batch = << >>

\* A record is queued before it is counted, and the queue is emptied before its
\* count is reset.
CountInv ==
    LET counted == Len(fetched_records) - (IF fetcher.pc = "limit" THEN 1 ELSE 0)
    IN  /\ num_queued <= MAX_QUEUED_RECORDS + 1
        /\ counted <= num_queued + (IF poll.pc = "reset" THEN 0
                                    ELSE MAX_QUEUED_RECORDS + 1)

ViewInv ==
    /\ TypeOK /\ TablesInv /\ CopyInv /\ FreshInv /\ LoadedInv /\ PipelineInOrder
    /\ CountInv /\ (~StaleKeys => NothingMissing)

-----------------------------------------------------------------------------
(* The counts of the block tracker. *)

\* A set of naturals has a least one.
LEMMA LeastNatural ==
  ASSUME NEW T, T \subseteq Nat, T # {}
  PROVE  \E x \in T : \A y \in T : x <= y
<1> DEFINE R == OpToRel(<, Nat)
<1>1. IsWellFoundedOn(R, Nat)
  BY NatLessThanWellFounded, Zenon
<1>2. \A x, y \in Nat : x < y => <<x, y>> \in R
  BY DEF OpToRel
<1> HIDE DEF R
<1>3. PICK x \in T : \A y \in T : ~ (<<y, x>> \in R)
  BY <1>1, WFMin, Zenon
<1>4. \A y \in T : y \in Nat /\ x \in Nat /\ ~(y < x)
  BY <1>2, <1>3, Zenon
<1> QED
  BY <1>3, <1>4

\* highest_known_block_count is the highest of the counts.
LEMMA KnownCount ==
  ASSUME NEW done \in Tracker, NEW h \in Nat, \A k \in Keys : done[k] < h
  PROVE  /\ highest_known_block_count(done) \in 0..h
         /\ \E k \in Keys : highest_known_block_count(done) = done[k] + 1
         /\ \A k \in Keys : done[k] + 1 <= highest_known_block_count(done)
<1>1. \A k \in Keys : done[k] \in Int /\ done[k] + 1 \in Nat
  <2> TAKE k \in Keys
  <2>1. done[k] \in Nat \/ done[k] = -1
    BY DEF Tracker, NoBlock
  <2> QED
    BY <2>1
<1> DEFINE T == {h - (done[k] + 1) : k \in Keys}
<1>2. T \subseteq Nat /\ T # {}
  <2>1. ASSUME NEW k \in Keys PROVE h - (done[k] + 1) \in Nat
    <3>1. done[k] < h /\ done[k] \in Int
      BY <1>1
    <3> QED
      BY <3>1
  <2> QED
    BY <2>1, ViewConstants
<1>3. PICK x \in T : \A y \in T : x <= y
  BY <1>2, LeastNatural, Zenon
<1>4. PICK l \in Keys : x = h - (done[l] + 1)
  BY <1>3
<1>5. \A k \in Keys : done[k] + 1 <= done[l] + 1
  <2> TAKE k \in Keys
  <2>1. h - (done[l] + 1) <= h - (done[k] + 1)
    BY <1>3, <1>4
  <2> QED
    BY <1>1, <2>1
<1> HIDE DEF T
<1>6. \E n \in {done[k] + 1 : k \in Keys} : \A k \in Keys : done[k] + 1 <= n
  BY <1>5
<1>7. /\ highest_known_block_count(done) \in {done[k] + 1 : k \in Keys}
      /\ \A k \in Keys : done[k] + 1 <= highest_known_block_count(done)
  BY <1>6, Zenon DEF highest_known_block_count
<1>8. PICK m \in Keys : highest_known_block_count(done) = done[m] + 1
  BY <1>7
<1>9. done[m] + 1 \in 0..h
  BY <1>1
<1> QED
  BY <1>7, <1>8, <1>9

\* highest_fully_processed_block_count passes known blocks that nothing holds
\* back.
LEMMA ProcessedCount ==
  ASSUME NEW done \in Tracker, NEW h \in Nat, \A k \in Keys : done[k] < h,
         NEW recs, NEW last \in Nat, last <= h,
         NEW n, n = highest_fully_processed_block_count(done, recs, last)
  PROVE  /\ n \in last..h
         /\ \A b \in last..(n - 1) : /\ ~Blocked(done, recs, b)
                                     /\ \E k \in Keys : b <= done[k]
<1> DEFINE known == highest_known_block_count(done)
           top == IF known > last THEN known ELSE last
           T == {b \in last..top : b >= known \/ Blocked(done, recs, b)}
<1>1. known \in 0..h /\ \E k \in Keys : known = done[k] + 1
  BY KnownCount
<1>2. n = CHOOSE c \in last..top :
            /\ c >= known \/ Blocked(done, recs, c)
            /\ \A b \in last..(c - 1) : ~Blocked(done, recs, b)
  BY DEF highest_fully_processed_block_count
<1> HIDE DEF known
<1>3. top \in last..h /\ top >= known /\ (top > last => top = known)
  BY <1>1
<1> HIDE DEF top
<1>4. T \subseteq Nat /\ T # {}
  BY <1>1, <1>3
<1>5. PICK c \in T : \A b \in T : c <= b
  BY <1>4, LeastNatural, Zenon
<1>6. \A b \in last..(c - 1) : ~Blocked(done, recs, b)
  <2> SUFFICES ASSUME NEW b \in last..(c - 1), Blocked(done, recs, b) PROVE FALSE
    OBVIOUS
  <2>1. b \in T
    BY <1>3, <1>5
  <2> QED
    BY <1>3, <1>5, <2>1
<1>7. /\ n \in last..top
      /\ \A b \in last..(n - 1) : ~Blocked(done, recs, b)
  BY <1>2, <1>5, <1>6
<1>8. \A b \in last..(n - 1) : \E k \in Keys : b <= done[k]
  <2> TAKE b \in last..(n - 1)
  <2>1. b < known
    BY <1>1, <1>3, <1>7
  <2>2. PICK k \in Keys : known = done[k] + 1
    BY <1>1
  <2>3. done[k] \in Int
    BY DEF Tracker, NoBlock
  <2> QED
    BY <2>1, <2>2, <2>3
<1> QED
  BY <1>3, <1>7, <1>8

-----------------------------------------------------------------------------
(* The ledger and the ingest servers. *)

\* What ingest may do to the keys: rows stay, with their start; scans and expiry
\* only grow, and not once the key is lost; and, without StaleKeys, no key is
\* registered or unretired while the fetcher is busy.
KeysGrow ==
    /\ \A k \in Keys : keys[k].exists =>
         /\ keys'[k].exists /\ keys'[k].start = keys[k].start
         /\ keys'[k].next >= keys[k].next /\ keys'[k].expiry >= keys[k].expiry
         /\ keys[k].lost => keys'[k].lost /\ keys'[k].next = keys[k].next
                                         /\ keys'[k].expiry = keys[k].expiry
    /\ ~StaleKeys /\ ~FetcherIsIdle => \A k \in Keys :
         /\ keys'[k].exists => keys[k].exists
         /\ keys[k].retired => keys'[k].retired /\ keys'[k].expiry = keys[k].expiry

\* The types of the tables.
LEMMA TableTypes ==
  ASSUME TypeOK
  PROVE  /\ height \in Nat /\ keys \in [Keys -> KeyState]
         /\ \A k \in Keys : /\ keys[k] \in KeyState
                            /\ keys[k].start \in Nat /\ keys[k].next \in Nat
                            /\ keys[k].expiry \in Nat /\ keys[k].exists \in BOOLEAN
                            /\ keys[k].retired \in BOOLEAN /\ keys[k].lost \in BOOLEAN
         /\ used \in Seq(SUBSET Keys) /\ Len(used) = height
         /\ \A b \in 0..(height - 1) : used[b + 1] \subseteq Keys
<1>1. height \in Nat /\ keys \in [Keys -> KeyState]
  BY ViewConstants DEF TypeOK
<1>2. used \in Seq(SUBSET Keys) /\ Len(used) = height
  BY DEF TypeOK
<1>3. \A b \in 0..(height - 1) : used[b + 1] \subseteq Keys
  BY <1>1, <1>2
<1>4. \A k \in Keys : keys[k] \in KeyState
  BY <1>1
<1> QED
  BY <1>1, <1>2, <1>3, <1>4 DEF KeyState

\* One key's row is replaced.
LEMMA RowReplaced ==
  ASSUME TypeOK, TablesInv, NEW k \in Keys, NEW row \in KeyState,
         keys' = [keys EXCEPT ![k] = row],
         UNCHANGED <<height, used>>, missed \subseteq missed',
         row.exists, row.start <= row.next, row.next <= height,
         keys[k].exists =>
           /\ row.start = keys[k].start /\ row.next >= keys[k].next
           /\ row.expiry >= keys[k].expiry
           /\ keys[k].lost => row.lost /\ row.next = keys[k].next
                                      /\ row.expiry = keys[k].expiry,
         row.lost /\ row.next < row.expiry =>
           [start |-> row.next, end |-> row.expiry] \in missed',
         ~StaleKeys /\ ~FetcherIsIdle =>
           keys[k].exists /\ (keys[k].retired => row.retired /\ row.expiry = keys[k].expiry)
  PROVE  TablesInv' /\ KeysGrow
<1>1. /\ keys'[k] = row /\ \A l \in Keys : l # k => keys'[l] = keys[l]
      /\ height' = height /\ used' = used
  BY TableTypes
<1>2. KeysGrow
  <2>1. \A l \in Keys : keys[l].next >= keys[l].next /\ keys[l].expiry >= keys[l].expiry
    BY TableTypes
  <2> QED
    BY <1>1, <2>1 DEF KeysGrow
<1>3. \A b \in 0..(height - 1) : \A l \in used[b + 1] :
         keys'[l].exists /\ keys'[l].start <= b /\ b < keys'[l].expiry
  <2> SUFFICES ASSUME NEW b \in 0..(height - 1), NEW l \in used[b + 1]
               PROVE  keys'[l].exists /\ keys'[l].start <= b /\ b < keys'[l].expiry
    OBVIOUS
  <2>1. l \in Keys /\ keys[l].exists /\ keys[l].start <= b /\ b < keys[l].expiry
    BY TableTypes DEF TablesInv
  <2>2. CASE l = k
    <3>1. row.expiry \in Nat /\ keys[k].expiry \in Nat /\ height \in Nat
      BY TableTypes DEF KeyState
    <3>2. row.start = keys[k].start /\ row.expiry >= keys[k].expiry
      BY <2>1, <2>2
    <3>3. b < row.expiry
      BY <2>1, <2>2, <3>1, <3>2
    <3> QED
      BY <1>1, <2>1, <2>2, <3>2, <3>3
  <2> QED
    BY <1>1, <2>1, <2>2
<1>4. \A l \in Keys : /\ ~keys'[l].exists => keys'[l] = NoRow
                     /\ keys'[l].start <= keys'[l].next /\ keys'[l].next <= height
                     /\ keys'[l].lost /\ keys'[l].next < keys'[l].expiry =>
                          [start |-> keys'[l].next, end |-> keys'[l].expiry] \in missed'
  BY <1>1 DEF TablesInv
<1> QED
  BY <1>1, <1>2, <1>3, <1>4 DEF TablesInv

\* A step of the ingest servers keeps the tables in order.
LEMMA IngestGrows ==
  ASSUME TypeOK, TablesInv, IngestStep
  PROVE  /\ TablesInv' /\ KeysGrow /\ keys' \in [Keys -> KeyState]
         /\ missed' \in SUBSET [start: Nat, end: Nat] /\ missed \subseteq missed'
         /\ changes' \in 0..MaxChanges
         /\ UNCHANGED <<height, used, view_vars>>
<1>1. UNCHANGED <<height, used, view_vars>> /\ changes' \in 0..MaxChanges
  <2>1. UNCHANGED <<used, view_vars>> /\ UNCHANGED height
    BY Zenon DEF IngestStep, Scan, Publish, PublishTo, Register, Lose, SetRetired
  <2>2. changes' = changes \/ (changes > 0 /\ changes' = changes - 1)
    BY DEF IngestStep
  <2>3. changes \in 0..MaxChanges /\ MaxChanges \in Nat
    BY ViewConstants DEF TypeOK
  <2>4. changes' \in 0..MaxChanges
    BY <2>2, <2>3
  <2> QED
    BY <2>1, <2>4
<1>2. /\ missed \in SUBSET [start: Nat, end: Nat] /\ height \in Nat
      /\ keys \in [Keys -> KeyState]
  BY TableTypes DEF TypeOK
<1> DEFINE Done(row, k) ==
      /\ keys' = [keys EXCEPT ![k] = row] /\ row \in KeyState
      /\ row.exists /\ row.start <= row.next /\ row.next <= height
      /\ keys[k].exists =>
           /\ row.start = keys[k].start /\ row.next >= keys[k].next
           /\ row.expiry >= keys[k].expiry
           /\ keys[k].lost => row.lost /\ row.next = keys[k].next
                                      /\ row.expiry = keys[k].expiry
      /\ row.lost /\ row.next < row.expiry =>
           [start |-> row.next, end |-> row.expiry] \in missed'
      /\ ~StaleKeys /\ ~FetcherIsIdle =>
           keys[k].exists /\ (keys[k].retired => row.retired /\ row.expiry = keys[k].expiry)
<1>3. PICK k \in Keys :
        \/ Scan(k) \/ Publish(k) \/ ((StaleKeys \/ FetcherIsIdle) /\ Register(k))
        \/ Lose(k) \/ ((StaleKeys \/ FetcherIsIdle \/ ~keys[k].retired) /\ SetRetired(k))
  BY DEF IngestStep
<1>4. /\ keys[k] \in KeyState /\ keys[k].start \in Nat /\ keys[k].next \in Nat
      /\ keys[k].expiry \in Nat /\ keys[k].exists \in BOOLEAN
      /\ keys[k].retired \in BOOLEAN /\ keys[k].lost \in BOOLEAN
  BY TableTypes
<1>5. /\ keys[k].start <= keys[k].next /\ keys[k].next <= height
      /\ keys[k].lost /\ keys[k].next < keys[k].expiry =>
           [start |-> keys[k].next, end |-> keys[k].expiry] \in missed
  BY DEF TablesInv
<1> SUFFICES \E row \in KeyState :
               /\ Done(row, k)
               /\ missed' \in SUBSET [start: Nat, end: Nat] /\ missed \subseteq missed'
  <2> SUFFICES ASSUME NEW row \in KeyState, Done(row, k),
                      missed' \in SUBSET [start: Nat, end: Nat], missed \subseteq missed'
               PROVE  TablesInv' /\ KeysGrow /\ keys' \in [Keys -> KeyState]
    BY <1>1, Zenon
  <2>1. keys' \in [Keys -> KeyState]
    BY <1>2
  <2>2. UNCHANGED <<height, used>>
    BY <1>1
  <2>3. TablesInv' /\ KeysGrow
    BY <2>2, RowReplaced, Zenon
  <2> QED
    BY <2>1, <2>3
<1>6. CASE Scan(k)
  <2> DEFINE row == [keys[k] EXCEPT !.next = @ + 1]
  <2>1. keys' = [keys EXCEPT ![k] = row] /\ keys[k].exists /\ ~keys[k].lost
        /\ keys[k].next < height /\ missed' = missed
    BY <1>2, <1>6 DEF Scan
  <2>2. Done(row, k)
    BY <1>2, <1>4, <1>5, <2>1 DEF KeyState
  <2> HIDE DEF row
  <2> QED
    BY <1>2, <2>1, <2>2, Zenon
<1>7. CASE Publish(k)
  <2>1. PICK expiry \in Expiries : PublishTo(k, expiry)
    BY <1>7 DEF Publish
  <2> DEFINE row == [keys[k] EXCEPT !.expiry = expiry]
  <2>2. keys' = [keys EXCEPT ![k] = row] /\ keys[k].exists /\ ~keys[k].lost
        /\ ~keys[k].retired /\ expiry > keys[k].expiry /\ expiry \in Nat /\ missed' = missed
    BY <1>2, <2>1, ViewConstants DEF PublishTo
  <2>3. Done(row, k)
    BY <1>2, <1>4, <1>5, <2>2 DEF KeyState
  <2> HIDE DEF row
  <2> QED
    BY <1>2, <2>2, <2>3, Zenon
<1>8. CASE (StaleKeys \/ FetcherIsIdle) /\ Register(k)
  <2>1. PICK start \in {b \in 0..height : b + MaxLag >= height} :
          keys' = [keys EXCEPT ![k] = NewRow(start)]
    BY <1>8, Zenon DEF Register
  <2>2. PICK row : row = NewRow(start)
    OBVIOUS
  <2>3. ~keys[k].exists /\ missed' = missed /\ start \in 0..height
    BY <1>8, <2>1 DEF Register
  <2>4. keys' = [keys EXCEPT ![k] = row]
    BY <2>1, <2>2
  <2>5. /\ row \in KeyState /\ row.exists /\ row.start = start /\ row.next = start
        /\ ~row.lost
    BY <1>2, <2>2, <2>3 DEF NewRow, KeyState
  <2>6. Done(row, k)
    BY <1>2, <1>8, <2>3, <2>4, <2>5
  <2> QED
    BY <1>2, <2>3, <2>6, Zenon
<1>9. CASE Lose(k)
  <2> DEFINE row == [keys[k] EXCEPT !.lost = TRUE]
  <2>1. keys' = [keys EXCEPT ![k] = row] /\ keys[k].exists /\ missed \subseteq missed'
    BY <1>2, <1>9 DEF Lose
  <2>2. keys[k].next < keys[k].expiry =>
          [start |-> keys[k].next, end |-> keys[k].expiry] \in missed'
    BY <1>9 DEF Lose
  <2>3. missed' \in SUBSET [start: Nat, end: Nat]
    BY <1>2, <1>4, <1>9 DEF Lose
  <2>4. /\ row \in KeyState /\ row.exists = keys[k].exists /\ row.start = keys[k].start
        /\ row.next = keys[k].next /\ row.expiry = keys[k].expiry
        /\ row.retired = keys[k].retired /\ row.lost
    BY <1>4, Zenon DEF KeyState
  <2> HIDE DEF row
  <2>5. row.next >= keys[k].next /\ row.expiry >= keys[k].expiry
    BY <1>4, <2>4
  <2>6. Done(row, k)
    BY <1>5, <2>1, <2>2, <2>4, <2>5
  <2> QED
    BY <2>1, <2>3, <2>6, Zenon
<1>10. CASE (StaleKeys \/ FetcherIsIdle \/ ~keys[k].retired) /\ SetRetired(k)
  <2> DEFINE row == [keys[k] EXCEPT !.retired = ~@]
  <2>1. keys' = [keys EXCEPT ![k] = row] /\ keys[k].exists /\ ~keys[k].lost
        /\ missed' = missed
    BY <1>2, <1>10 DEF SetRetired
  <2>2. Done(row, k)
    BY <1>2, <1>4, <1>5, <1>10, <2>1 DEF KeyState
  <2> HIDE DEF row
  <2> QED
    BY <1>2, <2>1, <2>2, Zenon
<1> QED
  BY <1>3, <1>6, <1>7, <1>8, <1>9, <1>10, SMTT(30)

\* The types of the two threads.
LEMMA ThreadTypes ==
  ASSUME TypeOK
  PROVE  /\ poll.done \in Tracker /\ fetcher.done \in Tracker
         /\ \A k \in Keys : /\ poll.done[k] \in Int /\ fetcher.done[k] \in Int
                            /\ poll.done[k] # NoBlock => poll.done[k] \in Nat
                            /\ fetcher.done[k] # NoBlock => fetcher.done[k] \in Nat
<1>1. poll.done \in Tracker /\ fetcher.done \in Tracker
  BY DEF TypeOK
<1>2. \A k \in Keys : /\ poll.done[k] \in Nat \cup {NoBlock}
                     /\ fetcher.done[k] \in Nat \cup {NoBlock}
  BY <1>1 DEF Tracker
<1> QED
  BY <1>1, <1>2 DEF NoBlock

\* The types of what is on its way between them.
LEMMA ComingTypes ==
  ASSUME TypeOK
  PROVE  LET coming == poll.batch \o fetched_records
         IN  /\ poll.batch \in Seq(FetchedRecords) /\ fetched_records \in Seq(FetchedRecords)
             /\ coming \in Seq(FetchedRecords)
             /\ \A i \in DOMAIN coming : coming[i].key \in Keys /\ coming[i].block \in Nat
<1> DEFINE coming == poll.batch \o fetched_records
<1>1. poll.batch \in Seq(FetchedRecords) /\ fetched_records \in Seq(FetchedRecords)
  BY DEF TypeOK
<1>2. /\ coming \in Seq(FetchedRecords)
      /\ \A i \in DOMAIN coming : coming[i] \in FetchedRecords
  BY <1>1
<1>3. \A i \in DOMAIN coming : coming[i].key \in Keys /\ coming[i].block \in Nat
  BY <1>2, SMTT(30) DEF FetchedRecords
<1> QED
  BY <1>1, <1>2, <1>3

-----------------------------------------------------------------------------
(* What is on its way from the fetcher to the enclave. *)

\* PipelineInOrder of the records on the way, what each thread has done, and the
\* key records.
InOrder(coming, fetched, loaded, recs) ==
    /\ \A i \in 1..Len(coming) :
         LET k == coming[i].key
             b == coming[i].block
         IN  /\ b <= fetched[k]
             /\ \A j \in 1..(i - 1) : coming[j].key = k => coming[j].block < b
             /\ \/ b = NextBlock(loaded, recs[k], k)
                \/ \E j \in 1..(i - 1) : coming[j] = [key |-> k, block |-> b - 1]
    /\ \A k \in Keys :
         \/ fetched[k] = loaded[k]
         \/ \E i \in 1..Len(coming) : coming[i] = [key |-> k, block |-> fetched[k]]

LEMMA OrderIs ==
  ASSUME poll.batch \o fetched_records \in Seq(FetchedRecords)
  PROVE  PipelineInOrder <=>
           (~stop => InOrder(poll.batch \o fetched_records, fetcher.done, poll.done, keys))
<1>1. DOMAIN (poll.batch \o fetched_records) = 1..Len(poll.batch \o fetched_records)
  OBVIOUS
<1> QED
  BY <1>1 DEF PipelineInOrder, InOrder

\* The same of the next state.
LEMMA OrderIsNext ==
  ASSUME NEW coming \in Seq(FetchedRecords), coming = poll'.batch \o fetched_records',
         ~stop' => InOrder(coming, fetcher'.done, poll'.done, keys')
  PROVE  PipelineInOrder'
<1>1. DOMAIN coming = 1..Len(coming)
  OBVIOUS
<1> QED
  BY <1>1, Zenon DEF PipelineInOrder, InOrder, NextBlock

\* A record appended to the queue is last of all.
LEMMA AppendLast ==
  ASSUME NEW S, NEW s \in Seq(S), NEW t \in Seq(S), NEW r \in S
  PROVE  s \o Append(t, r) = Append(s \o t, r) /\ Append(s \o t, r) \in Seq(S)
<1>1. s \o t \in Seq(S) /\ <<r>> \in Seq(S)
  OBVIOUS
<1>2. Append(t, r) = t \o <<r>>
  BY AppendIsConcat
<1>3. Append(s \o t, r) = (s \o t) \o <<r>>
  BY <1>1, AppendIsConcat
<1>4. (s \o t) \o <<r>> = s \o (t \o <<r>>)
  BY <1>1, ConcatAssociative
<1>5. Append(s \o t, r) \in Seq(S)
  BY <1>1
<1> QED
  BY <1>2, <1>3, <1>4, <1>5

\* The types of a record on the way.
LEMMA RecordTypes ==
  ASSUME NEW c \in Seq(FetchedRecords)
  PROVE  /\ Len(c) \in Nat
         /\ \A i \in 1..Len(c) : c[i].key \in Keys /\ c[i].block \in Nat
<1>1. Len(c) \in Nat /\ \A i \in 1..Len(c) : c[i] \in FetchedRecords
  OBVIOUS
<1> QED
  BY <1>1 DEF FetchedRecords

\* The last block done with a key, and the next.
LEMMA TrackerTypes ==
  ASSUME NEW done \in Tracker, NEW recs \in [Keys -> KeyState], NEW k \in Keys
  PROVE  /\ done[k] \in Int /\ (done[k] # NoBlock => done[k] \in Nat)
         /\ NextBlock(done, recs[k], k) \in Nat /\ done[k] < NextBlock(done, recs[k], k)
         /\ done[k] # NoBlock => NextBlock(done, recs[k], k) - 1 = done[k]
<1>1. done[k] \in Nat \/ done[k] = NoBlock
  BY DEF Tracker
<1>2. recs[k].start \in Nat
  BY DEF KeyState
<1> QED
  BY <1>1, <1>2 DEF NextBlock, NoBlock

\* The fetcher appends the next block of a key.
LEMMA FetchInOrder ==
  ASSUME NEW c \in Seq(FetchedRecords), NEW f \in Tracker, NEW p \in Tracker,
         NEW recs \in [Keys -> KeyState], InOrder(c, f, p, recs),
         NEW k \in Keys, NEW b, b = NextBlock(f, recs[k], k)
  PROVE  InOrder(Append(c, [key |-> k, block |-> b]), [f EXCEPT ![k] = b], p, recs)
<1> DEFINE n == Len(c)
           r == [key |-> k, block |-> b]
           d == Append(c, r)
           g == [f EXCEPT ![k] = b]
<1>1. /\ f[k] \in Int /\ b \in Nat /\ f[k] < b
      /\ f[k] # NoBlock => f[k] \in Nat /\ b - 1 = f[k]
  BY TrackerTypes
<1>2. r \in FetchedRecords /\ r.key = k /\ r.block = b
  BY <1>1 DEF FetchedRecords
<1>3. g[k] = b /\ \A l \in Keys : l # k => g[l] = f[l]
  BY DEF Tracker
<1>4. n \in Nat /\ \A i \in 1..n : c[i].key \in Keys /\ c[i].block \in Nat
  BY RecordTypes
<1>5. Len(d) = n + 1 /\ d[n + 1] = r /\ \A i \in 1..n : d[i] = c[i]
  OBVIOUS
<1>6. \A i \in 1..n :
        /\ c[i].block <= f[c[i].key]
        /\ \A j \in 1..(i - 1) : c[j].key = c[i].key => c[j].block < c[i].block
        /\ \/ c[i].block = NextBlock(p, recs[c[i].key], c[i].key)
           \/ \E j \in 1..(i - 1) : c[j] = [key |-> c[i].key, block |-> c[i].block - 1]
  BY DEF InOrder
<1>7. \A l \in Keys : \/ f[l] = p[l]
                     \/ \E i \in 1..n : c[i] = [key |-> l, block |-> f[l]]
  BY DEF InOrder
<1> HIDE DEF n, d, g
<1>8. ASSUME NEW i \in 1..n
      PROVE  c[i].block <= g[c[i].key] /\ (c[i].key = k => c[i].block < b)
  <2>1. c[i].block <= f[c[i].key] /\ c[i].block \in Nat
    BY <1>4, <1>6, Zenon
  <2>2. CASE c[i].key = k
    <3>1. c[i].block <= f[k]
      BY <2>1, <2>2
    <3>2. c[i].block < b /\ c[i].block <= b
      BY <1>1, <2>1, <3>1
    <3> QED
      BY <1>3, <2>2, <3>2
  <2>3. CASE c[i].key # k
    BY <1>3, <1>4, <2>1, <2>3
  <2> QED
    BY <2>2, <2>3
<1>9. \/ b = NextBlock(p, recs[k], k)
      \/ \E j \in 1..n : c[j] = [key |-> k, block |-> b - 1]
  <2>1. CASE f[k] = p[k]
    BY <2>1 DEF NextBlock
  <2>2. CASE f[k] # p[k]
    <3>1. PICK i \in 1..n : c[i] = [key |-> k, block |-> f[k]]
      BY <1>7, <2>2
    <3>2. f[k] \in Nat
      BY <1>4, <3>1
    <3>3. f[k] # NoBlock
      BY <3>2 DEF NoBlock
    <3> QED
      BY <1>1, <3>1, <3>3
  <2> QED
    BY <2>1, <2>2
<1>10. /\ \A i \in 1..(n + 1) : i \in 1..n \/ i = n + 1
       /\ \A i \in 1..n : 1..(i - 1) \subseteq 1..n
       /\ 1..n = 1..((n + 1) - 1) /\ n + 1 \in 1..(n + 1) /\ 1..n \subseteq 1..(n + 1)
  BY <1>4
<1>11. ASSUME NEW i \in 1..(n + 1)
       PROVE  /\ d[i].block <= g[d[i].key]
              /\ \A j \in 1..(i - 1) : d[j].key = d[i].key => d[j].block < d[i].block
              /\ \/ d[i].block = NextBlock(p, recs[d[i].key], d[i].key)
                 \/ \E j \in 1..(i - 1) : d[j] = [key |-> d[i].key, block |-> d[i].block - 1]
  <2>1. CASE i \in 1..n
    <3>1. d[i] = c[i] /\ \A j \in 1..(i - 1) : d[j] = c[j]
      BY <1>5, <1>10, <2>1
    <3> QED
      BY <1>6, <1>8, <2>1, <3>1, Zenon
  <2>2. CASE i = n + 1
    <3>1. /\ d[i].key = k /\ d[i].block = b /\ 1..(i - 1) = 1..n
          /\ \A j \in 1..n : d[j] = c[j]
      BY <1>2, <1>5, <1>10, <2>2
    <3>2. b <= g[k]
      BY <1>1, <1>3
    <3> QED
      BY <1>8, <1>9, <3>1, <3>2, Zenon
  <2> QED
    BY <1>10, <2>1, <2>2
<1>12. ASSUME NEW l \in Keys
       PROVE  g[l] = p[l] \/ \E i \in 1..(n + 1) : d[i] = [key |-> l, block |-> g[l]]
  <2>1. CASE l = k
    BY <1>3, <1>5, <1>10, <2>1
  <2>2. CASE l # k
    BY <1>3, <1>5, <1>7, <1>10, <2>2
  <2> QED
    BY <2>1, <2>2
<1>13. InOrder(d, g, p, recs)
  BY <1>5, <1>11, <1>12 DEF InOrder
<1> QED
  BY <1>13 DEF d, g

\* The first record of the batch is the first of all.
LEMMA TailFirst ==
  ASSUME NEW S, NEW s \in Seq(S), NEW t \in Seq(S), s # << >>
  PROVE  /\ s \o t \in Seq(S) /\ s \o t # << >> /\ Head(s \o t) = Head(s)
         /\ Tail(s) \o t = Tail(s \o t) /\ Tail(s) \in Seq(S) /\ Head(s) \in S
<1>1. /\ s \o t \in Seq(S) /\ Len(s \o t) = Len(s) + Len(t)
      /\ \A i \in 1..(Len(s) + Len(t)) :
           (s \o t)[i] = IF i <= Len(s) THEN s[i] ELSE t[i - Len(s)]
  BY ConcatProperties
<1>2. Len(s) \in Nat /\ Len(s) > 0 /\ Len(t) \in Nat
  BY EmptySeq
<1>3. s \o t # << >> /\ Head(s \o t) = Head(s) /\ Head(s) \in S
  BY <1>1, <1>2
<1>4. /\ Tail(s) \in Seq(S) /\ Len(Tail(s)) = Len(s) - 1
      /\ \A i \in 1..Len(Tail(s)) : Tail(s)[i] = s[i + 1]
  BY HeadTailProperties
<1>5. /\ Tail(s \o t) \in Seq(S) /\ Len(Tail(s \o t)) = Len(s \o t) - 1
      /\ \A i \in 1..Len(Tail(s \o t)) : Tail(s \o t)[i] = (s \o t)[i + 1]
  BY <1>1, <1>3, HeadTailProperties
<1>6. /\ Tail(s) \o t \in Seq(S) /\ Len(Tail(s) \o t) = (Len(s) - 1) + Len(t)
      /\ \A i \in 1..((Len(s) - 1) + Len(t)) :
           (Tail(s) \o t)[i] = IF i <= Len(s) - 1 THEN Tail(s)[i] ELSE t[i - (Len(s) - 1)]
  BY <1>4, ConcatProperties
<1>7. ASSUME NEW i \in 1..((Len(s) - 1) + Len(t)) PROVE (Tail(s) \o t)[i] = Tail(s \o t)[i]
  <2>1. Tail(s \o t)[i] = (s \o t)[i + 1] /\ i + 1 \in 1..(Len(s) + Len(t))
    BY <1>1, <1>2, <1>5
  <2>2. CASE i <= Len(s) - 1
    <3>1. (Tail(s) \o t)[i] = s[i + 1]
      BY <1>2, <1>4, <1>6, <2>2
    <3> QED
      BY <1>1, <1>2, <2>1, <2>2, <3>1
  <2>3. CASE ~(i <= Len(s) - 1)
    <3>1. (Tail(s) \o t)[i] = t[i - (Len(s) - 1)] /\ i - (Len(s) - 1) = (i + 1) - Len(s)
      BY <1>2, <1>6, <2>3
    <3>2. (s \o t)[i + 1] = t[(i + 1) - Len(s)]
      BY <1>1, <1>2, <2>1, <2>3
    <3> QED
      BY <2>1, <3>1, <3>2
  <2> QED
    BY <2>2, <2>3
<1>8. Len(Tail(s) \o t) = Len(Tail(s \o t))
  BY <1>1, <1>2, <1>5, <1>6
<1>9. Tail(s) \o t = Tail(s \o t)
  BY <1>5, <1>6, <1>7, <1>8, SeqEqual
<1> QED
  BY <1>1, <1>3, <1>4, <1>9

\* The poll thread loads the first record: it is the next block of its key.
LEMMA LoadInOrder ==
  ASSUME NEW c \in Seq(FetchedRecords), NEW f \in Tracker, NEW p \in Tracker,
         NEW recs \in [Keys -> KeyState], InOrder(c, f, p, recs), c # << >>
  PROVE  LET k == Head(c).key
             b == Head(c).block
         IN  /\ b = NextBlock(p, recs[k], k) /\ b <= f[k]
             /\ InOrder(Tail(c), f, [p EXCEPT ![k] = b], recs)
<1> DEFINE k == Head(c).key
           b == Head(c).block
           n == Len(c)
           d == Tail(c)
           q == [p EXCEPT ![k] = b]
<1>1. n \in Nat /\ n > 0 /\ \A i \in 1..n : c[i].key \in Keys /\ c[i].block \in Nat
  BY RecordTypes, EmptySeq
<1>2. c[1].key = k /\ c[1].block = b /\ k \in Keys /\ b \in Nat
  BY <1>1
<1>3. Len(d) = n - 1 /\ \A i \in 1..(n - 1) : d[i] = c[i + 1]
  BY HeadTailProperties
<1>4. \A i \in 1..n :
        /\ c[i].block <= f[c[i].key]
        /\ \A j \in 1..(i - 1) : c[j].key = c[i].key => c[j].block < c[i].block
        /\ \/ c[i].block = NextBlock(p, recs[c[i].key], c[i].key)
           \/ \E j \in 1..(i - 1) : c[j] = [key |-> c[i].key, block |-> c[i].block - 1]
  BY DEF InOrder
<1>5. \A l \in Keys : \/ f[l] = p[l]
                     \/ \E i \in 1..n : c[i] = [key |-> l, block |-> f[l]]
  BY DEF InOrder
<1>6. b = NextBlock(p, recs[k], k) /\ b <= f[k]
  <2>1. 1 \in 1..n /\ 1..(1 - 1) = {}
    BY <1>1
  <2> QED
    BY <1>2, <1>4, <2>1, Zenon
<1>7. q[k] = b /\ \A l \in Keys : l # k => q[l] = p[l]
  BY <1>2 DEF Tracker
<1>8. b # NoBlock /\ p[k] \in Int /\ f[k] \in Int /\ p[k] < b
  BY <1>2, <1>6, TrackerTypes DEF NoBlock
<1> HIDE DEF k, b, n, d, q
<1>9. ASSUME NEW i \in 1..(n - 1)
      PROVE  /\ d[i].block <= f[d[i].key]
             /\ \A j \in 1..(i - 1) : d[j].key = d[i].key => d[j].block < d[i].block
             /\ \/ d[i].block = NextBlock(q, recs[d[i].key], d[i].key)
                \/ \E j \in 1..(i - 1) : d[j] = [key |-> d[i].key, block |-> d[i].block - 1]
  <2> DEFINE l == c[i + 1].key
             e == c[i + 1].block
  <2>1. /\ i + 1 \in 1..n /\ d[i] = c[i + 1] /\ 1 \in 1..((i + 1) - 1)
        /\ \A j \in 1..(i - 1) : j + 1 \in 1..((i + 1) - 1) /\ d[j] = c[j + 1]
    BY <1>1, <1>3
  <2>2. l \in Keys /\ e \in Nat
    BY <1>1, <2>1
  <2>3. /\ e <= f[l]
        /\ \A j \in 1..((i + 1) - 1) : c[j].key = l => c[j].block < e
        /\ \/ e = NextBlock(p, recs[l], l)
           \/ \E j \in 1..((i + 1) - 1) : c[j] = [key |-> l, block |-> e - 1]
    BY <1>4, <2>1
  <2>4. d[i].key = l /\ d[i].block = e
    BY <2>1
  <2> HIDE DEF l, e
  <2>5. \/ e = NextBlock(q, recs[l], l)
        \/ \E j \in 1..(i - 1) : d[j] = [key |-> l, block |-> e - 1]
    <3>1. CASE e = NextBlock(p, recs[l], l)
      <4>1. l # k
        <5> SUFFICES ASSUME l = k PROVE FALSE
          OBVIOUS
        <5>1. b < e
          BY <1>2, <2>1, <2>3
        <5> QED
          BY <1>2, <1>6, <3>1, <5>1
      <4> QED
        BY <1>7, <2>2, <3>1, <4>1 DEF NextBlock
    <3>2. CASE \E j \in 1..((i + 1) - 1) : c[j] = [key |-> l, block |-> e - 1]
      <4>1. PICK j \in 1..((i + 1) - 1) : c[j] = [key |-> l, block |-> e - 1]
        BY <3>2
      <4>2. CASE j = 1
        <5>1. l = k /\ b = e - 1
          BY <1>2, <4>1, <4>2
        <5>2. e = b + 1
          BY <1>2, <2>2, <5>1
        <5> QED
          BY <1>7, <1>8, <5>1, <5>2 DEF NextBlock
      <4>3. CASE j # 1
        <5>1. j - 1 \in 1..(i - 1) /\ (j - 1) + 1 = j
          BY <1>1, <4>3
        <5>2. d[j - 1] = c[j]
          BY <2>1, <5>1
        <5> QED
          BY <4>1, <5>1, <5>2
      <4> QED
        BY <4>2, <4>3
    <3> QED
      BY <2>3, <3>1, <3>2
  <2>6. \A j \in 1..(i - 1) : d[j].key = l => d[j].block < e
    BY <2>1, <2>3
  <2> QED
    BY <2>3, <2>4, <2>5, <2>6
<1>10. ASSUME NEW l \in Keys
       PROVE  f[l] = q[l] \/ \E i \in 1..(n - 1) : d[i] = [key |-> l, block |-> f[l]]
  <2>1. CASE f[l] = p[l]
    <3>1. l # k
      BY <1>2, <1>6, <1>8, <2>1
    <3> QED
      BY <1>7, <2>1, <3>1
  <2>2. CASE \E i \in 1..n : c[i] = [key |-> l, block |-> f[l]]
    <3>1. PICK i \in 1..n : c[i] = [key |-> l, block |-> f[l]]
      BY <2>2
    <3>2. CASE i = 1
      BY <1>2, <1>7, <3>1, <3>2
    <3>3. CASE i # 1
      <4>1. i - 1 \in 1..(n - 1) /\ (i - 1) + 1 = i
        BY <1>1, <3>3
      <4>2. d[i - 1] = c[i]
        BY <1>3, <4>1
      <4> QED
        BY <3>1, <4>1, <4>2
    <3> QED
      BY <3>2, <3>3
  <2> QED
    BY <1>5, <2>1, <2>2
<1>11. InOrder(d, f, q, recs)
  BY <1>3, <1>9, <1>10 DEF InOrder
<1> QED
  BY <1>6, <1>11 DEF k, b, d, q

\* A growth of the tables keeps what is known of the view server.
LEMMA GrowthKeeps ==
  ASSUME ViewInv, TablesInv', KeysGrow, keys' \in [Keys -> KeyState], missed \subseteq missed',
         UNCHANGED <<height, used, view_vars>>
  PROVE  /\ CopyInv' /\ FreshInv' /\ LoadedInv' /\ PipelineInOrder' /\ CountInv'
         /\ (~StaleKeys => NothingMissing)'
<1>1. /\ UNCHANGED <<ingress_keys, fetched_records, num_queued, fetcher, poll, enclave,
                     processed, stop>>
      /\ UNCHANGED <<height, used>>
  BY SMTT(30) DEF view_vars
<1>2. CopyInv'
  BY <1>1 DEF ViewInv, CopyInv, KeysGrow
<1>3. FreshInv'
  <2>1. CopyInv /\ FreshInv
    BY DEF ViewInv
  <2>2. FetcherIsIdle' = FetcherIsIdle
    BY <1>1 DEF FetcherIsIdle
  <2> QED
    BY <1>1, <2>1, <2>2 DEF FreshInv, CopyInv, KeysGrow
<1>4. LoadedInv'
  <2> SUFFICES ASSUME NEW k \in Keys
               PROVE  /\ fetcher.done[k] # NoBlock =>
                           keys'[k].exists /\ keys'[k].start <= fetcher.done[k]
                           /\ fetcher.done[k] < keys'[k].next
                      /\ \A b \in keys'[k].start..poll.done[k] : <<k, b>> \in enclave
    BY <1>1 DEF ViewInv, LoadedInv
  <2>1. /\ fetcher.done[k] # NoBlock =>
             keys[k].exists /\ keys[k].start <= fetcher.done[k]
             /\ fetcher.done[k] < keys[k].next
        /\ poll.done[k] <= fetcher.done[k]
        /\ \A b \in keys[k].start..poll.done[k] : <<k, b>> \in enclave
    BY DEF ViewInv, LoadedInv
  <2>2. CASE fetcher.done[k] # NoBlock
    <3>1. /\ keys'[k].exists /\ keys'[k].start = keys[k].start
          /\ keys'[k].next >= keys[k].next
      BY <2>1, <2>2 DEF KeysGrow
    <3>2. fetcher.done[k] \in Int /\ keys[k].next \in Int
      BY ThreadTypes, TableTypes DEF ViewInv
    <3>3. keys'[k].next \in Int
      BY DEF KeyState
    <3>4. fetcher.done[k] < keys'[k].next
      BY <2>1, <2>2, <3>1, <3>2, <3>3
    <3> QED
      BY <2>1, <2>2, <3>1, <3>4
  <2>3. CASE fetcher.done[k] = NoBlock
    <3>1. poll.done[k] \in Int /\ poll.done[k] < 0
      <4>1. poll.done[k] \in Int /\ fetcher.done[k] \in Int
        BY ThreadTypes DEF ViewInv
      <4> QED
        BY <2>1, <2>3, <4>1 DEF NoBlock
    <3>2. keys'[k].start \in Nat
      BY SMTT(30) DEF KeyState
    <3> QED
      BY <2>3, <3>1, <3>2
  <2> QED
    BY <2>2, <2>3
<1>5. PipelineInOrder'
  <2> DEFINE coming == poll.batch \o fetched_records
  <2>1. coming' = coming
    BY <1>1
  <2>2. ASSUME NEW i \in DOMAIN coming, ~stop
        PROVE  NextBlock(poll.done, keys'[coming[i].key], coming[i].key)
                 = NextBlock(poll.done, keys[coming[i].key], coming[i].key)
    <3>1. coming[i].key \in Keys /\ coming[i].block \in Nat
      BY ComingTypes DEF ViewInv
    <3>2. coming[i].block <= fetcher.done[coming[i].key]
      BY <2>2, Zenon DEF ViewInv, PipelineInOrder
    <3>3. fetcher.done[coming[i].key] # NoBlock
      BY <3>1, <3>2, SMTT(30) DEF NoBlock
    <3>4. keys'[coming[i].key].start = keys[coming[i].key].start
      BY <3>1, <3>3 DEF ViewInv, LoadedInv, KeysGrow
    <3> QED
      BY <3>4 DEF NextBlock
  <2>3. PipelineInOrder
    BY DEF ViewInv
  <2> QED
    BY <1>1, <2>1, <2>2, <2>3, ZenonT(60) DEF PipelineInOrder, NextBlock
<1>6. CountInv'
  BY <1>1 DEF ViewInv, CountInv
<1>7. (~StaleKeys => NothingMissing)'
  BY <1>1, Zenon DEF ViewInv, NothingMissing, Missed
<1> QED
  BY <1>2, <1>3, <1>4, <1>5, <1>6, <1>7

\* A step of the ingest servers keeps the invariant.
LEMMA IngestKeeps ==
  ASSUME ViewInv, IngestStep
  PROVE  ViewInv'
<1>1. TypeOK /\ TablesInv
  BY DEF ViewInv
<1>2. /\ TablesInv' /\ KeysGrow /\ keys' \in [Keys -> KeyState]
      /\ missed' \in SUBSET [start: Nat, end: Nat] /\ missed \subseteq missed'
      /\ changes' \in 0..MaxChanges
      /\ UNCHANGED <<height, used, view_vars>>
  BY <1>1, IngestGrows
<1>3. TypeOK'
  BY <1>1, <1>2 DEF TypeOK, view_vars
<1> QED
  BY <1>2, <1>3, GrowthKeeps DEF ViewInv

\* A new block in the ledger keeps the invariant: it is past all that is scanned.
LEMMA AppendBlockKeeps ==
  ASSUME ViewInv, AppendBlock
  PROVE  ViewInv'
<1> DEFINE senders == {k \in Keys : keys[k].expiry > height}
<1>1. /\ height < MaxHeight /\ height' = height + 1 /\ used' = Append(used, senders)
      /\ UNCHANGED <<keys, missed, changes, view_vars>>
  BY DEF AppendBlock, Grow
<1>2. UNCHANGED <<ingress_keys, fetched_records, num_queued, fetcher, poll, enclave,
                  processed, last_known, stop, fetcher_stop>>
  BY <1>1 DEF view_vars
<1>3. TypeOK /\ height \in Nat /\ used \in Seq(SUBSET Keys) /\ Len(used) = height
  BY TableTypes DEF ViewInv
<1>4. /\ used' \in Seq(SUBSET Keys) /\ Len(used') = height + 1
      /\ \A b \in 0..(height - 1) : used'[b + 1] = used[b + 1]
      /\ used'[height + 1] = senders
  BY <1>1, <1>3
<1> HIDE DEF senders
<1>5. TypeOK'
  <2>1. height' \in 0..MaxHeight
    BY <1>1, <1>3, ViewConstants
  <2> QED
    BY <1>1, <1>2, <1>3, <1>4, <2>1 DEF TypeOK
<1>6. TablesInv'
  <2>1. TablesInv
    BY DEF ViewInv
  <2>2. \A k \in Keys : keys[k].next <= height + 1
    <3> TAKE k \in Keys
    <3>1. keys[k].next <= height
      BY <2>1, Zenon DEF TablesInv
    <3>2. keys[k].next \in Nat
      BY <1>3, TableTypes
    <3> QED
      BY <1>3, <3>1, <3>2
  <2>3. \A k \in senders : keys[k].exists /\ keys[k].start <= height /\ height < keys[k].expiry
    <3> TAKE k \in senders
    <3>1. k \in Keys /\ keys[k].expiry > height
      BY DEF senders
    <3>2. keys[k].start <= keys[k].next /\ keys[k].next <= height
      BY <2>1, <3>1, Zenon DEF TablesInv
    <3>3. keys[k].start \in Nat /\ keys[k].next \in Nat /\ keys[k].expiry \in Nat
      BY <1>3, <3>1, TableTypes
    <3>4. keys[k].exists
      <4>1. NoRow.expiry = 0
        BY DEF NoRow
      <4>2. keys[k] # NoRow
        BY <1>3, <3>1, <4>1
      <4> QED
        BY <2>1, <3>1, <4>2, Zenon DEF TablesInv
    <3> QED
      BY <1>3, <3>1, <3>2, <3>3, <3>4
  <2>4. ASSUME NEW b \in 0..height, NEW k \in used'[b + 1]
        PROVE  keys[k].exists /\ keys[k].start <= b /\ b < keys[k].expiry
    <3>1. CASE b = height
      BY <1>4, <2>3, <3>1
    <3>2. CASE b # height
      <4>1. b \in 0..(height - 1)
        BY <1>3, <3>2
      <4> QED
        BY <1>4, <2>1, <4>1 DEF TablesInv
    <3> QED
      BY <3>1, <3>2
  <2>5. height' - 1 = height
    BY <1>1, <1>3
  <2> QED
    BY <1>1, <2>1, <2>2, <2>4, <2>5, Zenon DEF TablesInv
<1>7. CopyInv' /\ CountInv'
  BY <1>1, <1>2 DEF ViewInv, CopyInv, CountInv
<1>8. FreshInv'
  <2>1. FreshInv /\ FetcherIsIdle' = FetcherIsIdle
    BY <1>2 DEF ViewInv, FetcherIsIdle
  <2>2. ASSUME NEW l \in Keys, NEW b \in 0..fetcher.done[l] PROVE used'[b + 1] = used[b + 1]
    <3>1. fetcher.done[l] \in Int /\ keys[l].next \in Nat
      BY <1>3, ThreadTypes, TableTypes
    <3>2. fetcher.done[l] # NoBlock
      BY <3>1 DEF NoBlock
    <3>3. fetcher.done[l] < keys[l].next /\ keys[l].next <= height
      BY <3>2, Zenon DEF ViewInv, LoadedInv, TablesInv
    <3>4. b \in 0..(height - 1)
      BY <1>3, <3>1, <3>3
    <3> QED
      BY <1>4, <3>4
  <2> QED
    BY <1>1, <1>2, <2>1, <2>2, Zenon DEF FreshInv
<1>9. LoadedInv' /\ processed <= height
  <2>1. LoadedInv
    BY DEF ViewInv
  <2>2. processed \in Nat /\ processed <= height
    BY <1>3, <2>1 DEF LoadedInv, TypeOK
  <2>3. processed <= height + 1
    BY <1>3, <2>2, SMTT(30)
  <2> QED
    BY <1>1, <1>2, <2>1, <2>2, <2>3 DEF LoadedInv
<1>10. PipelineInOrder'
  BY <1>1, <1>2, Zenon DEF ViewInv, PipelineInOrder, NextBlock
<1>11. (~StaleKeys => NothingMissing)'
  <2>1. ASSUME NEW b \in 0..(processed - 1) PROVE used'[b + 1] = used[b + 1]
    <3>1. processed \in Nat
      BY <1>3 DEF TypeOK
    <3>2. b \in 0..(height - 1)
      BY <1>3, <1>9, <3>1
    <3> QED
      BY <1>4, <3>2
  <2> QED
    BY <1>1, <1>2, <2>1, Zenon DEF ViewInv, NothingMissing, Missed
<1> QED
  BY <1>5, <1>6, <1>7, <1>8, <1>9, <1>10, <1>11 DEF ViewInv

-----------------------------------------------------------------------------
(* The DbFetcher thread. *)

Fetchers == [pc: {"keys", "fetch", "limit", "done"}, done: Tracker,
             todo: SUBSET Keys, more: BOOLEAN]

\* A fetched block is a block of the ledger.
LEMMA FetchedIsScanned ==
  ASSUME ViewInv, NEW l \in Keys, NEW b \in 0..fetcher.done[l]
  PROVE  b \in 0..(height - 1)
<1>1. fetcher.done[l] \in Int /\ keys[l].next \in Nat /\ height \in Nat
  BY ThreadTypes, TableTypes DEF ViewInv
<1>2. fetcher.done[l] # NoBlock
  BY <1>1 DEF NoBlock
<1>3. fetcher.done[l] < keys[l].next /\ keys[l].next <= height
  BY <1>2, Zenon DEF ViewInv, LoadedInv, TablesInv
<1> QED
  BY <1>1, <1>3

\* The steps of the fetcher that fetch nothing and read no key records.
LEMMA FetcherMoves ==
  ASSUME ViewInv, fetcher' \in Fetchers, fetcher'.done = fetcher.done, num_queued' \in Nat,
         UNCHANGED <<scan_vars, used, changes, ingress_keys, fetched_records, poll, enclave,
                     processed, last_known, stop, fetcher_stop>>,
         FetcherIsIdle => FetcherIsIdle',
         \A k \in fetcher'.todo : ingress_keys[k].exists,
         CountInv'
  PROVE  ViewInv'
<1>1. UNCHANGED <<height, keys, missed>>
  BY DEF scan_vars
<1>2. TypeOK'
  BY <1>1 DEF ViewInv, TypeOK, Fetchers
<1>3. TablesInv' /\ (~StaleKeys => NothingMissing)'
  BY <1>1, SMTT(30) DEF ViewInv, TablesInv, NothingMissing, Missed
<1>4. CopyInv' /\ FreshInv'
  BY <1>1, SMTT(30) DEF ViewInv, CopyInv, FreshInv
<1>5. LoadedInv' /\ PipelineInOrder'
  BY <1>1, Zenon DEF ViewInv, LoadedInv, PipelineInOrder, NextBlock
<1> QED
  BY <1>2, <1>3, <1>4, <1>5 DEF ViewInv

\* Reading the key records keeps the invariant.
LEMMA LoadIngressKeysKeeps ==
  ASSUME ViewInv, LoadIngressKeys
  PROVE  ViewInv'
<1>1. /\ fetcher.pc = "keys"
      /\ ingress_keys' = keys \/ (StaleKeys /\ ingress_keys' = ingress_keys)
      /\ fetcher' = [fetcher EXCEPT !.pc = "fetch", !.more = FALSE,
                        !.todo = next_blocks(fetcher.done, ingress_keys')]
      /\ UNCHANGED <<height, keys, missed, used, changes, fetched_records, num_queued, poll,
                     enclave, processed, last_known, stop, fetcher_stop>>
  BY DEF LoadIngressKeys, scan_vars
<1>2. fetcher \in Fetchers /\ keys \in [Keys -> KeyState] /\ ingress_keys \in [Keys -> KeyState]
  BY DEF ViewInv, TypeOK, Fetchers
<1>3. next_blocks(fetcher.done, ingress_keys') \subseteq {k \in Keys : ingress_keys'[k].exists}
  BY DEF next_blocks, covers_block_index
<1>4. /\ fetcher' \in Fetchers /\ fetcher'.pc = "fetch" /\ fetcher'.done = fetcher.done
      /\ \A k \in fetcher'.todo : k \in Keys /\ ingress_keys'[k].exists
  BY <1>1, <1>2, <1>3, ZenonT(60) DEF Fetchers
<1>5. TypeOK'
  BY <1>1, <1>2, <1>4 DEF ViewInv, TypeOK, Fetchers
<1>6. TablesInv' /\ (~StaleKeys => NothingMissing)'
  BY <1>1 DEF ViewInv, TablesInv, NothingMissing, Missed
<1>7. CopyInv'
  BY <1>1, <1>4 DEF ViewInv, CopyInv
<1>8. FreshInv'
  <2>1. ASSUME ~StaleKeys, NEW l \in Keys, NEW b \in 0..fetcher.done[l], NEW k \in used[b + 1]
        PROVE  keys[k].exists /\ b < keys[k].expiry
    BY FetchedIsScanned DEF ViewInv, TablesInv
  <2> QED
    BY <1>1, <1>4, <2>1 DEF FreshInv
<1>9. LoadedInv' /\ PipelineInOrder'
  BY <1>1, <1>4, ZenonT(60) DEF ViewInv, LoadedInv, PipelineInOrder, NextBlock
<1>10. CountInv'
  BY <1>1, <1>4 DEF ViewInv, CountInv
<1> QED
  BY <1>5, <1>6, <1>7, <1>8, <1>9, <1>10 DEF ViewInv

\* Counting a record keeps the invariant.
LEMMA WaitForQueueKeeps ==
  ASSUME ViewInv, WaitForQueue
  PROVE  ViewInv'
<1>1. /\ fetcher.pc = "limit" /\ num_queued <= MAX_QUEUED_RECORDS
      /\ num_queued' = num_queued + 1 /\ fetcher' = [fetcher EXCEPT !.pc = "fetch"]
      /\ UNCHANGED <<scan_vars, used, changes, ingress_keys, fetched_records, poll, enclave,
                     processed, last_known, stop, fetcher_stop>>
  BY DEF WaitForQueue
<1>2. fetcher \in Fetchers /\ num_queued \in Nat /\ fetched_records \in Seq(FetchedRecords)
  BY DEF ViewInv, TypeOK, Fetchers
<1>3. /\ fetcher' \in Fetchers /\ fetcher'.pc = "fetch" /\ fetcher'.done = fetcher.done
      /\ fetcher'.todo = fetcher.todo
  BY <1>1, <1>2 DEF Fetchers
<1>4. CountInv'
  <2>1. Len(fetched_records) \in Nat /\ MAX_QUEUED_RECORDS \in Nat
    BY <1>2, ViewConstants
  <2>2. Len(fetched_records) - 1 <= num_queued + (IF poll.pc = "reset" THEN 0
                                                  ELSE MAX_QUEUED_RECORDS + 1)
    BY <1>1 DEF ViewInv, CountInv
  <2> QED
    BY <1>1, <1>2, <1>3, <2>1, <2>2 DEF CountInv
<1>5. \A k \in fetcher'.todo : ingress_keys[k].exists
  BY <1>3 DEF ViewInv, CopyInv
<1>6. num_queued' \in Nat /\ ~FetcherIsIdle
  BY <1>1, <1>2 DEF FetcherIsIdle
<1> QED
  BY <1>1, <1>3, <1>4, <1>5, <1>6, FetcherMoves

\* So do an iteration without a block, the end of load_block_data and the exit.
LEMMA IdleFetcherKeeps ==
  ASSUME ViewInv, (\E k \in Keys : FetchNothing(k)) \/ EndLoad \/ FetcherExits
  PROVE  ViewInv'
<1>1. UNCHANGED <<scan_vars, used, changes, ingress_keys, fetched_records, num_queued, poll,
                  enclave, processed, last_known, stop, fetcher_stop>>
  BY DEF FetchNothing, EndLoad, FetcherExits
<1>2. fetcher \in Fetchers /\ num_queued \in Nat
  BY DEF ViewInv, TypeOK, Fetchers
<1>3. \A k \in fetcher.todo : ingress_keys[k].exists
  BY Zenon DEF ViewInv, CopyInv
<1>4. \A k \in next_blocks(fetcher.done, ingress_keys) : k \in Keys /\ ingress_keys[k].exists
  BY Zenon DEF next_blocks, covers_block_index
<1>5. /\ fetcher' \in Fetchers /\ fetcher'.done = fetcher.done
      /\ FetcherIsIdle => FetcherIsIdle'
      /\ \A k \in fetcher'.todo : ingress_keys[k].exists
      /\ fetcher.pc # "limit" /\ fetcher'.pc # "limit"
  <2>1. CASE \E k \in Keys : FetchNothing(k)
    <3>1. PICK k \in Keys : FetchNothing(k)
      BY <2>1
    <3>2. fetcher' = [fetcher EXCEPT !.todo = @ \ {k}] /\ fetcher.pc = "fetch"
      BY <3>1 DEF FetchNothing
    <3> QED
      BY <1>2, <1>3, <3>2 DEF Fetchers, FetcherIsIdle
  <2>2. CASE EndLoad
    <3>1. CASE fetcher' = [fetcher EXCEPT !.more = FALSE,
                             !.todo = next_blocks(fetcher.done, ingress_keys)]
      <4>1. fetcher.pc = "fetch"
        BY <2>2 DEF EndLoad
      <4> QED
        BY <1>2, <1>4, <3>1, <4>1, Zenon DEF Fetchers, FetcherIsIdle
    <3>2. CASE fetcher' = [fetcher EXCEPT !.pc = "keys"]
      <4>1. fetcher.pc = "fetch"
        BY <2>2 DEF EndLoad
      <4> QED
        BY <1>2, <1>3, <3>2, <4>1 DEF Fetchers, FetcherIsIdle
    <3> QED
      BY <2>2, <3>1, <3>2 DEF EndLoad
  <2>3. CASE FetcherExits
    <3>1. fetcher' = [fetcher EXCEPT !.pc = "done"] /\ fetcher.pc = "keys"
      BY <2>3 DEF FetcherExits
    <3> QED
      BY <1>2, <1>3, <3>1 DEF Fetchers, FetcherIsIdle
  <2> QED
    BY <2>1, <2>2, <2>3
<1>6. CountInv'
  BY <1>1, <1>5 DEF ViewInv, CountInv
<1> QED
  BY <1>1, <1>2, <1>5, <1>6, FetcherMoves

\* Fetching a block keeps the invariant: it is the next after the last fetched with
\* its key, and goes to the end of what is on its way.
LEMMA FetchBlockKeeps ==
  ASSUME ViewInv, NEW k \in Keys, FetchBlock(k)
  PROVE  ViewInv'
<1> DEFINE b == NextBlock(fetcher.done, ingress_keys[k], k)
           r == [key |-> k, block |-> b]
           coming == poll.batch \o fetched_records
<1>1. /\ fetcher.pc = "fetch" /\ k \in fetcher.todo /\ keys[k].start <= b /\ b < keys[k].next
      /\ fetched_records' = Append(fetched_records, r)
      /\ fetcher' = [fetcher EXCEPT !.pc = "limit", !.more = TRUE,
                        !.todo = @ \ {k}, !.done[k] = b]
      /\ UNCHANGED <<height, keys, missed, used, changes, ingress_keys, num_queued, poll,
                     enclave, processed, last_known, stop, fetcher_stop>>
  BY SMTT(30) DEF FetchBlock, scan_vars
<1>2. /\ TypeOK /\ fetcher \in Fetchers /\ fetcher.done \in Tracker /\ poll.done \in Tracker
      /\ fetched_records \in Seq(FetchedRecords) /\ poll.batch \in Seq(FetchedRecords)
      /\ coming \in Seq(FetchedRecords) /\ keys \in [Keys -> KeyState]
  BY ComingTypes DEF ViewInv, TypeOK, Fetchers
<1>3. /\ fetcher.done[k] \in Int /\ poll.done[k] \in Int
      /\ keys[k].start \in Nat /\ keys[k].next \in Nat /\ height \in Nat
  BY <1>2, ThreadTypes, TableTypes
<1>4. /\ keys[k].exists /\ ingress_keys[k].start = keys[k].start
      /\ keys[k].next <= height
  BY <1>1, Zenon DEF ViewInv, CopyInv, TablesInv
<1>5. b \in Nat /\ b = NextBlock(fetcher.done, keys[k], k) /\ fetcher.done[k] < b
  <2>1. b = NextBlock(fetcher.done, keys[k], k)
    BY <1>4 DEF NextBlock
  <2> HIDE DEF b
  <2> QED
    BY <1>2, <2>1, TrackerTypes
<1>6. r \in FetchedRecords
  BY <1>5 DEF FetchedRecords
<1> HIDE DEF b
<1>7. /\ fetcher' \in Fetchers /\ fetcher'.pc = "limit" /\ fetcher'.todo = fetcher.todo \ {k}
      /\ fetcher'.done = [fetcher.done EXCEPT ![k] = b]
  BY <1>1, <1>2, <1>5, Zenon DEF Fetchers, Tracker
<1>8. fetcher'.done[k] = b /\ \A l \in Keys : l # k => fetcher'.done[l] = fetcher.done[l]
  BY <1>2, <1>7 DEF Tracker
<1>9. TypeOK'
  <2>1. fetched_records' \in Seq(FetchedRecords)
    BY <1>1, <1>2, <1>6
  <2> QED
    BY <1>1, <1>2, <1>7, <2>1 DEF TypeOK, Fetchers
<1>10. TablesInv' /\ (~StaleKeys => NothingMissing)'
  BY <1>1 DEF ViewInv, TablesInv, NothingMissing, Missed
<1>11. CopyInv'
  BY <1>1, <1>7 DEF ViewInv, CopyInv
<1>12. FreshInv'
  <2> DEFINE Knows(c, m) == /\ ingress_keys[m].exists
                            /\ ingress_keys[m].retired => c < ingress_keys[m].expiry
  <2>1. ~StaleKeys => \A l \in Keys :
          /\ keys[l].exists => ingress_keys[l].exists
          /\ ingress_keys[l].retired =>
               keys[l].retired /\ keys[l].expiry = ingress_keys[l].expiry
    BY <1>1 DEF ViewInv, FreshInv, FetcherIsIdle
  <2>2. ASSUME ~StaleKeys, NEW c \in 0..b, NEW m \in used[c + 1] PROVE Knows(c, m)
    <3>1. c \in 0..(height - 1)
      BY <1>1, <1>3, <1>4, <1>5, SMTT(30)
    <3>2. m \in Keys /\ keys[m].exists /\ c < keys[m].expiry
      BY <1>2, <3>1, TableTypes DEF ViewInv, TablesInv
    <3> QED
      BY <2>1, <2>2, <3>2
  <2>3. ~StaleKeys => \A l \in Keys : \A c \in 0..fetcher.done[l] : \A m \in used[c + 1] :
          Knows(c, m)
    BY DEF ViewInv, FreshInv
  <2>4. ~StaleKeys => \A l \in Keys : \A c \in 0..fetcher'.done[l] : \A m \in used[c + 1] :
          Knows(c, m)
    <3> HIDE DEF Knows
    <3> QED
      BY <1>8, <2>2, <2>3
  <2> QED
    BY <1>1, <2>1, <2>4 DEF FreshInv
<1>13. LoadedInv'
  <2>1. poll.done[k] <= b
    <3>1. poll.done[k] <= fetcher.done[k]
      BY DEF ViewInv, LoadedInv
    <3> QED
      BY <1>3, <1>5, <3>1
  <2> QED
    BY <1>1, <1>4, <1>8, <2>1 DEF ViewInv, LoadedInv
<1>14. PipelineInOrder'
  <2>1. coming' = Append(coming, r) /\ Append(coming, r) \in Seq(FetchedRecords)
    <3>1. coming' = poll.batch \o Append(fetched_records, r)
      BY <1>1
    <3> HIDE DEF r
    <3>2. poll.batch \in Seq(FetchedRecords) /\ fetched_records \in Seq(FetchedRecords)
      BY <1>2
    <3>3. /\ poll.batch \o Append(fetched_records, r) = Append(poll.batch \o fetched_records, r)
          /\ Append(poll.batch \o fetched_records, r) \in Seq(FetchedRecords)
      BY <1>6, <3>2, AppendLast, Zenon
    <3> HIDE DEF coming
    <3>4. poll.batch \o Append(fetched_records, r) = Append(coming, r)
      BY <3>3, Zenon DEF coming
    <3> QED
      BY <3>1, <3>3, <3>4
  <2>2. ~stop => InOrder(coming, fetcher.done, poll.done, keys)
    BY <1>2, OrderIs, Zenon DEF ViewInv
  <2> HIDE DEF coming
  <2>3. ~stop => InOrder(Append(coming, r), [fetcher.done EXCEPT ![k] = b], poll.done, keys)
    <3> HAVE ~stop
    <3>1. InOrder(coming, fetcher.done, poll.done, keys)
      BY <2>2
    <3> QED
      BY <1>2, <1>5, <3>1, FetchInOrder
  <2>4. coming' = poll'.batch \o fetched_records'
    BY DEF coming
  <2>5. ~stop' => InOrder(coming', fetcher'.done, poll'.done, keys')
    BY <1>1, <1>7, <2>1, <2>3
  <2>6. coming' \in Seq(FetchedRecords)
    BY <2>1
  <2> QED
    BY <2>4, <2>5, <2>6, OrderIsNext, ZenonT(60)
<1>15. CountInv'
  <2>1. /\ Len(fetched_records') = Len(fetched_records) + 1 /\ Len(fetched_records) \in Nat
    BY <1>1, <1>2, <1>6
  <2> QED
    BY <1>1, <1>7, <2>1 DEF ViewInv, CountInv
<1> QED
  BY <1>9, <1>10, <1>11, <1>12, <1>13, <1>14, <1>15 DEF ViewInv

-----------------------------------------------------------------------------
(* The DbPollThread. *)

Polls == [pc: {"tick", "reset", "add", "join", "done"},
          batch: Seq(FetchedRecords), done: Tracker]

\* The steps of the poll thread, and of stop, that load nothing.
LEMMA PollMoves ==
  ASSUME ViewInv, poll' \in Polls, poll'.done = poll.done,
         UNCHANGED <<scan_vars, used, changes, ingress_keys, fetcher, enclave>>,
         stop' \in BOOLEAN, fetcher_stop' \in BOOLEAN, num_queued' \in Nat,
         last_known' \in Nat, processed' \in Nat, processed' <= height,
         fetched_records' \in Seq(FetchedRecords),
         poll'.pc = "tick" => poll'.batch = << >>,
         \/ stop'
         \/ ~stop /\ poll'.batch \o fetched_records' = poll.batch \o fetched_records,
         CountInv', (~StaleKeys => NothingMissing)'
  PROVE  ViewInv'
<1>1. UNCHANGED <<height, keys, missed>>
  BY DEF scan_vars
<1>2. TypeOK'
  BY <1>1, SMTT(30) DEF ViewInv, TypeOK, Polls
<1>3. TablesInv' /\ CopyInv' /\ FreshInv'
  BY <1>1, Zenon DEF ViewInv, TablesInv, CopyInv, FreshInv, FetcherIsIdle
<1>4. LoadedInv'
  BY <1>1 DEF ViewInv, LoadedInv
<1>5. PipelineInOrder'
  <2>1. CASE stop'
    BY <2>1 DEF PipelineInOrder
  <2>2. CASE ~stop'
    <3> DEFINE coming == poll.batch \o fetched_records
    <3>1. coming \in Seq(FetchedRecords)
      BY ComingTypes DEF ViewInv
    <3>2. ~stop => InOrder(coming, fetcher.done, poll.done, keys)
      BY <3>1, OrderIs DEF ViewInv
    <3>3. poll'.batch \o fetched_records' = coming /\ ~stop
      BY <2>2, Zenon
    <3> HIDE DEF coming
    <3>4. InOrder(coming, fetcher'.done, poll'.done, keys')
      BY <1>1, <3>2, <3>3
    <3> QED
      BY <3>1, <3>3, <3>4, OrderIsNext
  <2> QED
    BY <2>1, <2>2, Zenon
<1> QED
  BY <1>2, <1>3, <1>4, <1>5 DEF ViewInv

\* Taking the queue keeps the invariant: what was taken before is loaded.
LEMMA TakeRecordsKeeps ==
  ASSUME ViewInv, TakeRecords
  PROVE  ViewInv'
<1>1. /\ poll.pc = "tick" /\ ~stop
      /\ poll' = [poll EXCEPT !.pc = "reset", !.batch = fetched_records]
      /\ fetched_records' = << >>
      /\ UNCHANGED <<scan_vars, used, changes, ingress_keys, num_queued, fetcher, enclave,
                     processed, last_known, stop, fetcher_stop>>
  BY DEF TakeRecords
<1>2. /\ poll \in Polls /\ fetched_records \in Seq(FetchedRecords) /\ num_queued \in Nat
      /\ processed \in Nat /\ last_known \in Nat /\ stop \in BOOLEAN /\ fetcher_stop \in BOOLEAN
      /\ MAX_QUEUED_RECORDS \in Nat
  BY ViewConstants DEF ViewInv, TypeOK, Polls
<1>3. poll' \in Polls /\ poll'.done = poll.done /\ poll'.pc = "reset"
      /\ poll'.batch = fetched_records /\ poll.batch = << >> /\ processed <= height
  BY <1>1, <1>2, Zenon DEF Polls, ViewInv, LoadedInv
<1>4. fetched_records' \in Seq(FetchedRecords) /\ Len(fetched_records') = 0
  BY <1>1
<1>5. poll'.batch \o fetched_records' = poll.batch \o fetched_records
  BY <1>1, <1>2, <1>3
<1>6. CountInv'
  BY <1>1, <1>2, <1>3, <1>4 DEF ViewInv, CountInv
<1>7. (~StaleKeys => NothingMissing)'
  BY <1>1, Zenon DEF ViewInv, NothingMissing, Missed, scan_vars
<1> QED
  BY <1>1, <1>2, <1>3, <1>4, <1>5, <1>6, <1>7, PollMoves

\* Resetting the count keeps the invariant: the fetcher has queued no more than the
\* limit since the queue was taken.
LEMMA ResetQueuedKeeps ==
  ASSUME ViewInv, ResetQueued
  PROVE  ViewInv'
<1>1. /\ poll.pc = "reset" /\ num_queued' = 0 /\ poll' = [poll EXCEPT !.pc = "add"]
      /\ UNCHANGED <<scan_vars, used, changes, ingress_keys, fetched_records, fetcher,
                     enclave, processed, last_known, stop, fetcher_stop>>
  BY DEF ResetQueued
<1>2. /\ poll \in Polls /\ fetched_records \in Seq(FetchedRecords) /\ num_queued \in Nat
      /\ processed \in Nat /\ last_known \in Nat /\ stop \in BOOLEAN /\ fetcher_stop \in BOOLEAN
      /\ MAX_QUEUED_RECORDS \in Nat
  BY ViewConstants DEF ViewInv, TypeOK, Polls
<1>3. poll' \in Polls /\ poll'.done = poll.done /\ poll'.pc = "add"
      /\ poll'.batch = poll.batch /\ processed <= height
  BY <1>1, <1>2 DEF Polls, ViewInv, LoadedInv
<1>4. CountInv'
  <2>1. Len(fetched_records) \in Nat
    BY <1>2
  <2> QED
    BY <1>1, <1>2, <1>3, <2>1 DEF ViewInv, CountInv
<1>5. (~StaleKeys => NothingMissing)'
  BY <1>1, Zenon DEF ViewInv, NothingMissing, Missed, scan_vars
<1> QED
  BY <1>1, <1>2, <1>3, <1>4, <1>5, PollMoves

\* So do the steps that stop the server.
LEMMA StoppingKeeps ==
  ASSUME ViewInv, StopFetcher \/ JoinFetcher \/ Stop
  PROVE  ViewInv'
<1>1. /\ UNCHANGED <<scan_vars, used, changes, ingress_keys, fetched_records, num_queued,
                     fetcher, enclave, processed, last_known>>
      /\ \/ poll' = poll
         \/ poll.pc = "tick" /\ poll' = [poll EXCEPT !.pc = "join"]
         \/ poll.pc = "join" /\ poll' = [poll EXCEPT !.pc = "done"]
      /\ stop' = stop \/ stop'
      /\ fetcher_stop' = fetcher_stop \/ fetcher_stop' = TRUE
  BY DEF StopFetcher, JoinFetcher, Stop
<1>2. /\ poll \in Polls /\ fetched_records \in Seq(FetchedRecords) /\ num_queued \in Nat
      /\ processed \in Nat /\ last_known \in Nat /\ stop \in BOOLEAN /\ fetcher_stop \in BOOLEAN
  BY DEF ViewInv, TypeOK, Polls
<1>3. /\ poll' \in Polls /\ poll'.done = poll.done /\ poll'.batch = poll.batch
      /\ (poll'.pc = "reset") = (poll.pc = "reset") /\ (poll'.pc = "tick" => poll.pc = "tick")
  BY <1>1, <1>2 DEF Polls
<1>4. processed <= height /\ (poll.pc = "tick" => poll.batch = << >>)
  BY DEF ViewInv, LoadedInv
<1>5. CountInv'
  BY <1>1, <1>3 DEF ViewInv, CountInv
<1>6. (~StaleKeys => NothingMissing)'
  BY <1>1, Zenon DEF ViewInv, NothingMissing, Missed, scan_vars
<1>7. stop' \in BOOLEAN /\ fetcher_stop' \in BOOLEAN
  BY <1>2, Zenon DEF StopFetcher, JoinFetcher, Stop
<1> QED
  BY <1>1, <1>2, <1>3, <1>4, <1>5, <1>6, <1>7, PollMoves

\* Raising highest_processed_block_count keeps the invariant.  A block that it
\* passes was loaded with some key, so the key records know all the keys senders used
\* for it; each of them has provided it, or was lost before and has announced it.
LEMMA UpdateSharedStateKeeps ==
  ASSUME ViewInv, UpdateSharedState
  PROVE  ViewInv'
<1>1. /\ poll.pc = "add" /\ (poll.batch = << >> \/ stop)
      /\ processed' = highest_fully_processed_block_count(poll.done, ingress_keys, processed)
      /\ last_known' = highest_known_block_count(poll.done) \/ last_known' = last_known
      /\ poll' = [poll EXCEPT !.pc = "tick", !.batch = << >>]
      /\ UNCHANGED <<height, keys, missed>>
      /\ UNCHANGED <<scan_vars, used, changes, ingress_keys, fetched_records, num_queued,
                     fetcher, enclave, stop, fetcher_stop>>
  BY DEF UpdateSharedState, scan_vars
<1>2. /\ TypeOK /\ poll \in Polls /\ poll.done \in Tracker /\ height \in Nat
      /\ fetched_records \in Seq(FetchedRecords) /\ num_queued \in Nat
      /\ processed \in Nat /\ last_known \in Nat /\ stop \in BOOLEAN /\ fetcher_stop \in BOOLEAN
      /\ ingress_keys \in [Keys -> KeyState]
  BY TableTypes, Zenon DEF ViewInv, TypeOK, Polls
<1>3. /\ poll' \in Polls /\ poll'.done = poll.done /\ poll'.pc = "tick" /\ poll'.batch = << >>
      /\ processed <= height
  <2>1. processed <= height
    BY DEF ViewInv, LoadedInv
  <2>2. poll' = [poll EXCEPT !.pc = "tick", !.batch = << >>] /\ poll \in Polls
    BY <1>1, <1>2
  <2>3. << >> \in Seq(FetchedRecords)
    OBVIOUS
  <2>4. /\ poll' \in Polls /\ poll'.done = poll.done /\ poll'.pc = "tick"
        /\ poll'.batch = << >>
    BY <2>2, <2>3, Zenon DEF Polls
  <2> QED
    BY <2>1, <2>4
<1>4. ASSUME NEW k \in Keys
      PROVE  poll.done[k] <= fetcher.done[k] /\ poll.done[k] < height
             /\ poll.done[k] \in Int /\ fetcher.done[k] \in Int
  <2>1. poll.done[k] \in Int /\ fetcher.done[k] \in Int /\ keys[k].next \in Nat
    BY <1>2, ThreadTypes, TableTypes
  <2>2. /\ poll.done[k] <= fetcher.done[k] /\ keys[k].next <= height
        /\ fetcher.done[k] # NoBlock => fetcher.done[k] < keys[k].next
    BY Zenon DEF ViewInv, LoadedInv, TablesInv
  <2>3. fetcher.done[k] < height
    BY <1>2, <2>1, <2>2 DEF NoBlock
  <2> QED
    BY <1>2, <2>1, <2>2, <2>3
<1>5. /\ processed' \in processed..height
      /\ \A b \in processed..(processed' - 1) : /\ ~Blocked(poll.done, ingress_keys, b)
                                                /\ \E k \in Keys : b <= poll.done[k]
  BY <1>1, <1>2, <1>3, <1>4, ProcessedCount, SMTT(30)
<1>6. last_known' \in Nat
  <2>1. highest_known_block_count(poll.done) \in 0..height
    BY <1>2, <1>4, KnownCount
  <2> QED
    BY <1>1, <1>2, <2>1
<1>7. ASSUME ~StaleKeys, NEW b \in processed..(processed' - 1), NEW k \in used[b + 1]
      PROVE  <<k, b>> \in enclave \/ Missed(b)
  <2>1. b \in Nat /\ b \in 0..(height - 1)
    BY <1>2, <1>5, SMTT(30)
  <2>2. k \in Keys /\ keys[k].exists /\ keys[k].start <= b /\ b < keys[k].expiry
    BY <1>2, <2>1, TableTypes DEF ViewInv, TablesInv
  <2>3. PICK l \in Keys : b <= poll.done[l]
    BY <1>5, Zenon
  <2>4. b \in 0..fetcher.done[l]
    BY <1>4, <2>1, <2>3
  <2>5. ingress_keys[k].exists /\ (ingress_keys[k].retired => b < ingress_keys[k].expiry)
    BY <1>7, <2>4 DEF ViewInv, FreshInv
  <2>6. /\ ingress_keys[k].start <= b
        /\ ingress_keys[k].lost => keys[k].lost /\ ingress_keys[k].next = keys[k].next
    BY <2>2, <2>5 DEF ViewInv, CopyInv
  <2>7. CASE covers_block_index(ingress_keys[k], b)
    <3>1. ~(poll.done[k] < b)
      BY <1>5, <2>2, <2>7, ZenonT(60) DEF Blocked
    <3>2. keys[k].start \in Nat /\ poll.done[k] \in Int
      BY <1>2, <1>4, <2>2, TableTypes
    <3>3. b \in keys[k].start..poll.done[k]
      BY <2>1, <2>2, <3>1, <3>2
    <3> QED
      BY <2>2, <3>3 DEF ViewInv, LoadedInv
  <2>8. CASE ~covers_block_index(ingress_keys[k], b)
    <3>1. keys[k].lost /\ ~(b < keys[k].next)
      BY <2>5, <2>6, <2>8 DEF covers_block_index
    <3>2. keys[k].next \in Nat /\ keys[k].expiry \in Nat
      BY <1>2, <2>2, TableTypes
    <3>3. keys[k].next <= b /\ keys[k].next < keys[k].expiry
      BY <2>1, <2>2, <3>1, <3>2, SMTT(30)
    <3>4. [start |-> keys[k].next, end |-> keys[k].expiry] \in missed
      BY <2>2, <3>1, <3>3 DEF ViewInv, TablesInv
    <3> QED
      BY <2>2, <3>3, <3>4 DEF Missed
  <2> QED
    BY <2>7, <2>8
<1>8. (~StaleKeys => NothingMissing)'
  <2>1. ASSUME ~StaleKeys, NEW b \in 0..(processed' - 1), NEW k \in used[b + 1]
        PROVE  <<k, b>> \in enclave \/ Missed(b)
    <3>1. CASE b \in 0..(processed - 1)
      BY <2>1, <3>1 DEF ViewInv, NothingMissing
    <3>2. CASE b \in processed..(processed' - 1)
      BY <1>7, <2>1, <3>2
    <3> QED
      BY <1>2, <1>5, <3>1, <3>2
  <2> QED
    BY <1>1, <2>1, Zenon DEF NothingMissing, Missed
<1>9. CountInv'
  BY <1>1, <1>3 DEF ViewInv, CountInv
<1>10. stop' \/ (~stop /\ poll'.batch \o fetched_records' = poll.batch \o fetched_records)
  BY <1>1, <1>2, <1>3, SMTT(30)
<1>11. processed' \in Nat /\ processed' <= height
  BY <1>2, <1>5
<1> QED
  BY <1>1, <1>2, <1>3, <1>6, <1>8, <1>9, <1>10, <1>11, PollMoves

\* Loading a record keeps the invariant.
LEMMA AddRecordsKeeps ==
  ASSUME ViewInv, AddRecords
  PROVE  ViewInv'
<1> DEFINE k == Head(poll.batch).key
           b == Head(poll.batch).block
           coming == poll.batch \o fetched_records
<1>1. /\ poll.pc = "add" /\ poll.batch # << >> /\ ~stop
      /\ enclave' = enclave \cup {<<k, b>>}
      /\ poll' = [poll EXCEPT !.batch = Tail(@), !.done[k] = b]
      /\ UNCHANGED <<height, keys, missed, used, changes, ingress_keys, fetched_records,
                     num_queued, fetcher, processed, last_known, stop, fetcher_stop>>
  BY SMTT(30) DEF AddRecords, scan_vars
<1>2. /\ TypeOK /\ poll \in Polls /\ poll.done \in Tracker /\ fetcher.done \in Tracker
      /\ fetched_records \in Seq(FetchedRecords) /\ poll.batch \in Seq(FetchedRecords)
      /\ keys \in [Keys -> KeyState] /\ enclave \in SUBSET (Keys \X Nat)
  BY ComingTypes DEF ViewInv, TypeOK, Polls
<1>3. /\ coming \in Seq(FetchedRecords) /\ coming # << >> /\ Head(coming) = Head(poll.batch)
      /\ Tail(poll.batch) \o fetched_records = Tail(coming)
      /\ Tail(poll.batch) \in Seq(FetchedRecords) /\ Head(poll.batch) \in FetchedRecords
  BY <1>1, <1>2, TailFirst, SMTT(30)
<1>4. k \in Keys /\ b \in Nat
  BY <1>3 DEF FetchedRecords
<1>5. InOrder(coming, fetcher.done, poll.done, keys)
  BY <1>1, <1>3, OrderIs DEF ViewInv
<1>6. k = Head(coming).key /\ b = Head(coming).block
  BY <1>3, SMTT(30)
<1> HIDE DEF k, b, coming
<1>7. /\ b = NextBlock(poll.done, keys[k], k) /\ b <= fetcher.done[k]
      /\ InOrder(Tail(coming), fetcher.done, [poll.done EXCEPT ![k] = b], keys)
  <2>1. /\ coming \in Seq(FetchedRecords) /\ coming # << >> /\ keys \in [Keys -> KeyState]
        /\ fetcher.done \in Tracker /\ poll.done \in Tracker
    BY <1>2, <1>3
  <2> QED
    BY <1>5, <1>6, <2>1, LoadInOrder, Zenon
<1>8. /\ poll' \in Polls /\ poll'.pc = "add" /\ poll'.batch = Tail(poll.batch)
      /\ poll'.done = [poll.done EXCEPT ![k] = b]
  BY <1>1, <1>2, <1>3, <1>4, Zenon DEF Polls, Tracker
<1>9. poll'.done[k] = b /\ \A l \in Keys : l # k => poll'.done[l] = poll.done[l]
  BY <1>2, <1>4, <1>8 DEF Tracker
<1>10. TypeOK'
  <2>1. enclave' \in SUBSET (Keys \X Nat)
    BY <1>1, <1>2, <1>4
  <2> QED
    BY <1>1, <1>2, <1>8, <2>1 DEF TypeOK, Polls
<1>11. TablesInv' /\ CopyInv' /\ FreshInv'
  BY <1>1 DEF ViewInv, TablesInv, CopyInv, FreshInv, FetcherIsIdle
<1>12. LoadedInv'
  <2>1. LoadedInv
    BY DEF ViewInv
  <2>2. ASSUME NEW c \in keys[k].start..b PROVE <<k, c>> \in enclave'
    <3>1. CASE c = b
      BY <1>1, <3>1
    <3>2. CASE c # b
      <4>1. /\ poll.done[k] \in Int
            /\ poll.done[k] # NoBlock => b - 1 = poll.done[k]
        BY <1>2, <1>4, <1>7, TrackerTypes, Zenon
      <4>5. keys[k].start \in Nat
        BY <1>2, <1>4, TableTypes, Zenon
      <4>2. poll.done[k] # NoBlock
        BY <1>4, <1>7, <3>2, <4>1, <4>5 DEF NextBlock
      <4>3. c \in keys[k].start..poll.done[k]
        BY <1>4, <3>2, <4>1, <4>2, <4>5
      <4>4. <<k, c>> \in enclave
        BY <1>4, <2>1, <4>3 DEF LoadedInv
      <4> QED
        BY <1>1, <4>4, Zenon
    <3> QED
      BY <3>1, <3>2
  <2>3. ASSUME NEW l \in Keys
        PROVE  /\ poll'.done[l] <= fetcher.done[l]
               /\ \A c \in keys[l].start..poll'.done[l] : <<l, c>> \in enclave'
    <3>1. CASE l = k
      BY <1>7, <1>9, <2>2, <3>1
    <3>2. CASE l # k
      BY <1>1, <1>9, <2>1, <3>2 DEF LoadedInv
    <3> QED
      BY <3>1, <3>2
  <2> QED
    BY <1>1, <1>8, <2>1, <2>3 DEF LoadedInv
<1>13. PipelineInOrder'
  <2>1. Tail(coming) \in Seq(FetchedRecords)
    BY <1>3
  <2>2. Tail(coming) = poll'.batch \o fetched_records'
    BY <1>1, <1>3, <1>8, Zenon
  <2>3. InOrder(Tail(coming), fetcher'.done, poll'.done, keys')
    BY <1>1, <1>7, <1>8
  <2> QED
    BY <2>1, <2>2, <2>3, OrderIsNext, Zenon
<1>14. CountInv'
  BY <1>1, <1>8 DEF ViewInv, CountInv
<1>15. (~StaleKeys => NothingMissing)'
  BY <1>1, Zenon DEF ViewInv, NothingMissing, Missed
<1> QED
  BY <1>10, <1>11, <1>12, <1>13, <1>14, <1>15 DEF ViewInv

-----------------------------------------------------------------------------

\* The initial state satisfies the invariant.
LEMMA InitHolds == Init => ViewInv
<1> SUFFICES ASSUME Init PROVE ViewInv
  BY SMTT(30)
<1>1. /\ height = 0 /\ keys = [k \in Keys |-> NoRow] /\ missed = {} /\ used = << >>
      /\ ingress_keys = [k \in Keys |-> NoRow] /\ fetched_records = << >> /\ num_queued = 0
      /\ fetcher = [pc |-> "keys", done |-> [k \in Keys |-> NoBlock],
                    todo |-> {}, more |-> FALSE]
      /\ poll = [pc |-> "tick", batch |-> << >>, done |-> [k \in Keys |-> NoBlock]]
      /\ enclave = {} /\ processed = 0 /\ last_known = 0
      /\ stop = FALSE /\ fetcher_stop = FALSE /\ changes = MaxChanges
  BY Zenon DEF Init, ScansInit
<1>2. NoRow \in KeyState /\ [k \in Keys |-> NoBlock] \in Tracker
  BY SMTT(30) DEF NoRow, KeyState, Tracker
<1>3. fetcher \in Fetchers /\ poll \in Polls
  BY <1>1, <1>2, SMTT(30) DEF Fetchers, Polls
<1>4. TypeOK
  <2>1. height \in 0..MaxHeight /\ changes \in 0..MaxChanges
    BY <1>1, ViewConstants
  <2>2. keys \in [Keys -> KeyState] /\ ingress_keys \in [Keys -> KeyState]
    BY <1>1, <1>2
  <2>3. /\ used \in Seq(SUBSET Keys) /\ Len(used) = height
        /\ fetched_records \in Seq(FetchedRecords)
    BY <1>1, SMTT(30)
  <2> QED
    BY <1>1, <1>3, <2>1, <2>2, <2>3, ZenonT(60) DEF TypeOK, Fetchers, Polls
<1>5. TablesInv
  <2>1. \A k \in Keys : keys[k] = NoRow
    BY <1>1, Zenon
  <2>2. NoRow.start = 0 /\ NoRow.next = 0 /\ NoRow.lost = FALSE
    BY DEF NoRow
  <2>3. 0..(height - 1) = {}
    BY <1>1
  <2> QED
    BY <1>1, <2>1, <2>2, <2>3 DEF TablesInv
<1>6. CopyInv
  <2>1. NoRow.exists = FALSE
    BY DEF NoRow
  <2> QED
    BY <1>1, <2>1 DEF CopyInv
<1>7. \A k \in Keys : fetcher.done[k] = NoBlock /\ poll.done[k] = NoBlock
  BY <1>1, Zenon
<1>8. FreshInv
  <2>1. FetcherIsIdle
    BY <1>1 DEF FetcherIsIdle
  <2>2. \A k \in Keys : 0..fetcher.done[k] = {}
    <3>1. 0..NoBlock = {}
      BY SMTT(30) DEF NoBlock
    <3> QED
      BY <1>7, <3>1, Zenon
  <2> QED
    BY <2>1, <2>2 DEF FreshInv
<1>9. LoadedInv
  <2>1. \A k \in Keys : keys[k].start = 0
    BY <1>1, Zenon DEF NoRow
  <2>2. \A k \in Keys : keys[k].start..poll.done[k] = {}
    <3>1. 0..NoBlock = {}
      BY DEF NoBlock
    <3> QED
      BY <1>7, <2>1, <3>1, Zenon
  <2>3. \A k \in Keys : poll.done[k] <= fetcher.done[k]
    <3>1. NoBlock <= NoBlock
      BY DEF NoBlock
    <3> QED
      BY <1>7, <3>1, Zenon
  <2>4. processed <= height /\ poll.batch = << >>
    BY <1>1, SMTT(30)
  <2> QED
    BY <1>7, <2>2, <2>3, <2>4, SMTT(30) DEF LoadedInv
<1>10. PipelineInOrder
  <2>1. poll.batch \o fetched_records = << >>
    BY <1>1
  <2>2. DOMAIN (poll.batch \o fetched_records) = {}
    BY <2>1
  <2> QED
    BY <1>7, <2>2, Zenon DEF PipelineInOrder
<1>11. CountInv
  <2>1. Len(fetched_records) = 0 /\ fetcher.pc = "keys" /\ poll.pc = "tick"
    BY <1>1
  <2> QED
    BY <1>1, <2>1, ViewConstants DEF CountInv
<1>12. NothingMissing
  <2>1. 0..(processed - 1) = {}
    BY <1>1
  <2> QED
    BY <2>1 DEF NothingMissing
<1> QED
  BY <1>4, <1>5, <1>6, <1>8, <1>9, <1>10, <1>11, <1>12 DEF ViewInv

\* Every step of the view server, the ledger and the ingest servers keeps it.
LEMMA StepKeeps == ViewInv /\ [Next]_vars => ViewInv'
<1> SUFFICES ASSUME ViewInv, [Next]_vars PROVE ViewInv'
  OBVIOUS
<1>1. CASE FetcherStep
  BY <1>1, LoadIngressKeysKeeps, WaitForQueueKeeps, IdleFetcherKeeps, FetchBlockKeeps
     DEF FetcherStep
<1>2. CASE PollStep
  BY <1>2, TakeRecordsKeeps, ResetQueuedKeeps, AddRecordsKeeps, UpdateSharedStateKeeps,
     StoppingKeeps DEF PollStep
<1>3. CASE Stop
  BY <1>3, StoppingKeeps
<1>4. CASE AppendBlock
  BY <1>4, AppendBlockKeeps
<1>5. CASE IngestStep
  BY <1>5, IngestKeeps
<1>6. CASE UNCHANGED vars
  <2>1. UNCHANGED <<height, keys, missed, used, changes, ingress_keys, fetched_records,
                    num_queued, fetcher, poll, enclave, processed, last_known, stop,
                    fetcher_stop>>
    BY <1>6, SMTT(30) DEF vars, view_vars, scan_vars
  <2>2. TypeOK' /\ TablesInv' /\ CopyInv'
    BY <2>1, ZenonT(60) DEF ViewInv, TypeOK, TablesInv, CopyInv
  <2>3. FreshInv'
    BY <2>1, Zenon DEF ViewInv, FreshInv, FetcherIsIdle
  <2>6. LoadedInv'
    BY <2>1, Zenon DEF ViewInv, LoadedInv
  <2>7. CountInv'
    BY <2>1, Zenon DEF ViewInv, CountInv
  <2>4. PipelineInOrder'
    BY <2>1, Zenon DEF ViewInv, PipelineInOrder, NextBlock
  <2>5. (~StaleKeys => NothingMissing)'
    BY <2>1, Zenon DEF ViewInv, NothingMissing, Missed
  <2> QED
    BY <2>2, <2>3, <2>4, <2>5, <2>6, <2>7 DEF ViewInv
<1> QED
  BY <1>1, <1>2, <1>3, <1>4, <1>5, <1>6 DEF Next

\* The invariant holds of the view server.
THEOREM ViewInvariant == Spec => []ViewInv
<1> QED
  BY InitHolds, StepKeeps, PTL DEF Spec

\* The variables of both threads have their types, whatever the schedule.
THEOREM ViewTypes == Spec => []TypeOK
<1>1. ViewInv => TypeOK
  BY DEF ViewInv
<1> QED
  BY <1>1, ViewInvariant, PTL

\* What DbFetcher fetches reaches the enclave once and in order, however the key
\* records change between its reads: the assertion of block_processed holds.
THEOREM FetchedArrivesInOrder == Spec => []PipelineInOrder
<1>1. ViewInv => PipelineInOrder
  BY DEF ViewInv
<1> QED
  BY <1>1, ViewInvariant, PTL

\* The queue between the threads never holds more than the limit twice over, for
\* every limit.
THEOREM QueueIsBounded == Spec => []QueueBounded
<1>1. ASSUME ViewInv PROVE QueueBounded
  <2>1. /\ MAX_QUEUED_RECORDS \in Nat /\ num_queued \in Nat
        /\ fetched_records \in Seq(FetchedRecords)
    BY <1>1, ViewConstants DEF ViewInv, TypeOK
  <2>2. Len(fetched_records) \in Nat
    BY <2>1
  <2>3. CountInv
    BY <1>1 DEF ViewInv
  <2> QED
    BY <2>1, <2>2, <2>3 DEF CountInv, QueueBounded
<1> QED
  BY <1>1, ViewInvariant, PTL

\* As long as the fetcher's key records lack no key that is published, users miss no
\* TxOut below highest_processed_block_count without being told, for every number of
\* keys and blocks.
THEOREM NothingIsMissing ==
  ASSUME ~StaleKeys
  PROVE  Spec => []NothingMissing
<1>1. ViewInv => NothingMissing
  BY DEF ViewInv
<1> QED
  BY <1>1, ViewInvariant, PTL

=============================================================================
