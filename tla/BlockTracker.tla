---------------------------- MODULE BlockTracker ----------------------------
(***************************************************************************)
(* BlockTracker of the view server: which block was processed last with    *)
(* each ingress key, the next block wanted of each, and the block count up *)
(* to which nothing is missing.  A tracker is the function from keys to    *)
(* their last processed block; a key record is a key's state in KeyScans   *)
(* as it was when the records were read.                                   *)
(***************************************************************************)
EXTENDS KeyScans

NoBlock == -1

Tracker == [Keys -> Nat \cup {NoBlock}]

\* A mistake: a lost key provides nothing any more, not even what was scanned
\* with it.
covers_block_index_LostProvidesNothing(rec, b) ==
    /\ rec.exists
    /\ rec.start <= b
    /\ ~rec.lost /\ (rec.retired => b < rec.expiry)

\* IngressPublicKeyRecord::covers_block_index.
covers_block_index(rec, b) ==
    /\ rec.exists
    /\ rec.start <= b
    /\ IF rec.lost THEN b < rec.next
       ELSE rec.retired => b < rec.expiry

NextBlock(done, rec, k) == IF done[k] = NoBlock THEN rec.start ELSE done[k] + 1

\* The keys for which there is a next block to load.
next_blocks(done, recs) ==
    {k \in Keys : covers_block_index(recs[k], NextBlock(done, recs[k], k))}

\* A mistake: the index of the highest block for the number of blocks.
highest_known_block_count_Index(done) ==
    CHOOSE n \in {done[k] : k \in Keys} : \A k \in Keys : done[k] <= n

highest_known_block_count(done) ==
    CHOOSE n \in {done[k] + 1 : k \in Keys} : \A k \in Keys : done[k] + 1 <= n

\* A mistake: a key that has provided nothing yet holds nothing back.
Blocked_UnseenKey(done, recs, b) ==
    \E k \in Keys : /\ done[k] # NoBlock
                    /\ covers_block_index(recs[k], b) /\ done[k] < b

\* Some key has to provide block b and has not.
Blocked(done, recs, b) ==
    \E k \in Keys : covers_block_index(recs[k], b) /\ done[k] < b

\* The loop that raises the count from its last value, one block at a time,
\* until the next block is unknown or is held back.
highest_fully_processed_block_count(done, recs, last) ==
    LET known == highest_known_block_count(done)
    IN  CHOOSE n \in last..(IF known > last THEN known ELSE last) :
            /\ n >= known \/ Blocked(done, recs, n)
            /\ \A b \in last..(n - 1) : ~Blocked(done, recs, b)

=============================================================================
