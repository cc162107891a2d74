----------------------------- MODULE OramStorage -----------------------------
(***************************************************************************)
(* fog/ocall_oram_storage: a tree of blocks whose top is on the enclave's  *)
(* heap and whose rest is kept by the untrusted side, encrypted and with   *)
(* the hash of each block in its parent.  The untrusted side is the one of *)
(* this repository, untrusted/src/lib.rs, and keeps what it is given.      *)
(*                                                                         *)
(* A block's data and the caller's metadata are encrypted together and are *)
(* one value here.  A ciphertext is the key and the nonce (block index and *)
(* counter) with the plaintext, and a hash is the tuple of what is hashed: *)
(* another key or nonce decrypts to garbage.                               *)
(***************************************************************************)
EXTENDS TreeIndex

CONSTANTS
    treetop_max_count,   \* blocks below this index are on the heap
    Data,                \* what a block may hold
    Zero,                \* a block of zeros
    Garbage,             \* what memory that was never written holds
    MaxWrites,           \* bound: the checkins that reach untrusted storage
    MaxDrops             \* bound: how often the storage is dropped

ASSUME OramConstants ==
    /\ Count \in Nat /\ treetop_max_count \in Nat
    /\ Count >= 1 /\ treetop_max_count >= 2
    /\ Zero \in Data /\ Garbage \notin Data
    /\ Garbage \notin [key : Nat, nonce : Nat \X Nat, text : Data]
    /\ MaxWrites \in Nat /\ MaxDrops \in Nat

Low == treetop_max_count..(Count - 1)
Roots == IF Count <= treetop_max_count THEN {} ELSE 0..(2 * treetop_max_count - 1)

\* The part of a branch that is not in the treetop.
LowBranch(i) == Branch[i] \cap Low

VARIABLES
    treetop,        \* HeapORAMStorage: the blocks on the heap
    trusted_merkle_roots,
    data,           \* untrusted: the encrypted blocks
    meta,           \* untrusted: the ExtraMeta of each block
    checkout_flag,  \* untrusted: a checkout is not yet checked in
    scratch,        \* meta_scratch_buffer
    index,          \* the block whose branch the caller has; 0 for none
    dest,           \* the branch, with its contents
    at,             \* checkin: the block that is next; 0 outside of checkin
    src,            \* checkin: the blocks outside the treetop, encrypted in place
    last_hash,      \* checkin: the block done last, and its hash
    panicked,       \* an assertion or the authentication failed
    writes,         \* how many checkins reached untrusted storage
    drops           \* how often the storage was dropped; every one draws its
                    \* own aes_key and hash_key, for which the number stands

trusted == <<treetop, trusted_merkle_roots, scratch>>
untrusted == <<data, meta, checkout_flag>>
checkin == <<at, src, last_hash>>
vars == <<trusted, untrusted, checkin, index, dest, panicked, writes, drops>>

-----------------------------------------------------------------------------

NoHash == << >>
NoMeta == [block_ctr |-> 0, left_child_hash |-> NoHash, right_child_hash |-> NoHash]
Nothing == [p \in {} |-> Zero]

Encrypt(i, ctr, v) == [key |-> drops, nonce |-> <<i, ctr>>, text |-> v]
Decrypt(i, ctr, c) ==
    IF c # Garbage /\ c.key = drops /\ c.nonce = <<i, ctr>> THEN c.text ELSE Garbage
compute_block_hash(e_data, i, m) == <<drops, e_data, i, m>>

\* The hash of what untrusted keeps for block i; a block that was never written
\* has metadata of zeros and no hash.
StoredHash(i) == IF meta[i] = NoMeta THEN NoHash
                 ELSE compute_block_hash(data[i], i, meta[i])

\* The hash of child c that the metadata m of its parent records.
ChildHash(m, c) == IF c % 2 = 0 THEN m.left_child_hash ELSE m.right_child_hash

\* OcallORAMStorage::new, in memory that was never used.
Init ==
    /\ treetop = [i \in Blocks \ Low |-> Zero]
    /\ trusted_merkle_roots = [i \in Roots |-> NoHash]
    /\ data = [i \in Low |-> Garbage]
    /\ meta = [i \in Low |-> NoMeta]
    /\ checkout_flag = FALSE
    /\ scratch = Nothing
    /\ index = 0 /\ dest = Nothing
    /\ at = 0 /\ src = Nothing /\ last_hash = NoHash
    /\ panicked = FALSE /\ writes = 0 /\ drops = 0

\* What the caller sees of block i when its branch is checked out.
Plain(i) ==
    IF i \notin Low THEN treetop[i]
    ELSE IF meta[i] = NoMeta THEN Zero
    ELSE Decrypt(i, meta[i].block_ctr, data[i])

\* A block with metadata whose record of the child on the branch is not the
\* child's hash.  (No hash is compared with the trusted root: the condition of
\* that comparison, idx == first_treetop_index, is never met in its loop.)
AuthenticationFails_ZeroHashed(i) ==
    \E c \in LowBranch(i) :
        /\ Parent(c) \in Low
        /\ meta[Parent(c)] # NoMeta
        /\ ChildHash(meta[Parent(c)], c) # compute_block_hash(data[c], c, meta[c])

AuthenticationFails(i) ==
    \E c \in LowBranch(i) :
        /\ Parent(c) \in Low
        /\ meta[Parent(c)] # NoMeta
        /\ ChildHash(meta[Parent(c)], c) # StoredHash(c)

-----------------------------------------------------------------------------
(* The untrusted side. *)

\* New memory, or memory that was used before, of which only the metadata is
\* set to zero.
allocate_oram_storage ==
    /\ data' \in {[i \in Low |-> Garbage], data}
    /\ meta' = [i \in Low |-> NoMeta]
    /\ checkout_flag' = FALSE

\* The metadata of the blocks is copied to the enclave, and the data, of which
\* Plain is what the enclave makes.
checkout_oram_storage(low) ==
    /\ checkout_flag' = TRUE
    /\ scratch' = [p \in low |-> meta[p]]
    /\ UNCHANGED <<data, meta>>

checkin_oram_storage ==
    /\ data' = [p \in Low |-> IF p \in DOMAIN src THEN src[p] ELSE data[p]]
    /\ meta' = [p \in Low |-> IF p \in DOMAIN src THEN scratch[p] ELSE meta[p]]
    /\ checkout_flag' = FALSE

-----------------------------------------------------------------------------
(* checkout *)

\* checkout, by a caller with nothing checked out.  A panic ends the enclave.
Checkout_NoDecrypt(i) ==
    LET low == LowBranch(i)
    IN  /\ ~panicked /\ index = 0
        /\ index' = i
        /\ panicked' = (low # {} /\ (checkout_flag \/ AuthenticationFails(i)))
        /\ \/ low # {} /\ checkout_oram_storage(low)
           \/ low = {} /\ UNCHANGED <<scratch, untrusted>>
        /\ dest' = [p \in Branch[i] |-> IF p \in low /\ meta[p] # NoMeta
                                        THEN data[p] ELSE Plain(p)]
        /\ UNCHANGED <<treetop, trusted_merkle_roots, checkin, writes, drops>>

Checkout(i) ==
    LET low == LowBranch(i)
    IN  /\ ~panicked /\ index = 0
        /\ index' = i
        /\ panicked' = (low # {} /\ (checkout_flag \/ AuthenticationFails(i)))
        /\ \/ low # {} /\ checkout_oram_storage(low)
           \/ low = {} /\ UNCHANGED <<scratch, untrusted>>
        /\ dest' = [p \in Branch[i] |-> Plain(p)]
        /\ UNCHANGED <<treetop, trusted_merkle_roots, checkin, writes, drops>>

\* The caller (PathORAM) works on the branch it was given.
Change(p, v) ==
    /\ ~panicked /\ at = 0 /\ p \in DOMAIN dest
    /\ dest' = [dest EXCEPT ![p] = v]
    /\ UNCHANGED <<trusted, untrusted, checkin, index, panicked, writes, drops>>

-----------------------------------------------------------------------------
(* checkin *)

\* HeapORAMStorage::checkin of the part of the branch in the treetop.
HeapCheckin_OffByOne ==
    [p \in Blocks \ Low |-> IF \E c \in DOMAIN dest \ Low : p \in DOMAIN dest /\ Parent(c) = p
                            THEN dest[p] ELSE treetop[p]]

HeapCheckin ==
    [p \in Blocks \ Low |-> IF p \in DOMAIN dest THEN dest[p] ELSE treetop[p]]

\* The treetop; then the rest of the branch, if there is one, block by block.
CheckinTreetop ==
    /\ ~panicked /\ index # 0 /\ at = 0
    /\ treetop' = HeapCheckin
    /\ \/ /\ index \notin Low
          /\ index' = 0 /\ dest' = Nothing
          /\ UNCHANGED <<at, src>>
       \/ /\ index \in Low /\ writes < MaxWrites
          /\ at' = index
          /\ src' = [p \in LowBranch(index) |-> dest[p]]
          /\ UNCHANGED <<index, dest>>
    /\ last_hash' = NoHash
    /\ UNCHANGED <<trusted_merkle_roots, scratch, untrusted, panicked, writes, drops>>

\* The metadata m with the hash of child c.
WithChildHash_Left(m, c, hash) == [m EXCEPT !.left_child_hash = hash]

WithChildHash(m, c, hash) ==
    IF c % 2 = 0 THEN [m EXCEPT !.left_child_hash = hash]
    ELSE [m EXCEPT !.right_child_hash = hash]

\* The metadata m with its counter incremented.
NextCtr_FirstTimeOnly(m) == [m EXCEPT !.block_ctr = 1]

NextCtr(m) == [m EXCEPT !.block_ctr = @ + 1]

\* One block: the hash of the child done before, the next counter, encryption,
\* and the hash of the result.
CheckinBlock ==
    /\ ~panicked /\ at \in Low
    /\ LET m == NextCtr(IF last_hash = NoHash THEN scratch[at]
                        ELSE WithChildHash(scratch[at], last_hash[1], last_hash[2]))
           e_data == Encrypt(at, m.block_ctr, src[at])
       IN  /\ scratch' = [scratch EXCEPT ![at] = m]
           /\ src' = [src EXCEPT ![at] = e_data]
           /\ last_hash' = <<at, compute_block_hash(e_data, at, m)>>
    /\ at' = Parent(at)
    /\ UNCHANGED <<treetop, trusted_merkle_roots, untrusted, index, dest, panicked,
                   writes, drops>>

\* The last hash goes to trusted_merkle_roots, the blocks to untrusted.
CheckinStore ==
    /\ ~panicked /\ at # 0 /\ at \notin Low
    /\ trusted_merkle_roots' = [trusted_merkle_roots EXCEPT ![last_hash[1]] = last_hash[2]]
    /\ checkin_oram_storage
    /\ panicked' = ~checkout_flag
    /\ index' = 0 /\ dest' = Nothing
    /\ at' = 0 /\ src' = Nothing /\ last_hash' = NoHash
    /\ writes' = writes + 1
    /\ UNCHANGED <<treetop, scratch, drops>>

\* The storage is dropped and another one made.
Renew ==
    /\ ~panicked /\ at = 0 /\ drops < MaxDrops
    /\ treetop' = [i \in Blocks \ Low |-> Zero]
    /\ trusted_merkle_roots' = [i \in Roots |-> NoHash]
    /\ allocate_oram_storage
    /\ scratch' = Nothing
    /\ index' = 0 /\ dest' = Nothing
    /\ drops' = drops + 1
    /\ UNCHANGED <<checkin, panicked, writes>>

Next ==
    \/ \E i \in Blocks : Checkout(i)
    \/ \E p \in Blocks, v \in Data : Change(p, v)
    \/ CheckinTreetop \/ CheckinBlock \/ CheckinStore
    \/ Renew

Spec == Init /\ [][Next]_vars

-----------------------------------------------------------------------------

\* The blocks on the heap and those given to the caller hold data, never what
\* was in the memory or a block that is still encrypted.
TypeOK ==
    /\ treetop \in [Blocks \ Low -> Data]
    /\ DOMAIN trusted_merkle_roots = Roots
    /\ DOMAIN data = Low /\ DOMAIN meta = Low
    /\ index \in Blocks \cup {0} /\ at \in Blocks \cup {0}
    /\ dest \in [IF index = 0 THEN {} ELSE Branch[index] -> Data]
    /\ {checkout_flag, panicked} \subseteq BOOLEAN
    /\ writes \in 0..MaxWrites /\ drops \in 0..MaxDrops

\* What the storage holds for its caller, and what the caller has of it: checkin
\* is a step of the memory when it begins.
Held == [i \in Blocks |-> IF at # 0 /\ i \in DOMAIN dest THEN dest[i] ELSE Plain(i)]
Given == IF at = 0 THEN dest ELSE Nothing

Memory == INSTANCE PathMemory WITH memory <- Held, branch <- Given

\* The storage does what a PathMemory does: a branch checked out holds what was
\* last checked in for each of its blocks, whether it is on the heap or went
\* through encryption, whichever other branches shared a part of it since, and
\* nothing of the storage that had the memory before.
ImplementsPathMemory == Memory!Spec

\* No assertion and no authentication fails for a caller that checks in what it
\* has checked out.
NeverPanics == ~panicked

\* The hash kept for a block, in its parent's metadata or, at the edge of the
\* treetop, in trusted_merkle_roots, is the hash of what untrusted stores; and
\* below a block that was never written there is none that was.
HashTree ==
    \A c \in Low :
        IF Parent(c) \notin Low THEN trusted_merkle_roots[c] = StoredHash(c)
        ELSE IF meta[Parent(c)] = NoMeta THEN meta[c] = NoMeta
        ELSE ChildHash(meta[Parent(c)], c) = StoredHash(c)

\* A block is never encrypted twice with one nonce: whatever branches it was
\* on, when it changes its counter grows, or the keys are new.
NonceNeverReused ==
    [][\A p \in Low :
         data'[p] # data[p] => \/ drops' # drops
                               \/ meta'[p].block_ctr > meta[p].block_ctr]_vars

=============================================================================
