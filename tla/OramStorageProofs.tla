------------------------- MODULE OramStorageProofs -------------------------
(***************************************************************************)
(* Proofs about OramStorage, for trees and treetops of every size: it      *)
(* implements a PathMemory, never panics, keeps its hashes right, and uses *)
(* no nonce twice.  The argument goes by blocks: checkin works up one      *)
(* branch, and a branch has one block per level, so that the one child of  *)
(* a block whose hash has changed is the one done just before it.          *)
(***************************************************************************)
EXTENDS OramStorage, WellFoundedInduction, TLAPS

\* The parent of a block that is not the root is above it, and no other block is between.
LEMMA ParentBounds ==
    ASSUME NEW p \in Int, p > 1
    PROVE  /\ Parent(p) \in Int /\ Parent(p) >= 1 /\ Parent(p) < p
           /\ 2 * Parent(p) <= p /\ p <= 2 * Parent(p) + 1
BY DEF Parent

\* A branch holds its own block.
LEMMA BranchSelf ==
    ASSUME Count \in Nat, NEW i \in Blocks
    PROVE  i \in Branch[i] /\ Branch[i] \subseteq Blocks
BY DEF Branch

\* A branch is within every set that has its block and is closed under parents.
LEMMA BranchLeast ==
    ASSUME Count \in Nat, NEW i \in Blocks, NEW S \in SUBSET Blocks, i \in S, ParentsIn(S)
    PROVE  Branch[i] \subseteq S
BY DEF Branch

\* A branch is closed under parents.
LEMMA BranchClosed ==
    ASSUME Count \in Nat, NEW i \in Blocks, NEW p \in Branch[i], p # 1
    PROVE  Parent(p) \in Branch[i]
<1>1. p \in Int /\ p > 1 /\ p \in Blocks
  BY BranchSelf DEF Blocks
<1>2. Parent(p) \in Blocks
  BY <1>1, ParentBounds DEF Blocks
<1>3. ASSUME NEW S \in SUBSET Blocks, i \in S, ParentsIn(S)
      PROVE  Parent(p) \in S
  <2>1. p \in S
    BY <1>3, BranchLeast
  <2> QED BY <2>1, <1>1, <1>3 DEF ParentsIn
<1> QED BY <1>2, <1>3 DEF Branch

\* A branch is its block and the branch of the parent.
LEMMA BranchStep ==
    ASSUME Count \in Nat, NEW i \in Blocks, i # 1
    PROVE  Parent(i) \in Blocks /\ Branch[i] \subseteq {i} \cup Branch[Parent(i)]
<1>1. i \in Int /\ i > 1
  BY DEF Blocks
<1>2. Parent(i) \in Blocks
  BY <1>1, ParentBounds DEF Blocks
<1> DEFINE S == {i} \cup Branch[Parent(i)]
<1>3. S \in SUBSET Blocks /\ Parent(i) \in S
  BY <1>2, BranchSelf
<1>4. ParentsIn(S)
  <2> SUFFICES ASSUME NEW p \in S \ {1} PROVE Parent(p) \in S
    BY DEF ParentsIn
  <2>1. CASE p = i
    BY <2>1, <1>3
  <2>2. CASE p \in Branch[Parent(i)]
    BY <2>2, <1>2, BranchClosed
  <2> QED BY <2>1, <2>2
<1>5. Branch[i] \subseteq S
  <2> HIDE DEF S
  <2>1. i \in S BY DEF S
  <2> QED BY <1>3, <1>4, <2>1, BranchLeast
<1> QED BY <1>2, <1>5

\* The blocks above i are at half of it or less.
LEMMA BranchBelow ==
    ASSUME Count \in Nat, NEW i \in Blocks, NEW p \in Branch[i]
    PROVE  p = i \/ 2 * p <= i
<1> DEFINE S == {q \in Blocks : q = i \/ 2 * q <= i}
<1>1. ParentsIn(S)
  <2> SUFFICES ASSUME NEW q \in S \ {1} PROVE Parent(q) \in S
    BY DEF ParentsIn
  <2>1. q \in Int /\ q > 1 /\ i \in Int
    BY DEF Blocks
  <2>2. /\ Parent(q) \in Int /\ Parent(q) >= 1 /\ Parent(q) < q /\ 2 * Parent(q) <= q
    BY <2>1, ParentBounds
  <2> QED BY <2>1, <2>2 DEF Blocks
<1>2. Branch[i] \subseteq S
  <2>1. i \in S /\ S \in SUBSET Blocks
    OBVIOUS
  <2> HIDE DEF S
  <2> QED BY <1>1, <2>1, BranchLeast
<1> QED BY <1>2

\* From block to block a branch halves: it has one block per level.  A smallest block
\* with another kind of branch would have a parent that is smaller.
LEMMA BranchHalves ==
    ASSUME Count \in Nat, NEW i \in Blocks, NEW p \in Branch[i], NEW q \in Branch[i], p < q
    PROVE  2 * p <= q
<1> DEFINE Bad == {j \in Blocks : \E a, b \in Branch[j] : a < b /\ ~(2 * a <= b)}
<1>1. Bad = {}
  <2> SUFFICES ASSUME Bad # {} PROVE FALSE
    OBVIOUS
  <2>1. Bad \subseteq Nat
    BY DEF Blocks
  <2>2. PICK j \in Bad : \A k \in Bad : ~(k < j)
    <3> HIDE DEF Bad
    <3>1. PICK j \in Bad : \A k \in Bad : ~(<<k, j>> \in OpToRel(<, Nat))
      BY <2>1, NatLessThanWellFounded, WFMin, ZenonT(30)
    <3> QED BY <3>1, <2>1, ZenonT(30) DEF OpToRel
  <2>3. PICK a \in Branch[j], b \in Branch[j] : a < b /\ ~(2 * a <= b)
    OBVIOUS
  <2>4. j \in Blocks /\ a \in Blocks /\ b \in Blocks
    BY BranchSelf
  <2>5. a \in Int /\ b \in Int /\ j \in Int /\ a >= 1 /\ b >= 1
    BY <2>4 DEF Blocks
  <2>6. (a = j \/ 2 * a <= j) /\ (b = j \/ 2 * b <= j)
    BY <2>4, BranchBelow
  <2>7. j # 1 /\ b # j
    BY <2>3, <2>5, <2>6
  <2>8. a # j
    BY <2>3, <2>5, <2>6
  <2>9. Parent(j) \in Blocks /\ a \in Branch[Parent(j)] /\ b \in Branch[Parent(j)]
    BY <2>4, <2>7, <2>8, BranchStep
  <2>10. Parent(j) \in Bad
    BY <2>9, <2>3
  <2>11. Parent(j) < j
    BY <2>4, <2>5, <2>7, ParentBounds DEF Blocks
  <2> QED BY <2>10, <2>11, <2>2
<1>2. i \notin Bad
  BY <1>1
<1> QED BY <1>2

-----------------------------------------------------------------------------
(* The inductive invariant. *)

IsMeta(m) ==
    /\ m = [block_ctr |-> m.block_ctr, left_child_hash |-> m.left_child_hash,
            right_child_hash |-> m.right_child_hash]
    /\ m.block_ctr \in Nat

Ciphertext == [key : Nat, nonce : Nat \X Nat, text : Data]

\* A block with metadata is encrypted with the current key and its own nonce.
Stored ==
    \A p \in Low :
        /\ IsMeta(meta[p])
        /\ meta[p] # NoMeta => /\ data[p] \in Ciphertext
                               /\ data[p].key = drops
                               /\ data[p].nonce = <<p, meta[p].block_ctr>>

\* The untrusted side knows of a checkout exactly when it took part in it, and
\* the enclave then has the metadata of the branch.
Owner ==
    /\ (checkout_flag <=> index \in Low)
    /\ index \in Low => DOMAIN scratch = LowBranch(index)
    /\ index \in Low /\ at = 0 => \A p \in LowBranch(index) : scratch[p] = meta[p]

\* What checkin has done with block p of the branch.
Sealed(p) ==
    /\ IsMeta(scratch[p])
    /\ scratch[p].block_ctr = meta[p].block_ctr + 1
    /\ src[p] = Encrypt(p, scratch[p].block_ctr, dest[p])
    /\ \A c \in Low : Parent(c) = p =>
          ChildHash(scratch[p], c) = IF c \in LowBranch(index)
                                     THEN compute_block_hash(src[c], c, scratch[c])
                                     ELSE ChildHash(meta[p], c)

\* checkin goes up the branch: the blocks below `at' are done, those from it up
\* are as they were checked out.
Sealing ==
    at # 0 =>
        /\ index \in Low /\ at \in Branch[index] /\ writes < MaxWrites
        /\ DOMAIN src = LowBranch(index)
        /\ \A p \in Branch[index] \ Low : treetop[p] = dest[p]
        /\ \A p \in LowBranch(index) : p <= at => scratch[p] = meta[p] /\ src[p] = dest[p]
        /\ \A p \in LowBranch(index) : p > at => Sealed(p)
        /\ IF last_hash = NoHash THEN at = index
           ELSE \E c \in LowBranch(index) :
                  /\ Parent(c) = at
                  /\ last_hash = <<c, compute_block_hash(src[c], c, scratch[c])>>

StorageInv == TypeOK /\ NeverPanics /\ HashTree /\ Stored /\ Owner /\ Sealing

-----------------------------------------------------------------------------

\* The blocks outside the treetop are blocks, and have parents.
LEMMA LowFacts ==
    /\ Count \in Nat /\ Low \subseteq Blocks
    /\ \A p \in Blocks : p \in Int /\ p >= 1
    /\ \A p \in Low : p \in Int /\ p > 1 /\ Parent(p) \in Blocks
    /\ 0 \notin Low
<1>1. Count \in Nat /\ treetop_max_count \in Nat /\ treetop_max_count >= 2
  BY OramConstants
<1>2. \A p \in Low : p \in Int /\ p > 1 /\ p \in Blocks
  BY <1>1 DEF Low, Blocks
<1>3. ASSUME NEW p \in Low PROVE Parent(p) \in Blocks
  BY <1>1, <1>2, ParentBounds DEF Blocks
<1>4. 0 \notin Low
  BY <1>1 DEF Low
<1>5. \A p \in Blocks : p \in Int /\ p >= 1
  BY <1>1 DEF Blocks
<1> QED BY <1>1, <1>2, <1>3, <1>4, <1>5

\* trusted_merkle_roots has a place for every block just below the treetop.
LEMMA RootIndex ==
    ASSUME NEW c \in Low, Parent(c) \notin Low
    PROVE  c \in Roots
<1>1. c \in Int /\ c > 1
  BY LowFacts
<1>2. Parent(c) \in Int /\ c <= 2 * Parent(c) + 1 /\ Parent(c) < c
  BY <1>1, ParentBounds
<1> QED BY <1>1, <1>2, OramConstants DEF Low, Roots

\* A block outside the treetop is on its branch.
LEMMA LowBranchSelf ==
    ASSUME NEW i \in Low
    PROVE  i \in LowBranch(i)
BY LowFacts, BranchSelf DEF LowBranch

\* A block that is not outside the treetop has none of its branch outside.
LEMMA LowBranchEmpty ==
    ASSUME NEW i \in Blocks, i \notin Low
    PROVE  LowBranch(i) = {}
<1> SUFFICES ASSUME NEW p \in LowBranch(i) PROVE FALSE
  OBVIOUS
<1>1. p \in Low /\ (p = i \/ 2 * p <= i)
  BY LowFacts, BranchBelow DEF LowBranch
<1> QED BY <1>1, OramConstants DEF Low, Blocks

\* Two children of one block are not on one branch.
LEMMA OneChild ==
    ASSUME NEW i \in Blocks, NEW c \in LowBranch(i), NEW d \in LowBranch(i),
           Parent(c) = Parent(d) \/ (Parent(c) \notin Low /\ Parent(d) \notin Low)
    PROVE  c = d
<1>1. /\ c \in Low /\ d \in Low /\ c \in Branch[i] /\ d \in Branch[i]
      /\ c \in Int /\ c > 1 /\ d \in Int /\ d > 1 /\ Count \in Nat
  BY LowFacts DEF LowBranch
<1>2. /\ Parent(c) \in Int /\ 2 * Parent(c) <= c /\ c <= 2 * Parent(c) + 1 /\ Parent(c) < c
      /\ Parent(d) \in Int /\ 2 * Parent(d) <= d /\ d <= 2 * Parent(d) + 1 /\ Parent(d) < d
  BY <1>1, ParentBounds
<1>3. c < d => 2 * c <= d
  BY <1>1, BranchHalves
<1>4. d < c => 2 * d <= c
  BY <1>1, BranchHalves
<1>5. CASE Parent(c) = Parent(d)
  BY <1>1, <1>2, <1>3, <1>4, <1>5
<1>6. CASE Parent(c) \notin Low /\ Parent(d) \notin Low
  <2>1. Parent(c) < treetop_max_count /\ Parent(d) < treetop_max_count
    BY <1>1, <1>2, <1>6, OramConstants DEF Low
  <2>2. c >= treetop_max_count /\ d >= treetop_max_count
    BY <1>1, OramConstants DEF Low
  <2> QED BY <1>1, <1>2, <1>3, <1>4, <2>1, <2>2, OramConstants
<1> QED BY <1>5, <1>6

\* The children of a block are on different sides of it.
LEMMA Sides ==
    ASSUME NEW c \in Low, NEW d \in Low, Parent(c) = Parent(d), c # d
    PROVE  c % 2 # d % 2
BY LowFacts DEF Parent

\* What checkout decrypts is data.
LEMMA PlainIsData ==
    ASSUME TypeOK, Stored, NEW p \in Blocks
    PROVE  Plain(p) \in Data
<1>1. CASE p \notin Low
  BY <1>1 DEF TypeOK, Plain
<1>2. CASE p \in Low
  BY <1>2, OramConstants DEF Stored, Ciphertext, Plain, Decrypt
<1> QED BY <1>1, <1>2

\* new establishes the invariant.
LEMMA Initially == Init => StorageInv
<1> SUFFICES ASSUME Init PROVE StorageInv
  OBVIOUS
<1>1. TypeOK
  <2>1. /\ treetop \in [Blocks \ Low -> Data] /\ DOMAIN trusted_merkle_roots = Roots
        /\ DOMAIN data = Low /\ DOMAIN meta = Low
        /\ dest \in [{} -> Data] /\ writes \in 0..MaxWrites /\ drops \in 0..MaxDrops
    BY OramConstants DEF Init, Nothing
  <2> QED BY <2>1, ZenonT(30) DEF Init, TypeOK
<1>2. NeverPanics /\ Sealing
  BY DEF Init, NeverPanics, Sealing
<1>3. Owner
  BY LowFacts DEF Init, Owner
<1>4. HashTree
  <2> SUFFICES ASSUME NEW c \in Low, Parent(c) \notin Low
               PROVE  trusted_merkle_roots[c] = StoredHash(c)
    BY DEF HashTree, Init
  <2>1. c \in Roots
    BY RootIndex
  <2> QED BY <2>1 DEF Init, StoredHash
<1>5. Stored
  BY DEF Init, Stored, IsMeta, NoMeta
<1> QED BY <1>1, <1>2, <1>3, <1>4, <1>5 DEF StorageInv

\* checkout finds every hash right, and takes note of the metadata.
LEMMA CheckoutKeeps ==
    ASSUME StorageInv, NEW i \in Blocks, Checkout(i)
    PROVE  StorageInv'
<1> USE DEF StorageInv
<1>1. ~AuthenticationFails(i)
  BY DEF AuthenticationFails, HashTree, LowBranch
<1>2. ~checkout_flag /\ at = 0 /\ i # 0
  <2>1. index = 0 /\ 0 \notin Low /\ i # 0
    BY LowFacts DEF Checkout
  <2> QED BY <2>1 DEF Owner, Sealing
<1>3. NeverPanics'
  BY <1>1, <1>2, ZenonT(30) DEF Checkout, NeverPanics
<1>4. TypeOK'
  <2>1. dest' \in [Branch[i] -> Data]
    BY PlainIsData, BranchSelf, LowFacts DEF Checkout
  <2>2. checkout_flag' \in BOOLEAN
    BY <1>2, ZenonT(30) DEF Checkout, TypeOK, checkout_oram_storage, untrusted
  <2> QED BY <2>1, <2>2, <1>2, <1>3, ZenonT(30)
          DEF Checkout, TypeOK, checkin, NeverPanics, checkout_oram_storage, untrusted
<1>5. HashTree' /\ Stored'
  BY DEF Checkout, HashTree, Stored, StoredHash, ChildHash, compute_block_hash,
         checkout_oram_storage, untrusted
<1>6. Owner'
  <2>1. (LowBranch(i) # {}) = (i \in Low)
    BY LowBranchSelf, LowBranchEmpty
  <2>2. CASE i \in Low
    <3>1. checkout_oram_storage(LowBranch(i)) /\ index' = i /\ at' = at
      BY <2>1, <2>2 DEF Checkout, checkin
    <3> QED BY <2>2, <3>1 DEF Owner, checkout_oram_storage
  <2>3. CASE i \notin Low
    <3>1. checkout_flag' = checkout_flag /\ index' = i
      BY <2>1, <2>3 DEF Checkout, untrusted
    <3> QED BY <1>2, <2>3, <3>1 DEF Owner
  <2> QED BY <2>2, <2>3
<1>7. Sealing'
  BY <1>2 DEF Checkout, Sealing, checkin
<1> QED BY <1>3, <1>4, <1>5, <1>6, <1>7

\* The caller's work touches the branch it has and nothing else.
LEMMA ChangeKeeps ==
    ASSUME StorageInv, NEW p \in Blocks, NEW v \in Data, Change(p, v)
    PROVE  StorageInv'
<1> USE DEF StorageInv, Change, trusted, untrusted, checkin
<1>1. TypeOK'
  BY DEF TypeOK
<1>2. HashTree' /\ Stored'
  BY DEF HashTree, Stored, StoredHash, ChildHash, compute_block_hash
<1>3. NeverPanics' /\ Owner' /\ Sealing'
  BY DEF NeverPanics, Owner, Sealing
<1> QED BY <1>1, <1>2, <1>3

\* checkin starts with nothing done.
LEMMA CheckinTreetopKeeps ==
    ASSUME StorageInv, CheckinTreetop
    PROVE  StorageInv'
<1> USE DEF StorageInv
<1>1. index \in Blocks /\ dest \in [Branch[index] -> Data] /\ Branch[index] \subseteq Blocks
  BY BranchSelf, LowFacts, ZenonT(30) DEF TypeOK, CheckinTreetop
<1>2. treetop' \in [Blocks \ Low -> Data]
  BY <1>1 DEF TypeOK, CheckinTreetop, HeapCheckin
<1>3. TypeOK'
  BY <1>1, <1>2, LowFacts, ZenonT(30) DEF TypeOK, CheckinTreetop, Nothing, untrusted
<1>4. HashTree' /\ Stored'
  BY DEF CheckinTreetop, HashTree, Stored, StoredHash, ChildHash, compute_block_hash, untrusted
<1>5. NeverPanics' /\ Owner'
  BY LowFacts DEF CheckinTreetop, NeverPanics, Owner, untrusted
<1>6. Sealing'
  <2> SUFFICES ASSUME at' # 0 PROVE Sealing'
    BY DEF Sealing
  <2>1. /\ index \in Low /\ at' = index /\ index' = index /\ dest' = dest /\ at = 0
        /\ src' = [p \in LowBranch(index) |-> dest[p]] /\ writes' = writes /\ writes < MaxWrites
        /\ last_hash' = NoHash /\ scratch' = scratch /\ meta' = meta
    BY DEF CheckinTreetop, untrusted
  <2>2. index \in Branch[index]
    BY <1>1, LowFacts, BranchSelf
  <2>3. \A p \in LowBranch(index) : scratch[p] = meta[p]
    BY <2>1 DEF Owner
  <2>4. \A p \in LowBranch(index) : ~(p > index)
    <3> SUFFICES ASSUME NEW p \in LowBranch(index) PROVE ~(p > index)
      OBVIOUS
    <3>1. p = index \/ 2 * p <= index
      BY <1>1, LowFacts, BranchBelow DEF LowBranch
    <3> QED BY <3>1, <1>1, LowFacts DEF LowBranch
  <2>5. \A p \in Branch[index] \ Low : treetop'[p] = dest[p]
    BY <1>1 DEF CheckinTreetop, HeapCheckin
  <2> QED BY <2>1, <2>2, <2>3, <2>4, <2>5 DEF Sealing, LowBranch
<1> QED BY <1>3, <1>4, <1>5, <1>6

\* The block whose turn it is becomes one that is done.
LEMMA CheckinBlockKeeps ==
    ASSUME StorageInv, CheckinBlock
    PROVE  StorageInv'
<1> USE DEF StorageInv
<1> DEFINE low == LowBranch(index)
           m0 == IF last_hash = NoHash THEN scratch[at]
                 ELSE WithChildHash(scratch[at], last_hash[1], last_hash[2])
           m == NextCtr(m0)
           e_data == Encrypt(at, m.block_ctr, src[at])
<1>1. /\ at \in Low /\ at # 0 /\ index \in Low /\ at \in Branch[index] /\ at \in low
      /\ low \subseteq Low
  BY LowFacts DEF CheckinBlock, Sealing, LowBranch
<1>2. /\ scratch' = [scratch EXCEPT ![at] = m]
      /\ src' = [src EXCEPT ![at] = e_data]
      /\ last_hash' = <<at, compute_block_hash(e_data, at, m)>>
      /\ at' = Parent(at) /\ index' = index /\ dest' = dest /\ data' = data /\ meta' = meta
      /\ checkout_flag' = checkout_flag /\ panicked' = panicked /\ writes' = writes
      /\ drops' = drops /\ treetop' = treetop
      /\ trusted_merkle_roots' = trusted_merkle_roots
  BY DEF CheckinBlock, untrusted
<1>3. /\ DOMAIN scratch = low /\ DOMAIN src = low /\ scratch[at] = meta[at] /\ src[at] = dest[at]
      /\ IsMeta(scratch[at])
  BY <1>1, LowFacts DEF Owner, Sealing, Stored
<1>4. /\ Parent(at) \in Blocks /\ Parent(at) \in Branch[index] /\ Parent(at) < at
      /\ Parent(at) \in Int /\ at \in Int
  BY <1>1, LowFacts, BranchClosed, ParentBounds
<1>5. TypeOK'
  BY <1>2, <1>4 DEF TypeOK
<1>6. HashTree' /\ Stored'
  BY <1>2 DEF HashTree, Stored, StoredHash, ChildHash, compute_block_hash
<1>7. NeverPanics' /\ Owner'
  BY <1>1, <1>2, <1>3, <1>4, LowFacts DEF NeverPanics, Owner
<1>8. /\ IsMeta(m) /\ m.block_ctr = meta[at].block_ctr + 1
      /\ m.left_child_hash = m0.left_child_hash /\ m.right_child_hash = m0.right_child_hash
  <2>1. IsMeta(m0) /\ m0.block_ctr = scratch[at].block_ctr
    BY <1>3 DEF IsMeta, WithChildHash
  <2> HIDE DEF m0
  <2> QED BY <2>1, <1>3 DEF IsMeta, NextCtr
<1>9. ASSUME NEW c \in Low, Parent(c) = at
      PROVE  ChildHash(m, c) = IF c \in low THEN compute_block_hash(src[c], c, scratch[c])
                               ELSE ChildHash(meta[at], c)
  <2>0. ChildHash(m, c) = ChildHash(m0, c)
    BY <1>8 DEF ChildHash
  <2>1. CASE last_hash = NoHash
    <3>1. at = index
      BY <1>1, <2>1 DEF Sealing
    <3>2. c \notin low
      <4> SUFFICES ASSUME c \in low PROVE FALSE
        OBVIOUS
      <4>1. c = index \/ 2 * c <= index
        BY <1>1, LowFacts, BranchBelow DEF LowBranch
      <4> QED BY <4>1, <3>1, <1>9, <1>1, LowFacts, ParentBounds
    <3> QED BY <2>0, <2>1, <3>2, <1>3
  <2>2. CASE last_hash # NoHash
    <3>1. PICK d \in low : /\ Parent(d) = at
                           /\ last_hash = <<d, compute_block_hash(src[d], d, scratch[d])>>
      BY <1>1, <2>2 DEF Sealing
    <3>2. m0 = WithChildHash(scratch[at], d, compute_block_hash(src[d], d, scratch[d]))
      BY <2>2, <3>1
    <3> HIDE DEF m0, m
    <3>3. CASE c \in low
      <4>1. c = d
        BY <1>1, <1>9, <3>1, <3>3, OneChild, LowFacts
      <4> QED BY <2>0, <3>2, <3>3, <4>1, <1>3 DEF WithChildHash, ChildHash, IsMeta
    <3>4. CASE c \notin low
      <4>1. c % 2 # d % 2
        BY <1>1, <1>9, <3>1, <3>4, Sides
      <4>2. c % 2 \in {0, 1} /\ d % 2 \in {0, 1}
        BY <1>1, <3>1, LowFacts
      <4> QED BY <2>0, <3>2, <3>4, <4>1, <4>2, <1>3 DEF WithChildHash, ChildHash, IsMeta
    <3> QED BY <3>3, <3>4
  <2> QED BY <2>1, <2>2
<1> HIDE DEF m, m0
<1>10. \A c \in low : c # at => scratch'[c] = scratch[c] /\ src'[c] = src[c]
  BY <1>2, <1>3
<1>11. scratch'[at] = m /\ src'[at] = e_data
  BY <1>1, <1>2, <1>3
<1>12. \A c \in low : Parent(c) # c /\ c \in Int /\ c \in Branch[index]
  BY LowFacts, ParentBounds DEF LowBranch
<1>13. ASSUME NEW p \in low, p = at PROVE Sealed(p)'
  <2>1. \A c \in Low : Parent(c) = at => c # at
    BY LowFacts, ParentBounds
  <2>2. src'[p] = Encrypt(p, m.block_ctr, dest[p]) /\ scratch'[p] = m
    BY <1>3, <1>11, <1>13
  <2>3. \A c \in Low : Parent(c) = at =>
          ChildHash(m, c) = IF c \in low THEN compute_block_hash(src'[c], c, scratch'[c])
                            ELSE ChildHash(meta[at], c)
    BY <1>9, <1>10, <2>1
  <2> QED BY <1>2, <1>8, <1>13, <2>2, <2>3 DEF Sealed, Encrypt, compute_block_hash, LowBranch
<1>14. ASSUME NEW p \in low, p > at PROVE Sealed(p)'
  <2>1. Sealed(p)
    BY <1>1, <1>14 DEF Sealing
  <2>2. p # at /\ scratch'[p] = scratch[p] /\ src'[p] = src[p]
    BY <1>4, <1>10, <1>12, <1>14
  <2>3. ASSUME NEW c \in Low, Parent(c) = p PROVE c # at
    BY <2>3, <1>4, <1>12, <1>14
  <2>4. \A c \in Low : Parent(c) = p =>
          ChildHash(scratch[p], c) = IF c \in low THEN compute_block_hash(src'[c], c, scratch'[c])
                                     ELSE ChildHash(meta[p], c)
    BY <2>1, <2>3, <1>10 DEF Sealed
  <2> QED BY <1>2, <2>1, <2>2, <2>4 DEF Sealed, Encrypt, compute_block_hash, LowBranch
<1>15. Sealing'
  <2>1. \A p \in low : p <= Parent(at) => p <= at /\ p # at
    BY <1>4, <1>12
  <2>2. ASSUME NEW p \in low, p > Parent(at) PROVE p >= at
    <3>1. p < at => 2 * p <= at
      BY <1>1, <1>12, LowFacts, BranchHalves
    <3>2. at <= 2 * Parent(at) + 1
      BY <1>1, LowFacts, ParentBounds
    <3> QED BY <3>1, <3>2, <1>4, <1>12, <2>2
  <2>3. ASSUME NEW p \in low, p > Parent(at) PROVE Sealed(p)'
    <3>1. p = at \/ p > at
      BY <2>2, <2>3, <1>4, <1>12
    <3> QED BY <3>1, <1>13, <1>14
  <2>4. \A p \in low : p <= Parent(at) => scratch'[p] = meta[p] /\ src'[p] = dest[p]
    BY <2>1, <1>1, <1>10 DEF Sealing
  <2>5. DOMAIN src' = low /\ writes' < MaxWrites
    BY <1>1, <1>2, <1>3 DEF Sealing
  <2>6. last_hash' = <<at, compute_block_hash(src'[at], at, scratch'[at])>>
    BY <1>2, <1>11
  <2>7. last_hash' # NoHash
    BY <2>6, SMTT(30) DEF NoHash
  <2>8. LowBranch(index)' = low
    BY <1>2 DEF LowBranch
  <2>9. \E c \in low : /\ Parent(c) = at'
                       /\ last_hash' = <<c, compute_block_hash(src'[c], c, scratch'[c])>>
    BY <1>1, <1>2, <2>6
  <2> QED BY <1>1, <1>2, <1>4, <2>3, <2>4, <2>5, <2>7, <2>8, <2>9
          DEF Sealing, compute_block_hash
<1> QED BY <1>5, <1>6, <1>7, <1>15

\* The blocks done replace those stored, and the hash of the topmost one is the
\* root: nothing else that is stored recorded a hash of one of them.
LEMMA CheckinStoreKeeps ==
    ASSUME StorageInv, CheckinStore
    PROVE  StorageInv' /\ \A p \in Blocks : p \in DOMAIN dest => Plain(p)' = dest[p]
<1> USE DEF StorageInv
<1> DEFINE low == LowBranch(index)
<1>1. /\ index \in Low /\ at \in Branch[index] /\ at \notin Low /\ at # 0 /\ low \subseteq Low
      /\ DOMAIN src = low /\ writes < MaxWrites /\ index \in Blocks /\ Branch[index] \subseteq Blocks
  BY LowFacts, BranchSelf DEF CheckinStore, Sealing, LowBranch
<1>2. PICK top \in low :
        /\ Parent(top) = at
        /\ last_hash = <<top, compute_block_hash(src[top], top, scratch[top])>>
  BY <1>1 DEF Sealing
<1>3. /\ trusted_merkle_roots' = [trusted_merkle_roots EXCEPT
                                    ![top] = compute_block_hash(src[top], top, scratch[top])]
      /\ data' = [p \in Low |-> IF p \in low THEN src[p] ELSE data[p]]
      /\ meta' = [p \in Low |-> IF p \in low THEN scratch[p] ELSE meta[p]]
      /\ checkout_flag' = FALSE /\ panicked' = ~checkout_flag
      /\ index' = 0 /\ dest' = Nothing /\ at' = 0
      /\ writes' = writes + 1 /\ treetop' = treetop /\ drops' = drops
  BY <1>1, <1>2 DEF CheckinStore, checkin_oram_storage
<1>4. ASSUME NEW p \in low PROVE Sealed(p) /\ p \in Low
  <2>1. p \in Low /\ p \in Int /\ at \in Int /\ p > at
    BY <1>1, LowFacts, OramConstants DEF Low, Blocks
  <2> QED BY <2>1, <1>1, <1>4 DEF Sealing
<1>5. NeverPanics'
  BY <1>1, <1>3, ZenonT(30) DEF Owner, NeverPanics
<1>6. TypeOK'
  <2>1. dest' \in [{} -> Data] /\ writes' \in 0..MaxWrites
    BY <1>1, <1>3, OramConstants DEF Nothing, TypeOK
  <2>2. DOMAIN trusted_merkle_roots' = Roots /\ DOMAIN data' = Low /\ DOMAIN meta' = Low
    BY <1>3 DEF TypeOK
  <2>3. panicked' = FALSE /\ checkout_flag' = FALSE
    BY <1>3, <1>1, ZenonT(30) DEF Owner
  <2> HIDE DEF StorageInv
  <2>4. TypeOK
    BY SMTT(30) DEF StorageInv
  <2> QED BY <2>1, <2>2, <2>3, <2>4, <1>3, ZenonT(30) DEF TypeOK
<1>7. Owner' /\ Sealing'
  BY <1>3, LowFacts DEF Owner, Sealing
<1>8. \A p \in low : /\ dest[p] \in Data /\ scratch[p].block_ctr \in Nat
                     /\ scratch[p].block_ctr # 0 /\ IsMeta(scratch[p])
                     /\ src[p] = Encrypt(p, scratch[p].block_ctr, dest[p])
  <2> SUFFICES ASSUME NEW p \in low
               PROVE  /\ dest[p] \in Data /\ scratch[p].block_ctr \in Nat
                      /\ scratch[p].block_ctr # 0 /\ IsMeta(scratch[p])
                      /\ src[p] = Encrypt(p, scratch[p].block_ctr, dest[p])
    OBVIOUS
  <2>1. Sealed(p) /\ p \in Low
    BY <1>4
  <2>2. p \in Branch[index] /\ index # 0
    BY <1>1, LowFacts DEF LowBranch
  <2>3. dest[p] \in Data
    BY <2>2 DEF TypeOK
  <2>4. meta[p].block_ctr \in Nat
    BY <2>1, ZenonT(30) DEF Stored, IsMeta
  <2> QED BY <2>1, <2>3, <2>4 DEF Sealed
<1>9. \A p \in low : scratch[p] # NoMeta
  BY <1>8 DEF NoMeta
<1>10. Stored'
  <2> SUFFICES ASSUME NEW p \in Low
               PROVE  /\ IsMeta(meta'[p])
                      /\ meta'[p] # NoMeta =>
                           /\ data'[p] \in Ciphertext /\ data'[p].key = drops
                           /\ data'[p].nonce = <<p, meta'[p].block_ctr>>
    BY <1>3 DEF Stored, IsMeta
  <2>1. CASE p \in low
    <3>1. meta'[p] = scratch[p] /\ data'[p] = Encrypt(p, scratch[p].block_ctr, dest[p])
      BY <1>3, <1>8, <2>1
    <3>2. p \in Nat /\ drops \in Nat
      BY LowFacts, OramConstants DEF TypeOK
    <3> QED BY <1>8, <2>1, <3>1, <3>2 DEF Encrypt, Ciphertext
  <2>2. CASE p \notin low
    BY <1>3, <2>2 DEF Stored
  <2> QED BY <2>1, <2>2
<1>11. HashTree'
  <2> SUFFICES ASSUME NEW c \in Low
               PROVE  IF Parent(c) \notin Low THEN trusted_merkle_roots'[c] = StoredHash(c)'
                      ELSE IF meta'[Parent(c)] = NoMeta THEN meta'[c] = NoMeta
                      ELSE ChildHash(meta'[Parent(c)], c) = StoredHash(c)'
    BY DEF HashTree, ChildHash
  <2>1. CASE c \in low
    <3>1. /\ StoredHash(c)' = compute_block_hash(src[c], c, scratch[c])
          /\ meta'[c] = scratch[c]
      BY <1>3, <1>9, <2>1 DEF StoredHash, compute_block_hash
    <3>2. CASE Parent(c) \notin Low
      <4>1. c = top
        BY <1>1, <1>2, <2>1, <3>2, OneChild
      <4>2. c \in Roots
        BY <3>2, RootIndex, SMTT(30)
      <4> QED BY <1>3, <3>1, <3>2, <4>1, <4>2 DEF TypeOK
    <3>3. CASE Parent(c) \in Low
      <4>1. Parent(c) \in low
        BY <1>1, <2>1, <3>3, LowFacts, BranchClosed DEF LowBranch
      <4>2. Sealed(Parent(c)) /\ meta'[Parent(c)] = scratch[Parent(c)]
        BY <1>3, <1>4, <3>3, <4>1
      <4> QED BY <1>9, <2>1, <3>1, <3>3, <4>1, <4>2 DEF Sealed
    <3> QED BY <3>2, <3>3
  <2>2. CASE c \notin low
    <3>1. StoredHash(c)' = StoredHash(c) /\ meta'[c] = meta[c]
      BY <1>3, <2>2 DEF StoredHash, compute_block_hash
    <3>2. CASE Parent(c) \notin Low
      BY <1>2, <1>3, <2>2, <3>1, <3>2 DEF HashTree
    <3>3. CASE Parent(c) \in Low /\ Parent(c) \notin low
      BY <1>3, <3>1, <3>3 DEF HashTree
    <3>4. CASE Parent(c) \in Low /\ Parent(c) \in low
      <4>1. Sealed(Parent(c)) /\ meta'[Parent(c)] = scratch[Parent(c)]
        BY <1>3, <1>4, <3>4
      <4>2. ChildHash(meta'[Parent(c)], c) = ChildHash(meta[Parent(c)], c)
        BY <2>2, <4>1 DEF Sealed
      <4>3. ChildHash(meta[Parent(c)], c) = StoredHash(c)
        BY <3>4 DEF HashTree, StoredHash, ChildHash, NoMeta
      <4> QED BY <1>9, <3>1, <3>4, <4>1, <4>2, <4>3, SMTT(30)
    <3> QED BY <3>2, <3>3, <3>4
  <2> QED BY <2>1, <2>2
<1>12. ASSUME NEW p \in Blocks, p \in DOMAIN dest PROVE Plain(p)' = dest[p]
  <2>1. CASE p \in Low
    <3>1. p \in low
      BY <1>1, <1>12, <2>1, LowFacts, SMTT(30) DEF TypeOK, LowBranch
    <3>2. /\ meta'[p] = scratch[p] /\ meta'[p] # NoMeta
          /\ data'[p] = Encrypt(p, scratch[p].block_ctr, dest[p])
      BY <1>3, <1>8, <1>9, <2>1, <3>1, ZenonT(30)
    <3>3. Encrypt(p, scratch[p].block_ctr, dest[p]) # Garbage
      <4>1. p \in Nat /\ drops \in Nat
        BY <2>1, LowFacts, OramConstants DEF TypeOK
      <4> QED BY <1>8, <3>1, <4>1, OramConstants DEF Encrypt
    <3> QED BY <1>3, <2>1, <3>2, <3>3 DEF Plain, Decrypt, Encrypt
  <2>2. CASE p \notin Low
    <3>1. treetop[p] = dest[p]
      BY <1>1, <1>12, <2>2 DEF Sealing, TypeOK
    <3> QED BY <1>3, <2>2, <3>1 DEF Plain
  <2> QED BY <2>1, <2>2, SMTT(30)
<1> QED BY <1>5, <1>6, <1>7, <1>10, <1>11, <1>12

\* A new storage starts over, whatever is left in its memory.
LEMMA RenewKeeps ==
    ASSUME StorageInv, Renew
    PROVE  StorageInv'
<1>1. /\ treetop' = [i \in Blocks \ Low |-> Zero] /\ trusted_merkle_roots' = [i \in Roots |-> NoHash]
      /\ DOMAIN data' = Low /\ meta' = [i \in Low |-> NoMeta] /\ checkout_flag' = FALSE
      /\ index' = 0 /\ dest' = Nothing /\ drops' = drops + 1 /\ at' = 0
      /\ panicked' = panicked /\ writes' = writes /\ drops < MaxDrops /\ drops \in 0..MaxDrops
  BY DEF Renew, StorageInv, TypeOK, checkin, allocate_oram_storage
<1>2. TypeOK'
  <2>1. /\ treetop' \in [Blocks \ Low -> Data] /\ DOMAIN trusted_merkle_roots' = Roots
        /\ DOMAIN meta' = Low /\ dest' \in [{} -> Data] /\ drops' \in 0..MaxDrops
    BY <1>1, OramConstants, SMTT(30) DEF Nothing
  <2>2. TypeOK /\ ~panicked
    BY DEF StorageInv, NeverPanics
  <2> QED BY <1>1, <2>1, <2>2, ZenonT(30) DEF TypeOK
<1>3. NeverPanics' /\ Owner' /\ Sealing'
  BY <1>1, LowFacts DEF StorageInv, NeverPanics, Owner, Sealing
<1>4. Stored'
  BY <1>1 DEF Stored, IsMeta, NoMeta
<1>5. HashTree'
  <2> SUFFICES ASSUME NEW c \in Low, Parent(c) \notin Low
               PROVE  trusted_merkle_roots'[c] = StoredHash(c)'
    BY <1>1 DEF HashTree
  <2>1. c \in Roots
    BY RootIndex
  <2> QED BY <1>1, <2>1 DEF StoredHash
<1> QED BY <1>2, <1>3, <1>4, <1>5, SMTT(30) DEF StorageInv

\* What changes no variable keeps the invariant.
LEMMA Stutter ==
    ASSUME StorageInv, UNCHANGED vars
    PROVE  StorageInv'
<1> USE DEF vars, trusted, untrusted, checkin
<1>1. TypeOK' /\ NeverPanics'
  BY DEF StorageInv, TypeOK, NeverPanics
<1>2. HashTree' /\ Stored'
  BY DEF StorageInv, HashTree, Stored, StoredHash, ChildHash, compute_block_hash
<1>3. Owner'
  BY SMTT(30) DEF StorageInv, Owner
<1>4. Sealing'
  BY DEF StorageInv, Sealing, Sealed, Encrypt, compute_block_hash, LowBranch
<1> QED BY <1>1, <1>2, <1>3, <1>4 DEF StorageInv

\* Every step keeps the invariant.
LEMMA Steps ==
    ASSUME StorageInv, [Next]_vars
    PROVE  StorageInv'
BY CheckoutKeeps, ChangeKeeps, CheckinTreetopKeeps, CheckinBlockKeeps, CheckinStoreKeeps,
   RenewKeeps, Stutter DEF Next

\* The invariant holds in every behaviour.
LEMMA Inductive == Spec => []StorageInv
<1>1. StorageInv /\ [Next]_vars => StorageInv'
  BY Steps
<1> QED BY <1>1, Initially, PTL DEF Spec

\* The caller and the treetop only ever have data, whatever the size of the
\* tree: nothing undecrypted leaves checkout.
THEOREM StorageTyped == Spec => []TypeOK
<1>1. StorageInv => TypeOK
  BY DEF StorageInv
<1> QED BY <1>1, Inductive, PTL

\* checkout and checkin never panic, for any tree and any treetop of two blocks
\* or more, as long as what is checked out is checked in.
THEOREM NoPanic == Spec => []NeverPanics
<1>1. StorageInv => NeverPanics
  BY DEF StorageInv
<1> QED BY <1>1, Inductive, PTL

\* After every checkin of any branch, each hash the storage keeps is the hash of
\* what is stored.
THEOREM HashesMatch == Spec => []HashTree
<1>1. StorageInv => HashTree
  BY DEF StorageInv
<1> QED BY <1>1, Inductive, PTL

\* checkin never encrypts a block with a nonce it was encrypted with before.
THEOREM FreshNonces == Spec => NonceNeverReused
<1> DEFINE Fresh == \A p \in Low :
              data'[p] # data[p] => \/ drops' # drops
                                    \/ meta'[p].block_ctr > meta[p].block_ctr
<1>1. ASSUME StorageInv, Next PROVE Fresh
  <2>1. CASE CheckinStore
    <3> SUFFICES ASSUME NEW p \in Low, data'[p] # data[p]
                 PROVE  meta'[p].block_ctr > meta[p].block_ctr
      OBVIOUS
    <3>1. /\ p \in DOMAIN src /\ meta'[p] = scratch[p] /\ at \notin Low /\ at # 0
          /\ index \in Low /\ at \in Branch[index] /\ DOMAIN src = LowBranch(index)
      BY <1>1, <2>1 DEF CheckinStore, StorageInv, Sealing, checkin_oram_storage
    <3>2. p \in Int /\ at \in Blocks /\ p > at
      BY <3>1, LowFacts, BranchSelf, OramConstants, SMTT(30) DEF Low, Blocks
    <3>3. Sealed(p)
      <4>1. Sealing /\ p \in LowBranch(index)
        BY <1>1, <3>1 DEF StorageInv
      <4> QED BY <3>1, <3>2, <4>1, SMTT(30) DEF Sealing
    <3>4. meta[p].block_ctr \in Nat
      <4>1. Stored
        BY <1>1 DEF StorageInv
      <4> QED BY <4>1, ZenonT(30) DEF Stored, IsMeta
    <3> QED BY <3>1, <3>3, <3>4 DEF Sealed
  <2>2. CASE Renew
    <3>1. drops' = drops + 1
      BY <2>2 DEF Renew
    <3>2. drops \in Nat
      BY <1>1, OramConstants DEF StorageInv, TypeOK
    <3>3. drops' # drops
      BY <3>1, <3>2
    <3> QED BY <3>3
  <2>3. ASSUME NEW i \in Blocks, Checkout(i) PROVE Fresh
    <3>1. data' = data
      BY <2>3 DEF Checkout, checkout_oram_storage, untrusted
    <3> QED BY <3>1
  <2>4. ASSUME NEW p \in Blocks, NEW v \in Data, Change(p, v) PROVE Fresh
    <3>1. data' = data
      BY <2>4 DEF Change, untrusted
    <3> QED BY <3>1
  <2>5. CASE CheckinTreetop
    <3>1. data' = data
      BY <2>5 DEF CheckinTreetop, untrusted
    <3> QED BY <3>1
  <2>6. CASE CheckinBlock
    <3>1. data' = data
      BY <2>6 DEF CheckinBlock, untrusted
    <3> QED BY <3>1
  <2> HIDE DEF Fresh
  <2> QED BY <1>1, <2>1, <2>2, <2>3, <2>4, <2>5, <2>6 DEF Next
<1>2. StorageInv /\ [Next]_vars => [Fresh]_vars
  <2> HIDE DEF Fresh
  <2> QED BY <1>1
<1> QED BY <1>2, Inductive, PTL DEF Spec, NonceNeverReused

-----------------------------------------------------------------------------
(* The storage implements a PathMemory. *)

\* A new storage is a new memory.
LEMMA StartsAsMemory == Init => Memory!Init
<1> SUFFICES ASSUME Init PROVE Memory!Init
  OBVIOUS
<1>1. \A i \in Blocks : Plain(i) = Zero
  BY DEF Init, Plain
<1> QED BY <1>1 DEF Init, Memory!Init, Memory!NoBranch, Memory!Blocks, Blocks, Nothing,
                    Held, Given

\* The contents of a block are a function of the storage's own state.
LEMMA PlainUnchanged ==
    ASSUME UNCHANGED <<treetop, data, meta, drops>>, NEW p \in Blocks
    PROVE  Plain(p)' = Plain(p)
BY DEF Plain, Decrypt

\* checkout, the caller's work, the start of checkin and reallocation are the steps of
\* a PathMemory; the other steps of checkin do not change what is held.
LEMMA StepsAsMemory ==
    ASSUME StorageInv, [Next]_vars
    PROVE  [Memory!Next]_<<Held, Given>>
<1> USE DEF Held, Given
<1>0. index = 0 => at = 0 /\ dest = Nothing
  BY LowFacts DEF StorageInv, Sealing, TypeOK, Nothing
<1>1. ASSUME NEW i \in Blocks, Checkout(i) PROVE Memory!Checkout(i)
  <2>1. at = 0 /\ at' = 0 /\ dest = Nothing
    BY <1>0, <1>1 DEF Checkout, checkin
  <2>2. \A p \in Blocks : Plain(p)' = Plain(p)
    BY <1>1, PlainUnchanged DEF Checkout, checkout_oram_storage, untrusted
  <2>3. Held' = Held
    BY <2>1, <2>2
  <2>4. Given' = [p \in Branch[i] |-> Held[p]]
    BY <1>1, <2>1, BranchSelf, LowFacts DEF Checkout
  <2> QED BY <2>1, <2>3, <2>4, SMTT(30) DEF Memory!Checkout, Memory!NoBranch, Nothing, Memory!Branch,
              Branch, Memory!Blocks, Blocks, Memory!ParentsIn, ParentsIn, Memory!Parent, Parent
<1>2. ASSUME NEW p \in Blocks, NEW v \in Data, Change(p, v) PROVE Memory!Change(p, v)
  <2>1. at = 0 /\ at' = 0 /\ p \in DOMAIN dest /\ dest' = [dest EXCEPT ![p] = v]
    BY <1>2 DEF Change, checkin
  <2>2. \A q \in Blocks : Plain(q)' = Plain(q)
    BY <1>2, PlainUnchanged DEF Change, trusted, untrusted
  <2>3. Held' = Held
    BY <2>1, <2>2
  <2> QED BY <2>1, <2>3 DEF Memory!Change
<1>3. ASSUME CheckinTreetop PROVE Memory!Checkin
  <2>1. /\ at = 0 /\ index \in Blocks /\ DOMAIN dest = Branch[index]
        /\ index \in Branch[index] /\ Branch[index] \subseteq Blocks
    BY <1>3, LowFacts, BranchSelf DEF CheckinTreetop, StorageInv, TypeOK
  <2>2. Given # Nothing /\ Given' = Nothing
    BY <1>3, <2>1, LowFacts DEF CheckinTreetop, Nothing
  <2>3. Held' = [p \in Blocks |-> IF p \in DOMAIN dest THEN dest[p] ELSE Held[p]]
    <3> SUFFICES ASSUME NEW p \in Blocks
                 PROVE  Held'[p] = IF p \in DOMAIN dest THEN dest[p] ELSE Held[p]
      OBVIOUS
    <3>1. /\ data' = data /\ meta' = meta /\ drops' = drops
          /\ p \notin Low => treetop'[p] = IF p \in DOMAIN dest THEN dest[p] ELSE treetop[p]
      BY <1>3 DEF CheckinTreetop, HeapCheckin, untrusted
    <3>2. Held[p] = Plain(p)
      BY <2>1
    <3>3. CASE index \in Low
      <4>1. at' # 0 /\ dest' = dest
        BY <1>3, <3>3, LowFacts DEF CheckinTreetop
      <4>2. CASE p \in DOMAIN dest
        BY <4>1, <4>2
      <4>3. CASE p \notin DOMAIN dest
        <5>1. Plain(p)' = Plain(p)
          BY <3>1, <4>3 DEF Plain, Decrypt
        <5> QED BY <3>2, <4>1, <4>3, <5>1
      <4> QED BY <4>2, <4>3
    <3>4. CASE index \notin Low
      <4>1. at' = 0 /\ (p \in Low => p \notin DOMAIN dest)
        BY <1>3, <2>1, <3>4, LowBranchEmpty DEF CheckinTreetop, LowBranch
      <4>2. Plain(p)' = IF p \in DOMAIN dest THEN dest[p] ELSE Plain(p)
        BY <3>1, <4>1 DEF Plain, Decrypt
      <4> QED BY <3>2, <4>1, <4>2
    <3> QED BY <3>3, <3>4
  <2> QED BY <2>1, <2>2, <2>3 DEF Memory!Checkin, Memory!NoBranch, Nothing, Memory!Blocks, Blocks
<1>4. ASSUME CheckinBlock PROVE UNCHANGED <<Held, Given>>
  <2>1. at # 0 /\ at' # 0 /\ dest' = dest
    <3>1. at \in Low /\ at' = Parent(at) /\ dest' = dest
      BY <1>4 DEF CheckinBlock
    <3> QED BY <3>1, LowFacts
  <2>2. \A p \in Blocks : Plain(p)' = Plain(p)
    BY <1>4, PlainUnchanged DEF CheckinBlock, untrusted
  <2> QED BY <2>1, <2>2
<1>5. ASSUME CheckinStore PROVE UNCHANGED <<Held, Given>>
  <2>1. at # 0 /\ at' = 0 /\ dest' = Nothing
    BY <1>5 DEF CheckinStore
  <2>2. \A p \in Blocks : p \in DOMAIN dest => Plain(p)' = dest[p]
    BY <1>5, CheckinStoreKeeps
  <2>3. ASSUME NEW p \in Blocks, p \notin DOMAIN dest PROVE Plain(p)' = Plain(p)
    <3>1. DOMAIN src = LowBranch(index) /\ DOMAIN dest = Branch[index]
      BY <2>1, LowFacts DEF StorageInv, Sealing, TypeOK
    <3>2. p \notin DOMAIN src
      BY <2>3, <3>1 DEF LowBranch
    <3> QED BY <1>5, <3>2 DEF CheckinStore, Plain, Decrypt, checkin_oram_storage
  <2> QED BY <2>1, <2>2, <2>3
<1>6. ASSUME Renew PROVE Memory!Renew
  <2>1. at' = 0 /\ dest' = Nothing
    BY <1>6 DEF Renew, checkin
  <2>2. \A p \in Blocks : Plain(p)' = Zero
    BY <1>6 DEF Renew, Plain, allocate_oram_storage
  <2> QED BY <2>1, <2>2 DEF Memory!Renew, Memory!NoBranch, Nothing, Memory!Blocks, Blocks
<1>7. ASSUME UNCHANGED vars PROVE UNCHANGED <<Held, Given>>
  <2>1. \A p \in Blocks : Plain(p)' = Plain(p)
    BY <1>7, PlainUnchanged DEF vars, trusted, untrusted
  <2> QED BY <1>7, <2>1 DEF vars, checkin
<1> HIDE DEF Held, Given
<1>8. Memory!Blocks = Blocks
  BY DEF Memory!Blocks, Blocks
<1> QED BY <1>1, <1>2, <1>3, <1>4, <1>5, <1>6, <1>7, <1>8 DEF Next, Memory!Next

\* For every tree, treetop and set of data, the storage is a PathMemory: each
\* step of checkout, checkin and reallocation is one of its steps, or none.
THEOREM StorageIsMemory == Spec => ImplementsPathMemory
<1>1. StorageInv /\ [Next]_vars => [Memory!Next]_<<Held, Given>>
  BY StepsAsMemory
<1> QED BY <1>1, StartsAsMemory, Inductive, PTL DEF Spec, ImplementsPathMemory, Memory!Spec

=============================================================================
