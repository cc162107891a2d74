----------------------------- MODULE PathMemory -----------------------------
(***************************************************************************)
(* What an ORAMStorage promises its caller: a tree of blocks, of which one *)
(* branch at a time is checked out, worked on, and checked in again.       *)
(***************************************************************************)
EXTENDS TreeIndex

CONSTANTS
    Data,     \* what a block may hold
    Zero      \* what a new block holds

VARIABLES
    memory,   \* what each block holds
    branch    \* the blocks checked out, with their contents; or none

NoBranch == [p \in {} |-> Zero]

Init == memory = [i \in Blocks |-> Zero] /\ branch = NoBranch

Checkout(i) ==
    /\ branch = NoBranch
    /\ branch' = [p \in Branch[i] |-> memory[p]]
    /\ UNCHANGED memory

\* The caller works on the branch it has checked out.
Change(p, v) ==
    /\ p \in DOMAIN branch
    /\ branch' = [branch EXCEPT ![p] = v]
    /\ UNCHANGED memory

Checkin ==
    /\ branch # NoBranch
    /\ memory' = [p \in Blocks |-> IF p \in DOMAIN branch THEN branch[p] ELSE memory[p]]
    /\ branch' = NoBranch

\* The storage is dropped, and one with new blocks takes its place.
Renew == memory' = [i \in Blocks |-> Zero] /\ branch' = NoBranch

Next ==
    \/ \E i \in Blocks : Checkout(i)
    \/ \E p \in Blocks, v \in Data : Change(p, v)
    \/ Checkin
    \/ Renew

Spec == Init /\ [][Next]_<<memory, branch>>

=============================================================================
