----------------------------- MODULE TreeIndex -----------------------------
(***************************************************************************)
(* The complete binary tree of an ORAM: block 1 is the root, and the       *)
(* parent of block i is i / 2.                                             *)
(***************************************************************************)
EXTENDS Integers

CONSTANT Count    \* the size of the tree: its blocks are 1 to Count - 1

Blocks == 1..(Count - 1)
Parent(i) == i \div 2

\* TreeIndex::parents: a block with all that are above it.
ParentsIn(S) == \A p \in S \ {1} : Parent(p) \in S
Branch == [i \in Blocks |->
             {p \in Blocks : \A S \in SUBSET Blocks : i \in S /\ ParentsIn(S) => p \in S}]

=============================================================================
