---------------------------- MODULE InputSelection ----------------------------
(***************************************************************************)
(* input_selection_heuristic of fog/sample-paykit: which unspent TxOuts    *)
(* pay for a transaction.  They are listed from the oldest on.  A table    *)
(* says how much the TxOuts from each one on can pay with each number of   *)
(* inputs; then the oldest are taken that leave enough for the rest.       *)
(*                                                                         *)
(* The values are assumed to add up to less than 2^64.                     *)
(***************************************************************************)
EXTENDS Integers, Sequences, FiniteSets

CONSTANTS
    MAX_INPUTS,      \* the most inputs the network allows
    TotalOf(_, _)    \* TotalOf(values, S): the sum of values[i] for i in S

\* What a sum is.
TotalLaws ==
    \A values \in Seq(Nat) :
        /\ TotalOf(values, {}) = 0
        /\ \A S \in SUBSET (DOMAIN values) : TotalOf(values, S) \in Nat
        /\ \A S \in SUBSET (DOMAIN values) : \A i \in DOMAIN values \ S :
             TotalOf(values, S \cup {i}) = TotalOf(values, S) + values[i]

VARIABLES
    tx_values,    \* the values of the TxOuts
    amount,       \* what is to be paid, with the fee
    max_inputs,   \* the most inputs to use, at most MAX_INPUTS
    dp_table,     \* dp_table[i][j]: the most that j of the TxOuts from i on pay
    at,           \* the row or the TxOut that is next
    result,       \* the TxOuts taken
    value,        \* and their value
    selection     \* where the call is, or how it ended

selection_vars == <<tx_values, amount, max_inputs, dp_table, at, result, value,
                    selection>>

Selections == {"start", "fill", "take", "ok", "insufficient_funds",
               "wallet_compacting_needed", "panic"}

Larger(a, b) == IF a >= b THEN a ELSE b
Smaller(a, b) == IF a <= b THEN a ELSE b

Zeros == [j \in 0..MAX_INPUTS |-> 0]

SelectionTypeOK ==
    /\ tx_values \in Seq(Nat) /\ amount \in Nat
    /\ max_inputs \in 0..MAX_INPUTS
    /\ dp_table \in [1..(Len(tx_values) + 1) -> [0..MAX_INPUTS -> Nat]]
    /\ at \in 0..(Len(tx_values) + 1)
    /\ result \in Seq(1..Len(tx_values))
    /\ value \in Nat /\ selection \in Selections

\* The call input_selection_heuristic(values, total, most).
SelectionInit(values, total, most) ==
    /\ tx_values = values /\ amount = total
    /\ max_inputs = Smaller(most, MAX_INPUTS)
    /\ dp_table = [i \in 1..(Len(values) + 1) |-> Zeros]
    /\ at = Len(values) /\ result = << >> /\ value = 0
    /\ selection = "start"

-----------------------------------------------------------------------------

CheckFunds ==
    /\ selection = "start"
    /\ selection' = IF TotalOf(tx_values, DOMAIN tx_values) < amount
                    THEN "insufficient_funds" ELSE "fill"
    /\ UNCHANGED <<tx_values, amount, max_inputs, dp_table, at, result, value>>

\* A row from the next one: the TxOut of value v is used, or it is not.
BestRow(v, next) ==
    [j \in 0..MAX_INPUTS |-> IF j = 0 THEN 0 ELSE Larger(v + next[j - 1], next[j])]

FillRow ==
    /\ selection = "fill" /\ at > 0
    /\ dp_table' = [dp_table EXCEPT ![at] = BestRow(tx_values[at], dp_table[at + 1])]
    /\ at' = at - 1
    /\ UNCHANGED <<tx_values, amount, max_inputs, result, value, selection>>

\* The table is full.  When the limit on the inputs is what makes the funds
\* insufficient, value is the self-payment that is recommended.
CheckSlots ==
    /\ selection = "fill" /\ at = 0
    /\ IF dp_table[1][max_inputs] < amount
       THEN /\ selection' = "wallet_compacting_needed"
            /\ value' = dp_table[1][Larger(max_inputs, 3)]
       ELSE selection' = "take" /\ UNCHANGED value
    /\ at' = 1
    /\ UNCHANGED <<tx_values, amount, max_inputs, dp_table, result>>

\* With the i'th TxOut the amount can still be reached.
Fits(i) ==
    value + tx_values[i] + dp_table[i + 1][max_inputs - Len(result) - 1] >= amount

TakeNext ==
    /\ selection = "take"
    /\ at <= Len(tx_values) /\ value < amount
    /\ IF Len(result) >= max_inputs
       THEN selection' = "panic" /\ UNCHANGED <<at, result, value>>
       ELSE /\ IF Fits(at)
               THEN result' = Append(result, at) /\ value' = value + tx_values[at]
               ELSE UNCHANGED <<result, value>>
            /\ at' = at + 1
            /\ UNCHANGED selection
    /\ UNCHANGED <<tx_values, amount, max_inputs, dp_table>>

TakeEnds ==
    /\ selection = "take"
    /\ at > Len(tx_values) \/ value >= amount
    /\ selection' = IF Len(result) > max_inputs \/ value < amount THEN "panic" ELSE "ok"
    /\ UNCHANGED <<tx_values, amount, max_inputs, dp_table, at, result, value>>

SelectionStep == CheckFunds \/ FillRow \/ CheckSlots \/ TakeNext \/ TakeEnds

SelectionSpec ==
    /\ \E values \in Seq(Nat), total \in Nat, most \in Nat :
         SelectionInit(values, total, most)
    /\ [][SelectionStep]_selection_vars

-----------------------------------------------------------------------------
(* Properties. *)

Chosen == {result[n] : n \in DOMAIN result}

\* The choices of at most m TxOuts from the i'th on.
ChoicesFrom(i, m) == {S \in SUBSET (i..Len(tx_values)) : Cardinality(S) <= m}

\* The assertions of the heuristic: an input is only looked at while there is a
\* slot for one, and the amount is reached when the list ends.
SelectionNeverPanics == selection # "panic"

\* "Our unspent transactions that add up to at least this value", or the error
\* that says why not: all of them together are not enough, or no choice within
\* the limit on the inputs is.
SelectionCorrect ==
    /\ selection = "ok" =>
         /\ Len(result) <= max_inputs
         /\ \A m, n \in DOMAIN result : m < n => result[m] < result[n]
         /\ TotalOf(tx_values, Chosen) = value
         /\ value >= amount
    /\ selection = "insufficient_funds" =>
         TotalOf(tx_values, DOMAIN tx_values) < amount
    /\ selection = "wallet_compacting_needed" =>
         /\ TotalOf(tx_values, DOMAIN tx_values) >= amount
         /\ \A S \in ChoicesFrom(1, max_inputs) : TotalOf(tx_values, S) < amount

\* "Greedily take the earliest transactions that we can while still achieving
\* target amount": a TxOut that was looked at is left out only if, with those
\* taken before it, no choice of later ones reaches the amount within the limit.
OldestFirst ==
    selection \in {"take", "ok"} =>
        \A k \in 1..(at - 1) \ Chosen :
            LET before == {c \in Chosen : c < k}
            IN  \A S \in ChoicesFrom(k + 1, max_inputs - Cardinality(before) - 1) :
                    TotalOf(tx_values, before) + tx_values[k]
                      + TotalOf(tx_values, S) < amount

=============================================================================
