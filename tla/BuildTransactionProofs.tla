----------------------- MODULE BuildTransactionProofs -----------------------
(***************************************************************************)
(* The input selection of the sample paykit is correct for every wallet,   *)
(* amount and limit on the inputs, and so is what build_transaction puts   *)
(* together, for every payment, fee and size of the rings.  The invariant  *)
(* of the input selection, which comes first, is part of the one used for  *)
(* the transaction.                                                        *)
(***************************************************************************)
EXTENDS BuildTransaction, FiniteSetTheorems, TLAPS

-----------------------------------------------------------------------------
(* The input selection. *)


\* What is assumed of the constants: the network allows at least three inputs
\* (the code indexes the table with 3), and TotalOf is a sum.
Constants == MAX_INPUTS \in Nat /\ MAX_INPUTS >= 3 /\ TotalLaws

\* The i'th row of the table has been filled.
Filled(i) == selection \notin {"start", "insufficient_funds"}
             /\ (selection = "fill" => i > at)

\* The table says what it should: its last row and its first column are zero,
\* a filled row follows from the next one, and no choice of j TxOuts from the
\* i'th on is worth more than dp_table[i][j].
TableInv ==
    /\ dp_table[Len(tx_values) + 1] = Zeros
    /\ \A i \in 1..(Len(tx_values) + 1) : dp_table[i][0] = 0
    /\ \A i \in DOMAIN tx_values :
         Filled(i) => dp_table[i] = BestRow(tx_values[i], dp_table[i + 1])

BoundInv ==
    \A i \in 1..(Len(tx_values) + 1) : Filled(i) =>
        \A j \in 0..MAX_INPUTS : \A S \in ChoicesFrom(i, j) :
            TotalOf(tx_values, S) <= dp_table[i][j]

\* What has been taken: TxOuts that were looked at, in their order, with value
\* their sum; and what is still missing can be paid by the others in the slots
\* that are left.
TakenInv ==
    selection \in {"take", "ok"} =>
        /\ at >= 1
        /\ Len(result) <= max_inputs
        /\ \A n \in DOMAIN result : result[n] < at
        /\ \A m, n \in DOMAIN result : m < n => result[m] < result[n]
        /\ Cardinality(Chosen) = Len(result)
        /\ TotalOf(tx_values, Chosen) = value
        /\ value < amount => value + dp_table[at][max_inputs - Len(result)] >= amount

NotYetTaken ==
    /\ selection \in {"start", "fill"} => result = << >> /\ value = 0
    /\ selection = "start" => at = Len(tx_values)
    /\ selection = "fill" => at <= Len(tx_values)
    /\ selection \in {"fill", "take", "ok", "wallet_compacting_needed"} =>
         TotalOf(tx_values, DOMAIN tx_values) >= amount

SelectionInv ==
    /\ SelectionTypeOK /\ TableInv /\ BoundInv /\ TakenInv /\ NotYetTaken
    /\ SelectionNeverPanics /\ SelectionCorrect /\ OldestFirst

-----------------------------------------------------------------------------

\* A choice of TxOuts is a finite set of positions.
LEMMA ChoicesAreFinite ==
  ASSUME SelectionTypeOK, NEW i \in 1..(Len(tx_values) + 1), NEW j \in Int,
         NEW S \in ChoicesFrom(i, j)
  PROVE  /\ S \subseteq DOMAIN tx_values /\ S \subseteq i..Len(tx_values)
         /\ IsFiniteSet(S) /\ Cardinality(S) \in Nat /\ Cardinality(S) <= j
<1>1. tx_values \in Seq(Nat) /\ Len(tx_values) \in Nat
  BY DEF SelectionTypeOK
<1>2. S \subseteq i..Len(tx_values) /\ Cardinality(S) <= j
  BY DEF ChoicesFrom
<1>3. IsFiniteSet(i..Len(tx_values))
  BY <1>1, FS_Interval
<1>4. IsFiniteSet(S)
  BY <1>2, <1>3, FS_Subset, Zenon
<1>5. Cardinality(S) \in Nat
  BY <1>4, FS_CardinalityType
<1> QED
  BY <1>1, <1>2, <1>4, <1>5

\* The step of the table: if the next row bounds every choice of later TxOuts,
\* the row made from it bounds every choice that may also use the k'th.
LEMMA RowBounds ==
  ASSUME Constants, SelectionTypeOK, NEW k \in DOMAIN tx_values,
         NEW row \in [0..MAX_INPUTS -> Nat],
         \A j \in 0..MAX_INPUTS : \A S \in ChoicesFrom(k + 1, j) :
             TotalOf(tx_values, S) <= row[j]
  PROVE  \A j \in 0..MAX_INPUTS : \A S \in ChoicesFrom(k, j) :
             TotalOf(tx_values, S) <= BestRow(tx_values[k], row)[j]
<1> SUFFICES ASSUME NEW j \in 0..MAX_INPUTS, NEW S \in ChoicesFrom(k, j)
             PROVE  TotalOf(tx_values, S) <= BestRow(tx_values[k], row)[j]
  OBVIOUS
<1>1. /\ tx_values \in Seq(Nat) /\ Len(tx_values) \in Nat
      /\ k \in 1..Len(tx_values) /\ tx_values[k] \in Nat /\ MAX_INPUTS \in Nat
  BY SMTT(30) DEF SelectionTypeOK, Constants
<1>2. /\ S \subseteq DOMAIN tx_values /\ S \subseteq k..Len(tx_values)
      /\ IsFiniteSet(S) /\ Cardinality(S) \in Nat /\ Cardinality(S) <= j
  BY <1>1, ChoicesAreFinite
<1>3. BestRow(tx_values[k], row)[j] =
        IF j = 0 THEN 0 ELSE Larger(tx_values[k] + row[j - 1], row[j])
  BY DEF BestRow
<1>4. TotalOf(tx_values, S) \in Nat
  BY <1>1, <1>2, SMTT(30) DEF Constants, TotalLaws
<1>5. CASE j = 0
  <2>1. S = {}
    BY <1>2, <1>5, FS_EmptySet
  <2> QED
    BY <1>1, <1>3, <1>5, <2>1 DEF Constants, TotalLaws
<1>6. CASE j # 0 /\ k \notin S
  <2>1. S \subseteq (k + 1)..Len(tx_values)
    BY <1>1, <1>2, <1>6, SMTT(30)
  <2>2. S \in ChoicesFrom(k + 1, j)
    BY <1>2, <2>1 DEF ChoicesFrom
  <2>3. TotalOf(tx_values, S) <= row[j]
    BY <2>2
  <2>4. row[j] \in Nat /\ row[j - 1] \in Nat
    BY <1>1, <1>6
  <2> QED
    BY <1>1, <1>3, <1>4, <1>6, <2>3, <2>4 DEF Larger
<1>7. CASE j # 0 /\ k \in S
  <2> DEFINE U == S \ {k}
  <2>1. /\ IsFiniteSet(U) /\ Cardinality(U) = Cardinality(S) - 1
        /\ U \subseteq DOMAIN tx_values /\ S = U \cup {k}
    BY <1>2, <1>7, FS_RemoveElement
  <2>2. U \subseteq (k + 1)..Len(tx_values)
    BY <1>1, <1>2, SMTT(30)
  <2>3. U \in ChoicesFrom(k + 1, j - 1) /\ j - 1 \in 0..MAX_INPUTS
    BY <1>1, <1>2, <1>7, <2>1, <2>2, SMTT(30) DEF ChoicesFrom
  <2>4. TotalOf(tx_values, U) <= row[j - 1]
    BY <2>3
  <2>5. /\ TotalOf(tx_values, S) = TotalOf(tx_values, U) + tx_values[k]
        /\ TotalOf(tx_values, U) \in Nat
    BY <1>1, <2>1, Zenon DEF Constants, TotalLaws
  <2>6. row[j] \in Nat /\ row[j - 1] \in Nat
    BY <2>3
  <2>7. Larger(tx_values[k] + row[j - 1], row[j]) \in Nat
        /\ tx_values[k] + row[j - 1] <= Larger(tx_values[k] + row[j - 1], row[j])
    BY <1>1, <2>6, SMTT(30) DEF Larger
  <2> HIDE DEF U
  <2> QED
    BY <1>1, <1>3, <1>4, <1>7, <2>4, <2>5, <2>6, <2>7, SMTT(30)
<1> QED
  BY <1>5, <1>6, <1>7

-----------------------------------------------------------------------------

\* The call begins with an empty table and nothing taken.
LEMMA SelectionStarts ==
  ASSUME Constants, NEW values \in Seq(Nat), NEW total \in Nat, NEW most \in Nat,
         SelectionInit(values, total, most)
  PROVE  SelectionInv
<1>1. SelectionTypeOK
  BY DEF SelectionInit, SelectionTypeOK, Constants, Smaller, Zeros, Selections
<1>2. TableInv
  BY DEF SelectionInit, TableInv, Filled, Zeros, Constants
<1>3. BoundInv
  BY DEF SelectionInit, BoundInv, Filled
<1>4. TakenInv /\ NotYetTaken /\ SelectionNeverPanics /\ SelectionCorrect /\ OldestFirst
  BY DEF SelectionInit, TakenInv, NotYetTaken, SelectionNeverPanics,
         SelectionCorrect, OldestFirst
<1> QED
  BY <1>1, <1>2, <1>3, <1>4 DEF SelectionInv

\* No TxOuts are left beyond the last row.
LEMMA LastRowBounds ==
  ASSUME Constants, SelectionTypeOK, dp_table[Len(tx_values) + 1] = Zeros,
         NEW j \in 0..MAX_INPUTS, NEW S \in ChoicesFrom(Len(tx_values) + 1, j)
  PROVE  TotalOf(tx_values, S) <= dp_table[Len(tx_values) + 1][j]
<1>1. S = {}
  BY DEF SelectionTypeOK, ChoicesFrom
<1>2. TotalOf(tx_values, S) = 0
  BY <1>1 DEF SelectionTypeOK, Constants, TotalLaws
<1> QED
  BY <1>2 DEF Zeros

\* The check of the funds, which fills nothing.
LEMMA CheckFundsKeeps ==
  ASSUME Constants, SelectionInv, CheckFunds
  PROVE  SelectionInv'
<1> USE DEF CheckFunds, SelectionInv
<1>1. /\ TotalOf(tx_values, DOMAIN tx_values) \in Nat /\ amount \in Nat
      /\ Len(tx_values) \in Nat /\ at = Len(tx_values)
      /\ DOMAIN tx_values = 1..Len(tx_values)
  BY DEF SelectionTypeOK, Constants, TotalLaws, NotYetTaken
<1>2. selection' \in {"insufficient_funds", "fill"}
  OBVIOUS
<1>3. SelectionTypeOK'
  BY DEF SelectionTypeOK, Selections
<1>4. TableInv'
  BY <1>1, <1>2 DEF TableInv, Filled, BestRow
<1>5. BoundInv'
  <2> SUFFICES ASSUME NEW i \in 1..(Len(tx_values) + 1), Filled(i)',
                      NEW j \in 0..MAX_INPUTS, NEW S \in ChoicesFrom(i, j)
               PROVE  TotalOf(tx_values, S) <= dp_table[i][j]
    BY DEF BoundInv, ChoicesFrom
  <2>1. i = Len(tx_values) + 1
    BY <1>1, <1>2 DEF Filled
  <2> QED
    BY <2>1, LastRowBounds DEF TableInv
<1>6. TakenInv' /\ NotYetTaken' /\ SelectionNeverPanics' /\ OldestFirst'
  BY <1>1, <1>2 DEF TakenInv, NotYetTaken, SelectionNeverPanics, OldestFirst
<1>7. SelectionCorrect'
  BY <1>1, <1>2 DEF SelectionCorrect
<1> QED
  BY <1>3, <1>4, <1>5, <1>6, <1>7

\* One more row of the table.
LEMMA FillRowKeeps ==
  ASSUME Constants, SelectionInv, FillRow
  PROVE  SelectionInv'
<1> DEFINE row == BestRow(tx_values[at], dp_table[at + 1])
<1>a. SelectionTypeOK /\ TableInv /\ BoundInv /\ NotYetTaken
  BY DEF SelectionInv
<1>b. /\ selection = "fill" /\ at > 0 /\ at' = at - 1
      /\ dp_table' = [dp_table EXCEPT ![at] = row]
      /\ UNCHANGED <<tx_values, amount, max_inputs, result, value, selection>>
  BY DEF FillRow
<1>1. /\ tx_values \in Seq(Nat) /\ Len(tx_values) \in Nat
      /\ DOMAIN tx_values = 1..Len(tx_values) /\ MAX_INPUTS \in Nat
      /\ dp_table \in [1..(Len(tx_values) + 1) -> [0..MAX_INPUTS -> Nat]]
  BY <1>a DEF SelectionTypeOK, Constants
<1>2. at \in 1..Len(tx_values) /\ at + 1 \in 1..(Len(tx_values) + 1)
  BY <1>a, <1>b, <1>1 DEF SelectionTypeOK, NotYetTaken
<1>3. tx_values[at] \in Nat /\ dp_table[at + 1] \in [0..MAX_INPUTS -> Nat]
  BY <1>1, <1>2, SMTT(30)
<1>4. row \in [0..MAX_INPUTS -> Nat] /\ row[0] = 0
  <2>1. \A j \in 1..MAX_INPUTS :
          Larger(tx_values[at] + dp_table[at + 1][j - 1], dp_table[at + 1][j]) \in Nat
    <3> TAKE j \in 1..MAX_INPUTS
    <3>1. dp_table[at + 1][j - 1] \in Nat /\ dp_table[at + 1][j] \in Nat
      BY <1>1, <1>3
    <3> QED
      BY <1>3, <3>1 DEF Larger
  <2> QED
    BY <1>1, <2>1 DEF BestRow
<1> HIDE DEF row
<1>5. /\ dp_table'[at] = row
      /\ \A i \in 1..(Len(tx_values) + 1) : i # at => dp_table'[i] = dp_table[i]
      /\ dp_table' \in [1..(Len(tx_values) + 1) -> [0..MAX_INPUTS -> Nat]]
  BY <1>b, <1>1, <1>2, <1>4
<1>6. SelectionTypeOK'
  BY <1>a, <1>b, <1>1, <1>2, <1>5, SMTT(30) DEF SelectionTypeOK
<1>7. \A i \in 1..(Len(tx_values) + 1) : /\ Filled(i)' <=> i >= at
                                        /\ Filled(i) <=> i > at
  BY <1>b, <1>1, <1>2 DEF Filled
<1>8. TableInv'
  <2>1. dp_table'[Len(tx_values) + 1] = Zeros
    BY <1>a, <1>1, <1>2, <1>5 DEF TableInv
  <2>2. \A i \in 1..(Len(tx_values) + 1) : dp_table'[i][0] = 0
    BY <1>a, <1>4, <1>5, Zenon DEF TableInv
  <2>3. ASSUME NEW i \in DOMAIN tx_values, i >= at
        PROVE  dp_table'[i] = BestRow(tx_values[i], dp_table'[i + 1])
    <3>1. dp_table'[i + 1] = dp_table[i + 1]
      BY <1>1, <1>2, <1>5, <2>3
    <3>2. CASE i = at
      BY <1>5, <3>1, <3>2 DEF row
    <3>3. CASE i # at
      <4>1. i \in 1..(Len(tx_values) + 1) /\ i > at
        BY <1>1, <1>2, <2>3, <3>3
      <4>2. dp_table[i] = BestRow(tx_values[i], dp_table[i + 1])
        BY <1>a, <1>7, <4>1 DEF TableInv
      <4> QED
        BY <1>5, <3>1, <3>3, <4>1, <4>2
    <3> QED
      BY <3>2, <3>3
  <2>4. \A i \in DOMAIN tx_values : Filled(i)' => i >= at
    BY <1>b, <1>1, <1>2 DEF Filled
  <2>5. /\ (Zeros)' = Zeros
        /\ \A i \in DOMAIN tx_values : BestRow(tx_values[i], dp_table[i + 1])'
                                       = BestRow(tx_values[i], dp_table'[i + 1])
    BY <1>b DEF Zeros, BestRow
  <2> QED
    BY <1>b, <2>1, <2>2, <2>3, <2>4, <2>5 DEF TableInv
<1>9. BoundInv'
  <2> SUFFICES ASSUME NEW i \in 1..(Len(tx_values) + 1), i >= at,
                      NEW j \in 0..MAX_INPUTS, NEW S \in ChoicesFrom(i, j)
               PROVE  TotalOf(tx_values, S) <= dp_table'[i][j]
    <3>1. \A i \in 1..(Len(tx_values) + 1) : Filled(i)' => i >= at
      BY <1>b, <1>1, <1>2 DEF Filled
    <3> QED
      BY <1>b, <3>1 DEF BoundInv, ChoicesFrom
  <2>1. CASE i # at
    <3>1. Filled(i)
      BY <1>1, <1>2, <1>7, <2>1
    <3> QED
      BY <1>a, <1>5, <2>1, <3>1 DEF BoundInv
  <2>2. CASE i = at
    <3>1. Filled(at + 1)
      BY <1>1, <1>2, <1>7
    <3>2. \A h \in 0..MAX_INPUTS : \A T \in ChoicesFrom(at + 1, h) :
              TotalOf(tx_values, T) <= dp_table[at + 1][h]
      BY <1>a, <1>2, <3>1 DEF BoundInv
    <3>3. TotalOf(tx_values, S) <= row[j]
      BY <1>a, <1>1, <1>2, <1>3, <2>2, <3>2, RowBounds, Zenon DEF row
    <3> QED
      BY <1>5, <2>2, <3>3
  <2> QED
    BY <2>1, <2>2
<1>10. TakenInv' /\ NotYetTaken' /\ SelectionNeverPanics' /\ SelectionCorrect' /\ OldestFirst'
  BY <1>a, <1>b, <1>1, <1>2
     DEF TakenInv, NotYetTaken, SelectionNeverPanics, SelectionCorrect, OldestFirst
<1> QED
  BY <1>6, <1>8, <1>9, <1>10 DEF SelectionInv

\* The table is full: the amount is out of reach within the limit, or the
\* TxOuts from the first on can pay it.
LEMMA CheckSlotsKeeps ==
  ASSUME Constants, SelectionInv, CheckSlots
  PROVE  SelectionInv'
<1>a. SelectionTypeOK /\ TableInv /\ BoundInv /\ NotYetTaken
  BY DEF SelectionInv
<1>b. /\ selection = "fill" /\ at = 0 /\ at' = 1
      /\ UNCHANGED <<tx_values, amount, max_inputs, dp_table, result>>
      /\ \/ /\ dp_table[1][max_inputs] < amount
            /\ selection' = "wallet_compacting_needed"
            /\ value' = dp_table[1][Larger(max_inputs, 3)]
         \/ /\ ~(dp_table[1][max_inputs] < amount)
            /\ selection' = "take" /\ value' = value
  BY DEF CheckSlots
<1>1. /\ tx_values \in Seq(Nat) /\ Len(tx_values) \in Nat
      /\ DOMAIN tx_values = 1..Len(tx_values) /\ MAX_INPUTS \in Nat
      /\ MAX_INPUTS >= 3 /\ max_inputs \in 0..MAX_INPUTS /\ amount \in Nat
      /\ dp_table \in [1..(Len(tx_values) + 1) -> [0..MAX_INPUTS -> Nat]]
  BY <1>a DEF SelectionTypeOK, Constants
<1>2. /\ result = << >> /\ value = 0
      /\ TotalOf(tx_values, DOMAIN tx_values) >= amount
  BY <1>a, <1>b DEF NotYetTaken
<1>3. dp_table[1] \in [0..MAX_INPUTS -> Nat] /\ dp_table[1][max_inputs] \in Nat
      /\ dp_table[1][Larger(max_inputs, 3)] \in Nat
  BY <1>1, SMTT(30) DEF Larger
<1>4. \A i \in 1..(Len(tx_values) + 1) : Filled(i) /\ Filled(i)'
  BY <1>b, <1>1 DEF Filled
<1>5. SelectionTypeOK'
  <2>1. value' \in Nat /\ selection' \in Selections
    BY <1>b, <1>2, <1>3 DEF Selections
  <2>2. at' \in 0..(Len(tx_values) + 1)
    BY <1>b, <1>1
  <2> QED
    BY <1>a, <1>b, <2>1, <2>2 DEF SelectionTypeOK
<1>6. TableInv'
  <2>1. \A i \in DOMAIN tx_values : dp_table[i] = BestRow(tx_values[i], dp_table[i + 1])
    BY <1>a, <1>1, <1>4 DEF TableInv
  <2> QED
    BY <1>a, <1>b, <2>1, Zenon DEF TableInv, BestRow, Zeros
<1>7. BoundInv'
  BY <1>a, <1>b, <1>4 DEF BoundInv, ChoicesFrom
<1>8. SelectionNeverPanics' /\ NotYetTaken'
  BY <1>b, <1>2 DEF SelectionNeverPanics, NotYetTaken
<1>9. Chosen' = {}
  BY <1>b, <1>2 DEF Chosen
<1>10. Cardinality(Chosen') = 0 /\ TotalOf(tx_values, Chosen') = 0
  BY <1>1, <1>9, FS_EmptySet DEF Constants, TotalLaws
<1>11. TakenInv'
  BY <1>b, <1>1, <1>2, <1>3, <1>10, SMTT(30) DEF TakenInv
<1>12. OldestFirst'
  BY <1>b DEF OldestFirst
<1>13. SelectionCorrect'
  <2>1. ASSUME dp_table[1][max_inputs] < amount, NEW S \in ChoicesFrom(1, max_inputs)
        PROVE  TotalOf(tx_values, S) < amount
    <3>1. 1 \in 1..(Len(tx_values) + 1) /\ Filled(1)
      BY <1>1, <1>4
    <3>2. TotalOf(tx_values, S) <= dp_table[1][max_inputs]
      BY <1>a, <1>1, <3>1 DEF BoundInv
    <3>3. S \in SUBSET (DOMAIN tx_values)
      BY <1>1 DEF ChoicesFrom
    <3>4. TotalOf(tx_values, S) \in Nat
      BY <1>1, <3>3 DEF Constants, TotalLaws
    <3> QED
      BY <1>1, <1>3, <2>1, <3>2, <3>4, SMTT(30)
  <2> QED
    BY <1>b, <1>2, <2>1, Zenon DEF SelectionCorrect, ChoicesFrom
<1> QED
  BY <1>5, <1>6, <1>7, <1>8, <1>11, <1>12, <1>13 DEF SelectionInv

\* The next TxOut is taken, or left because without it the rest can still pay.
LEMMA TakeNextKeeps ==
  ASSUME Constants, SelectionInv, TakeNext
  PROVE  SelectionInv'
<1> DEFINE m == max_inputs - Len(result)
<1>a. SelectionTypeOK /\ TableInv /\ BoundInv /\ TakenInv /\ NotYetTaken /\ OldestFirst
  BY DEF SelectionInv
<1>b. /\ selection = "take" /\ at <= Len(tx_values) /\ value < amount
      /\ UNCHANGED <<tx_values, amount, max_inputs, dp_table>>
  BY DEF TakeNext
<1>1. /\ tx_values \in Seq(Nat) /\ Len(tx_values) \in Nat
      /\ DOMAIN tx_values = 1..Len(tx_values)
  BY <1>a DEF SelectionTypeOK
<1>2. /\ MAX_INPUTS \in Nat /\ max_inputs \in 0..MAX_INPUTS /\ amount \in Nat
      /\ value \in Nat /\ at \in Int
  BY <1>a DEF SelectionTypeOK, Constants
<1>3. /\ result \in Seq(1..Len(tx_values)) /\ Len(result) \in Nat
      /\ DOMAIN result = 1..Len(result)
      /\ \A n \in DOMAIN result : result[n] \in 1..Len(tx_values)
  BY <1>a, SMTT(30) DEF SelectionTypeOK
<1>4. dp_table \in [1..(Len(tx_values) + 1) -> [0..MAX_INPUTS -> Nat]]
  BY <1>a DEF SelectionTypeOK
<1>c. /\ at >= 1 /\ Len(result) <= max_inputs
      /\ \A n \in DOMAIN result : result[n] < at
      /\ \A h, n \in DOMAIN result : h < n => result[h] < result[n]
      /\ Cardinality(Chosen) = Len(result)
      /\ TotalOf(tx_values, Chosen) = value
      /\ value + dp_table[at][m] >= amount
  BY <1>a, <1>b DEF TakenInv
<1>d. /\ at \in 1..Len(tx_values) /\ at \in 1..(Len(tx_values) + 1)
      /\ at + 1 \in 1..(Len(tx_values) + 1)
  BY <1>b, <1>1, <1>2, <1>c, SMTT(30)
<1>e. m \in 0..MAX_INPUTS /\ m = max_inputs - Len(result)
  BY <1>2, <1>3, <1>c
<1> HIDE DEF m
<1>f. tx_values[at] \in Nat
  BY <1>1, <1>d
<1>g. \A i \in 1..(Len(tx_values) + 1) : \A j \in 0..MAX_INPUTS : dp_table[i][j] \in Nat
  BY <1>4, Zenon
<1>5. m # 0
  <2>1. dp_table[at][0] = 0
    BY <1>a, <1>d DEF TableInv
  <2> QED
    BY <1>b, <1>2, <1>c, <2>1
<1>6. m - 1 \in 0..MAX_INPUTS /\ dp_table[at + 1][m - 1] \in Nat /\ dp_table[at + 1][m] \in Nat
  <2>1. m - 1 \in 0..MAX_INPUTS
    BY <1>2, <1>5, <1>e
  <2> QED
    BY <1>d, <1>e, <1>g, <2>1, SMTT(30)
<1>7. /\ selection' = selection /\ at' = at + 1
      /\ \/ /\ value + tx_values[at] + dp_table[at + 1][m - 1] >= amount
            /\ result' = Append(result, at) /\ value' = value + tx_values[at]
         \/ /\ ~(value + tx_values[at] + dp_table[at + 1][m - 1] >= amount)
            /\ result' = result /\ value' = value
  <2>1. ~(Len(result) >= max_inputs) /\ max_inputs - Len(result) - 1 = m - 1
    <3>1. Len(result) \in Int /\ max_inputs \in Int
      BY <1>2, <1>3
    <3> QED
      BY <1>5, <1>c, <1>e, <3>1
  <2> QED
    BY <2>1 DEF TakeNext, Fits
<1>8. dp_table[at][m] = Larger(tx_values[at] + dp_table[at + 1][m - 1], dp_table[at + 1][m])
  <2>1. Filled(at)
    BY <1>b DEF Filled
  <2>2. dp_table[at] = BestRow(tx_values[at], dp_table[at + 1])
    BY <1>a, <1>1, <1>d, <2>1, SMTT(30) DEF TableInv
  <2> QED
    BY <1>5, <1>e, <2>2 DEF BestRow
<1>9. Chosen \in SUBSET (1..(at - 1)) /\ Chosen \in SUBSET (DOMAIN tx_values) /\ at \notin Chosen
  <2>1. \A n \in DOMAIN result : result[n] \in 1..Len(tx_values) /\ result[n] < at
    BY <1>3, <1>c
  <2>2. \A n \in DOMAIN result : result[n] \in 1..(at - 1) /\ result[n] # at
    BY <1>2, <2>1
  <2> QED
    BY <1>1, <2>1, <2>2 DEF Chosen
<1>10. IsFiniteSet(Chosen)
  <2>1. IsFiniteSet(1..(at - 1))
    BY <1>2, FS_Interval
  <2> QED
    BY <1>9, <2>1, FS_Subset, Zenon
<1>11. TableInv' /\ BoundInv' /\ NotYetTaken' /\ SelectionNeverPanics' /\ SelectionCorrect'
  <2>1. \A i : Filled(i) /\ Filled(i)'
    BY <1>b, <1>7 DEF Filled
  <2>2. TableInv'
    BY <1>a, <1>b, <2>1 DEF TableInv, BestRow, Zeros
  <2>3. BoundInv'
    BY <1>a, <1>b, <2>1 DEF BoundInv, ChoicesFrom
  <2>4. NotYetTaken' /\ SelectionNeverPanics' /\ SelectionCorrect'
    BY <1>a, <1>b, <1>7 DEF NotYetTaken, SelectionNeverPanics, SelectionCorrect
  <2> QED
    BY <2>2, <2>3, <2>4
<1>12. CASE /\ value + tx_values[at] + dp_table[at + 1][m - 1] >= amount
            /\ result' = Append(result, at) /\ value' = value + tx_values[at]
  <2>1. /\ result' \in Seq(1..Len(tx_values)) /\ Len(result') = Len(result) + 1
        /\ DOMAIN result' = 1..(Len(result) + 1)
        /\ \A n \in DOMAIN result : result'[n] = result[n]
        /\ result'[Len(result) + 1] = at
    BY <1>3, <1>d, <1>12
  <2>2. SelectionTypeOK'
    <3>1. value' \in Nat /\ at' \in 0..(Len(tx_values) + 1)
      BY <1>2, <1>7, <1>12, <1>d, <1>f
    <3> QED
      BY <1>a, <1>b, <1>7, <2>1, <3>1 DEF SelectionTypeOK
  <2>3. Chosen' = Chosen \cup {at}
    <3>1. \A n \in DOMAIN result' : n \in DOMAIN result \/ n = Len(result) + 1
      BY <1>3, <2>1
    <3>2. DOMAIN result \subseteq DOMAIN result' /\ Len(result) + 1 \in DOMAIN result'
      BY <1>3, <2>1
    <3> QED
      BY <2>1, <3>1, <3>2 DEF Chosen
  <2>4. Cardinality(Chosen') = Len(result) + 1
    BY <1>9, <1>10, <1>c, <2>3, FS_AddElement, SMTT(30)
  <2>5. TotalOf(tx_values, Chosen') = value + tx_values[at]
    BY <1>1, <1>9, <1>c, <1>d, <2>3, SMTT(30) DEF Constants, TotalLaws
  <2>6. /\ \A n \in DOMAIN result' : result'[n] < at + 1
        /\ \A h, n \in DOMAIN result' : h < n => result'[h] < result'[n]
    <3>1. \A n \in DOMAIN result : result'[n] \in 1..Len(tx_values) /\ result'[n] < at
      BY <1>3, <1>c, <2>1
    <3>2. ASSUME NEW h \in DOMAIN result', NEW n \in DOMAIN result', h < n
          PROVE  result'[h] < result'[n]
      <4>1. CASE n = Len(result) + 1
        <5>1. h \in DOMAIN result
          BY <1>3, <2>1, <3>2, <4>1
        <5> QED
          BY <2>1, <3>1, <4>1, <5>1
      <4>2. CASE n # Len(result) + 1
        <5>1. h \in DOMAIN result /\ n \in DOMAIN result
          BY <1>3, <2>1, <3>2, <4>2, SMTT(30)
        <5> QED
          BY <1>c, <2>1, <3>2, <5>1
      <4> QED
        BY <4>1, <4>2
    <3>3. \A n \in DOMAIN result' : result'[n] < at + 1
      <4> TAKE n \in DOMAIN result'
      <4>1. CASE n = Len(result) + 1
        BY <1>2, <2>1, <4>1
      <4>2. CASE n \in DOMAIN result
        BY <1>1, <1>2, <3>1, <4>2
      <4> QED
        BY <1>3, <2>1, <4>1, <4>2
    <3> QED
      BY <3>2, <3>3
  <2>7. /\ Len(result') <= max_inputs
        /\ value' + dp_table[at + 1][max_inputs - Len(result')] >= amount
    <3>1. max_inputs - Len(result') = m - 1
      BY <1>2, <1>3, <1>e, <2>1
    <3>2. Len(result') <= max_inputs
      BY <1>2, <1>3, <1>6, <1>e, <2>1, SMTT(30)
    <3> QED
      BY <1>12, <3>1, <3>2
  <2>8. TakenInv'
    <3>1. at' >= 1 /\ Cardinality(Chosen)' = Len(result')
          /\ TotalOf(tx_values, Chosen)' = value'
      BY <1>2, <1>7, <1>12, <1>b, <1>c, <2>1, <2>4, <2>5
    <3> QED
      BY <1>7, <1>b, <2>6, <2>7, <3>1, SMTT(30) DEF TakenInv
  <2>9. OldestFirst'
    <3> SUFFICES ASSUME NEW k \in 1..at \ Chosen'
                 PROVE  LET before == {c \in Chosen' : c < k}
                        IN  \A S \in ChoicesFrom(k + 1, max_inputs - Cardinality(before) - 1) :
                              TotalOf(tx_values, before) + tx_values[k]
                                + TotalOf(tx_values, S) < amount
      <4>1. at' - 1 = at
        BY <1>2, <1>7
      <4> QED
        BY <1>b, <4>1, Zenon DEF OldestFirst, ChoicesFrom
    <3>1. k \in 1..(at - 1) \ Chosen
      BY <1>2, <2>3
    <3>2. {c \in Chosen' : c < k} = {c \in Chosen : c < k}
      BY <1>2, <2>3, <3>1
    <3> QED
      BY <1>a, <1>b, <3>1, <3>2, Zenon DEF OldestFirst
  <2> QED
    BY <1>11, <2>2, <2>8, <2>9 DEF SelectionInv
<1>13. CASE /\ ~(value + tx_values[at] + dp_table[at + 1][m - 1] >= amount)
            /\ result' = result /\ value' = value
  <2>1. SelectionTypeOK'
    <3>1. at' \in 0..(Len(tx_values) + 1)
      BY <1>7, <1>d
    <3> QED
      BY <1>a, <1>b, <1>7, <1>13, <3>1 DEF SelectionTypeOK
  <2>2. Chosen' = Chosen
    BY <1>13 DEF Chosen
  <2>3. value + dp_table[at + 1][m] >= amount
    BY <1>2, <1>6, <1>8, <1>13, <1>c, <1>f, SMTT(30) DEF Larger
  <2>4. \A n \in DOMAIN result : result[n] < at + 1
    BY <1>2, <1>3, <1>c
  <2>5. TakenInv'
    <3>1. at' >= 1
      BY <1>2, <1>7, <1>c, SMTT(30)
    <3> QED
      BY <1>7, <1>13, <1>b, <1>c, <1>e, <2>2, <2>3, <2>4, <3>1, SMTT(30) DEF TakenInv
  <2>6. OldestFirst'
    <3> SUFFICES ASSUME NEW k \in 1..at \ Chosen
                 PROVE  LET before == {c \in Chosen : c < k}
                        IN  \A S \in ChoicesFrom(k + 1, max_inputs - Cardinality(before) - 1) :
                              TotalOf(tx_values, before) + tx_values[k]
                                + TotalOf(tx_values, S) < amount
      <4>1. at' - 1 = at
        BY <1>2, <1>7
      <4> QED
        BY <1>b, <2>2, <4>1 DEF OldestFirst, ChoicesFrom
    <3>1. CASE k # at
      <4>1. k \in 1..(at - 1) \ Chosen
        BY <1>2, <3>1
      <4> QED
        BY <1>a, <1>b, <4>1 DEF OldestFirst
    <3>2. CASE k = at
      <4>1. {c \in Chosen : c < at} = Chosen
        BY <1>2, <1>9
      <4>2. ASSUME NEW S \in ChoicesFrom(at + 1, m - 1)
            PROVE  value + tx_values[at] + TotalOf(tx_values, S) < amount
        <5>1. Filled(at + 1)
          BY <1>b DEF Filled
        <5>2. TotalOf(tx_values, S) <= dp_table[at + 1][m - 1]
          BY <1>a, <1>6, <1>d, <5>1 DEF BoundInv
        <5>3. S \in SUBSET (DOMAIN tx_values)
          BY <1>1, <1>d DEF ChoicesFrom
        <5>4. TotalOf(tx_values, S) \in Nat
          BY <1>1, <5>3 DEF Constants, TotalLaws
        <5> QED
          BY <1>2, <1>6, <1>13, <1>f, <5>2, <5>4
      <4> QED
        BY <1>c, <1>e, <3>2, <4>1, <4>2, Zenon
    <3> QED
      BY <3>1, <3>2
  <2> QED
    BY <1>11, <2>1, <2>5, <2>6 DEF SelectionInv
<1> QED
  BY <1>7, <1>12, <1>13

\* The loop ends with the amount reached.
LEMMA TakeEndsKeeps ==
  ASSUME Constants, SelectionInv, TakeEnds
  PROVE  SelectionInv'
<1>a. SelectionTypeOK /\ TableInv /\ BoundInv /\ TakenInv /\ NotYetTaken /\ OldestFirst
  BY DEF SelectionInv
<1>b. /\ selection = "take" /\ (at > Len(tx_values) \/ value >= amount)
      /\ UNCHANGED <<tx_values, amount, max_inputs, dp_table, at, result, value>>
  BY DEF TakeEnds
<1>1. /\ Len(tx_values) \in Nat /\ MAX_INPUTS \in Nat /\ Len(result) \in Nat
      /\ max_inputs \in 0..MAX_INPUTS /\ amount \in Nat /\ value \in Nat
      /\ at \in 0..(Len(tx_values) + 1)
  BY <1>a DEF SelectionTypeOK, Constants
<1>2. /\ Len(result) <= max_inputs
      /\ \A h, n \in DOMAIN result : h < n => result[h] < result[n]
      /\ TotalOf(tx_values, Chosen) = value
      /\ value < amount => value + dp_table[at][max_inputs - Len(result)] >= amount
  BY <1>a DEF TakenInv, TakeEnds
<1>3. value >= amount
  <2>1. CASE at > Len(tx_values)
    <3>1. at = Len(tx_values) + 1 /\ max_inputs - Len(result) \in 0..MAX_INPUTS
      BY <1>1, <1>2, <2>1
    <3>2. dp_table[at][max_inputs - Len(result)] = 0
      BY <1>a, <3>1, Zenon DEF TableInv, Zeros
    <3> QED
      BY <1>1, <1>2, <3>2
  <2> QED
    BY <1>b, <2>1
<1>4. selection = "take" /\ selection' = "ok"
  BY <1>1, <1>2, <1>3 DEF TakeEnds
<1>5. Chosen' = Chosen
  BY <1>b DEF Chosen
<1>6. SelectionTypeOK'
  BY <1>a, <1>b, <1>4 DEF SelectionTypeOK, Selections
<1>7. \A i : Filled(i) /\ Filled(i)'
  BY <1>4 DEF Filled
<1>8. TableInv'
  BY <1>a, <1>b, <1>7 DEF TableInv, BestRow, Zeros
<1>9. BoundInv'
  BY <1>a, <1>b, <1>7 DEF BoundInv, ChoicesFrom
<1>10. TakenInv' /\ NotYetTaken' /\ SelectionNeverPanics'
  BY <1>a, <1>b, <1>4, <1>5, SMTT(30) DEF TakenInv, NotYetTaken, SelectionNeverPanics
<1>11. SelectionCorrect'
  BY <1>b, <1>2, <1>3, <1>4, <1>5 DEF SelectionCorrect
<1>12. OldestFirst'
  BY <1>a, <1>b, <1>4, <1>5 DEF OldestFirst, ChoicesFrom
<1> QED
  BY <1>6, <1>8, <1>9, <1>10, <1>11, <1>12 DEF SelectionInv

-----------------------------------------------------------------------------

\* Every step of the heuristic keeps the invariant.
LEMMA SelectionStepKeeps ==
  ASSUME Constants, SelectionInv, [SelectionStep]_selection_vars
  PROVE  SelectionInv'
<1>1. CASE UNCHANGED selection_vars
  <2>1. UNCHANGED <<tx_values, amount, max_inputs, dp_table, at, result, value, selection>>
    BY <1>1 DEF selection_vars
  <2>2. Chosen' = Chosen
    BY <2>1 DEF Chosen
  <2>3. SelectionTypeOK' /\ NotYetTaken' /\ SelectionNeverPanics'
    BY <2>1 DEF SelectionInv, SelectionTypeOK, NotYetTaken, SelectionNeverPanics
  <2>4. TableInv'
    BY <2>1, Zenon DEF SelectionInv, TableInv, Filled, BestRow, Zeros
  <2>5. BoundInv'
    BY <2>1 DEF SelectionInv, BoundInv, Filled, ChoicesFrom
  <2>6. TakenInv'
    BY <2>1, <2>2 DEF SelectionInv, TakenInv
  <2>7. SelectionCorrect'
    BY <2>1, <2>2 DEF SelectionInv, SelectionCorrect, ChoicesFrom
  <2>8. OldestFirst'
    BY <2>1, <2>2 DEF SelectionInv, OldestFirst, ChoicesFrom
  <2> QED
    BY <2>3, <2>4, <2>5, <2>6, <2>7, <2>8 DEF SelectionInv
<1> QED
  BY <1>1, CheckFundsKeeps, FillRowKeeps, CheckSlotsKeeps, TakeNextKeeps,
     TakeEndsKeeps DEF SelectionStep

\* The invariant holds throughout.
THEOREM Inductive ==
  ASSUME Constants
  PROVE  SelectionSpec => []SelectionInv
<1>1. ASSUME \E values \in Seq(Nat), total \in Nat, most \in Nat :
               SelectionInit(values, total, most)
      PROVE  SelectionInv
  BY <1>1, SelectionStarts
<1>2. ASSUME SelectionInv, [SelectionStep]_selection_vars
      PROVE  SelectionInv'
  BY <1>2, SelectionStepKeeps
<1> QED
  BY <1>1, <1>2, PTL DEF SelectionSpec

\* The assertions of the heuristic never fail, whatever the wallet holds and
\* whatever is asked for.
THEOREM NeverPanics ==
  ASSUME Constants
  PROVE  SelectionSpec => []SelectionNeverPanics
<1>1. SelectionInv => SelectionNeverPanics
  BY DEF SelectionInv
<1> QED
  BY <1>1, Inductive, PTL

\* The inputs returned are distinct, within the limit and reach the amount; and
\* when an error is returned, no choice within the limit would have reached it.
THEOREM Correct ==
  ASSUME Constants
  PROVE  SelectionSpec => []SelectionCorrect
<1>1. SelectionInv => SelectionCorrect
  BY DEF SelectionInv
<1> QED
  BY <1>1, Inductive, PTL

\* An older TxOut is left out only when it could not have been an input.
THEOREM OldestAreTaken ==
  ASSUME Constants
  PROVE  SelectionSpec => []OldestFirst
<1>1. SelectionInv => OldestFirst
  BY DEF SelectionInv
<1> QED
  BY <1>1, Inductive, PTL

-----------------------------------------------------------------------------
(* The transaction. *)

BuildConstants ==
    /\ Constants
    /\ MINIMUM_FEE \in Nat /\ TARGET_NUM_INPUTS \in Nat /\ ring_size \in Nat

\* What the call was given, which it never changes.
RequestInv ==
    /\ global_index \in [DOMAIN tx_values -> Nat]
    /\ \A m, n \in DOMAIN tx_values : m < n => global_index[m] < global_index[n]
    /\ payment \in Nat /\ fee \in Nat /\ latest_global_txo_count \in Nat
    /\ amount = payment + MINIMUM_FEE

\* The sequences of ring_size different TxOuts.
Rings ==
    {ring \in [1..ring_size -> Nat] :
       \A a, b \in 1..ring_size : ring[a] = ring[b] => a = b}

\* Inputs are selected before anything else, and their rings before the rest.
StageInv ==
    /\ call \notin {"select", "failed", "panic"} => selection = "ok"
    /\ call \in {"tombstone", "reports", "build"} =>
         /\ Len(rings) = IF ring_size = 0 THEN 0 ELSE Len(result)
         /\ \A r \in 1..Len(rings) : rings[r] \in Rings

BuildInv ==
    /\ SelectionInv /\ RequestInv /\ StageInv
    /\ RingsWellFormed /\ ValueConserved /\ FailuresJustified

-----------------------------------------------------------------------------

\* A place in the r'th of n rings is a place in their sample.
LEMMA PlaceInSample ==
  ASSUME NEW k \in Nat, NEW n \in Nat, NEW r \in 1..n, NEW p \in 1..k
  PROVE  (r - 1) * k + p \in 1..(n * k)
<1>1. (r - 1) * k \in Nat /\ (n - r) * k \in Nat /\ n * k \in Nat
  OBVIOUS
<1>2. n * k = (r - 1) * k + k + (n - r) * k
  OBVIOUS
<1> QED
  BY <1>1, <1>2

\* The rings of a sample of different TxOuts.
LEMMA RingsOfSample ==
  ASSUME BuildConstants, RequestInv, NEW n \in Nat, NEW sample \in Samples(n * ring_size)
  PROVE  /\ Len(RingsOf(sample, n)) = IF ring_size = 0 THEN 0 ELSE n
         /\ \A r \in 1..Len(RingsOf(sample, n)) : RingsOf(sample, n)[r] \in Rings
<1>1. ring_size \in Nat /\ latest_global_txo_count \in Nat
  BY DEF BuildConstants, RequestInv
<1>2. CASE ring_size = 0
  BY <1>2 DEF RingsOf
<1>3. CASE ring_size # 0
  <2>1. /\ RingsOf(sample, n) = [r \in 1..n |->
                                  [p \in 1..ring_size |-> sample[(r - 1) * ring_size + p]]]
        /\ Len(RingsOf(sample, n)) = n
    BY <1>3 DEF RingsOf
  <2>2. ASSUME NEW r \in 1..n
        PROVE  RingsOf(sample, n)[r] \in Rings
    <3> DEFINE ring == [p \in 1..ring_size |-> sample[(r - 1) * ring_size + p]]
    <3>1. \A p \in 1..ring_size : (r - 1) * ring_size + p \in 1..(n * ring_size)
      BY <1>1, PlaceInSample
    <3>2. /\ \A q \in 1..(n * ring_size) : sample[q] \in Nat
          /\ \A a, b \in 1..(n * ring_size) : sample[a] = sample[b] => a = b
      BY <1>1 DEF Samples
    <3>3. ring \in [1..ring_size -> Nat]
      BY <3>1, <3>2
    <3>4. ASSUME NEW a \in 1..ring_size, NEW b \in 1..ring_size, ring[a] = ring[b]
          PROVE  a = b
      <4>1. (r - 1) * ring_size + a = (r - 1) * ring_size + b
        BY <3>1, <3>2, <3>4
      <4>2. (r - 1) * ring_size \in Int
        BY <1>1
      <4> HIDE DEF ring
      <4> QED
        BY <4>1, <4>2
    <3>5. ring \in Rings
      BY <3>3, <3>4 DEF Rings
    <3> QED
      BY <2>1, <3>5
  <2> QED
    BY <1>3, <2>1, <2>2
<1> QED
  BY <1>2, <1>3

\* A ring with the true input in it.
LEMMA RingWithInput ==
  ASSUME BuildConstants, ring_size # 0, NEW ring \in Rings, NEW i \in Nat
  PROVE  /\ WithInput(ring, i).ring \in Rings
         /\ WithInput(ring, i).real_index \in 1..ring_size
         /\ WithInput(ring, i).ring[WithInput(ring, i).real_index] = i
<1>1. /\ ring_size \in Nat /\ 1 \in 1..ring_size
      /\ ring \in [1..ring_size -> Nat] /\ DOMAIN ring = 1..ring_size
      /\ \A a, b \in 1..ring_size : ring[a] = ring[b] => a = b
  BY DEF BuildConstants, Rings
<1>2. CASE \E n \in DOMAIN ring : ring[n] = i
  <2>1. WithInput(ring, i) = [ring |-> ring,
                              real_index |-> CHOOSE n \in DOMAIN ring : ring[n] = i]
    BY <1>2 DEF WithInput
  <2>2. /\ (CHOOSE n \in DOMAIN ring : ring[n] = i) \in 1..ring_size
        /\ ring[CHOOSE n \in DOMAIN ring : ring[n] = i] = i
    BY <1>1, <1>2
  <2> QED
    BY <2>1, <2>2
<1>3. CASE ~ \E n \in DOMAIN ring : ring[n] = i
  <2> DEFINE other == [ring EXCEPT ![1] = i]
  <2>1. WithInput(ring, i) = [ring |-> other, real_index |-> 1]
    BY <1>1, <1>3 DEF WithInput
  <2>2. /\ other \in [1..ring_size -> Nat] /\ other[1] = i
        /\ \A a \in 1..ring_size : a # 1 => other[a] = ring[a]
    BY <1>1
  <2> HIDE DEF other
  <2>3. \A a, b \in 1..ring_size : other[a] = other[b] => a = b
    BY <1>1, <1>3, <2>2, SMTT(30)
  <2> QED
    BY <1>1, <2>1, <2>2, <2>3, SMTT(30) DEF Rings
<1> QED
  BY <1>2, <1>3

\* The inputs are different TxOuts.
LEMMA InputsDiffer ==
  ASSUME BuildInv, selection = "ok"
  PROVE  /\ \A n \in DOMAIN result : Input(n) \in Nat
         /\ \A m, n \in DOMAIN result : Input(m) = Input(n) => m = n
<1>1. /\ tx_values \in Seq(Nat) /\ DOMAIN tx_values = 1..Len(tx_values)
      /\ result \in Seq(1..Len(tx_values)) /\ DOMAIN result = 1..Len(result)
      /\ Len(result) \in Nat /\ Len(tx_values) \in Nat
  BY DEF BuildInv, SelectionInv, SelectionTypeOK
<1>2. \A m, n \in DOMAIN result : m < n => result[m] < result[n]
  BY DEF BuildInv, SelectionInv, SelectionCorrect
<1>3. /\ \A k \in DOMAIN tx_values : global_index[k] \in Nat
      /\ \A k, l \in DOMAIN tx_values : k < l => global_index[k] < global_index[l]
  BY DEF BuildInv, RequestInv
<1>4. \A n \in DOMAIN result : result[n] \in DOMAIN tx_values
  BY <1>1
<1>5. \A n \in DOMAIN result : Input(n) \in Nat
  BY <1>3, <1>4 DEF Input
<1>6. \A m, n \in DOMAIN result : m < n => Input(m) < Input(n)
  BY <1>2, <1>3, <1>4 DEF Input
<1>7. ASSUME NEW m \in DOMAIN result, NEW n \in DOMAIN result, Input(m) = Input(n)
      PROVE  m = n
  <2>1. m \in Nat /\ n \in Nat /\ Input(m) \in Nat /\ Input(n) \in Nat
    BY <1>1, <1>5, SMTT(30)
  <2>2. ~(m < n) /\ ~(n < m)
    BY <1>6, <1>7, <2>1
  <2> QED
    BY <2>1, <2>2
<1> QED
  BY <1>5, <1>7

-----------------------------------------------------------------------------

\* The call begins.
LEMMA BuildStarts ==
  ASSUME BuildConstants, Init
  PROVE  BuildInv
<1>1. PICK values \in Seq(Nat) :
        /\ global_index \in [DOMAIN values -> Nat]
        /\ \A m, n \in DOMAIN values : m < n => global_index[m] < global_index[n]
        /\ payment \in Nat /\ fee \in Nat /\ latest_global_txo_count \in Nat
        /\ SelectionInit(values, payment + MINIMUM_FEE, TARGET_NUM_INPUTS)
  BY DEF Init
<1>2. SelectionInv
  <2>1. Constants /\ payment + MINIMUM_FEE \in Nat /\ TARGET_NUM_INPUTS \in Nat
    BY <1>1 DEF BuildConstants
  <2> QED
    BY <1>1, <2>1, SelectionStarts
<1>3. RequestInv
  BY <1>1 DEF RequestInv, SelectionInit
<1>4. call = "select"
  BY DEF Init
<1> QED
  BY <1>2, <1>3, <1>4
     DEF BuildInv, StageInv, RingsWellFormed, ValueConserved, FailuresJustified

\* What a step keeps that leaves the selection and the request alone.
LEMMA SelectionKept ==
  ASSUME BuildConstants, BuildInv, UNCHANGED <<selection_vars, request_vars>>
  PROVE  SelectionInv' /\ RequestInv'
<1>1. SelectionInv'
  BY SelectionStepKeeps DEF BuildConstants, BuildInv
<1>2. RequestInv'
  BY SMTT(30) DEF BuildInv, RequestInv, selection_vars, request_vars
<1> QED
  BY <1>1, <1>2

\* A step of the selection, which never panics.
LEMMA SelectKeeps ==
  ASSUME BuildConstants, BuildInv, Select
  PROVE  BuildInv'
<1>1. SelectionStep
  BY DEF Select
<1>2. SelectionInv'
  BY <1>1, SelectionStepKeeps, SMTT(30) DEF BuildConstants, BuildInv
<1>3. tx_values' = tx_values /\ amount' = amount
  BY <1>1 DEF SelectionStep, CheckFunds, FillRow, CheckSlots, TakeNext, TakeEnds
<1>4. RequestInv'
  BY <1>3 DEF Select, request_vars, BuildInv, RequestInv
<1>5. selection' # "panic"
  BY <1>2 DEF SelectionInv, SelectionNeverPanics
<1>6. call' \in {"select", "proofs", "failed"} /\ (call' = "proofs" => selection' = "ok")
  BY <1>5, SMTT(30) DEF Select
<1> QED
  BY <1>2, <1>4, <1>6
     DEF BuildInv, StageInv, RingsWellFormed, ValueConserved, FailuresJustified

\* The proofs of the inputs are fetched.
LEMMA GetProofsKeeps ==
  ASSUME BuildConstants, BuildInv, GetProofs
  PROVE  BuildInv'
<1>1. /\ call = "proofs" /\ UNCHANGED <<selection_vars, request_vars>>
      /\ UNCHANGED <<result, selection, global_index>>
  BY DEF GetProofs, selection_vars, request_vars
<1>2. /\ server_txos' \in Nat /\ call' \in {"failed", "rings", "panic"}
      /\ call' = "panic" => ~ \A n \in DOMAIN result : Input(n) < server_txos'
  BY DEF GetProofs, GetOutputs
<1>3. selection = "ok"
  BY <1>1 DEF BuildInv, StageInv
<1>4. \A n \in DOMAIN result : Input(n) \in Nat /\ Input(n)' = Input(n)
  BY <1>1, <1>3, InputsDiffer DEF Input
<1>5. FailuresJustified'
  <2>1. ASSUME call' = "panic"
        PROVE  \E n \in DOMAIN result : server_txos' <= Input(n)
    BY <1>2, <1>4, <2>1
  <2> QED
    BY <1>1, <1>2, <1>4, <2>1 DEF FailuresJustified
<1>6. SelectionInv' /\ RequestInv'
  BY <1>1, SelectionKept
<1> QED
  BY <1>1, <1>2, <1>3, <1>5, <1>6 DEF BuildInv, StageInv, RingsWellFormed, ValueConserved

\* The mixins are sampled and fetched.
LEMMA GetRingsKeeps ==
  ASSUME BuildConstants, BuildInv, GetRings
  PROVE  BuildInv'
<1>1. /\ call = "rings" /\ UNCHANGED <<selection_vars, request_vars>>
      /\ UNCHANGED <<result, selection, latest_global_txo_count>>
  BY DEF GetRings, selection_vars, request_vars
<1>2. selection = "ok"
  BY <1>1 DEF BuildInv, StageInv
<1>3. Len(result) \in Nat /\ latest_global_txo_count \in Nat /\ RequestInv
  BY DEF BuildInv, SelectionInv, SelectionTypeOK, RequestInv
<1>4. SelectionInv' /\ RequestInv'
  BY <1>1, SelectionKept, SMTT(30)
<1>5. CASE call' = "failed"
  BY <1>1, <1>2, <1>4, <1>5, SMTT(30)
     DEF BuildInv, StageInv, RingsWellFormed, ValueConserved, FailuresJustified
<1>6. CASE call' # "failed"
  <2>1. PICK sample \in Samples(Len(result) * ring_size) :
          /\ GetOutputs(Len(result) * ring_size,
                        \A n \in 1..(Len(result) * ring_size) : sample[n] < server_txos',
                        "tombstone")
          /\ rings' = RingsOf(sample, Len(result))
    BY <1>6, Zenon DEF GetRings
  <2>2. /\ server_txos' \in Nat /\ call' \in {"tombstone", "panic"}
        /\ call' = "panic" =>
             ~ \A n \in 1..(Len(result) * ring_size) : sample[n] < server_txos'
    BY <1>6, <2>1 DEF GetOutputs
  <2>3. /\ Len(rings') = IF ring_size = 0 THEN 0 ELSE Len(result)
        /\ \A r \in 1..Len(rings') : rings'[r] \in Rings
    BY <1>3, <2>1, RingsOfSample
  <2>4. StageInv'
    BY <1>1, <1>2, <2>2, <2>3 DEF StageInv, Rings
  <2>5. ASSUME call' = "panic"
        PROVE  server_txos' < latest_global_txo_count
    <3>1. PICK n \in 1..(Len(result) * ring_size) : ~(sample[n] < server_txos')
      BY <2>2, <2>5
    <3>2. sample[n] \in 0..(latest_global_txo_count - 1)
      BY DEF Samples
    <3> QED
      BY <1>3, <2>2, <3>1, <3>2
  <2>6. FailuresJustified'
    BY <1>1, <2>2, <2>5, SMTT(30) DEF FailuresJustified
  <2> QED
    BY <1>4, <2>2, <2>4, <2>6, Zenon DEF BuildInv, RingsWellFormed, ValueConserved
<1> QED
  BY <1>5, <1>6

\* The other requests, and the failures, change nothing that matters.
LEMMA RequestsKeep ==
  ASSUME BuildConstants, BuildInv,
         ComputeTombstoneBlock \/ FetchFogReports \/ RequestFails
  PROVE  BuildInv'
<1>1. /\ call \in {"proofs", "rings", "tombstone", "reports", "build"}
      /\ call' = "failed" \/ (call \in {"tombstone", "reports"} /\ call' \in {"reports", "build"})
      /\ UNCHANGED <<selection_vars, request_vars, rings>>
      /\ UNCHANGED <<result, selection>>
  BY DEF ComputeTombstoneBlock, FetchFogReports, RequestFails, selection_vars
<1>2. SelectionInv' /\ RequestInv'
  BY <1>1, SelectionKept
<1>3. StageInv'
  BY <1>1 DEF BuildInv, StageInv, Rings
<1> QED
  BY <1>1, <1>2, <1>3 DEF BuildInv, RingsWellFormed, ValueConserved, FailuresJustified

\* The transaction is put together.
LEMMA BuildTransactionHelperKeeps ==
  ASSUME BuildConstants, BuildInv, BuildTransactionHelper
  PROVE  BuildInv'
<1>1. /\ call = "build" /\ UNCHANGED <<selection_vars, request_vars, rings>>
      /\ UNCHANGED <<tx_values, result, selection, value, global_index, payment, fee>>
  BY DEF BuildTransactionHelper, selection_vars, request_vars
<1>2. /\ selection = "ok"
      /\ Len(rings) = IF ring_size = 0 THEN 0 ELSE Len(result)
      /\ \A r \in 1..Len(rings) : rings[r] \in Rings
  BY <1>1 DEF BuildInv, StageInv
<1>3. SelectionInv' /\ RequestInv'
  BY <1>1, SelectionKept
<1>4. call' \in {"rings_for_input", "insufficient_funds", "built"}
  BY DEF BuildTransactionHelper
<1>5. StageInv'
  BY <1>1, <1>2, <1>4 DEF StageInv
<1>6. /\ Len(result) \in Nat /\ DOMAIN result = 1..Len(result) /\ value \in Nat
      /\ payment \in Nat /\ fee \in Nat /\ amount = payment + MINIMUM_FEE
      /\ MINIMUM_FEE \in Nat
  BY DEF BuildConstants, BuildInv, SelectionInv, SelectionTypeOK, RequestInv
<1>7. value >= amount /\ TotalOf(tx_values, Chosen) = value
  BY <1>2 DEF BuildInv, SelectionInv, SelectionCorrect
<1>8. FailuresJustified'
  <2>1. call' = "rings_for_input" => ring_size = 0
    BY <1>2 DEF BuildTransactionHelper
  <2>2. call' = "insufficient_funds" => fee > MINIMUM_FEE
    <3>1. call' = "insufficient_funds" => payment + fee > value
      BY SMTT(30) DEF BuildTransactionHelper
    <3> QED
      BY <1>6, <1>7, <3>1, SMTT(30)
  <2> QED
    BY <1>1, <1>4, <2>1, <2>2 DEF FailuresJustified
<1>9. CASE call' # "built"
  BY <1>3, <1>5, <1>8, <1>9 DEF BuildInv, RingsWellFormed, ValueConserved
<1>10. CASE call' = "built"
  <2>1. /\ Len(rings) = Len(result) /\ payment + fee <= value
        /\ tx' = [inputs |-> [n \in DOMAIN result |->
                                WithInput(rings[Len(rings) + 1 - n], Input(n))],
                  amount |-> payment,
                  change |-> value - (payment + fee)]
    BY <1>10 DEF BuildTransactionHelper
  <2>2. ValueConserved'
    <3>1. Chosen' = Chosen
      BY <1>1 DEF Chosen
    <3>2. payment + (value - (payment + fee)) + fee = value /\ value - (payment + fee) >= 0
      BY <1>6, <2>1
    <3>3. tx'.amount = payment /\ tx'.change = value - (payment + fee)
      BY <2>1, SMTT(30)
    <3> QED
      BY <1>1, <1>7, <3>1, <3>2, <3>3 DEF ValueConserved
  <2>3. RingsWellFormed'
    <3> SUFFICES ASSUME NEW n \in DOMAIN result
                 PROVE  LET in == tx'.inputs[n]
                        IN  /\ DOMAIN in.ring = 1..ring_size
                            /\ in.real_index \in 1..ring_size
                            /\ in.ring[in.real_index] = Input(n)
                            /\ \A a, b \in 1..ring_size : in.ring[a] = in.ring[b] => a = b
                            /\ \A m \in DOMAIN result : Input(m) = Input(n) => m = n
      BY <1>1 DEF RingsWellFormed, Input
    <3>1. Input(n) \in Nat /\ \A m \in DOMAIN result : Input(m) = Input(n) => m = n
      BY <1>2, InputsDiffer
    <3>2. ring_size # 0 /\ Len(rings) + 1 - n \in 1..Len(rings)
      BY <1>2, <1>6, <2>1
    <3>3. rings[Len(rings) + 1 - n] \in Rings
      BY <1>2, <3>2
    <3>4. tx'.inputs[n] = WithInput(rings[Len(rings) + 1 - n], Input(n))
      BY <2>1, SMTT(30)
    <3>5. /\ tx'.inputs[n].ring \in Rings /\ tx'.inputs[n].real_index \in 1..ring_size
          /\ tx'.inputs[n].ring[tx'.inputs[n].real_index] = Input(n)
      BY <3>1, <3>2, <3>3, <3>4, RingWithInput, SMTT(30)
    <3> QED
      BY <3>1, <3>5, SMTT(30) DEF Rings
  <2> QED
    BY <1>3, <1>5, <1>8, <2>2, <2>3, SMTT(30) DEF BuildInv
<1> QED
  BY <1>9, <1>10, SMTT(30)

\* The invariant holds throughout.
THEOREM BuildInvariant ==
  ASSUME BuildConstants
  PROVE  Spec => []BuildInv
<1>1. ASSUME Init PROVE BuildInv
  BY <1>1, BuildStarts
<1>2. ASSUME BuildInv, [Next]_vars PROVE BuildInv'
  <2>1. CASE UNCHANGED vars
    <3>1. UNCHANGED <<selection_vars, request_vars>>
      BY <2>1 DEF vars
    <3>2. UNCHANGED <<tx_values, result, selection, global_index, payment, fee,
                      latest_global_txo_count, call, server_txos, rings, tx>>
      BY <2>1 DEF vars, selection_vars, request_vars, build_vars
    <3>3. SelectionInv' /\ RequestInv'
      BY <1>2, <3>1, SelectionKept
    <3>4. StageInv'
      BY <1>2, <3>2, SMTT(30) DEF BuildInv, StageInv
    <3>5. RingsWellFormed'
      BY <1>2, <3>2, SMTT(30) DEF BuildInv, RingsWellFormed, Input
    <3>6. ValueConserved'
      BY <1>2, <3>2 DEF BuildInv, ValueConserved, Chosen
    <3>7. FailuresJustified'
      BY <1>2, <3>2 DEF BuildInv, FailuresJustified, Input
    <3> QED
      BY <3>3, <3>4, <3>5, <3>6, <3>7 DEF BuildInv
  <2> QED
    BY <1>2, <2>1, SelectKeeps, GetProofsKeeps, GetRingsKeeps, RequestsKeep,
       BuildTransactionHelperKeeps DEF Next
<1> QED
  BY <1>1, <1>2, PTL DEF Spec

\* Every transaction that build_transaction puts together hides each input in a
\* full ring without repetitions, and spends no TxOut twice.
THEOREM RingsAreWellFormed ==
  ASSUME BuildConstants
  PROVE  Spec => []RingsWellFormed
<1>1. BuildInv => RingsWellFormed
  BY DEF BuildInv
<1> QED
  BY <1>1, BuildInvariant, PTL

\* Inputs, outputs and fee of every transaction balance.
THEOREM ValueIsConserved ==
  ASSUME BuildConstants
  PROVE  Spec => []ValueConserved
<1>1. BuildInv => ValueConserved
  BY DEF BuildInv
<1> QED
  BY <1>1, BuildInvariant, PTL

\* Neither the selection nor the rings make build_transaction fail or panic:
\* that takes a fee above the minimum, or a ledger server that is behind.
THEOREM FailuresAreJustified ==
  ASSUME BuildConstants
  PROVE  Spec => []FailuresJustified
<1>1. BuildInv => FailuresJustified
  BY DEF BuildInv
<1> QED
  BY <1>1, BuildInvariant, PTL

=============================================================================
