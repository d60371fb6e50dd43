------------------------- MODULE SequenceResetProofs -------------------------
(***************************************************************************)
(* What a reset of sequences guarantees, for any sequences and values.     *)
(***************************************************************************)
EXTENDS SequenceReset, TLAPS

\* The sequences dealt with so far, also by a reset that failed later, are ahead.
ProgressInv ==
  /\ pc = "query" => found = {}
  /\ pc # "done" => result = "none"
  /\ \A s \in found \ seqs : Ahead(s)

IInv == TypeOK /\ ProgressInv

LEMMA LargestOfColumn ==
  ASSUME TypeOK, NEW s \in Seqs, column[s] # {}
  PROVE  /\ Largest(column[s]) \in column[s] /\ Largest(column[s]) \in Nat
         /\ \A u \in column[s] : u \in Nat /\ u <= Largest(column[s])
<1>1. column[s] \in SUBSET Value /\ Value \subseteq Nat
  BY SequenceAssumption DEF TypeOK
<1>2. \E v \in column[s] : \A u \in column[s] : u <= v
  BY <1>1, SequenceAssumption
<1>3. Largest(column[s]) \in column[s] /\ \A u \in column[s] : u <= Largest(column[s])
  BY <1>2 DEF Largest
<1> QED
  BY <1>1, <1>3

\* What SetVal writes is a state of a sequence that gives fresh values.
LEMMA TargetIsAhead ==
  ASSUME TypeOK, NEW s \in Seqs
  PROVE  /\ Target(s) \in [last_value : Nat, is_called : BOOLEAN]
         /\ \A v \in column[s] : v < Target(s).last_value + 1 /\ Target(s).is_called
<1>1. CASE column[s] # {}
  <2>1. Target(s) = [last_value |-> Largest(column[s]), is_called |-> TRUE]
    BY <1>1 DEF Target
  <2> QED
    BY <1>1, <2>1, LargestOfColumn
<1>2. CASE column[s] = {}
  <2>1. start[s] \in Nat
    BY DEF TypeOK
  <2>2. (IF start[s] - 1 < 0 THEN 0 ELSE start[s] - 1) \in Nat
    BY <2>1
  <2> QED
    BY <1>2, <2>2 DEF Target
<1> QED
  BY <1>1, <1>2

LEMMA SetValAhead ==
  ASSUME TypeOK, NEW s \in Seqs, SetVal(s), UNCHANGED column
  PROVE  /\ sequence' \in [Seqs -> [last_value : Nat, is_called : BOOLEAN]]
         /\ Ahead(s)'
         /\ \A r \in Seqs : r # s => Ahead(r)' = Ahead(r)
<1>1. sequence' = [sequence EXCEPT ![s] = Target(s)]
  BY DEF SetVal
<1>2. sequence' \in [Seqs -> [last_value : Nat, is_called : BOOLEAN]]
  BY <1>1, TargetIsAhead DEF TypeOK
<1>3. sequence'[s] = Target(s)
  BY <1>1 DEF TypeOK
<1>4. Ahead(s)'
  BY <1>3, TargetIsAhead DEF Ahead, NextVal
<1>5. ASSUME NEW r \in Seqs, r # s PROVE Ahead(r)' = Ahead(r)
  <2>1. sequence'[r] = sequence[r]
    BY <1>1, <1>5 DEF TypeOK
  <2> QED
    BY <2>1 DEF Ahead, NextVal
<1> QED
  BY <1>2, <1>4, <1>5

\* The step of an action on the sequences: nothing, or one set to its target.
LEMMA SequenceMoves ==
  ASSUME IInv, [Next]_vars
  PROVE  /\ UNCHANGED <<column, start>>
         /\ UNCHANGED sequence \/ \E s \in seqs : SetVal(s)
  BY DEF Next, QuerySequences, AlignSequence, vars

LEMMA InitIInv == Init => IInv
<1> SUFFICES ASSUME Init PROVE IInv
  OBVIOUS
<1>1. start \in [Seqs -> Nat] /\ sequence \in [Seqs -> [last_value : Nat, is_called : BOOLEAN]]
  BY SequenceAssumption DEF Init
<1> QED
  BY <1>1 DEF Init, IInv, TypeOK, ProgressInv

LEMMA NextIInv == IInv /\ [Next]_vars => IInv'
<1> SUFFICES ASSUME IInv, [Next]_vars PROVE IInv'
  OBVIOUS
<1>1. TypeOK /\ ProgressInv
  BY DEF IInv
<1>2. CASE QuerySequences
  <2>1. UNCHANGED <<column, start, onPath, sequence>> /\ seqs \subseteq found /\ found = {}
    BY <1>1, <1>2 DEF QuerySequences, TypeOK, ProgressInv
  <2>2. /\ seqs' \subseteq Seqs /\ found' = seqs'
        /\ pc' \in {"align", "done"} /\ result' \in {"none", "ok", "error"}
        /\ result' = "ok" => seqs' = {}
        /\ pc' # "done" => result' = "none"
    <3>1. pc = "query" /\ seqs = {} /\ result \in {"none", "ok", "error"}
      BY <1>1, <1>2, <2>1 DEF QuerySequences, TypeOK
    <3>2. CASE Return("error") /\ UNCHANGED <<seqs, found>>
      BY <2>1, <3>1, <3>2 DEF Return
    <3>3. CASE /\ seqs' = NamedInFull /\ found' = seqs'
               /\ IF seqs' = {} THEN Return("ok") ELSE pc' = "align" /\ result' = result
      <4>1. seqs' \subseteq Seqs
        BY <3>3 DEF NamedInFull
      <4> QED
        BY <1>1, <2>1, <3>1, <3>3, <4>1 DEF Return, TypeOK, ProgressInv
    <3> QED
      BY <1>2, <3>2, <3>3 DEF QuerySequences
  <2>3. TypeOK'
    BY <1>1, <2>1, <2>2 DEF TypeOK
  <2> QED
    BY <1>2, <2>2, <2>3 DEF IInv, ProgressInv
<1>3. CASE AlignSequence
  <2>1. PICK s \in seqs :
          \/ /\ SetVal(s) /\ seqs' = seqs \ {s}
             /\ IF seqs' = {} THEN Return("ok") ELSE UNCHANGED <<pc, result>>
          \/ /\ Return("error") /\ UNCHANGED seqs
             /\ SetVal(s) \/ UNCHANGED sequence
    BY <1>3 DEF AlignSequence
  <2>2. UNCHANGED <<column, start, onPath, found>> /\ pc = "align" /\ s \in Seqs
    BY <1>1, <1>3, <2>1 DEF AlignSequence, TypeOK
  <2>3. sequence' \in [Seqs -> [last_value : Nat, is_called : BOOLEAN]]
    BY <1>1, <2>1, <2>2, SetValAhead DEF TypeOK
  <2>4. TypeOK'
    BY <1>1, <2>1, <2>2, <2>3 DEF TypeOK, Return
  <2>5. ASSUME NEW r \in found \ seqs' PROVE Ahead(r)'
    <3>1. r \in Seqs
      BY <1>1, <2>2, <2>5 DEF TypeOK
    <3>2. CASE SetVal(s) /\ r = s
      BY <1>1, <2>2, <3>2, SetValAhead
    <3>3. CASE SetVal(s) /\ r # s
      <4>1. r \in found \ seqs
        BY <2>1, <2>5, <3>3
      <4> QED
        BY <1>1, <2>2, <3>1, <3>3, <4>1, SetValAhead DEF ProgressInv
    <3>4. CASE UNCHANGED <<sequence, seqs>>
      BY <1>1, <2>2, <2>5, <3>4 DEF ProgressInv, Ahead, NextVal
    <3> QED
      BY <2>1, <2>5, <3>2, <3>3, <3>4
  <2>6. pc' # "query" /\ (pc' # "done" => result' = "none")
    BY <1>1, <2>1, <2>2 DEF Return, ProgressInv
  <2> QED
    BY <2>2, <2>4, <2>5, <2>6 DEF IInv, ProgressInv
<1>4. CASE UNCHANGED vars
  BY <1>1, <1>4 DEF vars, IInv, TypeOK, ProgressInv, Ahead, NextVal
<1> QED
  BY <1>2, <1>3, <1>4 DEF Next

\* The invariant of a reset is inductive.
THEOREM ResetInductive == Spec => []IInv
  BY InitIInv, NextIInv, PTL DEF Spec

\* What a reset that returned no error found has fresh values to give.
THEOREM FoundGiveFreshValues == Spec => []FoundAreAhead
<1>1. IInv => FoundAreAhead
  BY DEF IInv, TypeOK, ProgressInv, FoundAreAhead
<1> QED
  BY ResetInductive, <1>1, PTL

\* No step of a reset, also of one that fails, makes a sequence worse.
THEOREM ResetSpoilsNothing == Spec => NoSequenceSpoilt
<1>1. IInv /\ [Next]_vars => [StaysAhead]_vars
  <2> SUFFICES ASSUME IInv, [Next]_vars, NEW r \in Seqs, Ahead(r) PROVE Ahead(r)'
    BY DEF StaysAhead
  <2>1. CASE UNCHANGED sequence
    BY <2>1, SequenceMoves DEF Ahead, NextVal
  <2>2. ASSUME NEW s \in seqs, SetVal(s) PROVE Ahead(r)'
    <3>1. s \in Seqs /\ UNCHANGED column /\ TypeOK
      BY <2>2, SequenceMoves DEF IInv, TypeOK
    <3> QED
      BY <2>2, <3>1, SetValAhead
  <2> QED
    BY <2>1, <2>2, SequenceMoves
<1> QED
  BY ResetInductive, <1>1, PTL DEF Spec, NoSequenceSpoilt
=============================================================================
