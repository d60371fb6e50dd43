---------------------------- MODULE SequenceReset ----------------------------
(***************************************************************************)
(* resetSequencesForTable (internal/copier/sequence.go): after a table is  *)
(* loaded, the sequences behind its columns are set so that the next value *)
(* is a fresh one.  copyTable only logs an error of it.  Columns hold the  *)
(* loaded values; NULLs do not matter to MAX and are left out.             *)
(***************************************************************************)
EXTENDS Integers

CONSTANTS Seqs,     \* the sequences that back columns of the table
          Value,    \* the values a column may hold
          MinValue  \* MINVALUE of the sequences, 1 unless declared otherwise

\* Values are integers of a bounded width, so that a column has a largest one.
ASSUME SequenceAssumption ==
  /\ Value \subseteq Nat /\ MinValue \in Value
  /\ \A values \in SUBSET Value :
       values # {} => \E v \in values : \A u \in values : u <= v

VARIABLES
  column,   \* values in the column each sequence backs
  start,    \* START of each sequence
  onPath,   \* sequences in a schema of the search_path
  sequence, \* last_value and is_called of each
  pc,       \* control of resetSequencesForTable
  seqs,     \* rows of its query yet to be dealt with
  found,    \* history: all rows of its query
  result    \* what it returned

vars == <<column, start, onPath, sequence, pc, seqs, found, result>>

\* nextval, with INCREMENT 1.
NextVal(s) == IF sequence[s].is_called THEN sequence[s].last_value + 1
              ELSE sequence[s].last_value

Largest(values) == CHOOSE v \in values : \A u \in values : u <= v

Init ==
  /\ column \in [Seqs -> SUBSET Value]
  /\ start \in [Seqs -> {v \in Value : v >= MinValue}]
  /\ onPath \in SUBSET Seqs
  /\ sequence \in [Seqs -> [last_value : {v \in Value : v >= MinValue}, is_called : BOOLEAN]]
  /\ pc = "query" /\ seqs = {} /\ found = {} /\ result = "none"

Return(answer) == pc' = "done" /\ result' = answer

\* The join of seqs with pg_sequences compares schemaname.sequencename with
\* the text of a regclass, which names the schema only when the search_path
\* does not lead to the sequence.
NamedInFull == Seqs \ onPath

QuerySequences ==
  /\ pc = "query"
  /\ \/ /\ seqs' = NamedInFull /\ found' = seqs'
        /\ IF seqs' = {} THEN Return("ok") ELSE pc' = "align" /\ result' = result
     \/ Return("error") /\ UNCHANGED <<seqs, found>>
  /\ UNCHANGED <<column, start, onPath, sequence>>

\* Mutant of Target: the largest value is handed out again.
TargetNotCalled(s) == [last_value |-> IF column[s] # {} THEN Largest(column[s]) ELSE start[s],
                       is_called |-> FALSE]

\* Mutant of Target: the sequence goes back to its start.
TargetStart(s) == [last_value |-> start[s], is_called |-> FALSE]

\* setTo and isCalled.
Target(s) ==
  IF column[s] # {} THEN [last_value |-> Largest(column[s]), is_called |-> TRUE]
  ELSE [last_value |-> IF start[s] - 1 < 0 THEN 0 ELSE start[s] - 1, is_called |-> FALSE]

\* setval, which takes effect at once, and rejects a value out of bounds.
SetVal(s) == /\ Target(s).last_value >= MinValue
             /\ sequence' = [sequence EXCEPT ![s] = Target(s)]

AlignSequence ==
  /\ pc = "align"
  /\ \E s \in seqs :
       \/ /\ SetVal(s)
          /\ seqs' = seqs \ {s}
          /\ IF seqs' = {} THEN Return("ok") ELSE UNCHANGED <<pc, result>>
       \/ /\ Return("error")   \* and the sequences after it are left alone
          /\ UNCHANGED seqs
          /\ SetVal(s) \/ UNCHANGED sequence
  /\ UNCHANGED <<column, start, onPath, found>>

Next == QuerySequences \/ AlignSequence

Spec == Init /\ [][Next]_vars

-----------------------------------------------------------------------------
(* Properties.                                                             *)

\* Types; and only a reset that dealt with every row of its query returns "ok".
TypeOK ==
  /\ result = "ok" => seqs = {}
  /\ column \in [Seqs -> SUBSET Value] /\ start \in [Seqs -> Nat]
  /\ sequence \in [Seqs -> [last_value : Nat, is_called : BOOLEAN]]
  /\ {onPath, seqs, found} \subseteq SUBSET Seqs /\ seqs \subseteq found
  /\ pc \in {"query", "align", "done"} /\ result \in {"none", "ok", "error"}

Ahead(s) == \A v \in column[s] : v < NextVal(s)

\* What a reset that returned no error found has fresh values to give.
FoundAreAhead == result = "ok" => \A s \in found : Ahead(s)

StaysAhead == \A s \in Seqs : Ahead(s) => Ahead(s)'
\* A reset, also one that fails in the middle or whose answers are lost, makes
\* no sequence worse than it was: one that gave fresh values goes on doing so.
NoSequenceSpoilt == [][StaysAhead]_vars

\* The comment of resetSequencesForTable: nextval() continues from
\* MAX(column).
ContinuesFromMax ==
  result = "ok" => \A s \in Seqs : column[s] # {} => NextVal(s) = Largest(column[s]) + 1
=============================================================================
