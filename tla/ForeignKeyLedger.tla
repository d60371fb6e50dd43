-------------------------- MODULE ForeignKeyLedger --------------------------
(***************************************************************************)
(* What pgcopy promises about the foreign keys of the target database:     *)
(* a key may be missing only while a durable ledger holds its definition.  *)
(* The ledger is rewritten or erased only when no key is missing, so there *)
(* is never an instant at which killing the process loses a key.           *)
(* ForeignKeys implements this specification.                              *)
(***************************************************************************)
CONSTANT FK                  \* the foreign keys of the target database

VARIABLES present,           \* the keys that exist in the database
          ledger             \* the keys whose definition is durably recorded

vars == <<present, ledger>>

Init == present = FK /\ ledger = {}

\* With every key in place the ledger may be written anew, or erased.
Rewrite == /\ present = FK
           /\ ledger' \in SUBSET FK
           /\ UNCHANGED present

\* Only a recorded key may be dropped.
Drop(f) == /\ f \in ledger
           /\ present' = present \ {f}
           /\ UNCHANGED ledger

Restore(f) == /\ present' = present \union {f}
              /\ UNCHANGED ledger

Next == Rewrite \/ \E f \in FK : Drop(f) \/ Restore(f)

Spec == Init /\ [][Next]_vars

\* Nothing is lost: each key exists or can be recreated from the ledger.
NothingLost == present \union ledger = FK
=============================================================================
