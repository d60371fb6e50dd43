--------------------------- MODULE TableCopyProofs ---------------------------
(***************************************************************************)
(* What TableCopy promises, for any rows, batches and changes of the       *)
(* source, and whatever fails: the streaming copy is atomic, a copy that   *)
(* returns no error is complete, no row is written twice, the batches of a *)
(* snapshot leave a prefix of it, and progress counts each row once.  And  *)
(* why copyTable and its goroutines end.                                   *)
(***************************************************************************)
EXTENDS TableCopy, SetLemmas

-----------------------------------------------------------------------------
(* The rows that are read: First.                                          *)

(* The rows before r in the order they are read. *)
Before(r, S) == {q \in S : q < r}

(* Sets of rows are finite sets of positive numbers. *)
LEMMA RowSets ==
  ASSUME NEW S, S \subseteq Row
  PROVE  /\ IsFiniteSet(S) /\ Cardinality(S) \in Nat
         /\ \A r \in S : r \in Nat /\ r > 0
         /\ \A T : T \subseteq S => /\ IsFiniteSet(T) /\ Cardinality(T) \in Nat
                                    /\ Cardinality(T) <= Cardinality(S)
<1>1. IsFiniteSet(Row) /\ \A r \in Row : r \in Nat /\ r > 0
  BY TableCopyAssumption
<1>2. IsFiniteSet(S)
  BY <1>1, FS_Subset
<1>3. ASSUME NEW T, T \subseteq S
      PROVE  /\ IsFiniteSet(T) /\ Cardinality(T) \in Nat
             /\ Cardinality(T) <= Cardinality(S)
  BY <1>2, <1>3, FS_Subset, FS_CardinalityType
<1> QED
  BY <1>1, <1>2, <1>3, FS_CardinalityType

LEMMA FirstDef ==
  ASSUME NEW n, NEW S
  PROVE  First(n, S) = {r \in S : Cardinality(Before(r, S)) < n}
BY DEF First, Before

(* What is read first is a prefix. *)
LEMMA FirstIsPrefix ==
  ASSUME NEW n \in Nat, NEW S, S \subseteq Row
  PROVE  /\ First(n, S) \subseteq S
         /\ \A r \in First(n, S) : \A q \in S : q < r => q \in First(n, S)
<1>1. ASSUME NEW r \in S, NEW q \in S, q < r, Cardinality(Before(r, S)) < n
      PROVE  Cardinality(Before(q, S)) < n
  <2>1. Before(q, S) \subseteq Before(r, S)
    BY <1>1, RowSets DEF Before
  <2>2. Before(r, S) \subseteq S
    BY DEF Before
  <2>3. /\ Cardinality(Before(q, S)) \in Nat /\ Cardinality(Before(r, S)) \in Nat
        /\ Cardinality(Before(q, S)) <= Cardinality(Before(r, S))
    <3>1. Before(r, S) \subseteq Row
      BY <2>2
    <3> QED
      BY <3>1, <2>1, RowSets
  <2> QED
    BY <1>1, <2>3
<1> QED
  BY <1>1, FirstDef

(* A read returns no more than it asks for, ... *)
LEMMA FirstIsBounded ==
  ASSUME NEW n \in Nat, NEW S, S \subseteq Row
  PROVE  IsFiniteSet(First(n, S)) /\ Cardinality(First(n, S)) \in 0..n
<1> DEFINE A == First(n, S)
<1>1. A \subseteq S /\ \A r \in A : \A q \in S : q < r => q \in A
  BY FirstIsPrefix
<1>2. IsFiniteSet(A) /\ \A r \in A : r \in Nat
  BY <1>1, RowSets
<1>3. CASE A = {}
  BY <1>3, <1>2, FS_EmptySet
<1>4. CASE A # {}
  <2>1. PICK m \in A : \A x \in A : x <= m
    <3> HIDE DEF A
    <3> QED
      BY <1>2, <1>4, GreatestOf
  <2>2. A = Before(m, S) \union {m} /\ m \notin Before(m, S)
    <3>1. \A q \in S : q \in Nat
      BY RowSets
    <3>2. m \in S /\ \A q \in S : q < m => q \in A
      BY <1>1
    <3>3. \A q \in A : q \in S /\ (q < m \/ q = m)
      BY <2>1, <1>1, <3>1
    <3> HIDE DEF A
    <3> QED
      BY <3>1, <3>2, <3>3 DEF Before
  <2>3. IsFiniteSet(Before(m, S)) /\ Cardinality(Before(m, S)) \in Nat
    BY RowSets DEF Before
  <2>4. Cardinality(Before(m, S)) < n
    BY <2>1, FirstDef
  <2>5. Cardinality(A) = Cardinality(Before(m, S)) + 1
    <3> HIDE DEF A
    <3> QED
      BY <2>2, <2>3, FS_AddElement
  <2>6. Cardinality(A) \in 0..n
    <3> HIDE DEF A
    <3> QED
      BY <2>3, <2>4, <2>5
  <2> QED
    BY <1>2, <2>6
<1> QED
  BY <1>3, <1>4

(* ... and only the last read returns less. *)
LEMMA FirstIsAll ==
  ASSUME NEW n \in Nat, NEW S, S \subseteq Row, Cardinality(First(n, S)) < n
  PROVE  First(n, S) = S
<1> DEFINE A == First(n, S)
           R == S \ A
<1>1. A \subseteq S /\ \A r \in A : \A q \in S : q < r => q \in A
  BY FirstIsPrefix
<1> SUFFICES ASSUME R # {} PROVE FALSE
  BY <1>1
<1>2. IsFiniteSet(R) /\ \A r \in R : r \in Nat
  BY RowSets
<1>3. PICK m \in R : \A x \in R : m <= x
  <2> HIDE DEF R
  <2> QED
    BY <1>2, LeastOf
<1>4. Before(m, S) \subseteq A
  BY <1>3, RowSets DEF Before
<1>5. Cardinality(Before(m, S)) <= Cardinality(A) /\ Cardinality(A) \in Nat
      /\ Cardinality(Before(m, S)) \in Nat
  <2>1. A \subseteq Row
    BY <1>1
  <2> HIDE DEF A
  <2> QED
    BY <2>1, <1>4, RowSets
<1>6. Cardinality(Before(m, S)) < n
  <2> HIDE DEF R
  <2> QED
    BY <1>5
<1> QED
  BY <1>3, <1>6, FirstDef

(* Reading on after the first n rows. *)
LEMMA FirstThenMore ==
  ASSUME NEW n \in Nat, NEW k \in Nat, NEW S, S \subseteq Row
  PROVE  First(n + k, S) = First(n, S) \union First(k, S \ First(n, S))
<1> DEFINE A == First(n, S)
           R == S \ A
<1>1. A \subseteq S /\ \A r \in A : \A q \in S : q < r => q \in A
  BY FirstIsPrefix
<1>2. IsFiniteSet(A) /\ Cardinality(A) \in 0..n
  BY FirstIsBounded
<1>3. ASSUME NEW r \in A
      PROVE  r \in First(n + k, S)
  <2>1. Cardinality(Before(r, S)) < n /\ r \in S
    BY <1>3, FirstDef
  <2>2. Cardinality(Before(r, S)) \in Nat
    BY RowSets DEF Before
  <2> QED
    BY <2>1, <2>2, FirstDef
<1>4. ASSUME NEW r \in R
      PROVE  r \in First(n + k, S) <=> r \in First(k, R)
  <2>1. Before(r, S) = A \union Before(r, R) /\ A \intersect Before(r, R) = {}
    BY <1>1, RowSets DEF Before
  <2>2. IsFiniteSet(Before(r, R)) /\ Cardinality(Before(r, R)) \in Nat
    BY RowSets DEF Before
  <2>3. Cardinality(Before(r, S)) = Cardinality(A) + Cardinality(Before(r, R))
    <3> HIDE DEF A, R
    <3> QED
      BY <2>1, <2>2, <1>2, CardinalityDisjoint
  <2>4. Cardinality(A) = n
    <3>1. Cardinality(A) < n => A = S
      BY FirstIsAll
    <3> QED
      BY <3>1, <1>2
  <2>5. Cardinality(Before(r, S)) < n + k <=> Cardinality(Before(r, R)) < k
    <3> HIDE DEF A, R
    <3> QED
      BY <2>2, <2>3, <2>4
  <2> QED
    BY <2>5, FirstDef
<1>5. First(n + k, S) \subseteq S /\ First(k, R) \subseteq R
  BY FirstDef
<1> HIDE DEF A
<1>6. First(n + k, S) = A \union First(k, R)
  BY <1>1, <1>3, <1>4, <1>5
<1> QED
  BY <1>6 DEF A

-----------------------------------------------------------------------------
(* The destination: Contents, Add, Exactly.                                *)

(* What inserting rows does to each row. *)
LEMMA AddIsContents ==
  ASSUME NEW c \in Contents, NEW T
  PROVE  /\ Add(c, T) \in Contents /\ Add(c, T).old = c.old
         /\ \A r \in Row : Add(c, T).rows[r] = IF r \in T THEN c.rows[r] + 1 ELSE c.rows[r]
<1> DEFINE after == [r \in Row |-> c.rows[r] + (IF r \in T THEN 1 ELSE 0)]
<1>1. c.rows \in [Row -> Nat] /\ c.old \in BOOLEAN
  BY DEF Contents
<1>2. after \in [Row -> Nat]
  BY <1>1
<1>3. Add(c, T) = [old |-> c.old, rows |-> after]
  BY DEF Add
<1>4. \A r \in Row : after[r] = IF r \in T THEN c.rows[r] + 1 ELSE c.rows[r]
  BY <1>1
<1> HIDE DEF after
<1> QED
  BY <1>1, <1>2, <1>3, <1>4 DEF Contents

LEMMA EmptyContents ==
  /\ Untouched \in Contents /\ Untouched.old /\ \A r \in Row : Untouched.rows[r] = 0
  /\ Emptied \in Contents /\ ~Emptied.old /\ \A r \in Row : Emptied.rows[r] = 0
BY DEF Untouched, Emptied, Contents

LEMMA ExactlyContents ==
  ASSUME NEW S
  PROVE  /\ Exactly(S) \in Contents /\ ~Exactly(S).old
         /\ \A r \in Row : Exactly(S).rows[r] = IF r \in S THEN 1 ELSE 0
BY EmptyContents, AddIsContents DEF Exactly

(* Contents are equal when they agree on every row. *)
LEMMA SameContents ==
  ASSUME NEW c \in Contents, NEW d \in Contents, c.old = d.old,
         \A r \in Row : c.rows[r] = d.rows[r]
  PROVE  c = d
<1>1. c.rows = d.rows
  BY DEF Contents
<1> QED
  BY <1>1 DEF Contents

(* Inserting rows that are not there yet. *)
LEMMA AddToExactly ==
  ASSUME NEW S, NEW T, S \intersect T = {}
  PROVE  Add(Exactly(S), T) = Exactly(S \union T)
<1> DEFINE c == Add(Exactly(S), T)
           d == Exactly(S \union T)
<1>1. c \in Contents /\ d \in Contents /\ c.old = FALSE /\ d.old = FALSE
  BY AddIsContents, ExactlyContents, Zenon DEF Contents
<1>2. ASSUME NEW r \in Row
      PROVE  c.rows[r] = d.rows[r]
  <2>1. c.rows[r] = IF r \in T THEN Exactly(S).rows[r] + 1 ELSE Exactly(S).rows[r]
    BY AddIsContents, ExactlyContents
  <2>2. Exactly(S).rows[r] = IF r \in S THEN 1 ELSE 0
    BY ExactlyContents
  <2>3. d.rows[r] = IF r \in S \union T THEN 1 ELSE 0
    BY ExactlyContents
  <2> HIDE DEF c, d
  <2> QED
    BY <2>1, <2>2, <2>3
<1> HIDE DEF c, d
<1>3. c = d
  BY <1>1, <1>2, SameContents
<1> QED
  BY <1>3 DEF c, d

(* Inserting in two statements is inserting once. *)
LEMMA AddTwice ==
  ASSUME NEW c \in Contents, NEW S, NEW T, S \intersect T = {}
  PROVE  Add(Add(c, S), T) = Add(c, S \union T)
<1>1. /\ Add(c, S) \in Contents /\ Add(Add(c, S), T) \in Contents
      /\ Add(c, S \union T) \in Contents
      /\ Add(Add(c, S), T).old = Add(c, S \union T).old
  BY AddIsContents
<1>2. ASSUME NEW r \in Row
      PROVE  Add(Add(c, S), T).rows[r] = Add(c, S \union T).rows[r]
  <2>1. Add(Add(c, S), T).rows[r]
          = IF r \in T THEN Add(c, S).rows[r] + 1 ELSE Add(c, S).rows[r]
    BY <1>1, AddIsContents
  <2>2. Add(c, S).rows[r] = IF r \in S THEN c.rows[r] + 1 ELSE c.rows[r]
    BY AddIsContents
  <2>3. Add(c, S \union T).rows[r]
          = IF r \in S \union T THEN c.rows[r] + 1 ELSE c.rows[r]
    BY AddIsContents
  <2> QED
    BY <2>1, <2>2, <2>3
<1> QED
  BY <1>1, <1>2, SameContents

LEMMA AddNothing ==
  ASSUME NEW c \in Contents
  PROVE  Add(c, {}) = c
<1>1. Add(c, {}) \in Contents /\ Add(c, {}).old = c.old
      /\ \A r \in Row : Add(c, {}).rows[r] = c.rows[r]
  BY AddIsContents
<1> QED
  BY <1>1, SameContents

-----------------------------------------------------------------------------
(* The number of rows: Size.                                               *)

\* The set that Size counts.
Copies(c) == UNION {{r} \X (1..c.rows[r]) : r \in Row}

LEMMA InCopies ==
  ASSUME NEW c, NEW x
  PROVE  x \in Copies(c) <=> \E r \in Row : \E i \in 1..c.rows[r] : x = <<r, i>>
BY DEF Copies

LEMMA CopiesFinite ==
  ASSUME NEW c \in Contents
  PROVE  IsFiniteSet(Copies(c)) /\ Size(c) \in Nat
<1> DEFINE of == [r \in Row |-> {r} \X (1..c.rows[r])]
           D == {{r} \X (1..c.rows[r]) : r \in Row}
<1>1. IsFiniteSet(Row)
  BY TableCopyAssumption
<1>2. of \in Surjection(Row, D)
  BY DEF Surjection
<1>3. IsFiniteSet(D)
  <2> HIDE DEF of, D
  <2> QED
    BY <1>1, <1>2, FS_Surjection
<1>4. \A T \in D : IsFiniteSet(T)
  <2>1. ASSUME NEW r \in Row
        PROVE  IsFiniteSet({r} \X (1..c.rows[r]))
    <3>1. c.rows[r] \in Nat
      BY DEF Contents
    <3>2. \A n \in Nat : IsFiniteSet(1..n)
      BY FS_Interval
    <3>3. IsFiniteSet({r})
      BY FS_Singleton
    <3>4. IsFiniteSet(1..c.rows[r])
      BY <3>1, <3>2
    <3> QED
      BY <3>3, <3>4, FS_Product
  <2> QED
    BY <2>1
<1>5. IsFiniteSet(UNION D)
  <2> HIDE DEF D
  <2> QED
    BY <1>3, <1>4, FS_UNION
<1> QED
  BY <1>5, FS_CardinalityType DEF Copies, Size

(* Every row inserted counts once. *)
LEMMA SizeAdd ==
  ASSUME NEW c \in Contents, NEW T, T \subseteq Row
  PROVE  Size(Add(c, T)) = Size(c) + Cardinality(T)
<1> DEFINE f == [r \in T |-> <<r, c.rows[r] + 1>>]
           N == {<<r, c.rows[r] + 1>> : r \in T}
           d == Add(c, T)
<1>1. \A r \in Row : c.rows[r] \in Nat
  BY DEF Contents
<1>2. \A r \in Row : d.rows[r] = IF r \in T THEN c.rows[r] + 1 ELSE c.rows[r]
  BY AddIsContents
<1>3. f \in Bijection(T, N)
  BY DEF Bijection, Injection, Surjection, IsInjective
<1>4. IsFiniteSet(N) /\ Cardinality(N) = Cardinality(T)
  <2>1. IsFiniteSet(T)
    BY RowSets
  <2> HIDE DEF f, N
  <2> QED
    BY <1>3, <2>1, FS_Bijection DEF ExistsBijection
<1>5. Copies(c) \intersect N = {}
  <2> SUFFICES ASSUME NEW r \in T, <<r, c.rows[r] + 1>> \in Copies(c)
               PROVE  FALSE
    OBVIOUS
  <2>1. PICK q \in Row : \E i \in 1..c.rows[q] : <<r, c.rows[r] + 1>> = <<q, i>>
    BY InCopies
  <2>2. r = q /\ c.rows[r] + 1 \in 1..c.rows[r]
    BY <2>1
  <2> QED
    BY <1>1, <2>2
<1>6. Copies(d) = Copies(c) \union N
  <2> HIDE DEF d
  <2>1. ASSUME NEW x \in Copies(c) PROVE x \in Copies(d)
    <3>1. PICK r \in Row : \E i \in 1..c.rows[r] : x = <<r, i>>
      BY InCopies
    <3>2. PICK i \in 1..c.rows[r] : x = <<r, i>>
      BY <3>1
    <3>3. i \in 1..d.rows[r]
      BY <1>1, <1>2
    <3> QED
      BY <3>2, <3>3, InCopies
  <2>2. ASSUME NEW x \in N PROVE x \in Copies(d)
    <3>1. PICK r \in T : x = <<r, c.rows[r] + 1>>
      OBVIOUS
    <3>2. c.rows[r] + 1 \in 1..d.rows[r]
      BY <1>1, <1>2
    <3> QED
      BY <3>1, <3>2, InCopies
  <2>3. ASSUME NEW x \in Copies(d) PROVE x \in Copies(c) \union N
    <3>1. PICK r \in Row : \E i \in 1..d.rows[r] : x = <<r, i>>
      BY InCopies
    <3>2. PICK i \in 1..d.rows[r] : x = <<r, i>>
      BY <3>1
    <3>3. CASE i \in 1..c.rows[r]
      BY <3>2, <3>3, InCopies
    <3>4. CASE i \notin 1..c.rows[r]
      <4>1. r \in T /\ i = c.rows[r] + 1
        BY <1>1, <1>2, <3>4
      <4> QED
        BY <3>2, <4>1
    <3> QED
      BY <3>3, <3>4
  <2> QED
    BY <2>1, <2>2, <2>3
<1>7. IsFiniteSet(Copies(c))
  BY CopiesFinite
<1>8. Cardinality(Copies(d)) = Cardinality(Copies(c)) + Cardinality(N)
  <2> HIDE DEF d, N
  <2> QED
    BY <1>4, <1>5, <1>6, <1>7, CardinalityDisjoint
<1> QED
  BY <1>4, <1>8 DEF Size, Copies

LEMMA SizeOfNothing == Size(Emptied) = 0
<1>1. Copies(Emptied) = {}
  <2> SUFFICES ASSUME NEW x \in Copies(Emptied) PROVE FALSE
    OBVIOUS
  <2>1. PICK r \in Row : \E i \in 1..Emptied.rows[r] : x = <<r, i>>
    BY InCopies
  <2> QED
    BY <2>1, EmptyContents
<1> QED
  BY <1>1, FS_EmptySet DEF Size, Copies

LEMMA EmptiedIsExactlyNone == Emptied = Exactly({})
BY EmptyContents, AddNothing DEF Exactly

-----------------------------------------------------------------------------
(* The inductive invariant: types, ...                                     *)

\* TypeOK, one variable at a time.
SetTypes ==
  /\ source \subseteq Row /\ view \subseteq Row /\ stable \subseteq Row
  /\ scanned \subseteq Row /\ toInsert \subseteq Row /\ toSend \subseteq Row
  /\ lastPK \in Row \union {0} /\ pipe \in Row \union {0}
  /\ dest \in Contents /\ tx \in Contents

ControlTypes ==
  /\ pc \in {"clear", "select", "insert", "open", "header", "copyin", "stop", "abort",
             "commit", "close", "done"}
  /\ result \in {"none", "ok", "error"}
  /\ writer \in {"none", "begin", "copying", "ended"}
  /\ pipeEnd \in {"open", "eof", "error"}
  /\ poller \in {"none", "waiting", "sampled", "ended"}

FlagTypes ==
  /\ config \in [useCopyPipe : BOOLEAN, compress : BOOLEAN, snapshot : BOOLEAN,
                 hasPK : BOOLEAN, replica : BOOLEAN]
  /\ snapped \in BOOLEAN /\ pipeRead \in BOOLEAN

NumberTypes ==
  /\ writes \in 0..MaxWrites /\ attempt \in 1..ClearAttempts /\ offset \in Nat
  /\ processed \in Nat /\ tracked \in Nat /\ synced \in Nat /\ shown \in Nat

\* The poller samples more rows than it counted before.
SampleInv == poller = "sampled" => tracked < processed

ConfigInv == config.useCopyPipe => ~config.snapshot /\ ~config.hasPK

\* ... the streaming copy, ...

\* The options do not change while a table is copied, and nothing of a
\* streaming copy is enabled in a legacy one.
StreamingPC == {"open", "header", "copyin", "stop", "abort", "commit", "close", "done"}

ModeInv ==
  config.useCopyPipe => /\ pc \in StreamingPC
                        /\ writer \in {"none", "begin", "copying", "ended"}

\* What the writer has delivered: the rows that are neither still to be sent
\* nor waiting in the pipe.
Delivered == (view \ toSend) \ {pipe}

\* The writer closes the pipe as ended only when it has delivered all, and
\* does nothing after it closed it.
WriterInv ==
  /\ view \subseteq Row /\ source \subseteq Row /\ toSend \subseteq view
  /\ pipe = 0 \/ (pipe \in view /\ pipe \notin toSend /\ pipe \in Row)
  /\ writer \in {"none", "begin"} => toSend = {} /\ pipe = 0 /\ view = {}
  /\ writer \in {"copying"} => snapped
  /\ writer # "ended" <=> pipeEnd = "open"
  /\ pipeEnd = "eof" => snapped /\ toSend = {} /\ pipe = 0

\* While it is being filled the transaction holds what was delivered; once
\* COPY IN has ended well that is everything.
FillInv ==
  /\ pc # "done" => pipeRead
  /\ pc \in {"header", "copyin", "stop", "commit"} => tx = Exactly(Delivered)
  /\ pc \in {"stop", "commit"} => pipeEnd = "eof"
  /\ pc = "open" => writer = "none"

DestInv ==
  \/ dest = Untouched
  \/ /\ pc \in {"close", "done"} /\ pipeEnd = "eof"
     /\ dest = Exactly(view)

\* The streaming copy counts what the poller has published, which is never
\* more than the transaction holds; with the commit, it counts all.
CountInv ==
  /\ result # "none" => pc \in {"close", "done"}
  /\ result # "ok" => synced = tracked /\ shown = tracked
  /\ pc = "open" => tracked = 0
  /\ pc \in {"open", "header"} => poller = "none"
  /\ pc \in {"commit", "close", "done"} => poller \in {"none", "ended"}
  /\ pc \in {"header", "copyin", "stop", "abort", "commit"} => tracked <= Size(tx)
  /\ poller = "sampled" => processed <= Size(tx)
  /\ result = "ok" => /\ synced = Size(dest) /\ shown = Size(dest)
                      /\ pipeEnd = "eof" /\ dest = Exactly(view)

StreamInv == config.useCopyPipe => WriterInv /\ FillInv /\ DestInv /\ CountInv

\* ... and the legacy copy.

\* The rows of the view that earlier batches have read.
Copied == IF config.hasPK THEN {r \in view : r <= lastPK} ELSE First(offset, view)

\* The legacy copy: where it is, what the transaction of a batch holds, and
\* what it has counted.
BatchInv ==
  /\ pc \in {"clear", "select", "insert", "done"} /\ writer = "none" /\ poller = "none"
  /\ stable \subseteq source
  /\ snapped => stable \subseteq view
  /\ ~snapped => view = {} /\ lastPK = 0 /\ offset = 0
  /\ pc = "clear" => ~snapped /\ dest = Untouched /\ shown = 0
  /\ pc \in {"select", "insert"} => ~dest.old /\ shown = Size(dest)
  /\ pc # "done" => result = "none"
  /\ pc = "insert" => /\ snapped /\ toInsert \subseteq scanned
                      /\ scanned = First(BatchSize, view \ Copied)
                      /\ tx = Add(dest, scanned \ toInsert)
  /\ synced = shown
  /\ result = "ok" => ~dest.old /\ shown = Size(dest)

Prefix(P, S) == P \subseteq S /\ \A r \in P : \A q \in S : q < r => q \in P

\* Inside the snapshot the batches partition the view.
SnapshotInv ==
  config.snapshot =>
    /\ pc \in {"select", "insert"} => dest = Exactly(Copied)
    /\ dest = Untouched \/ \E P \in SUBSET view : Prefix(P, view) /\ dest = Exactly(P)
    /\ result = "ok" => dest = Exactly(view)

\* Keyset pagination over a table that changes: what is copied lies behind the
\* cursor, and behind the cursor nothing that was there all the time is missing.
KeysetInv ==
  config.hasPK =>
    /\ \A r \in Row : dest.rows[r] <= 1
    /\ pc \in {"select", "insert"} =>
         /\ \A r \in Row : dest.rows[r] > 0 => r <= lastPK
         /\ \A r \in stable : r <= lastPK => dest.rows[r] > 0
    /\ result = "ok" => \A r \in stable : dest.rows[r] > 0

LegacyInv == ~config.useCopyPipe => BatchInv /\ SnapshotInv /\ KeysetInv

IInv == TypeOK /\ SampleInv /\ ConfigInv /\ ModeInv /\ StreamInv /\ LegacyInv

-----------------------------------------------------------------------------
(* Types.                                                                  *)

(* The options are read once. *)
LEMMA ConfigFixed == [Next]_vars => config' = config
BY DEF Next, Proceed, Writer, Poller, vars, SourceChanges, ClearDestinationTable, SelectBatch,
       InsertChunk, CommitBatch, OpenStream, ReadHeader, CopyRow, CopyInEnds, StopPoller,
       CommitStream, CloseStream, FailBatch, CopyInFails, BeginCopyOut, WriteRow, CopyOutEnds,
       CopyOutFails, PollSample, PollPublish, PollQuits, copyVars

(* The grouping loses nothing. *)
LEMMA TypesOneByOne == TypeOK <=> SetTypes /\ ControlTypes /\ FlagTypes /\ NumberTypes
<1>1. {snapped, pipeRead} \subseteq BOOLEAN <=> snapped \in BOOLEAN /\ pipeRead \in BOOLEAN
  BY Zenon
<1>2. {source, view, stable, scanned, toInsert, toSend} \subseteq SUBSET Row
        <=> /\ source \subseteq Row /\ view \subseteq Row /\ stable \subseteq Row
            /\ scanned \subseteq Row /\ toInsert \subseteq Row /\ toSend \subseteq Row
  BY Zenon
<1>3. {lastPK, pipe} \subseteq Row \union {0}
        <=> lastPK \in Row \union {0} /\ pipe \in Row \union {0}
  BY Zenon
<1>4. {processed, tracked, synced, shown} \subseteq Nat
        <=> processed \in Nat /\ tracked \in Nat /\ synced \in Nat /\ shown \in Nat
  BY Zenon
<1> QED
  BY <1>1, <1>2, <1>3, <1>4, Zenon
     DEF TypeOK, SetTypes, ControlTypes, FlagTypes, NumberTypes

LEMMA ControlTypesStep == ControlTypes /\ [Next]_vars => ControlTypes'
<1> SUFFICES ASSUME ControlTypes, [Next]_vars
             PROVE  ControlTypes'
  OBVIOUS
<1> USE DEF ControlTypes
<1>1. CASE SourceChanges
  BY <1>1 DEF SourceChanges, writerVars, pollVars
<1>2. CASE ClearDestinationTable \/ SelectBatch \/ InsertChunk \/ CommitBatch \/ FailBatch
  BY <1>2 DEF ClearDestinationTable, SelectBatch, InsertChunk, CommitBatch, FailBatch,
              FailLegacy, streamVars, writerVars, pollVars
<1>3. CASE OpenStream \/ ReadHeader \/ CopyRow \/ CopyInEnds \/ CopyInFails
  BY <1>3 DEF OpenStream, ReadHeader, CopyRow, CopyInEnds, CopyInFails, writerVars, pollVars
<1>4. CASE StopPoller \/ CommitStream \/ CloseStream
  BY <1>4 DEF StopPoller, CommitStream, CloseStream, writerVars, pollVars
<1>5. CASE Writer
  BY <1>5 DEF Writer, BeginCopyOut, WriteRow, CopyOutEnds, CopyOutFails, mainVars, pollVars
<1>6. CASE Poller
  BY <1>6 DEF Poller, PollSample, PollPublish, PollQuits, copyVars, writerVars
<1>7. CASE UNCHANGED vars
  BY <1>7 DEF vars, writerVars, pollVars
<1> QED
  BY <1>1, <1>2, <1>3, <1>4, <1>5, <1>6, <1>7 DEF Next, Proceed

LEMMA FlagTypesStep == FlagTypes /\ [Next]_vars => FlagTypes'
<1> SUFFICES ASSUME FlagTypes, [Next]_vars
             PROVE  FlagTypes'
  OBVIOUS
<1>1. config' = config
  BY ConfigFixed
<1>2. (snapped' = snapped \/ snapped' = TRUE) /\ (pipeRead' = pipeRead \/ pipeRead' = FALSE)
  BY DEF Next, Proceed, Writer, Poller, vars, SourceChanges, ClearDestinationTable, SelectBatch,
       InsertChunk, CommitBatch, OpenStream, ReadHeader, CopyRow, CopyInEnds, StopPoller,
       CommitStream, CloseStream, FailBatch, CopyInFails, BeginCopyOut, WriteRow, CopyOutEnds,
       CopyOutFails, PollSample, PollPublish, PollQuits, copyVars, streamVars, mainVars
<1> QED
  BY <1>1, <1>2, Zenon DEF FlagTypes

LEMMA SetTypesStep == SetTypes /\ [Next]_vars => SetTypes'
<1> SUFFICES ASSUME SetTypes, [Next]_vars
             PROVE  SetTypes'
  OBVIOUS
<1> USE DEF SetTypes
<1>1. CASE SourceChanges
  BY <1>1 DEF SourceChanges, batchVars, writerVars
<1>2. CASE ClearDestinationTable
  BY <1>2, EmptyContents DEF ClearDestinationTable, FailLegacy, streamVars, sourceVars, writerVars
<1>3. CASE SelectBatch
  <2>1. Visible \subseteq Row /\ NextBatch \subseteq Row
    BY DEF Visible, NextBatch, AfterCursor, First
  <2> QED
    BY <1>3, <2>1 DEF SelectBatch, streamVars, sourceVars, writerVars
<1>4. CASE InsertChunk
  BY <1>4, AddIsContents DEF InsertChunk, streamVars, sourceVars, writerVars
<1>5. CASE CommitBatch
  BY <1>5, EmptyContents DEF CommitBatch, streamVars, sourceVars, writerVars
<1>6. CASE FailBatch
  BY <1>6, EmptyContents DEF FailBatch, FailLegacy, streamVars, sourceVars, writerVars, batchVars
<1>7. CASE OpenStream
  BY <1>7, EmptyContents DEF OpenStream, sourceVars, batchVars
<1>8. CASE CopyRow
  BY <1>8, AddIsContents DEF CopyRow, sourceVars, batchVars, writerVars
<1>9. CASE ReadHeader \/ CopyInEnds \/ CopyInFails \/ StopPoller
  BY <1>9 DEF ReadHeader, CopyInEnds, CopyInFails, StopPoller, sourceVars, batchVars, writerVars
<1>10. CASE CommitStream \/ CloseStream
  BY <1>10, EmptyContents DEF CommitStream, CloseStream, sourceVars, batchVars, writerVars
<1>11. CASE Writer
  BY <1>11 DEF Writer, BeginCopyOut, WriteRow, CopyOutEnds, CopyOutFails, mainVars, sourceVars,
               batchVars, First
<1>12. CASE Poller
  BY <1>12 DEF Poller, PollSample, PollPublish, PollQuits, copyVars, sourceVars, batchVars,
               writerVars
<1>13. CASE UNCHANGED vars
  BY <1>13 DEF vars, sourceVars, batchVars, writerVars
<1> QED
  BY <1>1, <1>2, <1>3, <1>4, <1>5, <1>6, <1>7, <1>8, <1>9, <1>10, <1>11, <1>12, <1>13
     DEF Next, Proceed

(* The counters of the bar and of the state only grow, and the poller never  *)
(* publishes less than it did before.                                        *)
LEMMA NumberTypesStep ==
  SetTypes /\ NumberTypes /\ SampleInv /\ [Next]_vars => NumberTypes' /\ SampleInv'
<1> SUFFICES ASSUME SetTypes, NumberTypes, SampleInv, [Next]_vars
             PROVE  NumberTypes' /\ SampleInv'
  OBVIOUS
<1>1. LoadedRows \in Nat /\ Cardinality(scanned) \in Nat
  BY CopiesFinite, RowSets DEF SetTypes, LoadedRows
<1> HIDE DEF LoadedRows
<1>2. BatchSize \in Nat /\ ClearAttempts \in Nat /\ MaxWrites \in Nat
  BY TableCopyAssumption
<1> USE DEF NumberTypes, SampleInv
<1>3. CASE SourceChanges
  BY <1>2, <1>3 DEF SourceChanges, batchVars, pollVars, progress
<1>4. CASE ClearDestinationTable
  BY <1>2, <1>4 DEF ClearDestinationTable, RetryClear, sourceVars, streamVars, pollVars, progress
<1>5. CASE CommitBatch
  BY <1>1, <1>2, <1>5 DEF CommitBatch, NextOffset, sourceVars, streamVars, pollVars
<1>6. CASE SelectBatch \/ InsertChunk \/ FailBatch
  BY <1>6 DEF SelectBatch, InsertChunk, FailBatch, sourceVars, batchVars, streamVars, pollVars,
              progress
<1>7. CASE OpenStream \/ ReadHeader
  BY <1>7 DEF OpenStream, ReadHeader, sourceVars, batchVars, progress
<1>8. CASE CommitStream
  <2>1. UNCHANGED <<writes, attempt, offset, processed, tracked, poller>>
    BY <1>8 DEF CommitStream, sourceVars, batchVars, pollVars
  <2>2. synced' \in Nat /\ shown' \in Nat
    BY <1>1, <1>8 DEF CommitStream, progress
  <2> QED
    BY <2>1, <2>2
<1>9. CASE CopyRow \/ CopyInEnds \/ CopyInFails \/ StopPoller \/ CloseStream
  BY <1>9 DEF CopyRow, CopyInEnds, CopyInFails, StopPoller, CloseStream, sourceVars, batchVars,
              pollVars, progress
<1>10. CASE Writer
  BY <1>10 DEF Writer, BeginCopyOut, WriteRow, CopyOutEnds, CopyOutFails, mainVars, sourceVars,
               batchVars, pollVars, progress
<1>11. CASE PollSample
  BY <1>1, <1>11 DEF PollSample, copyVars, sourceVars, batchVars, progress
<1>12. CASE PollPublish \/ PollQuits
  BY <1>12 DEF PollPublish, PollQuits, copyVars, sourceVars, batchVars, progress
<1>13. CASE UNCHANGED vars
  BY <1>13 DEF vars, sourceVars, batchVars, pollVars, progress
<1> QED
  BY <1>3, <1>4, <1>5, <1>6, <1>7, <1>8, <1>9, <1>10, <1>11, <1>12, <1>13
     DEF Next, Proceed, Poller

LEMMA TypeStep == TypeOK /\ SampleInv /\ [Next]_vars => TypeOK' /\ SampleInv'
<1> SUFFICES ASSUME TypeOK, SampleInv, [Next]_vars
             PROVE  TypeOK' /\ SampleInv'
  OBVIOUS
<1>1. SetTypes /\ ControlTypes /\ FlagTypes /\ NumberTypes
  BY TypesOneByOne
<1>2. SetTypes' /\ ControlTypes' /\ FlagTypes' /\ NumberTypes' /\ SampleInv'
  BY <1>1, SetTypesStep, ControlTypesStep, FlagTypesStep, NumberTypesStep
<1>3. (TypeOK <=> SetTypes /\ ControlTypes /\ FlagTypes /\ NumberTypes)'
  BY TypesOneByOne, PTL
<1> QED
  BY <1>2, <1>3

LEMMA InitTypes == Init => TypeOK /\ SampleInv
<1> SUFFICES ASSUME Init PROVE TypeOK /\ SampleInv
  OBVIOUS
<1>1. SetTypes
  BY EmptyContents DEF Init, SetTypes
<1>2. ControlTypes /\ SampleInv
  BY DEF Init, ControlTypes, SampleInv
<1>3. FlagTypes
  BY Zenon DEF Init, FlagTypes
<1>4. NumberTypes
  BY TableCopyAssumption DEF Init, NumberTypes
<1> QED
  BY <1>1, <1>2, <1>3, <1>4, TypesOneByOne

(* Types, and the bounds of the counters.  See TypeOK.                       *)
THEOREM TableCopyTypeCorrect == Spec => []TypeOK
<1> QED
  BY InitTypes, TypeStep, PTL DEF Spec

-----------------------------------------------------------------------------
(* The steps of a streaming copy.                                          *)

(* A streaming copy stays one, and its writer keeps its control points. *)
LEMMA ModeStep == ModeInv /\ [Next]_vars => ModeInv'
<1> SUFFICES ASSUME ModeInv, [Next]_vars
             PROVE  ModeInv'
  OBVIOUS
<1> USE DEF ModeInv, StreamingPC
<1>1. CASE SourceChanges
  BY <1>1 DEF SourceChanges, writerVars
<1>2. CASE Proceed
  <2>1. CASE ClearDestinationTable
    BY <2>1 DEF ClearDestinationTable, FailLegacy, streamVars, writerVars
  <2>2. CASE SelectBatch
    BY <2>2 DEF SelectBatch, streamVars, writerVars
  <2>3. CASE InsertChunk
    BY <2>3 DEF InsertChunk, streamVars, writerVars
  <2>4. CASE CommitBatch
    BY <2>4 DEF CommitBatch, streamVars, writerVars
  <2>5. CASE OpenStream
    BY <2>5 DEF OpenStream
  <2>6. CASE ReadHeader
    BY <2>6 DEF ReadHeader, writerVars
  <2>7. CASE CopyRow
    BY <2>7 DEF CopyRow, writerVars
  <2>8. CASE CopyInEnds
    BY <2>8 DEF CopyInEnds, writerVars
  <2>9. CASE StopPoller
    BY <2>9 DEF StopPoller, writerVars
  <2>10. CASE CommitStream
    BY <2>10 DEF CommitStream, writerVars
  <2>11. CASE CloseStream
    BY <2>11 DEF CloseStream, writerVars
  <2> QED
    BY <1>2, <2>1, <2>2, <2>3, <2>4, <2>5, <2>6, <2>7, <2>8, <2>9, <2>10, <2>11 DEF Proceed
<1>3. CASE FailBatch
  BY <1>3 DEF FailBatch, FailLegacy, streamVars, writerVars
<1>4. CASE CopyInFails
  BY <1>4 DEF CopyInFails, writerVars
<1>5. CASE Writer
  BY <1>5 DEF Writer, BeginCopyOut, WriteRow, CopyOutEnds, CopyOutFails, mainVars
<1>6. CASE Poller
  BY <1>6 DEF Poller, PollSample, PollPublish, PollQuits, copyVars, writerVars
<1>7. CASE UNCHANGED vars
  BY <1>7 DEF vars, writerVars
<1> QED
  BY <1>1, <1>2, <1>3, <1>4, <1>5, <1>6, <1>7 DEF Next

(* The steps of copyTableViaPipe itself. *)
LEMMA MainStep ==
  ASSUME config.useCopyPipe, ModeInv, WriterInv, FillInv, DestInv,
         \/ OpenStream \/ ReadHeader \/ CopyRow \/ CopyInEnds \/ CopyInFails
         \/ StopPoller \/ CommitStream \/ CloseStream
  PROVE  WriterInv' /\ FillInv' /\ DestInv'
<1> USE DEF ModeInv, StreamingPC, sourceVars, writerVars, Delivered
<1>1. CASE OpenStream
  <2>1. WriterInv'
    BY <1>1 DEF OpenStream, WriterInv, FillInv
  <2>2. Delivered' = {}
    BY <1>1 DEF OpenStream, WriterInv, FillInv
  <2>3. FillInv'
    <3>1. tx' = Emptied => tx' = Exactly(Delivered')
      BY <2>2, EmptiedIsExactlyNone
    <3> QED
      BY <1>1, <3>1 DEF OpenStream, FillInv, WriterInv
  <2>4. DestInv'
    BY <1>1 DEF OpenStream, DestInv, Exactly, Add
  <2> QED
    BY <2>1, <2>3, <2>4
<1>2. CASE CopyRow
  <2>1. pipe \in Row /\ pipe \in view /\ pipe \notin toSend /\ Delivered \intersect {pipe} = {}
    BY <1>2 DEF CopyRow, WriterInv
  <2>2. Delivered' = Delivered \union {pipe}
    BY <1>2, <2>1, TableCopyAssumption DEF CopyRow, WriterInv
  <2>3. tx' = Exactly(Delivered')
    BY <1>2, <2>1, <2>2, AddToExactly DEF CopyRow, FillInv
  <2>4. WriterInv'
    BY <1>2 DEF CopyRow, WriterInv
  <2>5. FillInv'
    BY <1>2, <2>3 DEF CopyRow, FillInv
  <2>6. DestInv'
    BY <1>2 DEF CopyRow, DestInv, Exactly, Add, Emptied
  <2> QED
    BY <2>4, <2>5, <2>6
<1>3. CASE CommitStream
  <2>1. Delivered = view
    BY <1>3, TableCopyAssumption DEF CommitStream, FillInv, WriterInv
  <2>2. tx = Exactly(view) /\ pipeEnd = "eof"
    BY <1>3, <2>1 DEF CommitStream, FillInv
  <2>3. dest' = dest \/ dest' = Exactly(view)
    BY <1>3, <2>2 DEF CommitStream
  <2>4. Exactly(view)' = Exactly(view) /\ pc' = "close" /\ pipeEnd' = "eof"
    BY <1>3, <2>2 DEF CommitStream, Exactly, Add, Emptied
  <2>5. WriterInv'
    BY <1>3 DEF CommitStream, WriterInv
  <2>6. FillInv'
    BY <1>3 DEF CommitStream, FillInv
  <2>7. DestInv'
    BY <1>3, <2>3, <2>4 DEF CommitStream, DestInv, Untouched
  <2> QED
    BY <2>5, <2>6, <2>7
<1>4. CASE ReadHeader \/ CopyInEnds \/ CopyInFails \/ StopPoller \/ CloseStream
  <2>1. WriterInv'
    BY <1>4 DEF ReadHeader, CopyInEnds, CopyInFails, StopPoller, CloseStream, WriterInv
  <2>2. Exactly(Delivered)' = Exactly(Delivered) /\ Exactly(view)' = Exactly(view)
    BY <1>4 DEF ReadHeader, CopyInEnds, CopyInFails, StopPoller, CloseStream, Exactly, Add,
                Emptied
  <2>3. FillInv'
    BY <1>4, <2>2 DEF ReadHeader, CopyInEnds, CopyInFails, StopPoller, CloseStream, FillInv
  <2>4. DestInv'
    BY <1>4, <2>2 DEF ReadHeader, CopyInEnds, CopyInFails, StopPoller, CloseStream, DestInv,
                      Untouched
  <2> QED
    BY <2>1, <2>3, <2>4
<1> QED
  BY <1>1, <1>2, <1>3, <1>4

(* The steps of the writer. *)
LEMMA WriterStep ==
  ASSUME config.useCopyPipe, ModeInv, WriterInv, FillInv, DestInv, Writer
  PROVE  WriterInv' /\ FillInv' /\ DestInv'
<1> USE DEF ModeInv, StreamingPC, mainVars, sourceVars, Delivered
<1>1. CASE BeginCopyOut
  <2>1. WriterInv'
    BY <1>1 DEF BeginCopyOut, WriterInv
  <2>2. Delivered = {} /\ Delivered' = {} /\ pipeEnd = "open"
    BY <1>1 DEF BeginCopyOut, WriterInv
  <2>3. FillInv'
    BY <1>1, <2>2 DEF BeginCopyOut, FillInv, Exactly, Add, Emptied
  <2>4. DestInv'
    BY <1>1, <2>2 DEF BeginCopyOut, DestInv, Untouched
  <2> QED
    BY <2>1, <2>3, <2>4
<1>2. CASE WriteRow
  <2>1. pipe' \in toSend
    BY <1>2 DEF WriteRow, First
  <2>2. WriterInv'
    BY <1>2, <2>1 DEF WriteRow, WriterInv
  <2>3. Delivered' = Delivered
    BY <1>2, <2>1, TableCopyAssumption DEF WriteRow, WriterInv
  <2>4. pipeEnd = "open"
    BY <1>2 DEF WriteRow, WriterInv
  <2>5. FillInv'
    BY <1>2, <2>3, <2>4 DEF WriteRow, FillInv, Exactly, Add, Emptied
  <2>6. DestInv'
    BY <1>2, <2>4 DEF WriteRow, DestInv, Untouched
  <2> QED
    BY <2>2, <2>5, <2>6
<1>3. CASE CopyOutEnds
  <2>1. WriterInv'
    BY <1>3 DEF CopyOutEnds, WriterInv
  <2>2. Exactly(Delivered)' = Exactly(Delivered) /\ pipeEnd = "open"
    BY <1>3 DEF CopyOutEnds, WriterInv, Exactly, Add, Emptied
  <2>3. FillInv'
    BY <1>3, <2>2 DEF CopyOutEnds, FillInv
  <2>4. DestInv'
    BY <1>3, <2>2 DEF CopyOutEnds, DestInv, Untouched
  <2> QED
    BY <2>1, <2>3, <2>4
<1>4. CASE CopyOutFails
  <2>1. WriterInv'
    BY <1>4 DEF CopyOutFails, WriterInv
  <2>2. pipeEnd = "open"
    BY <1>4 DEF CopyOutFails, WriterInv
  <2>3. pc # "done" => Exactly(Delivered)' = Exactly(Delivered)
    BY <1>4 DEF CopyOutFails, FillInv, Exactly, Add, Emptied
  <2>4. FillInv'
    BY <1>4, <2>2, <2>3 DEF CopyOutFails, FillInv
  <2>5. DestInv'
    BY <1>4, <2>2 DEF CopyOutFails, DestInv, Untouched
  <2> QED
    BY <2>1, <2>4, <2>5
<1> QED
  BY <1>1, <1>2, <1>3, <1>4 DEF Writer

(* The steps of the poller and of other users of the source, and stuttering. *)
LEMMA OtherStep ==
  ASSUME config.useCopyPipe, ModeInv, WriterInv, FillInv, DestInv,
         SourceChanges \/ Poller \/ UNCHANGED vars
  PROVE  WriterInv' /\ FillInv' /\ DestInv'
<1>1. /\ UNCHANGED <<view, snapped, dest, tx, pc, writer, toSend, pipe, pipeEnd, pipeRead>>
      /\ source \subseteq Row => source' \subseteq Row
  <2>1. CASE SourceChanges
    BY <2>1 DEF SourceChanges, writerVars
  <2>2. CASE Poller
    BY <2>2 DEF Poller, PollSample, PollPublish, PollQuits, copyVars, writerVars, sourceVars
  <2>3. CASE UNCHANGED vars
    BY <2>3 DEF vars, writerVars, sourceVars
  <2> QED
    BY <2>1, <2>2, <2>3
<1>2. Exactly(Delivered)' = Exactly(Delivered) /\ Exactly(view)' = Exactly(view)
  BY <1>1 DEF Delivered, Exactly, Add, Emptied
<1>3. WriterInv'
  BY <1>1 DEF WriterInv
<1>4. FillInv'
  BY <1>1, <1>2 DEF FillInv
<1>5. DestInv'
  BY <1>1, <1>2 DEF DestInv, Untouched
<1> QED
  BY <1>3, <1>4, <1>5

(* The options leave no OFFSET, no cursor and no snapshot to a streaming copy. *)
LEMMA ConfigStep == ConfigInv /\ [Next]_vars => ConfigInv'
BY ConfigFixed DEF ConfigInv

LEMMA CountStep ==
  ASSUME config.useCopyPipe, SetTypes, NumberTypes, SampleInv, ModeInv, WriterInv, FillInv,
         CountInv, [Next]_vars
  PROVE  CountInv'
<1> USE DEF CountInv
<1>1. Size(tx) \in Nat /\ Size(dest) \in Nat /\ tracked \in Nat /\ processed \in Nat
  BY CopiesFinite DEF SetTypes, NumberTypes
<1>2. Size(tx)' = Size(tx') /\ Size(dest)' = Size(dest')
  BY DEF Size
<1>3. view' = view => Exactly(view)' = Exactly(view)
  BY DEF Exactly, Add, Emptied
<1>4. CASE SourceChanges
  BY <1>2, <1>3, <1>4 DEF SourceChanges, writerVars, pollVars, progress
<1>5. CASE OpenStream
  <2>1. Size(Emptied) = 0
    BY SizeOfNothing
  <2> QED
    BY <1>1, <1>2, <1>3, <1>5, <2>1 DEF OpenStream, progress
<1>6. CASE ReadHeader
  BY <1>2, <1>3, <1>6 DEF ReadHeader, writerVars, progress
<1>7. CASE CopyRow
  <2>1. pipe \in Row
    BY <1>7 DEF CopyRow, SetTypes
  <2>2. Size(tx') = Size(tx) + 1
    <3>1. Cardinality({pipe}) = 1 /\ {pipe} \subseteq Row
      BY <2>1, FS_Singleton
    <3> QED
      BY <1>7, <3>1, SizeAdd DEF CopyRow, SetTypes
  <2> QED
    BY <1>1, <1>2, <1>3, <1>7, <2>2 DEF CopyRow, writerVars, pollVars, progress
<1>8. CASE CopyInEnds \/ CopyInFails
  BY <1>2, <1>3, <1>8 DEF CopyInEnds, CopyInFails, writerVars, pollVars, progress
<1>9. CASE StopPoller
  BY <1>2, <1>3, <1>9 DEF StopPoller, PollerStopped, writerVars, pollVars, progress
<1>10. CASE CommitStream
  <2>1. /\ pc = "commit" /\ pc' = "close" /\ UNCHANGED <<view, tx, pipeEnd, poller, tracked>>
    BY <1>10 DEF CommitStream, writerVars, pollVars
  <2>2. tx = Exactly(view) /\ pipeEnd = "eof"
    <3>1. Delivered = view
      BY <2>1, TableCopyAssumption DEF FillInv, WriterInv, Delivered
    <3> QED
      BY <2>1, <3>1 DEF FillInv
  <2>3. synced = tracked /\ shown = tracked /\ tracked <= Size(tx) /\ poller \in {"none", "ended"}
    BY <2>1
  <2>4. CASE result' = "ok"
    <3>1. dest' = tx /\ synced' = Size(tx) /\ shown' = shown + (synced' - tracked)
      BY <1>1, <1>10, <2>3, <2>4 DEF CommitStream, LoadedRows
    <3>2. shown' = Size(tx)
      BY <1>1, <2>3, <3>1
    <3> QED
      BY <1>2, <1>3, <2>1, <2>2, <2>3, <2>4, <3>1, <3>2
  <2>5. CASE result' # "ok"
    <3>1. result' = "error" /\ UNCHANGED <<synced, shown>>
      BY <1>10, <2>5 DEF CommitStream, progress
    <3> QED
      BY <2>1, <2>3, <3>1
  <2> QED
    BY <2>4, <2>5
<1>11. CASE CloseStream
  BY <1>2, <1>3, <1>11 DEF CloseStream, writerVars, pollVars, progress
<1>12. CASE Writer
  <2>1. pipeEnd = "open"
    BY <1>12 DEF Writer, BeginCopyOut, WriteRow, CopyOutEnds, CopyOutFails, WriterInv
  <2> QED
    BY <1>2, <2>1, <1>12 DEF Writer, BeginCopyOut, WriteRow, CopyOutEnds, CopyOutFails, mainVars,
                             pollVars, progress
<1>13. CASE PollSample
  BY <1>1, <1>2, <1>3, <1>13 DEF PollSample, LoadedRows, copyVars, writerVars, progress
<1>14. CASE PollPublish
  <2>1. UNCHANGED <<pc, result, tx, dest, view, pipeEnd>>
    BY <1>14 DEF PollPublish, copyVars, writerVars
  <2>2. /\ poller = "sampled" /\ poller' = "waiting" /\ tracked' = processed
        /\ synced' = processed /\ shown' = shown + (processed - tracked)
    BY <1>14 DEF PollPublish
  <2>3. pc \notin {"open", "header", "commit", "close", "done"} /\ result = "none"
    BY <2>2
  <2>4. shown' = processed
    BY <1>1, <2>2, <2>3
  <2> QED
    BY <1>2, <2>1, <2>2, <2>3, <2>4
<1>15. CASE PollQuits
  BY <1>2, <1>3, <1>15 DEF PollQuits, copyVars, writerVars, progress
<1>16. CASE UNCHANGED vars
  BY <1>2, <1>3, <1>16 DEF vars, writerVars, pollVars, progress
<1>17. ~(ClearDestinationTable \/ SelectBatch \/ InsertChunk \/ CommitBatch \/ FailBatch)
  BY DEF ModeInv, StreamingPC, ClearDestinationTable, SelectBatch, InsertChunk, CommitBatch,
         FailBatch
<1> QED
  BY <1>4, <1>5, <1>6, <1>7, <1>8, <1>9, <1>10, <1>11, <1>12, <1>13, <1>14, <1>15, <1>16, <1>17
     DEF Next, Proceed, Poller

-----------------------------------------------------------------------------
(* The steps of a legacy copy.                                             *)

\* A legacy copy takes only the steps of its own.
LegacySteps == \/ SourceChanges \/ ClearDestinationTable \/ SelectBatch \/ InsertChunk
               \/ CommitBatch \/ FailBatch \/ UNCHANGED vars

LEMMA LegacyStepsOnly == BatchInv /\ [Next]_vars => LegacySteps
BY DEF BatchInv, LegacySteps, Next, Proceed, Writer, Poller, OpenStream, ReadHeader, CopyRow,
       CopyInEnds, CopyInFails, StopPoller, CommitStream, CloseStream, BeginCopyOut, WriteRow,
       CopyOutEnds, CopyOutFails, PollSample, PollPublish, PollQuits

LEMMA FirstOfNone ==
  ASSUME NEW S, S \subseteq Row
  PROVE  First(0, S) = {}
<1>1. IsFiniteSet(First(0, S)) /\ Cardinality(First(0, S)) = 0
  BY FirstIsBounded
<1> QED
  BY <1>1, FS_EmptySet

(* What the next batch reads, said with the rows already read; and reading    *)
(* inside the snapshot changes neither.                                      *)
LEMMA NextBatchReads ==
  ASSUME SetTypes, NumberTypes, BatchInv, SelectBatch
  PROVE  /\ view' \subseteq Row /\ Copied' \subseteq view' /\ stable \subseteq view'
         /\ scanned' = First(BatchSize, view' \ Copied')
         /\ config.snapshot => Copied' = Copied /\ (snapped => view' = view)
<1>1. /\ view' = Visible /\ scanned' = NextBatch /\ lastPK' = lastPK /\ offset' = offset
      /\ config' = config
  BY DEF SelectBatch
<1>2. /\ Visible \subseteq Row /\ view \subseteq Row
      /\ \A r \in Row : r \in Nat /\ r > 0
  BY TableCopyAssumption DEF Visible, SetTypes
<1>3. lastPK \in Nat /\ offset \in Nat
  BY <1>2 DEF SetTypes, NumberTypes
<1>4. stable \subseteq Visible
  BY DEF BatchInv, Visible
<1>5. Copied' = IF config.hasPK THEN {r \in Visible : r <= lastPK} ELSE First(offset, Visible)
  BY <1>1 DEF Copied, First
<1>6. NextBatch = First(BatchSize, Visible \ Copied')
  <2>1. AfterCursor = Visible \ {r \in Visible : r <= lastPK}
    BY <1>2, <1>3 DEF AfterCursor
  <2> QED
    BY <1>5, <2>1 DEF NextBatch
<1>7. ASSUME config.snapshot
      PROVE  Copied' = Copied /\ (snapped => Visible = view)
  <2>1. CASE snapped
    BY <1>5, <1>7, <2>1 DEF Visible, Copied
  <2>2. CASE ~snapped
    <3>1. lastPK = 0 /\ offset = 0
      BY <2>2 DEF BatchInv
    <3>2. {r \in Visible : r <= lastPK} = {} /\ {r \in view : r <= lastPK} = {}
      BY <1>2, <3>1
    <3>3. First(offset, Visible) = {} /\ First(offset, view) = {}
      BY <1>2, <3>1, FirstOfNone
    <3> QED
      BY <1>5, <2>2, <3>2, <3>3 DEF Copied
  <2> QED
    BY <2>1, <2>2
<1>8. Copied' \subseteq Visible
  BY <1>2, <1>3, <1>5, FirstIsPrefix
<1> QED
  BY <1>1, <1>2, <1>4, <1>6, <1>7, <1>8

LEMMA BatchStep ==
  ASSUME SetTypes, NumberTypes, BatchInv, LegacySteps
  PROVE  BatchInv'
<1>1. UNCHANGED <<config, view, lastPK, offset>> => Copied' = Copied
  BY DEF Copied, First
<1>2. \A c, d : c = d => Size(c) = Size(d)
  OBVIOUS
<1>3. CASE SourceChanges
  <2>1. /\ UNCHANGED <<config, view, snapped, lastPK, offset, pc, result, dest, tx, writer,
                       poller, scanned, toInsert, synced, shown>>
        /\ stable' \subseteq source' /\ stable' \subseteq stable
    BY <1>3 DEF SourceChanges, batchVars, writerVars, pollVars, progress
  <2>2. Size(dest)' = Size(dest) /\ Copied' = Copied
        /\ Add(dest, scanned \ toInsert)' = Add(dest, scanned \ toInsert)
        /\ First(BatchSize, view \ Copied)' = First(BatchSize, view \ Copied)
    BY <2>1, <1>1 DEF Size, Add, First
  <2>3. Untouched' = Untouched
    BY DEF Untouched
  <2> QED
    BY <2>1, <2>2, <2>3 DEF BatchInv
<1>4. CASE ClearDestinationTable
  <2>1. UNCHANGED <<source, stable, view, snapped, lastPK, offset, writer, poller, synced, shown>>
    BY <1>4 DEF ClearDestinationTable, streamVars, writerVars, pollVars, sourceVars, progress
  <2>2. \/ pc' = "clear" /\ dest' = dest /\ result' = result
        \/ pc' = "select" /\ dest' = Emptied /\ result' = result
        \/ pc' = "done" /\ result' = "error"
    BY <1>4 DEF ClearDestinationTable, FailLegacy
  <2>3. shown = 0 /\ pc = "clear" /\ dest = Untouched /\ ~snapped /\ result = "none"
    BY <1>4 DEF ClearDestinationTable, BatchInv
  <2>4. ~Emptied.old /\ Size(Emptied) = 0
    BY EmptyContents, SizeOfNothing
  <2>5. dest' = Emptied => Size(dest)' = 0
    BY <2>4 DEF Size
  <2> QED
    BY <2>1, <2>2, <2>3, <2>4, <2>5 DEF BatchInv, Untouched
<1>5. CASE SelectBatch
  <2>1. /\ scanned' = First(BatchSize, view' \ Copied') /\ stable \subseteq view'
    BY <1>5, NextBatchReads
  <2>2. UNCHANGED <<source, stable, lastPK, offset, dest, writer, poller, synced, shown>>
    BY <1>5 DEF SelectBatch, streamVars, writerVars, pollVars, sourceVars, progress
  <2>3. pc = "select" /\ snapped' = TRUE /\ toInsert' = scanned'
    BY <1>5 DEF SelectBatch
  <2>4. \/ pc' = "done" /\ result' = "ok"
        \/ pc' = "insert" /\ result' = result /\ tx' = dest
    BY <1>5 DEF SelectBatch
  <2>5. dest = Add(dest, scanned' \ toInsert') /\ Size(dest)' = Size(dest)
    BY <2>2, <2>3, AddNothing DEF SetTypes, Size
  <2>6. Add(dest, scanned \ toInsert)' = Add(dest, scanned' \ toInsert')
        /\ First(BatchSize, view \ Copied)' = First(BatchSize, view' \ Copied')
    BY <2>2 DEF Add, First
  <2> QED
    BY <2>1, <2>2, <2>3, <2>4, <2>5, <2>6 DEF BatchInv, Untouched
<1>6. CASE InsertChunk
  <2> DEFINE F == First(RowsPerStatement, toInsert)
  <2>1. F \subseteq toInsert
    BY DEF First
  <2>2. /\ UNCHANGED <<config, source, stable, view, snapped, lastPK, offset, dest, pc, result,
                       writer, poller, scanned, synced, shown>>
        /\ toInsert' = toInsert \ F /\ tx' = Add(tx, F) /\ pc = "insert"
    BY <1>6 DEF InsertChunk, streamVars, writerVars, pollVars, sourceVars, progress
  <2>3. tx = Add(dest, scanned \ toInsert) /\ toInsert \subseteq scanned
    BY <2>2 DEF BatchInv
  <2>4. tx' = Add(dest, scanned \ toInsert')
    <3>1. /\ (scanned \ toInsert) \union F = scanned \ toInsert'
          /\ (scanned \ toInsert) \intersect F = {}
      BY <2>1, <2>2, <2>3
    <3> HIDE DEF F
    <3> QED
      BY <2>2, <2>3, <3>1, AddTwice DEF SetTypes
  <2>5. Size(dest)' = Size(dest) /\ Copied' = Copied
        /\ Add(dest, scanned \ toInsert)' = Add(dest, scanned \ toInsert')
        /\ First(BatchSize, view \ Copied)' = First(BatchSize, view \ Copied)
    BY <2>2, <1>1 DEF Size, Add, First
  <2> HIDE DEF F
  <2> QED
    BY <2>1, <2>2, <2>3, <2>4, <2>5 DEF BatchInv, Untouched
<1>7. CASE CommitBatch
  <2>1. /\ pc = "insert" /\ toInsert = {} /\ dest' = tx
        /\ shown' = shown + Cardinality(scanned) /\ synced' = shown'
        /\ UNCHANGED <<source, stable, view, snapped, writer, poller>>
    BY <1>7 DEF CommitBatch, streamVars, writerVars, pollVars, sourceVars
  <2>2. \/ pc' = "done" /\ result' = "ok"
        \/ pc' = "select" /\ result' = result
    BY <1>7 DEF CommitBatch
  <2>3. /\ tx = Add(dest, scanned) /\ shown = Size(dest) /\ snapped /\ ~dest.old
        /\ result = "none"
    BY <2>1 DEF BatchInv
  <2>4. Size(dest') = Size(dest) + Cardinality(scanned) /\ ~dest'.old
    BY <2>1, <2>3, SizeAdd, AddIsContents DEF SetTypes
  <2>5. Size(dest)' = Size(dest')
    BY DEF Size
  <2> QED
    BY <2>1, <2>2, <2>3, <2>4, <2>5 DEF BatchInv
<1>8. CASE FailBatch
  <2>1. /\ pc' = "done" /\ result' = "error"
        /\ UNCHANGED <<source, stable, view, snapped, lastPK, offset, writer, poller, synced,
                       shown>>
    BY <1>8 DEF FailBatch, FailLegacy, streamVars, writerVars, pollVars, sourceVars, progress,
                batchVars
  <2> QED
    BY <2>1 DEF BatchInv
<1>9. CASE UNCHANGED vars
  <2>1. UNCHANGED <<config, source, stable, view, snapped, lastPK, offset, pc, result, dest, tx,
                    writer, poller, scanned, toInsert, synced, shown>>
    BY <1>9 DEF vars, batchVars, writerVars, pollVars, sourceVars, progress
  <2>2. Size(dest)' = Size(dest) /\ Copied' = Copied
        /\ Add(dest, scanned \ toInsert)' = Add(dest, scanned \ toInsert)
        /\ First(BatchSize, view \ Copied)' = First(BatchSize, view \ Copied)
    BY <2>1, <1>1 DEF Size, Add, First
  <2> QED
    BY <2>1, <2>2 DEF BatchInv, Untouched
<1> QED
  BY <1>3, <1>4, <1>5, <1>6, <1>7, <1>8, <1>9 DEF LegacySteps

(* The rows read so far, with or without those of the batch in memory, are a  *)
(* prefix of the view.                                                       *)
LEMMA CopiedIsPrefix ==
  ASSUME SetTypes, NumberTypes
  PROVE  Prefix(Copied, view)
<1>1. view \subseteq Row /\ lastPK \in Nat /\ offset \in Nat /\ \A r \in Row : r \in Nat
  BY TableCopyAssumption DEF SetTypes, NumberTypes
<1>2. CASE config.hasPK
  BY <1>1, <1>2 DEF Copied, Prefix
<1>3. CASE ~config.hasPK
  BY <1>1, <1>3, FirstIsPrefix DEF Copied, Prefix
<1> QED
  BY <1>2, <1>3

LEMMA BatchIsPrefix ==
  ASSUME SetTypes, NumberTypes, scanned = First(BatchSize, view \ Copied)
  PROVE  /\ Prefix(Copied \union scanned, view) /\ Copied \intersect scanned = {}
         /\ Cardinality(scanned) < BatchSize => scanned = view \ Copied
<1>1. Prefix(Copied, view) /\ view \subseteq Row /\ \A r \in Row : r \in Nat
  BY CopiedIsPrefix, TableCopyAssumption DEF SetTypes
<1>2. BatchSize \in Nat /\ view \ Copied \subseteq Row
  BY <1>1, TableCopyAssumption
<1>3. /\ scanned \subseteq view \ Copied
      /\ \A r \in scanned : \A q \in view \ Copied : q < r => q \in scanned
  BY <1>2, FirstIsPrefix
<1>4. Cardinality(scanned) < BatchSize => scanned = view \ Copied
  BY <1>2, FirstIsAll
<1> HIDE DEF Copied
<1> QED
  BY <1>1, <1>3, <1>4 DEF Prefix

(* The commit of a full batch moves cursor or offset over just its rows.      *)
LEMMA CommitMoves ==
  ASSUME SetTypes, NumberTypes, BatchInv, CommitBatch, ~LastBatch
  PROVE  Copied' = Copied \union scanned
<1>1. /\ scanned = First(BatchSize, view \ Copied) /\ view' = view /\ config' = config
  BY DEF CommitBatch, BatchInv
<1>2. view \subseteq Row /\ \A r \in Row : r \in Nat
  BY TableCopyAssumption DEF SetTypes
<1>3. CASE config.hasPK
  <2>1. PICK m \in scanned : lastPK' = m /\ \A q \in scanned : q <= m
    BY <1>3 DEF CommitBatch
  <2>2. Copied' = {r \in view : r <= m}
    BY <1>1, <1>3, <2>1 DEF Copied
  <2>3. Copied = {r \in view : r <= lastPK} /\ lastPK \in Nat
    BY <1>2, <1>3 DEF Copied, SetTypes
  <2>4. /\ Prefix(Copied \union scanned, view) /\ Copied \intersect scanned = {}
        /\ scanned \subseteq view
    <3>1. scanned \subseteq view
      BY <1>1 DEF First
    <3> QED
      BY <1>1, <3>1, BatchIsPrefix
  <2>5. ASSUME NEW r \in view
        PROVE  r <= m <=> (r <= lastPK \/ r \in scanned)
    <3>1. r \in Nat /\ m \in Nat /\ m \in view
      BY <1>2, <2>4
    <3>2. ~(m <= lastPK)
      BY <2>3, <2>4, <3>1
    <3>3. r < m => r <= lastPK \/ r \in scanned
      BY <2>3, <2>4 DEF Prefix
    <3> QED
      BY <2>1, <2>3, <3>1, <3>2, <3>3
  <2> QED
    BY <2>2, <2>3, <2>4, <2>5
<1>4. CASE ~config.hasPK
  <2>1. offset' = offset + BatchSize /\ offset \in Nat /\ BatchSize \in Nat
    BY <1>4, TableCopyAssumption DEF CommitBatch, NextOffset, NumberTypes
  <2>2. Copied' = First(offset', view) /\ Copied = First(offset, view)
    BY <1>1, <1>4 DEF Copied, First
  <2> QED
    BY <1>1, <1>2, <2>1, <2>2, FirstThenMore
<1> QED
  BY <1>3, <1>4

LEMMA SnapshotStep ==
  ASSUME SetTypes, NumberTypes, BatchInv, SnapshotInv, LegacySteps
  PROVE  SnapshotInv'
<1>1. config' = config
  BY DEF LegacySteps, SourceChanges, ClearDestinationTable, SelectBatch, InsertChunk,
         CommitBatch, FailBatch, vars
<1> SUFFICES ASSUME config.snapshot
             PROVE  SnapshotInv'
  BY <1>1 DEF SnapshotInv
<1>2. /\ pc \in {"select", "insert"} => dest = Exactly(Copied)
      /\ dest = Untouched \/ \E P \in SUBSET view : Prefix(P, view) /\ dest = Exactly(P)
      /\ result = "ok" => dest = Exactly(view)
  BY DEF SnapshotInv
<1>3. /\ Untouched' = Untouched /\ Exactly(view)' = Exactly(view')
      /\ Exactly(Copied)' = Exactly(Copied')
  BY DEF Untouched, Exactly, Add, Emptied
<1>4. SUFFICES /\ pc' \in {"select", "insert"} => dest' = Exactly(Copied')
               /\ \/ dest' = Untouched
                  \/ \E P \in SUBSET view' : Prefix(P, view') /\ dest' = Exactly(P)
               /\ result' = "ok" => dest' = Exactly(view')
  <2>1. (\E P \in SUBSET view : Prefix(P, view) /\ dest = Exactly(P))'
          <=> \E P \in SUBSET view' : Prefix(P, view') /\ dest' = Exactly(P)
    BY DEF Prefix, Exactly, Add, Emptied
  <2> QED
    BY <1>3, <2>1 DEF SnapshotInv
<1>5. UNCHANGED <<view, lastPK, offset>> => Copied' = Copied
  BY <1>1 DEF Copied, First
<1>6. CASE SourceChanges \/ InsertChunk \/ UNCHANGED vars
  <2>1. UNCHANGED <<view, lastPK, offset, dest, pc, result>>
    BY <1>6 DEF SourceChanges, InsertChunk, vars, batchVars
  <2> QED
    BY <1>2, <1>5, <2>1
<1>7. CASE ClearDestinationTable
  <2>1. /\ UNCHANGED <<view, lastPK, offset>> /\ ~snapped /\ dest = Untouched
        /\ result' = result \/ result' = "error"
        /\ result = "none"
    BY <1>7 DEF ClearDestinationTable, FailLegacy, BatchInv
  <2>2. view = {} /\ Copied = {} /\ Prefix({}, view)
    <3>1. view = {} /\ offset \in Nat
      BY <2>1 DEF BatchInv, NumberTypes
    <3> QED
      BY <3>1 DEF Copied, First, Prefix
  <2>3. dest' = Untouched \/ dest' = Exactly({})
    BY <1>7, <2>1, EmptiedIsExactlyNone DEF ClearDestinationTable
  <2>4. pc' = "select" => dest' = Exactly({})
    BY <1>7, <2>1, EmptiedIsExactlyNone DEF ClearDestinationTable, FailLegacy
  <2>5. pc' # "insert"
    BY <1>7 DEF ClearDestinationTable, FailLegacy
  <2>6. Copied' = {} /\ view' = {}
    BY <1>5, <2>1, <2>2
  <2>7. Prefix({}, {})
    BY DEF Prefix
  <2> QED
    BY <2>1, <2>3, <2>4, <2>5, <2>6, <2>7
<1>8. CASE SelectBatch
  <2>1. /\ view' \subseteq Row /\ Copied' \subseteq view' /\ Copied' = Copied
        /\ scanned' = First(BatchSize, view' \ Copied')
    BY <1>8, NextBatchReads
  <2>2. pc = "select" /\ dest' = dest /\ dest = Exactly(Copied)
    BY <1>2, <1>8 DEF SelectBatch
  <2>3. Prefix(Copied', view')
    <3>1. SetTypes' /\ NumberTypes'
      <4>1. [Next]_vars
        BY <1>8 DEF Next, Proceed
      <4>2. SampleInv
        BY DEF SampleInv, BatchInv
      <4> QED
        BY <4>1, <4>2, SetTypesStep, NumberTypesStep
    <3>2. SetTypes' /\ NumberTypes' => Prefix(Copied, view)'
      BY CopiedIsPrefix, PTL
    <3> QED
      BY <3>1, <3>2 DEF Prefix
  <2>4. result' = "ok" => Copied' = view'
    <3> SUFFICES ASSUME result' = "ok" PROVE Copied' = view'
      OBVIOUS
    <3>1. scanned' = {}
      BY <1>8 DEF SelectBatch, BatchInv
    <3>2. BatchSize \in Nat \ {0} /\ Cardinality({}) = 0 /\ view' \ Copied' \subseteq Row
      BY <2>1, TableCopyAssumption, FS_EmptySet
    <3>3. view' \ Copied' = {}
      BY <2>1, <3>1, <3>2, FirstIsAll
    <3> QED
      BY <2>1, <3>3
  <2> QED
    BY <2>1, <2>2, <2>3, <2>4
<1>9. CASE CommitBatch
  <2>1. /\ pc = "insert" /\ toInsert = {} /\ dest' = tx /\ view' = view /\ tx = Add(dest, scanned)
        /\ dest = Exactly(Copied)
        /\ scanned = First(BatchSize, view \ Copied)
    BY <1>2, <1>9 DEF CommitBatch, BatchInv
  <2>2. /\ Prefix(Copied \union scanned, view) /\ Copied \intersect scanned = {}
        /\ Cardinality(scanned) < BatchSize => scanned = view \ Copied
    BY <2>1, BatchIsPrefix
  <2>3. dest' = Exactly(Copied \union scanned)
    BY <2>1, <2>2, AddToExactly
  <2>4. CASE LastBatch
    <3>1. Copied \union scanned = view
      BY <2>2, <2>4 DEF Prefix, LastBatch
    <3> QED
      BY <1>9, <2>1, <2>2, <2>3, <2>4, <3>1 DEF CommitBatch
  <2>5. CASE ~LastBatch
    <3>1. Copied' = Copied \union scanned
      BY <1>9, <2>5, CommitMoves
    <3>2. Copied \union scanned \subseteq view
      BY <2>2 DEF Prefix
    <3>3. pc' = "select" /\ result' = result /\ result = "none"
      BY <1>9, <2>5 DEF CommitBatch, BatchInv
    <3> QED
      BY <2>1, <2>2, <2>3, <3>1, <3>2, <3>3
  <2> QED
    BY <2>4, <2>5
<1>10. CASE FailBatch
  <2>1. pc' = "done" /\ result' = "error" /\ view' = view
    BY <1>10 DEF FailBatch, FailLegacy
  <2>2. \/ dest' = dest
        \/ pc = "insert" /\ toInsert = {} /\ dest' = tx
    BY <1>10 DEF FailBatch
  <2>3. ASSUME pc = "insert", toInsert = {}, dest' = tx
        PROVE  \E P \in SUBSET view : Prefix(P, view) /\ dest' = Exactly(P)
    <3>1. /\ tx = Add(dest, scanned) /\ dest = Exactly(Copied)
          /\ scanned = First(BatchSize, view \ Copied)
      BY <1>2, <2>3 DEF BatchInv
    <3>2. Prefix(Copied \union scanned, view) /\ Copied \intersect scanned = {}
      BY <3>1, BatchIsPrefix
    <3>3. dest' = Exactly(Copied \union scanned)
      BY <2>3, <3>1, <3>2, AddToExactly
    <3>4. Copied \union scanned \subseteq view
      BY <3>2 DEF Prefix
    <3> QED
      BY <3>2, <3>3, <3>4
  <2> QED
    BY <1>2, <2>1, <2>2, <2>3
<1> QED
  BY <1>6, <1>7, <1>8, <1>9, <1>10 DEF LegacySteps

(* The cursor separates what is copied from what is not. *)
LEMMA KeysetStep ==
  ASSUME SetTypes, NumberTypes, BatchInv, KeysetInv, LegacySteps
  PROVE  KeysetInv'
<1>1. config' = config
  BY DEF LegacySteps, SourceChanges, ClearDestinationTable, SelectBatch, InsertChunk,
         CommitBatch, FailBatch, vars
<1> SUFFICES ASSUME config.hasPK
             PROVE  KeysetInv'
  BY <1>1 DEF KeysetInv
<1>2. /\ \A r \in Row : dest.rows[r] <= 1
      /\ pc \in {"select", "insert"} =>
           /\ \A r \in Row : dest.rows[r] > 0 => r <= lastPK
           /\ \A r \in stable : r <= lastPK => dest.rows[r] > 0
      /\ result = "ok" => \A r \in stable : dest.rows[r] > 0
  BY DEF KeysetInv
<1>3. SUFFICES
        /\ \A r \in Row : dest'.rows[r] <= 1
        /\ pc' \in {"select", "insert"} =>
             /\ \A r \in Row : dest'.rows[r] > 0 => r <= lastPK'
             /\ \A r \in stable' : r <= lastPK' => dest'.rows[r] > 0
        /\ result' = "ok" => \A r \in stable' : dest'.rows[r] > 0
  BY DEF KeysetInv
<1>4. CASE SourceChanges \/ InsertChunk \/ UNCHANGED vars
  <2>1. UNCHANGED <<lastPK, dest, pc, result>> /\ stable' \subseteq stable
    BY <1>4 DEF SourceChanges, InsertChunk, vars, batchVars, sourceVars
  <2> QED
    BY <1>2, <2>1
<1>5. CASE ClearDestinationTable
  <2>1. UNCHANGED <<lastPK, stable>> /\ result' # "ok" /\ ~snapped
        /\ (pc' = "select" => dest' = Emptied) /\ pc' # "insert"
        /\ (dest' = dest \/ dest' = Emptied)
    BY <1>5 DEF ClearDestinationTable, FailLegacy, BatchInv, sourceVars
  <2>2. lastPK = 0 /\ \A r \in stable : r \in Nat /\ r > 0
    BY <2>1, TableCopyAssumption DEF BatchInv, SetTypes
  <2>3. \A r \in Row : Emptied.rows[r] = 0
    BY EmptyContents
  <2>4. \A r \in stable : ~(r <= lastPK)
    BY <2>2
  <2>5. \A r \in Row : dest'.rows[r] <= 1
    BY <1>2, <2>1, <2>3
  <2>6. pc' = "select" => \A r \in Row : ~(dest'.rows[r] > 0)
    BY <2>1, <2>3
  <2> QED
    BY <2>1, <2>4, <2>5, <2>6
<1>6. CASE SelectBatch
  <2>1. UNCHANGED <<lastPK, stable, dest>> /\ pc = "select"
    BY <1>6 DEF SelectBatch, sourceVars
  <2>2. result' = "ok" => \A r \in stable : r <= lastPK
    <3> SUFFICES ASSUME result' = "ok" PROVE \A r \in stable : r <= lastPK
      OBVIOUS
    <3>1. /\ view' \subseteq Row /\ Copied' \subseteq view' /\ stable \subseteq view'
          /\ scanned' = First(BatchSize, view' \ Copied')
      BY <1>6, NextBatchReads
    <3>2. scanned' = {}
      BY <1>6 DEF SelectBatch, BatchInv
    <3>3. BatchSize \in Nat \ {0} /\ Cardinality({}) = 0 /\ view' \ Copied' \subseteq Row
      BY <3>1, TableCopyAssumption, FS_EmptySet
    <3>4. view' \ Copied' = {}
      BY <3>1, <3>2, <3>3, FirstIsAll
    <3>5. Copied' = {r \in view' : r <= lastPK}
      BY <1>1, <2>1 DEF Copied
    <3> QED
      BY <3>1, <3>4, <3>5
  <2> QED
    BY <1>2, <2>1, <2>2
<1>7. CASE CommitBatch
  <2>1. /\ pc = "insert" /\ dest' = Add(dest, scanned) /\ stable' = stable /\ snapped
        /\ scanned = First(BatchSize, view \ Copied) /\ result = "none"
    BY <1>7 DEF CommitBatch, BatchInv, sourceVars
  <2>2. /\ Prefix(Copied \union scanned, view) /\ Copied \intersect scanned = {}
        /\ Cardinality(scanned) < BatchSize => scanned = view \ Copied
    BY <2>1, BatchIsPrefix
  <2>3. Copied = {r \in view : r <= lastPK} /\ stable \subseteq view /\ view \subseteq Row
        /\ scanned \subseteq view
    BY <2>1 DEF Copied, BatchInv, SetTypes, First
  <2>4. \A r \in Row : /\ dest.rows[r] \in Nat
                       /\ dest'.rows[r] = IF r \in scanned THEN dest.rows[r] + 1
                                          ELSE dest.rows[r]
    BY <2>1, AddIsContents DEF SetTypes, Contents
  <2>5. \A r \in scanned : dest.rows[r] = 0
    BY <1>2, <2>1, <2>2, <2>3, <2>4
  <2>6. \A r \in Row : dest'.rows[r] <= 1
    BY <1>2, <2>4, <2>5
  <2>7. \A r \in Row : dest'.rows[r] > 0 <=> (dest.rows[r] > 0 \/ r \in scanned)
    BY <2>4, <2>5
  <2>8. CASE LastBatch
    <3>1. \A r \in stable : r <= lastPK \/ r \in scanned
      BY <2>2, <2>3, <2>8 DEF LastBatch
    <3>2. \A r \in stable : dest'.rows[r] > 0
      BY <1>2, <2>1, <2>3, <2>7, <3>1
    <3> QED
      BY <1>7, <2>6, <2>8, <3>2, <2>1 DEF CommitBatch
  <2>9. CASE ~LastBatch
    <3>1. Copied' = Copied \union scanned
      BY <1>7, <2>9, CommitMoves
    <3>2. Copied' = {r \in view : r <= lastPK'}
      BY <1>1, <1>7 DEF Copied, CommitBatch
    <3>3. PICK m \in scanned : lastPK' = m /\ pc' = "select" /\ result' = "none"
      BY <1>7, <2>1, <2>9 DEF CommitBatch
    <3>4. ASSUME NEW r \in Row, dest'.rows[r] > 0
          PROVE  r <= lastPK'
      <4>1. CASE r \in scanned
        BY <3>1, <3>2, <4>1
      <4>2. CASE r \notin scanned
        <5>1. r <= lastPK
          BY <1>2, <2>1, <2>7, <3>4, <4>2
        <5>2. r \in Nat /\ m \in Nat /\ lastPK \in Nat
          BY <2>3, TableCopyAssumption DEF SetTypes
        <5>3. ~(m <= lastPK)
          BY <2>2, <2>3
        <5> QED
          BY <3>3, <5>1, <5>2, <5>3
      <4> QED
        BY <4>1, <4>2
    <3>5. \A r \in stable : r <= lastPK' => dest'.rows[r] > 0
      BY <1>2, <2>1, <2>3, <2>7, <3>1, <3>2
    <3> QED
      BY <2>1, <2>6, <3>3, <3>4, <3>5
  <2> QED
    BY <2>8, <2>9
<1>8. CASE FailBatch
  <2>1. pc' = "done" /\ result' = "error"
    BY <1>8 DEF FailBatch, FailLegacy
  <2>2. \/ dest' = dest
        \/ pc = "insert" /\ toInsert = {} /\ dest' = tx
    BY <1>8 DEF FailBatch
  <2>3. ASSUME pc = "insert", toInsert = {}, dest' = tx
        PROVE  \A r \in Row : dest'.rows[r] <= 1
    <3>1. /\ tx = Add(dest, scanned) /\ scanned = First(BatchSize, view \ Copied)
      BY <2>3 DEF BatchInv
    <3>2. \A r \in Row : /\ dest.rows[r] \in Nat
                         /\ dest'.rows[r] = IF r \in scanned THEN dest.rows[r] + 1
                                            ELSE dest.rows[r]
      BY <2>3, <3>1, AddIsContents DEF SetTypes, Contents
    <3>3. Copied = {r \in view : r <= lastPK} /\ scanned \subseteq view \ Copied
          /\ view \subseteq Row
      BY <3>1 DEF Copied, SetTypes, First
    <3>4. \A r \in scanned : dest.rows[r] = 0
      BY <1>2, <2>3, <3>2, <3>3
    <3> QED
      BY <1>2, <3>2, <3>4
  <2> QED
    BY <1>2, <2>1, <2>2, <2>3
<1> QED
  BY <1>4, <1>5, <1>6, <1>7, <1>8 DEF LegacySteps

-----------------------------------------------------------------------------
(* The invariant and what follows from it.                                 *)

LEMMA InitIInv == Init => IInv
<1> SUFFICES ASSUME Init PROVE IInv
  OBVIOUS
<1>1. TypeOK /\ SampleInv
  BY InitTypes
<1>2. ConfigInv /\ ModeInv
  BY DEF Init, ConfigInv, ModeInv, StreamingPC
<1>3. config.useCopyPipe => WriterInv /\ FillInv /\ DestInv /\ CountInv
  BY DEF Init, WriterInv, FillInv, DestInv, CountInv
<1>4. ASSUME ~config.useCopyPipe
      PROVE  BatchInv /\ SnapshotInv /\ KeysetInv
  BY <1>4, EmptyContents DEF Init, BatchInv, SnapshotInv, KeysetInv
<1> QED
  BY <1>1, <1>2, <1>3, <1>4 DEF IInv, StreamInv, LegacyInv

LEMMA StreamStep ==
  ASSUME IInv, [Next]_vars, config.useCopyPipe
  PROVE  WriterInv' /\ FillInv' /\ DestInv' /\ CountInv'
<1>1. WriterInv /\ FillInv /\ DestInv /\ CountInv /\ ModeInv /\ SampleInv
  BY DEF IInv, StreamInv
<1>2. SetTypes /\ NumberTypes
  BY TypesOneByOne DEF IInv
<1>3. ~(ClearDestinationTable \/ SelectBatch \/ InsertChunk \/ CommitBatch \/ FailBatch)
  BY <1>1 DEF ModeInv, StreamingPC, ClearDestinationTable, SelectBatch, InsertChunk,
              CommitBatch, FailBatch
<1>4. WriterInv' /\ FillInv' /\ DestInv'
  BY <1>1, <1>3, MainStep, WriterStep, OtherStep DEF Next, Proceed
<1>5. CountInv'
  BY <1>1, <1>2, CountStep
<1> QED
  BY <1>4, <1>5

LEMMA LegacyStep ==
  ASSUME IInv, [Next]_vars, ~config.useCopyPipe
  PROVE  BatchInv' /\ SnapshotInv' /\ KeysetInv'
<1>1. BatchInv /\ SnapshotInv /\ KeysetInv
  BY DEF IInv, LegacyInv
<1>2. SetTypes /\ NumberTypes
  BY TypesOneByOne DEF IInv
<1>3. LegacySteps
  BY <1>1, LegacyStepsOnly
<1> QED
  BY <1>1, <1>2, <1>3, BatchStep, SnapshotStep, KeysetStep

LEMMA IInvHolds == Spec => []IInv
<1>1. IInv /\ [Next]_vars => IInv'
  <2> SUFFICES ASSUME IInv, [Next]_vars PROVE IInv'
    OBVIOUS
  <2>1. TypeOK' /\ SampleInv' /\ ConfigInv' /\ ModeInv'
    BY TypeStep, ConfigStep, ModeStep DEF IInv
  <2>2. config' = config
    BY ConfigFixed
  <2>3. StreamInv' /\ LegacyInv'
    BY <2>2, StreamStep, LegacyStep DEF StreamInv, LegacyInv
  <2> QED
    BY <2>1, <2>3 DEF IInv
<1> QED
  BY <1>1, InitIInv, PTL DEF Spec

(* The streaming copy replaces the table as a whole or not at all.  See       *)
(* AllOrNothing.                                                            *)
THEOREM StreamingAtomic == Spec => []AllOrNothing
<1>1. IInv => AllOrNothing
  BY DEF IInv, StreamInv, WriterInv, DestInv, AllOrNothing
<1> QED
  BY <1>1, IInvHolds, PTL

(* A copy that returns no error has replaced the old rows by all it had to   *)
(* copy.  See CopyComplete.                                                  *)
THEOREM SuccessMeansComplete == Spec => []CopyComplete
<1>1. IInv => CopyComplete
  <2> SUFFICES ASSUME IInv, result = "ok" PROVE CopyComplete
    BY DEF CopyComplete
  <2>1. CASE config.useCopyPipe
    <3>1. dest = Exactly(view) /\ ~config.hasPK
      BY <2>1 DEF IInv, StreamInv, CountInv, ConfigInv
    <3> QED
      BY <3>1, ExactlyContents DEF CopyComplete
  <2>2. CASE ~config.useCopyPipe
    <3>1. /\ ~dest.old
          /\ config.snapshot => dest = Exactly(view)
          /\ config.hasPK => \A r \in stable : dest.rows[r] > 0
      BY <2>2 DEF IInv, LegacyInv, BatchInv, SnapshotInv, KeysetInv
    <3>2. stable \subseteq Row
      BY TypesOneByOne DEF IInv, SetTypes
    <3> QED
      BY <2>2, <3>1, <3>2 DEF CopyComplete, RowsIn
  <2> QED
    BY <2>1, <2>2
<1> QED
  BY <1>1, IInvHolds, PTL

(* No row is written twice, even where no unique index would refuse it.  See *)
(* NoRowTwice.                                                               *)
THEOREM RowsAtMostOnce == Spec => []NoRowTwice
<1>1. IInv => NoRowTwice
  <2> SUFFICES ASSUME IInv, config.useCopyPipe \/ config.hasPK \/ config.snapshot
               PROVE  \A r \in Row : dest.rows[r] <= 1
    BY DEF NoRowTwice
  <2>1. \A S : \A r \in Row : Exactly(S).rows[r] <= 1
    BY ExactlyContents
  <2>2. \A r \in Row : Untouched.rows[r] <= 1
    BY EmptyContents
  <2>3. \/ dest = Untouched
        \/ \E S : dest = Exactly(S)
        \/ \A r \in Row : dest.rows[r] <= 1
    BY DEF IInv, StreamInv, DestInv, LegacyInv, SnapshotInv, KeysetInv
  <2> QED
    BY <2>1, <2>2, <2>3
<1> QED
  BY <1>1, IInvHolds, PTL

(* What the batches of a snapshot leave, at any moment and after any failure, *)
(* is a prefix of it.  See CommittedPrefix.                                  *)
THEOREM BatchesLeavePrefix == Spec => []CommittedPrefix
<1>1. IInv => CommittedPrefix
  <2> SUFFICES ASSUME IInv, config.snapshot, ~dest.old PROVE CommittedPrefix
    BY DEF CommittedPrefix
  <2>1. PICK P \in SUBSET view : Prefix(P, view) /\ dest = Exactly(P)
    <3>1. ~config.useCopyPipe /\ dest # Untouched
      BY EmptyContents DEF IInv, ConfigInv
    <3> QED
      BY <3>1 DEF IInv, LegacyInv, SnapshotInv
  <2>2. view \subseteq Row
    BY TypesOneByOne DEF IInv, SetTypes
  <2>3. RowsIn(dest) = P
    BY <2>1, <2>2, ExactlyContents DEF RowsIn
  <2> QED
    BY <2>1, <2>3 DEF CommittedPrefix, Prefix
<1> QED
  BY <1>1, IInvHolds, PTL

(* When the copy is done, SyncedRows and the sum shown on the bar are the    *)
(* rows of the table, whoever counted them.  See ProgressExact.              *)
THEOREM ProgressCountsRows == Spec => []ProgressExact
<1>1. IInv => ProgressExact
  BY DEF IInv, StreamInv, CountInv, LegacyInv, BatchInv, ProgressExact
<1> QED
  BY <1>1, IInvHolds, PTL

-----------------------------------------------------------------------------
(* Why the copy and its goroutines end.                                    *)

\* What EverythingEnds says of a state.
Ended == pc = "done" /\ writer \in {"none", "ended"} /\ poller \in {"none", "ended"}

\* A step of those that are fair can be taken: their guards.
Ready ==
  \/ pc \in {"clear", "select", "insert", "open", "commit", "close"}
  \/ pc \in {"header", "copyin"} /\ (pipe # 0 \/ pipeEnd # "open")
  \/ pc \in {"stop", "abort"} /\ poller = "ended"
  \/ writer = "begin"
  \/ writer = "copying" /\ (pipe = 0 \/ ~pipeRead)
  \/ poller = "sampled"
  \/ poller = "waiting" /\ pc \notin {"header", "copyin"}

\* Who is waited for was started, and nobody writes to a pipe that is open
\* but no longer read.
StartedInv ==
  config.useCopyPipe => /\ pc \in {"header", "copyin"} => writer # "none"
                        /\ pc \in {"copyin", "stop", "abort"} => poller # "none"
                        /\ pc = "done" => ~pipeRead

LEMMA StartedStep == IInv /\ StartedInv /\ [Next]_vars => StartedInv'
<1> SUFFICES ASSUME IInv, StartedInv, [Next]_vars, config.useCopyPipe PROVE StartedInv'
  BY ConfigFixed DEF StartedInv
<1> USE DEF StartedInv
<1>1. CASE OpenStream \/ ReadHeader
  BY <1>1 DEF OpenStream, ReadHeader, writerVars
<1>2. CASE CopyRow \/ CopyInEnds \/ CopyInFails \/ StopPoller \/ CommitStream \/ CloseStream
  BY <1>2 DEF CopyRow, CopyInEnds, CopyInFails, StopPoller, CommitStream, CloseStream,
              writerVars, pollVars
<1>3. CASE Writer
  BY <1>3 DEF Writer, BeginCopyOut, WriteRow, CopyOutEnds, CopyOutFails, mainVars, pollVars
<1>4. CASE Poller
  BY <1>4 DEF Poller, PollSample, PollPublish, PollQuits, copyVars, writerVars
<1>5. CASE SourceChanges \/ UNCHANGED vars
  BY <1>5 DEF SourceChanges, vars, writerVars, pollVars
<1>6. ~(ClearDestinationTable \/ SelectBatch \/ InsertChunk \/ CommitBatch \/ FailBatch)
  BY DEF IInv, ModeInv, StreamingPC, ClearDestinationTable, SelectBatch, InsertChunk,
         CommitBatch, FailBatch
<1> QED
  BY <1>1, <1>2, <1>3, <1>4, <1>5, <1>6 DEF Next, Proceed

(* copyTable, its writer and its poller never wait for each other in a circle: *)
(* until all have ended one of those that are fair can go on.  In particular a *)
(* writer that fills a pipe nobody reads finds it closed.                      *)
THEOREM NobodyStuck == Spec => [](~Ended => Ready)
<1>1. Init => StartedInv
  BY DEF Init, StartedInv
<1>2. ASSUME IInv, StartedInv, ~Ended PROVE Ready
  <2>1. ControlTypes
    BY <1>2, TypesOneByOne DEF IInv
  <2>2. CASE config.useCopyPipe
    <3>1. WriterInv /\ FillInv /\ CountInv /\ ModeInv
      BY <1>2, <2>2 DEF IInv, StreamInv
    <3>2. CASE pc \in {"header", "copyin"}
      BY <1>2, <2>1, <2>2, <3>1, <3>2 DEF StartedInv, WriterInv, ControlTypes, Ready
    <3>3. CASE pc \in {"stop", "abort"}
      BY <1>2, <2>1, <2>2, <3>3 DEF StartedInv, ControlTypes, Ready
    <3>4. CASE pc = "done"
      BY <1>2, <2>1, <2>2, <3>1, <3>4 DEF StartedInv, CountInv, ControlTypes, Ended, Ready
    <3> QED
      BY <2>2, <3>1, <3>2, <3>3, <3>4 DEF ModeInv, StreamingPC, Ready
  <2>3. CASE ~config.useCopyPipe
    BY <1>2, <2>3 DEF IInv, LegacyInv, BatchInv, Ended, Ready
  <2> QED
    BY <2>2, <2>3
<1> QED
  BY <1>1, <1>2, StartedStep, IInvHolds, PTL DEF Spec

\* How much is left to do.  A batch that is not the last leaves fewer rows to
\* read.  Every other step leaves them as they are, and brings a process
\* nearer to its end.
Rows == Cardinality(Row)
Bit(b) == IF b THEN 1 ELSE 0

ReadLeft == IF config.hasPK THEN Cardinality({r \in Row : r > lastPK}) ELSE Rows - offset

Stage == [clear |-> Rows + 4, select |-> Rows + 3, insert |-> 1, open |-> 6, header |-> 5,
          copyin |-> 4, stop |-> 3, abort |-> 3, commit |-> 2, close |-> 1, done |-> 0]
InStage == IF pc = "clear" THEN ClearAttempts - attempt
           ELSE IF pc = "insert" THEN Cardinality(toInsert) ELSE 0
WriterStage == [none |-> 2 * Rows + 3, begin |-> 2 * Rows + 2, copying |-> 1, ended |-> 0]

MainLeft == Stage[pc] + InStage
WriterLeft == WriterStage[writer] + (2 * Cardinality(toSend) + Bit(pipe # 0))
PollerLeft == IF poller = "none" THEN 2 * Rows + 2
              ELSE IF poller = "waiting" THEN 2 * (Rows - tracked) + 1
              ELSE IF poller = "sampled" THEN 2 * (Rows - processed) + 2 ELSE 0
WritesLeft == MaxWrites - writes
CopyLeft == MainLeft + WriterLeft
OthersLeft == PollerLeft + WritesLeft
StepsLeft == CopyLeft + OthersLeft

Nearer == ReadLeft' < ReadLeft \/ (ReadLeft' = ReadLeft /\ StepsLeft' < StepsLeft)

\* No offset, no sample and no transaction of a stream goes beyond the rows
\* there can be.
BoundInv ==
  /\ offset <= Rows
  /\ config.useCopyPipe =>
       /\ tracked <= Rows
       /\ poller = "sampled" => processed <= Rows
       /\ pc \in {"copyin", "stop", "abort"} => Size(tx) <= Rows

LEMMA RowCounts ==
  /\ Rows \in Nat
  /\ \A S \in SUBSET Row : Cardinality(S) \in 0..Rows
BY RowSets DEF Rows

(* Removing rows leaves fewer. *)
LEMMA FewerRows ==
  ASSUME NEW S, S \subseteq Row, NEW T, T \subseteq S, T # S
  PROVE  Cardinality(T) < Cardinality(S)
<1>1. IsFiniteSet(S) /\ IsFiniteSet(T) /\ Cardinality(S) \in Nat /\ Cardinality(T) \in Nat
  BY RowSets
<1> QED
  BY <1>1, FS_Subset

(* A read of a set that has rows returns some. *)
LEMMA FirstReadsSome ==
  ASSUME NEW n \in Nat \ {0}, NEW S, S \subseteq Row, S # {}
  PROVE  First(n, S) # {}
<1> SUFFICES ASSUME First(n, S) = {} PROVE FALSE
  OBVIOUS
<1>1. Cardinality(First(n, S)) = 0
  BY FS_EmptySet
<1> QED
  BY <1>1, FirstIsAll

(* A batch that is full by OFFSET pagination lies within the rows; one by     *)
(* keyset pagination moves the cursor.                                        *)
LEMMA FullBatchReads ==
  ASSUME SetTypes, NumberTypes, BatchInv, CommitBatch, ~LastBatch, offset <= Rows
  PROVE  offset' <= Rows /\ ReadLeft' < ReadLeft
<1>1. /\ scanned = First(BatchSize, view \ Copied) /\ view \subseteq Row /\ config' = config
  BY DEF CommitBatch, BatchInv, SetTypes
<1>2. BatchSize \in Nat \ {0} /\ Rows \in Nat /\ offset \in Nat
  BY TableCopyAssumption, RowCounts DEF NumberTypes
<1>3. view \ Copied \subseteq Row
  BY <1>1
<1>4. IsFiniteSet(scanned) /\ Cardinality(scanned) = BatchSize /\ scanned \subseteq view \ Copied
  <2>1. IsFiniteSet(scanned) /\ Cardinality(scanned) \in 0..BatchSize
    BY <1>1, <1>2, <1>3, FirstIsBounded
  <2>2. scanned \subseteq view \ Copied
    BY <1>1 DEF First
  <2> QED
    BY <1>2, <2>1, <2>2 DEF LastBatch
<1>5. scanned # {}
  BY <1>2, <1>4, FS_EmptySet
<1>6. CASE config.hasPK
  <2>1. lastPK' \in scanned /\ offset' = offset
    BY <1>6 DEF CommitBatch
  <2>2. Copied = {r \in view : r <= lastPK} /\ lastPK \in Nat /\ lastPK' \in Row
    BY <1>1, <1>4, <1>6, <2>1, TableCopyAssumption DEF Copied, SetTypes
  <2>3. \A r \in Row : r \in Nat
    BY TableCopyAssumption
  <2>4. lastPK' > lastPK
    BY <1>1, <1>4, <2>1, <2>2, <2>3
  <2> DEFINE later == {r \in Row : r > lastPK}
             after == {r \in Row : r > lastPK'}
  <2>5. after \subseteq later /\ later \subseteq Row /\ after # later
    BY <2>2, <2>3, <2>4
  <2>6. ReadLeft = Cardinality(later) /\ ReadLeft' = Cardinality(after)
    BY <1>1, <1>6 DEF ReadLeft
  <2> HIDE DEF later, after
  <2> QED
    BY <2>1, <2>5, <2>6, FewerRows
<1>7. CASE ~config.hasPK
  <2>1. offset' = offset + BatchSize
    BY <1>7 DEF CommitBatch, NextOffset
  <2>2. Copied = First(offset, view) /\ Copied' = Copied \union scanned
    BY <1>7, CommitMoves DEF Copied
  <2>3. IsFiniteSet(Copied) /\ Cardinality(Copied) \in 0..offset /\ Copied \subseteq view
    BY <1>1, <1>2, <2>2, FirstIsBounded, FirstIsPrefix
  <2>4. Cardinality(Copied) = offset
    <3>1. Copied # view
      BY <1>4, <1>5
    <3> QED
      BY <1>1, <1>2, <2>2, <2>3, <3>1, FirstIsAll
  <2>5. Cardinality(Copied \union scanned) = offset + BatchSize
    BY <1>4, <2>3, <2>4, CardinalityDisjoint
  <2>6. offset' <= Rows
    <3>1. Copied \union scanned \in SUBSET Row
      BY <1>1, <1>4, <2>3
    <3> QED
      BY <1>2, <2>1, <2>5, <3>1, RowCounts
  <2>7. ReadLeft = Rows - offset /\ ReadLeft' = Rows - offset'
    BY <1>1, <1>7 DEF ReadLeft, Rows
  <2> QED
    BY <1>2, <2>1, <2>6, <2>7
<1> QED
  BY <1>6, <1>7

LEMMA SizeOfExactly ==
  ASSUME NEW S, S \subseteq Row
  PROVE  Size(Exactly(S)) = Cardinality(S)
<1>1. Size(Exactly(S)) = Size(Emptied) + Cardinality(S)
  BY EmptyContents, SizeAdd DEF Exactly
<1> QED
  BY <1>1, SizeOfNothing, RowCounts

LEMMA StreamIsBounded ==
  ASSUME IInv, config.useCopyPipe, pc \in {"copyin", "stop"}
  PROVE  Size(tx) <= Rows
<1>1. tx = Exactly(Delivered) /\ view \subseteq Row
  BY DEF IInv, StreamInv, WriterInv, FillInv
<1>2. Delivered \in SUBSET Row
  BY <1>1 DEF Delivered
<1> QED
  BY <1>1, <1>2, SizeOfExactly, RowCounts

LEMMA OffsetStep == IInv /\ offset <= Rows /\ [Next]_vars => offset' <= Rows
<1> SUFFICES ASSUME IInv, offset <= Rows, [Next]_vars PROVE offset' <= Rows
  OBVIOUS
<1>1. CASE CommitBatch
  <2>1. SetTypes /\ NumberTypes /\ BatchInv
    BY <1>1, TypesOneByOne
       DEF IInv, LegacyInv, ModeInv, StreamingPC, CommitBatch
  <2>2. CASE LastBatch
    BY <1>1, <2>2 DEF CommitBatch
  <2> QED
    BY <1>1, <2>1, <2>2, FullBatchReads
<1>2. CASE ~CommitBatch
  BY <1>2 DEF Next, vars, batchVars, SourceChanges, Proceed, ClearDestinationTable, SelectBatch,
     InsertChunk, FailBatch, OpenStream, ReadHeader, CopyRow, CopyInEnds, CopyInFails,
     StopPoller, CommitStream, CloseStream, Writer, BeginCopyOut, WriteRow, CopyOutEnds,
     CopyOutFails, Poller, PollSample, PollPublish, PollQuits, copyVars, mainVars
<1> QED
  BY <1>1, <1>2

LEMMA BoundStep == IInv /\ IInv' /\ BoundInv /\ [Next]_vars => BoundInv'
<1> SUFFICES ASSUME IInv, IInv', BoundInv, [Next]_vars PROVE BoundInv'
  OBVIOUS
<1>1. config' = config /\ offset' <= Rows
  BY ConfigFixed, OffsetStep DEF BoundInv
<1>2. SUFFICES ASSUME config.useCopyPipe
               PROVE  /\ tracked' <= Rows
                      /\ poller' = "sampled" => processed' <= Rows
                      /\ pc' \in {"copyin", "stop", "abort"} => Size(tx') <= Rows
  <2>1. Rows' = Rows /\ Size(tx)' = Size(tx')
    BY DEF Rows, Size
  <2> QED
    BY <1>1, <1>2, <2>1 DEF BoundInv
<1>3. /\ tracked <= Rows
      /\ poller = "sampled" => processed <= Rows
      /\ pc \in {"copyin", "stop", "abort"} => Size(tx) <= Rows
  BY <1>2 DEF BoundInv
<1>4. Rows \in Nat /\ SetTypes /\ NumberTypes /\ CountInv
  BY <1>2, RowCounts, TypesOneByOne DEF IInv, StreamInv
<1>5. Size(tx) \in Nat /\ tracked \in Nat /\ processed \in Nat
  BY <1>4, CopiesFinite DEF SetTypes, NumberTypes
<1>6. ~(ClearDestinationTable \/ SelectBatch \/ InsertChunk \/ CommitBatch \/ FailBatch)
  BY <1>2 DEF IInv, ModeInv, StreamingPC, ClearDestinationTable, SelectBatch, InsertChunk,
         CommitBatch, FailBatch
<1>7. tracked' <= Rows /\ (poller' = "sampled" => processed' <= Rows)
  <2>1. CASE PollSample
    BY <1>3, <1>4, <1>5, <2>1 DEF PollSample, LoadedRows
  <2>2. CASE PollPublish
    BY <1>3, <2>2 DEF PollPublish
  <2>3. CASE ~(PollSample \/ PollPublish)
    BY <1>3, <1>6, <2>3 DEF Next, vars, SourceChanges, Proceed, OpenStream, ReadHeader, CopyRow,
       CopyInEnds, CopyInFails, StopPoller, CommitStream, CloseStream, Writer, BeginCopyOut,
       WriteRow, CopyOutEnds, CopyOutFails, Poller, PollQuits, copyVars, mainVars, pollVars
  <2> QED
    BY <2>1, <2>2, <2>3
<1>8. pc' \in {"copyin", "stop", "abort"} => Size(tx') <= Rows
  <2>1. CASE pc' \in {"copyin", "stop"}
    <3>1. tx' = Exactly(Delivered)' /\ (view \subseteq Row)'
      BY <1>1, <1>2, <2>1 DEF IInv, StreamInv, WriterInv, FillInv
    <3>2. Exactly(Delivered)' = Exactly(Delivered') /\ Delivered' \in SUBSET Row
      BY <3>1 DEF Exactly, Add, Emptied, Delivered
    <3> QED
      BY <3>1, <3>2, SizeOfExactly, RowCounts
  <2>2. CASE pc' = "abort"
    <3>1. pc \in {"copyin", "abort"} /\ tx' = tx
      BY <1>6, <2>2 DEF Next, vars, SourceChanges, Proceed, OpenStream, ReadHeader, CopyRow,
         CopyInEnds, CopyInFails, StopPoller, CommitStream, CloseStream, Writer, BeginCopyOut,
         WriteRow, CopyOutEnds, CopyOutFails, Poller, PollSample, PollPublish, PollQuits,
         copyVars, mainVars
    <3> QED
      BY <1>3, <3>1
  <2> QED
    BY <2>1, <2>2
<1> QED
  BY <1>7, <1>8

(* What is left is never less than nothing. *)
LEMMA LeftTypes ==
  ASSUME IInv, BoundInv
  PROVE  /\ ReadLeft \in Nat /\ MainLeft \in Nat /\ WriterLeft \in Nat
         /\ PollerLeft \in Nat /\ WritesLeft \in Nat
         /\ CopyLeft \in Nat /\ OthersLeft \in Nat /\ StepsLeft \in Nat
<1>1. SetTypes /\ ControlTypes /\ NumberTypes /\ Rows \in Nat
  BY TypesOneByOne, RowCounts DEF IInv
<1>2. Cardinality(toInsert) \in Nat /\ Cardinality(toSend) \in Nat
  BY <1>1, RowSets DEF SetTypes
<1>3. ReadLeft \in Nat
  <2>1. Cardinality({r \in Row : r > lastPK}) \in Nat
    BY RowSets
  <2> QED
    BY <1>1, <2>1 DEF ReadLeft, BoundInv, NumberTypes
<1>4. MainLeft \in Nat
  BY <1>1, <1>2, TableCopyAssumption DEF MainLeft, Stage, InStage, ControlTypes, NumberTypes
<1>5. WriterLeft \in Nat
  BY <1>1, <1>2 DEF WriterLeft, WriterStage, Bit, ControlTypes
<1>6. PollerLeft \in Nat
  <2>1. CASE config.useCopyPipe
    BY <1>1, <2>1 DEF PollerLeft, BoundInv, NumberTypes
  <2>2. CASE ~config.useCopyPipe
    BY <1>1, <2>2 DEF PollerLeft, IInv, LegacyInv, BatchInv
  <2> QED
    BY <2>1, <2>2
<1>7. WritesLeft \in Nat
  BY <1>1, TableCopyAssumption DEF WritesLeft, NumberTypes
<1> QED
  BY <1>3, <1>4, <1>5, <1>6, <1>7 DEF StepsLeft, CopyLeft, OthersLeft

\* The steps of each process.
MainSteps == \/ ClearDestinationTable \/ SelectBatch \/ InsertChunk \/ CommitBatch \/ FailBatch
             \/ OpenStream \/ ReadHeader \/ CopyInEnds \/ CopyInFails \/ StopPoller
             \/ CommitStream \/ CloseStream
OtherSteps == SourceChanges \/ CopyRow \/ Writer \/ Poller

(* A step of copyTable that is not the commit of a full batch ... *)
LEMMA MainNearer ==
  ASSUME IInv, IInv', MainSteps, ~(CommitBatch /\ ~LastBatch)
  PROVE  MainLeft' < MainLeft /\ MainLeft' \in Int
<1>1. SetTypes /\ ControlTypes /\ NumberTypes /\ Rows \in Nat /\ toInsert' \subseteq Row
  <2>1. SetTypes'
    BY TypesOneByOne DEF IInv, TypeOK, SetTypes
  <2> QED
    BY <2>1, TypesOneByOne, RowCounts DEF IInv, SetTypes
<1>2. /\ Cardinality(toInsert) \in Nat
      /\ Cardinality(toInsert') \in Nat /\ Cardinality(toInsert') <= Rows
  <2>1. toInsert \in SUBSET Row /\ toInsert' \in SUBSET Row
    BY <1>1 DEF SetTypes
  <2> QED
    BY <1>1, <2>1, RowCounts
<1>3. attempt \in Nat /\ ClearAttempts \in Nat /\ attempt <= ClearAttempts
  BY <1>1, TableCopyAssumption DEF NumberTypes
<1>4. /\ MainLeft = Stage[pc] + InStage
      /\ MainLeft' = Stage[pc'] + (IF pc' = "clear" THEN ClearAttempts - attempt'
                                   ELSE IF pc' = "insert" THEN Cardinality(toInsert') ELSE 0)
  BY DEF MainLeft, InStage, Stage, Rows
<1> USE DEF Stage, InStage
<1>5. CASE ClearDestinationTable
  BY <1>1, <1>3, <1>4, <1>5 DEF ClearDestinationTable, FailLegacy
<1>6. CASE SelectBatch
  BY <1>1, <1>2, <1>4, <1>6 DEF SelectBatch
<1>7. CASE InsertChunk
  <2>1. Cardinality(toInsert') < Cardinality(toInsert)
    <3>1. First(RowsPerStatement, toInsert) # {} /\ toInsert # {} /\ toInsert \subseteq Row
      BY <1>1, <1>7, FirstReadsSome, TableCopyAssumption DEF InsertChunk, SetTypes
    <3>2. First(RowsPerStatement, toInsert) \subseteq toInsert
      BY DEF First
    <3>3. toInsert' \subseteq toInsert /\ toInsert' # toInsert
      BY <1>7, <3>1, <3>2 DEF InsertChunk
    <3> QED
      BY <3>1, <3>3, FewerRows
  <2> QED
    BY <1>2, <1>4, <1>7, <2>1 DEF InsertChunk
<1>8. CASE CommitBatch
  <2>1. pc = "insert" /\ pc' = "done"
    BY <1>8 DEF CommitBatch
  <2> QED
    BY <1>2, <1>4, <2>1
<1>9. CASE FailBatch
  <2>1. pc \in {"select", "insert"} /\ pc' = "done"
    BY <1>9 DEF FailBatch, FailLegacy
  <2> QED
    BY <1>1, <1>2, <1>4, <2>1
<1>10. CASE \/ OpenStream \/ ReadHeader \/ CopyInEnds \/ CopyInFails \/ StopPoller
            \/ CommitStream \/ CloseStream
  BY <1>4, <1>10 DEF OpenStream, ReadHeader, CopyInEnds, CopyInFails, StopPoller, CommitStream,
     CloseStream
<1> QED
  BY <1>5, <1>6, <1>7, <1>8, <1>9, <1>10 DEF MainSteps

(* ... leaves the other processes with no more to do than before. *)
LEMMA MainStarts ==
  ASSUME IInv, MainSteps
  PROVE  /\ WriterLeft' <= WriterLeft /\ PollerLeft' <= PollerLeft /\ WritesLeft' = WritesLeft
         /\ WriterLeft' \in Int /\ PollerLeft' \in Int
<1>1. SetTypes /\ ControlTypes /\ NumberTypes /\ Rows \in Nat
  BY TypesOneByOne, RowCounts DEF IInv
<1>2. Cardinality(toSend) \in Nat
  BY <1>1, RowSets DEF SetTypes
<1>3. WriterLeft \in Int /\ PollerLeft \in Int
  BY <1>1, <1>2 DEF WriterLeft, WriterStage, Bit, PollerLeft, ControlTypes, NumberTypes
<1>4. UNCHANGED <<writes, toSend, pipe, tracked, processed>>
  BY DEF MainSteps, ClearDestinationTable, SelectBatch, InsertChunk, CommitBatch, FailBatch,
     OpenStream, ReadHeader, CopyInEnds, CopyInFails, StopPoller, CommitStream, CloseStream,
     sourceVars, streamVars, writerVars, pollVars
<1>5. CASE OpenStream
  <2>1. config.useCopyPipe
    BY <1>5 DEF IInv, LegacyInv, BatchInv, OpenStream
  <2>2. writer = "none" /\ poller = "none" /\ tracked \in Nat
    BY <1>1, <1>5, <2>1 DEF IInv, StreamInv, FillInv, CountInv, OpenStream, NumberTypes
  <2>3. writer' \in {"none", "begin"} /\ poller' \in {"none", "waiting"}
    BY <1>5, <2>2 DEF OpenStream
  <2>4. WriterLeft' <= WriterLeft /\ WriterLeft' \in Int
    <3>1. WriterLeft' = WriterStage[writer'] + (2 * Cardinality(toSend) + Bit(pipe # 0))
      BY <1>4 DEF WriterLeft, WriterStage, Rows, Bit
    <3> QED
      BY <1>1, <1>2, <2>2, <2>3, <3>1 DEF WriterLeft, WriterStage, Bit
  <2>5. PollerLeft' <= PollerLeft /\ PollerLeft' \in Int
    BY <1>1, <1>4, <2>2, <2>3 DEF PollerLeft, Rows
  <2> QED
    BY <1>4, <2>4, <2>5 DEF WritesLeft
<1>6. CASE ReadHeader
  <2>1. config.useCopyPipe
    BY <1>6 DEF IInv, LegacyInv, BatchInv, ReadHeader
  <2>2. poller = "none" /\ tracked \in Nat
    BY <1>1, <1>6, <2>1 DEF IInv, StreamInv, CountInv, ReadHeader, NumberTypes
  <2>3. writer' = writer /\ poller' \in {"none", "waiting"}
    BY <1>6, <2>2 DEF ReadHeader, writerVars
  <2>4. WriterLeft' = WriterLeft
    BY <1>4, <2>3 DEF WriterLeft, WriterStage, Rows, Bit
  <2>5. PollerLeft' <= PollerLeft /\ PollerLeft' \in Int
    BY <1>1, <1>4, <2>2, <2>3 DEF PollerLeft, Rows
  <2> QED
    BY <1>3, <1>4, <2>4, <2>5 DEF WritesLeft
<1>7. CASE ~(OpenStream \/ ReadHeader)
  <2>1. UNCHANGED <<writer, poller>>
    BY <1>7 DEF MainSteps, ClearDestinationTable, SelectBatch, InsertChunk, CommitBatch,
       FailBatch, CopyInEnds, CopyInFails, StopPoller, CommitStream, CloseStream,
       streamVars, writerVars, pollVars
  <2>2. WriterLeft' = WriterLeft /\ PollerLeft' = PollerLeft /\ WritesLeft' = WritesLeft
    BY <1>4, <2>1 DEF WriterLeft, WriterStage, Bit, PollerLeft, WritesLeft, Rows
  <2> QED
    BY <1>3, <2>2
<1> QED
  BY <1>5, <1>6, <1>7

(* A step of the writer, with or without copyTable at the other end of the    *)
(* pipe.                                                                      *)
LEMMA WriterNearer ==
  ASSUME IInv, IInv', Writer \/ CopyRow
  PROVE  WriterLeft' < WriterLeft /\ WriterLeft' \in Int
<1>1. config.useCopyPipe /\ WriterInv
  BY DEF IInv, StreamInv, LegacyInv, BatchInv, Writer, BeginCopyOut, WriteRow, CopyOutEnds,
         CopyOutFails, CopyRow
<1>2. SetTypes /\ ControlTypes /\ Rows \in Nat /\ toSend' \subseteq Row /\ 0 \notin Row
  <2>1. SetTypes'
    BY TypesOneByOne DEF IInv, TypeOK, SetTypes
  <2> QED
    BY <2>1, TypesOneByOne, RowCounts, TableCopyAssumption DEF IInv, SetTypes
<1>3. /\ Cardinality(toSend) \in Nat
      /\ Cardinality(toSend') \in Nat /\ Cardinality(toSend') <= Rows
  <2>1. toSend \in SUBSET Row /\ toSend' \in SUBSET Row
    BY <1>2 DEF SetTypes
  <2> QED
    BY <1>2, <2>1, RowCounts
<1>4. /\ WriterLeft = WriterStage[writer] + (2 * Cardinality(toSend) + Bit(pipe # 0))
      /\ WriterLeft' = WriterStage[writer'] + (2 * Cardinality(toSend') + Bit(pipe' # 0))
  BY DEF WriterLeft, WriterStage, Rows, Bit
<1> USE DEF WriterStage, Bit
<1>5. CASE BeginCopyOut
  BY <1>2, <1>3, <1>4, <1>5 DEF BeginCopyOut
<1>6. CASE WriteRow
  <2>1. pipe = 0 /\ pipe' \in toSend /\ toSend' = toSend \ {pipe'} /\ writer' = writer
    BY <1>6 DEF WriteRow, First
  <2>2. Cardinality(toSend') < Cardinality(toSend)
    BY <1>2, <2>1, FewerRows DEF SetTypes
  <2> QED
    BY <1>2, <1>3, <1>4, <2>1, <2>2 DEF ControlTypes
<1>7. CASE CopyOutEnds \/ CopyOutFails
  <2>1. writer \in {"begin", "copying"} /\ writer' = "ended" /\ toSend' = toSend /\ pipe' \in {0, pipe}
    BY <1>7 DEF CopyOutEnds, CopyOutFails
  <2> QED
    BY <1>2, <1>3, <1>4, <2>1
<1>8. CASE CopyRow
  <2>1. pipe # 0 /\ pipe' = 0 /\ writer' = writer /\ toSend' = toSend
    BY <1>8 DEF CopyRow, writerVars
  <2> QED
    BY <1>2, <1>3, <1>4, <2>1 DEF ControlTypes
<1> QED
  BY <1>5, <1>6, <1>7, <1>8 DEF Writer

LEMMA PollerNearer ==
  ASSUME IInv, BoundInv, Poller
  PROVE  PollerLeft' < PollerLeft /\ PollerLeft' \in Int
<1>1. NumberTypes /\ Rows \in Nat /\ Size(tx) \in Nat
  <2>1. SetTypes /\ NumberTypes
    BY TypesOneByOne DEF IInv
  <2> QED
    BY <2>1, RowCounts, CopiesFinite DEF SetTypes
<1>2. tracked <= Rows /\ (poller = "sampled" => processed <= Rows)
  BY DEF IInv, LegacyInv, BatchInv, BoundInv, Poller, PollSample, PollPublish, PollQuits
<1>3. PollerLeft = IF poller = "none" THEN 2 * Rows + 2
                   ELSE IF poller = "waiting" THEN 2 * (Rows - tracked) + 1
                   ELSE IF poller = "sampled" THEN 2 * (Rows - processed) + 2 ELSE 0
  BY DEF PollerLeft
<1>4. PollerLeft' = IF poller' = "none" THEN 2 * Rows + 2
                    ELSE IF poller' = "waiting" THEN 2 * (Rows - tracked') + 1
                    ELSE IF poller' = "sampled" THEN 2 * (Rows - processed') + 2 ELSE 0
  BY DEF PollerLeft, Rows
<1> USE DEF NumberTypes
<1>5. CASE PollSample
  <2>1. poller = "waiting" /\ poller' = "sampled" /\ tracked < processed' /\ processed' \in Nat
    BY <1>1, <1>5 DEF PollSample, LoadedRows
  <2>2. /\ PollerLeft = 2 * (Rows - tracked) + 1
        /\ PollerLeft' = 2 * (Rows - processed') + 2
    BY <1>3, <1>4, <2>1
  <2>3. \A r, t, p \in Nat : t < p => /\ 2 * (r - p) + 2 < 2 * (r - t) + 1
                                      /\ 2 * (r - p) + 2 \in Int
    OBVIOUS
  <2> QED
    BY <1>1, <2>1, <2>2, <2>3
<1>6. CASE PollPublish
  BY <1>1, <1>2, <1>3, <1>4, <1>6 DEF PollPublish
<1>7. CASE PollQuits
  BY <1>1, <1>2, <1>3, <1>4, <1>7 DEF PollQuits
<1> QED
  BY <1>5, <1>6, <1>7 DEF Poller

LEMMA SumLess ==
  \A a, b, c, d \in Int :
    c <= a /\ d <= b => /\ c + d \in Int /\ c + d <= a + b
                        /\ c < a \/ d < b => c + d < a + b
OBVIOUS

(* No step leaves any process more to do, and one has less: whose step it is. *)
LEMMA PartsNearer ==
  ASSUME IInv, IInv', BoundInv, Next, ~(CommitBatch /\ ~LastBatch)
  PROVE  /\ MainLeft' \in Int /\ WriterLeft' \in Int /\ PollerLeft' \in Int
         /\ WritesLeft' \in Int
         /\ MainLeft' <= MainLeft /\ WriterLeft' <= WriterLeft
         /\ PollerLeft' <= PollerLeft /\ WritesLeft' <= WritesLeft
         /\ \/ MainLeft' < MainLeft \/ WriterLeft' < WriterLeft
            \/ PollerLeft' < PollerLeft \/ WritesLeft' < WritesLeft
<1>1. /\ MainLeft \in Int /\ WriterLeft \in Int /\ PollerLeft \in Int
      /\ WritesLeft \in Int
  BY LeftTypes
<1> USE DEF batchVars, writerVars, pollVars, sourceVars
<1>2. CASE MainSteps
  <2>1. MainLeft' < MainLeft /\ MainLeft' \in Int
    BY <1>2, MainNearer
  <2>2. /\ WriterLeft' <= WriterLeft /\ PollerLeft' <= PollerLeft /\ WritesLeft' = WritesLeft
        /\ WriterLeft' \in Int /\ PollerLeft' \in Int
    BY <1>2, MainStarts
  <2> QED
    BY <1>1, <2>1, <2>2
<1>3. CASE Writer \/ CopyRow
  <2>1. UNCHANGED <<pc, attempt, toInsert, poller, tracked, processed, writes>>
    BY <1>3 DEF Writer, BeginCopyOut, WriteRow, CopyOutEnds, CopyOutFails, CopyRow, mainVars
  <2>2. MainLeft' = MainLeft /\ PollerLeft' = PollerLeft /\ WritesLeft' = WritesLeft
    BY <2>1 DEF MainLeft, Stage, InStage, PollerLeft, WritesLeft, Rows
  <2> QED
    BY <1>1, <1>3, <2>2, WriterNearer
<1>4. CASE Poller
  <2>1. UNCHANGED <<pc, attempt, toInsert, writer, toSend, pipe, writes>>
    BY <1>4 DEF Poller, PollSample, PollPublish, PollQuits, copyVars
  <2>2. MainLeft' = MainLeft /\ WriterLeft' = WriterLeft /\ WritesLeft' = WritesLeft
    BY <2>1 DEF MainLeft, Stage, InStage, WriterLeft, WriterStage, Bit, WritesLeft, Rows
  <2> QED
    BY <1>1, <1>4, <2>2, PollerNearer
<1>5. CASE SourceChanges
  <2>1. UNCHANGED <<pc, attempt, toInsert, writer, toSend, pipe, poller, tracked, processed>>
    BY <1>5 DEF SourceChanges
  <2>2. MainLeft' = MainLeft /\ WriterLeft' = WriterLeft /\ PollerLeft' = PollerLeft
    BY <2>1 DEF MainLeft, Stage, InStage, WriterLeft, WriterStage, Bit, PollerLeft, Rows
  <2>3. WritesLeft' < WritesLeft /\ WritesLeft' \in Int
    <3>1. writes' = writes + 1 /\ writes \in Nat /\ MaxWrites \in Nat
      BY <1>5, TypesOneByOne, TableCopyAssumption DEF SourceChanges, IInv, NumberTypes
    <3> QED
      BY <3>1 DEF WritesLeft
  <2> QED
    BY <1>1, <2>2, <2>3
<1> QED
  BY <1>2, <1>3, <1>4, <1>5 DEF Next, Proceed, MainSteps

(* Every step of copyTable, of its goroutines and of those who use the source *)
(* brings the copy nearer to its end: a copy has finitely many steps.  With   *)
(* NobodyStuck, that is why it ends.                                          *)
THEOREM CopyStepsRunOut ==
  Spec => [](ReadLeft \in Nat /\ StepsLeft \in Nat) /\ [][Nearer]_vars
<1>1. Init => BoundInv
  <2>1. Rows \in Nat
    BY RowCounts
  <2> QED
    BY <2>1 DEF Init, BoundInv
<1>2. IInv /\ BoundInv => ReadLeft \in Nat /\ StepsLeft \in Nat
  BY LeftTypes
<1>3. ASSUME IInv, IInv', BoundInv, Next PROVE Nearer
  <2>1. CASE CommitBatch /\ ~LastBatch
    <3>1. SetTypes /\ NumberTypes /\ BatchInv /\ offset <= Rows
      BY <1>3, <2>1, TypesOneByOne
         DEF IInv, LegacyInv, ModeInv, StreamingPC, CommitBatch, BoundInv
    <3> QED
      BY <2>1, <3>1, FullBatchReads DEF Nearer
  <2>2. CASE ~(CommitBatch /\ ~LastBatch)
    <3>1. ReadLeft' = ReadLeft
      <4>1. UNCHANGED <<config, lastPK, offset>>
        BY <1>3, <2>2 DEF Next, batchVars, SourceChanges, Proceed, ClearDestinationTable,
           SelectBatch, InsertChunk, CommitBatch, FailBatch, OpenStream, ReadHeader, CopyRow,
           CopyInEnds, CopyInFails, StopPoller, CommitStream, CloseStream, Writer, BeginCopyOut,
           WriteRow, CopyOutEnds, CopyOutFails, Poller, PollSample, PollPublish, PollQuits,
           copyVars, mainVars
      <4> QED
        BY <4>1 DEF ReadLeft, Rows
    <3>2. /\ MainLeft \in Int /\ WriterLeft \in Int /\ PollerLeft \in Int
          /\ WritesLeft \in Int /\ CopyLeft \in Int /\ OthersLeft \in Int
      BY <1>3, LeftTypes
    <3>3. /\ MainLeft' \in Int /\ WriterLeft' \in Int /\ PollerLeft' \in Int
          /\ WritesLeft' \in Int
          /\ MainLeft' <= MainLeft /\ WriterLeft' <= WriterLeft
          /\ PollerLeft' <= PollerLeft /\ WritesLeft' <= WritesLeft
          /\ \/ MainLeft' < MainLeft \/ WriterLeft' < WriterLeft
             \/ PollerLeft' < PollerLeft \/ WritesLeft' < WritesLeft
      BY <1>3, <2>2, <3>2, PartsNearer
    <3>4. StepsLeft' < StepsLeft
      <4>1. /\ CopyLeft' = MainLeft' + WriterLeft' /\ CopyLeft = MainLeft + WriterLeft
            /\ OthersLeft' = PollerLeft' + WritesLeft' /\ OthersLeft = PollerLeft + WritesLeft
            /\ StepsLeft' = CopyLeft' + OthersLeft' /\ StepsLeft = CopyLeft + OthersLeft
        BY DEF CopyLeft, OthersLeft, StepsLeft
      <4>2. /\ CopyLeft' \in Int /\ CopyLeft' <= CopyLeft
            /\ MainLeft' < MainLeft \/ WriterLeft' < WriterLeft => CopyLeft' < CopyLeft
        <5>1. /\ MainLeft' + WriterLeft' \in Int
              /\ MainLeft' + WriterLeft' <= MainLeft + WriterLeft
              /\ MainLeft' < MainLeft \/ WriterLeft' < WriterLeft
                   => MainLeft' + WriterLeft' < MainLeft + WriterLeft
          BY <3>2, <3>3, SumLess
        <5> QED
          BY <4>1, <5>1
      <4>3. /\ OthersLeft' \in Int /\ OthersLeft' <= OthersLeft
            /\ PollerLeft' < PollerLeft \/ WritesLeft' < WritesLeft => OthersLeft' < OthersLeft
        <5>1. /\ PollerLeft' + WritesLeft' \in Int
              /\ PollerLeft' + WritesLeft' <= PollerLeft + WritesLeft
              /\ PollerLeft' < PollerLeft \/ WritesLeft' < WritesLeft
                   => PollerLeft' + WritesLeft' < PollerLeft + WritesLeft
          BY <3>2, <3>3, SumLess
        <5> QED
          BY <4>1, <5>1
      <4> QED
        BY <3>2, <3>3, <4>1, <4>2, <4>3, SumLess
    <3> QED
      BY <3>1, <3>4 DEF Nearer
  <2> QED
    BY <2>1, <2>2
<1>4. IInv /\ IInv' /\ BoundInv /\ [Next]_vars => [Nearer]_vars
  BY <1>3
<1> QED
  BY <1>1, <1>2, <1>4, BoundStep, IInvHolds, PTL DEF Spec
=============================================================================
