-------------------------- MODULE DependencyLayers --------------------------
(***************************************************************************)
(* buildDependencyLayers (internal/copier/copier.go): the order in which   *)
(* tables are copied.  Kahn's algorithm takes, wave by wave, the planned   *)
(* tables that reference no table still to be placed; what a cycle keeps   *)
(* from ever being taken becomes one last layer.  Execute runs the layers  *)
(* one after the other (Executor), the tables of a layer in parallel, so a *)
(* layer is a set here: the sorting by name within a layer is left out.    *)
(***************************************************************************)
EXTENDS Naturals, Sequences, FiniteSets

CONSTANTS Table,   \* the tables that foreign keys connect
          Planned, \* those chosen for this copy
          FK       \* the foreign keys the manager has detected

ASSUME LayersAssumption == Planned \subseteq Table /\ IsFiniteSet(FK)

VARIABLES
  foreignKeys, \* what each key connects: the referencing and referenced table
  indeg,       \* references of each table to tables not yet placed
  frontier,    \* the next wave
  visited,     \* tables placed by a wave
  layers,      \* the layers so far
  pc

vars == <<foreignKeys, indeg, frontier, visited, layers, pc>>

\* The keys that count: both ends are planned, and they differ.  Two keys
\* between the same tables are two edges.
Edge == {f \in FK : /\ foreignKeys[f].parent \in Planned
                    /\ foreignKeys[f].child \in Planned
                    /\ foreignKeys[f].parent # foreignKeys[f].child}

\* The edges from a table of S to t.
EdgesInto(t, S) == {f \in Edge : foreignKeys[f].parent \in S /\ foreignKeys[f].child = t}

TypeOK ==
  /\ foreignKeys \in [FK -> [parent : Table, child : Table]]
  /\ indeg \in [Planned -> Nat]
  /\ frontier \subseteq Planned /\ visited \subseteq Planned
  /\ layers \in Seq(SUBSET Planned)
  /\ pc \in {"waves", "done"}

\* Mutant of Init: parallel keys are counted once, though each is an edge.
InitCountingParents ==
  /\ foreignKeys \in [FK -> [parent : Table, child : Table]]
  /\ indeg = [t \in Planned |->
               Cardinality({foreignKeys[f].parent : f \in EdgesInto(t, Planned)})]
  /\ frontier = {t \in Planned : indeg[t] = 0}
  /\ visited = {} /\ layers = <<>> /\ pc = "waves"

Init ==
  /\ foreignKeys \in [FK -> [parent : Table, child : Table]]
  /\ indeg = [t \in Planned |-> Cardinality(EdgesInto(t, Planned))]
  /\ frontier = {t \in Planned : indeg[t] = 0}
  /\ visited = {} /\ layers = <<>> /\ pc = "waves"

\* Mutant of Freed: a table is taken as soon as one of its parents is placed.
ReachedBy(wave) == {t \in Planned \ visited : EdgesInto(t, wave) # {}}

\* The tables whose last reference to an unplaced table goes with this wave:
\* their count was decremented, and is zero.
Freed(wave) ==
  {t \in Planned : EdgesInto(t, wave) # {} /\ indeg[t] = Cardinality(EdgesInto(t, wave))}

\* Mutant of Wave: the wave decrements each neighbour once per parent.
WaveOfParents ==
  /\ pc = "waves" /\ frontier # {}
  /\ layers' = Append(layers, frontier)
  /\ visited' = visited \union frontier
  /\ indeg' = [t \in Planned |->
       indeg[t] - Cardinality({foreignKeys[f].parent : f \in EdgesInto(t, frontier)})]
  /\ frontier' = {t \in Planned : EdgesInto(t, frontier) # {} /\ indeg'[t] = 0}
  /\ UNCHANGED <<foreignKeys, pc>>

\* Mutant of Wave: a layer takes one table of the frontier only.
WaveOfOne ==
  /\ pc = "waves" /\ frontier # {}
  /\ \E t \in frontier :
       /\ layers' = Append(layers, {t})
       /\ visited' = visited \union {t}
       /\ indeg' = [u \in Planned |-> indeg[u] - Cardinality(EdgesInto(u, {t}))]
       /\ frontier' = (frontier \ {t}) \union Freed({t})
  /\ UNCHANGED <<foreignKeys, pc>>

\* One iteration of the loop: the frontier becomes a layer.
Wave ==
  /\ pc = "waves" /\ frontier # {}
  /\ layers' = Append(layers, frontier)
  /\ visited' = visited \union frontier
  /\ indeg' = [t \in Planned |-> indeg[t] - Cardinality(EdgesInto(t, frontier))]
  /\ frontier' = Freed(frontier)
  /\ UNCHANGED <<foreignKeys, pc>>

\* Mutant of Finish: what a cycle leaves over is forgotten.
FinishWithoutRemaining ==
  /\ pc = "waves" /\ frontier = {}
  /\ pc' = "done"
  /\ UNCHANGED <<layers, foreignKeys, indeg, frontier, visited>>

\* The tables that no wave reached, if any, are the last layer; they are not
\* marked visited.
Finish ==
  /\ pc = "waves" /\ frontier = {}
  /\ layers' = IF visited = Planned THEN layers ELSE Append(layers, Planned \ visited)
  /\ pc' = "done"
  /\ UNCHANGED <<foreignKeys, indeg, frontier, visited>>

Next == Wave \/ Finish
Spec == Init /\ [][Next]_vars

-----------------------------------------------------------------------------
\* Every planned table is copied, and copied once: cycles, keys to tables
\* outside the plan, self-references and parallel keys lose and repeat none.
EachTableOnce ==
  pc = "done" => \A t \in Planned :
    \E i \in 1..Len(layers) : \A j \in 1..Len(layers) : t \in layers[j] <=> j = i

\* A table that a wave placed comes in a later layer than every planned table
\* it references: Execute copies the parents first.
ParentsFirst ==
  \A f \in Edge : \A j \in 1..Len(layers) :
    foreignKeys[f].child \in layers[j] /\ foreignKeys[f].child \in visited
      => \E i \in 1..(j - 1) : foreignKeys[f].parent \in layers[i]

\* A table ends in the last layer, beside its parents and in no particular
\* order with them, only because of a cycle: following references from it one
\* never leaves that layer.
OnlyCyclesRemain ==
  pc = "done" => \A t \in Planned \ visited :
    \E f \in Edge : foreignKeys[f].child = t /\ foreignKeys[f].parent \notin visited

\* No table waits longer than it must: one of its parents is in the layer
\* just before its own.
EarliestLayer ==
  \A j \in 2..Len(layers) : \A t \in layers[j] \intersect visited :
    \E f \in Edge : foreignKeys[f].child = t /\ foreignKeys[f].parent \in layers[j - 1]

-----------------------------------------------------------------------------
\* What makes the above inductive: indeg counts the edges from tables not yet
\* placed, the frontier is what those counts leave free, and the layers are
\* disjoint and, until the loop ends, make up visited.
CountInv ==
  /\ \A t \in Planned : indeg[t] = Cardinality(EdgesInto(t, Planned \ visited))
  /\ frontier = {t \in Planned \ visited : indeg[t] = 0}
  /\ \A t \in visited : indeg[t] = 0

PlacedInv ==
  /\ \A i, j \in 1..Len(layers) : \A t \in layers[i] \intersect layers[j] : i = j
  /\ \A t \in visited : \E i \in 1..Len(layers) : t \in layers[i]
  /\ pc = "waves" => \A j \in 1..Len(layers) : layers[j] \subseteq visited
  /\ pc = "done" => /\ frontier = {}
                    /\ \A t \in Planned : \E i \in 1..Len(layers) : t \in layers[i]

\* What the last wave left for the next one has a parent in the last layer.
FrontierInv ==
  pc = "waves" /\ layers # <<>> => \A t \in frontier :
    \E f \in Edge : foreignKeys[f].child = t /\ foreignKeys[f].parent \in layers[Len(layers)]
=============================================================================
