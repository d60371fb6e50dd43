----------------------- MODULE DependencyLayersProofs -----------------------
(***************************************************************************)
(* Theorems about DependencyLayers, for every set of tables and every set  *)
(* of foreign keys: each planned table is in exactly one layer, parents    *)
(* come first, and only a cycle keeps a table from its wave.               *)
(***************************************************************************)
EXTENDS DependencyLayers, FiniteSetTheorems, TLAPS

IInv == TypeOK /\ CountInv /\ PlacedInv /\ FrontierInv /\ ParentsFirst /\ EarliestLayer

(* Edges are finitely many, whatever they start from and end in. *)
LEMMA EdgesFinite ==
  ASSUME NEW t, NEW S
  PROVE  /\ IsFiniteSet(EdgesInto(t, S))
         /\ Cardinality(EdgesInto(t, S)) \in Nat
         /\ Cardinality(EdgesInto(t, S)) = 0 <=> EdgesInto(t, S) = {}
<1>1. EdgesInto(t, S) \in SUBSET FK
  BY DEF EdgesInto, Edge
<1> QED
  BY <1>1, FS_Subset, FS_EmptySet, FS_CardinalityType, LayersAssumption

(* The counting step of the loop: what remains after a wave is what there   *)
(* was less the edges from the wave.                                       *)
LEMMA EdgesSplit ==
  ASSUME NEW t, NEW S, NEW T \in SUBSET S
  PROVE  /\ Cardinality(EdgesInto(t, S \ T))
              = Cardinality(EdgesInto(t, S)) - Cardinality(EdgesInto(t, T))
         /\ Cardinality(EdgesInto(t, T)) <= Cardinality(EdgesInto(t, S))
<1>1. EdgesInto(t, S) = EdgesInto(t, S \ T) \union EdgesInto(t, T)
  BY DEF EdgesInto
<1>2. EdgesInto(t, S \ T) \intersect EdgesInto(t, T) = {}
  BY DEF EdgesInto
<1>3. Cardinality(EdgesInto(t, S) )
        = Cardinality(EdgesInto(t, S \ T)) + Cardinality(EdgesInto(t, T))
          - Cardinality(EdgesInto(t, S \ T) \intersect EdgesInto(t, T))
  BY <1>1, EdgesFinite, FS_Union
<1>4. Cardinality(EdgesInto(t, S \ T) \intersect EdgesInto(t, T)) = 0
  BY <1>2, FS_EmptySet
<1> QED
  BY <1>3, <1>4, EdgesFinite

(* An edge ends in the table it counts for.                                *)
LEMMA EdgeInto ==
  ASSUME NEW f \in Edge, NEW S, foreignKeys[f].parent \in S
  PROVE  f \in EdgesInto(foreignKeys[f].child, S)
BY DEF EdgesInto

-----------------------------------------------------------------------------
LEMMA InitInv == Init => IInv
<1> SUFFICES ASSUME Init
             PROVE  IInv
  OBVIOUS
<1>1. layers = <<>> /\ Len(layers) = 0 /\ visited = {} /\ pc = "waves"
  BY DEF Init
<1>2. TypeOK
  <2>1. indeg \in [Planned -> Nat]
    BY EdgesFinite DEF Init
  <2>2. layers \in Seq(SUBSET Planned)
    BY <1>1
  <2> QED
    BY <2>1, <2>2 DEF Init, TypeOK
<1>3. CountInv
  <2>1. Planned \ visited = Planned
    BY <1>1
  <2> QED
    BY <1>1, <2>1 DEF Init, CountInv
<1>4. PlacedInv /\ FrontierInv /\ ParentsFirst /\ EarliestLayer
  BY <1>1 DEF PlacedInv, FrontierInv, ParentsFirst, EarliestLayer
<1> QED
  BY <1>2, <1>3, <1>4 DEF IInv

(* A wave keeps the counts right, and the next frontier is what they say.  *)
LEMMA WaveCounts ==
  ASSUME IInv, Wave
  PROVE  CountInv' /\ indeg' \in [Planned -> Nat]
<1> DEFINE Rest == Planned \ visited
<1>1. frontier \in SUBSET Rest
  BY DEF IInv, CountInv
<1>2. Planned \ visited' = Rest \ frontier
  BY DEF Wave
<1>3. \A t \in Planned : EdgesInto(t, Planned \ visited)' = EdgesInto(t, Rest \ frontier)
  BY <1>2 DEF Wave, EdgesInto, Edge
<1>4. \A t \in Planned : indeg[t] = Cardinality(EdgesInto(t, Rest))
  BY DEF IInv, CountInv
<1>5. \A t \in Planned : indeg'[t] = indeg[t] - Cardinality(EdgesInto(t, frontier))
  BY DEF Wave
<1>6. \A t \in Planned : indeg'[t] = Cardinality(EdgesInto(t, Rest \ frontier))
  BY <1>1, <1>4, <1>5, EdgesSplit
<1>7. indeg' \in [Planned -> Nat]
  <2>1. \A t \in Planned : indeg'[t] \in Nat
    BY <1>6, EdgesFinite
  <2> QED
    BY <2>1 DEF Wave
<1>8. ASSUME NEW t \in Planned, indeg[t] = 0
      PROVE  indeg'[t] = 0 /\ t \notin frontier'
  <2>1. EdgesInto(t, Rest) = {}
    BY <1>4, <1>8, EdgesFinite
  <2>2. EdgesInto(t, Rest \ frontier) = {} /\ EdgesInto(t, frontier) = {}
    BY <1>1, <2>1 DEF EdgesInto
  <2>3. t \notin frontier'
    BY <2>2 DEF Wave, Freed
  <2> QED
    BY <2>2, <2>3, <1>6, EdgesFinite
<1>9. \A t \in visited' : indeg'[t] = 0
  <2>1. \A t \in visited' : t \in Planned /\ indeg[t] = 0
    BY DEF Wave, IInv, TypeOK, CountInv
  <2> QED
    BY <2>1, <1>8
<1>10. ASSUME NEW t \in Planned
       PROVE  t \in frontier' <=> t \notin visited' /\ indeg'[t] = 0
  <2>1. t \in frontier' => t \notin visited'
    <3>1. t \in visited' => indeg[t] = 0
      BY DEF Wave, IInv, CountInv
    <3> QED
      BY <3>1, <1>8
  <2>2. t \in frontier' => indeg'[t] = 0
    <3>1. t \in frontier' => indeg[t] = Cardinality(EdgesInto(t, frontier))
      BY DEF Wave, Freed
    <3> QED
      BY <3>1, <1>5, EdgesFinite
  <2>3. ASSUME t \notin visited', indeg'[t] = 0
        PROVE  t \in frontier'
    <3>1. indeg[t] # 0 /\ indeg[t] \in Nat
      BY <2>3 DEF Wave, IInv, CountInv, TypeOK
    <3>2. indeg[t] = Cardinality(EdgesInto(t, frontier))
      BY <3>1, <2>3, <1>5, EdgesFinite
    <3>3. EdgesInto(t, frontier) # {}
      BY <3>1, <3>2, EdgesFinite
    <3> QED
      BY <3>2, <3>3 DEF Wave, Freed
  <2> QED
    BY <2>1, <2>2, <2>3
<1>11. \A t \in Planned : indeg'[t] = Cardinality(EdgesInto(t, Planned \ visited)')
  BY <1>3, <1>6
<1>12. frontier' = {t \in Planned \ visited' : indeg'[t] = 0}
  <2>1. frontier' \subseteq Planned
    BY DEF Wave, Freed
  <2> QED
    BY <2>1, <1>10
<1> QED
  BY <1>7, <1>9, <1>11, <1>12 DEF CountInv

(* Of a table of the frontier every parent is placed.                      *)
LEMMA FrontierFree ==
  ASSUME IInv, NEW f \in Edge, foreignKeys[f].child \in frontier
  PROVE  foreignKeys[f].parent \in visited
<1> DEFINE t == foreignKeys[f].child
<1>1. t \in Planned /\ foreignKeys[f].parent \in Planned
  BY DEF Edge
<1>2. Cardinality(EdgesInto(t, Planned \ visited)) = 0
  BY <1>1 DEF IInv, CountInv
<1>3. EdgesInto(t, Planned \ visited) = {}
  BY <1>2, EdgesFinite
<1> QED
  BY <1>1, <1>3, EdgeInto

LEMMA WaveInv ==
  ASSUME IInv, Wave
  PROVE  IInv'
<1> DEFINE n == Len(layers)
<1>1. /\ layers' = Append(layers, frontier) /\ visited' = visited \union frontier
      /\ pc = "waves" /\ UNCHANGED <<foreignKeys, pc>>
  BY DEF Wave
<1>2. /\ n \in Nat /\ Len(layers') = n + 1
      /\ \A j \in 1..n : layers'[j] = layers[j]
      /\ layers'[n + 1] = frontier
  BY <1>1 DEF IInv, TypeOK
<1>3. frontier \subseteq Planned \ visited
  BY DEF IInv, CountInv
<1>4. \A j \in 1..n : layers[j] \subseteq visited
  BY <1>1 DEF IInv, PlacedInv
<1>5. TypeOK'
  <2>1. layers' \in Seq(SUBSET Planned)
    BY <1>1, <1>3 DEF IInv, TypeOK
  <2>2. indeg' \in [Planned -> Nat]
    BY WaveCounts
  <2>3. frontier' \subseteq Planned
    BY DEF Wave, Freed
  <2> QED
    BY <1>1, <1>3, <2>1, <2>2, <2>3 DEF IInv, TypeOK
<1>6. PlacedInv'
  <2>1. \A i, j \in 1..(n + 1) : \A t \in layers'[i] \intersect layers'[j] : i = j
    BY <1>2, <1>3, <1>4 DEF IInv, PlacedInv
  <2>2. \A t \in visited' : \E i \in 1..(n + 1) : t \in layers'[i]
    <3> TAKE t \in visited'
    <3>1. CASE t \in frontier
      BY <1>2, <3>1
    <3>2. CASE t \in visited
      BY <1>2, <3>2 DEF IInv, PlacedInv
    <3> QED
      BY <1>1, <3>1, <3>2
  <2>3. \A j \in 1..(n + 1) : layers'[j] \subseteq visited'
    BY <1>1, <1>2, <1>4
  <2> QED
    BY <1>1, <1>2, <2>1, <2>2, <2>3 DEF PlacedInv
<1>7. FrontierInv'
  <2>1. Edge' = Edge
    BY <1>1 DEF Edge
  <2>2. ASSUME NEW t \in frontier'
        PROVE  \E f \in Edge : foreignKeys[f].child = t /\ foreignKeys[f].parent \in frontier
    BY <2>2 DEF Wave, Freed, EdgesInto
  <2> QED
    BY <1>1, <1>2, <2>1, <2>2 DEF FrontierInv
<1>8. ParentsFirst'
  <2>1. Edge' = Edge
    BY <1>1 DEF Edge
  <2>2. ASSUME NEW f \in Edge, NEW j \in 1..(n + 1), foreignKeys[f].child \in layers'[j]
        PROVE  \E i \in 1..(j - 1) : foreignKeys[f].parent \in layers'[i]
    <3>1. CASE j = n + 1
      <4>1. foreignKeys[f].parent \in visited
        BY <1>2, <2>2, <3>1, FrontierFree
      <4>2. PICK i \in 1..n : foreignKeys[f].parent \in layers[i]
        BY <4>1 DEF IInv, PlacedInv
      <4> QED
        BY <1>2, <3>1, <4>2
    <3>2. CASE j \in 1..n
      <4>1. foreignKeys[f].child \in layers[j] /\ foreignKeys[f].child \in visited
        BY <1>2, <1>4, <2>2, <3>2
      <4>2. PICK i \in 1..(j - 1) : foreignKeys[f].parent \in layers[i]
        BY <3>2, <4>1 DEF IInv, ParentsFirst
      <4> QED
        BY <1>2, <3>2, <4>2
    <3> QED
      BY <1>2, <3>1, <3>2
  <2> QED
    BY <1>1, <1>2, <2>1, <2>2 DEF ParentsFirst
<1>9. EarliestLayer'
  <2>1. Edge' = Edge
    BY <1>1 DEF Edge
  <2>2. ASSUME NEW j \in 2..(n + 1), NEW t \in layers'[j]
        PROVE  \E f \in Edge : /\ foreignKeys[f].child = t
                               /\ foreignKeys[f].parent \in layers'[j - 1]
    <3>1. CASE j = n + 1
      <4>1. layers # <<>> /\ t \in frontier
        BY <1>2, <2>2, <3>1
      <4>2. PICK f \in Edge : /\ foreignKeys[f].child = t
                              /\ foreignKeys[f].parent \in layers[n]
        BY <1>1, <4>1 DEF IInv, FrontierInv
      <4> QED
        BY <1>2, <3>1, <4>2
    <3>2. CASE j \in 2..n
      <4>1. t \in layers[j] \intersect visited
        BY <1>2, <1>4, <2>2, <3>2
      <4>2. PICK f \in Edge : /\ foreignKeys[f].child = t
                              /\ foreignKeys[f].parent \in layers[j - 1]
        BY <3>2, <4>1 DEF IInv, EarliestLayer
      <4> QED
        BY <1>2, <3>2, <4>2
    <3> QED
      BY <1>2, <3>1, <3>2
  <2> QED
    BY <1>1, <1>2, <2>1, <2>2 DEF EarliestLayer
<1> QED
  BY <1>5, <1>6, <1>7, <1>8, <1>9, WaveCounts DEF IInv

(* The last layer, of what cycles keep, changes nothing of the layers before. *)
LEMMA FinishInv ==
  ASSUME IInv, Finish
  PROVE  IInv'
<1> DEFINE n == Len(layers)
           Rest == Planned \ visited
<1>1. /\ pc = "waves" /\ frontier = {} /\ pc' = "done"
      /\ UNCHANGED <<foreignKeys, indeg, frontier, visited>>
      /\ (layers' = layers /\ visited = Planned) \/ layers' = Append(layers, Rest)
  BY DEF Finish
<1>2. /\ n \in Nat /\ Len(layers') \in {n, n + 1}
      /\ \A j \in 1..n : layers'[j] = layers[j]
      /\ \A j \in 1..Len(layers') : j \in 1..n \/ (j = n + 1 /\ layers'[j] = Rest)
      /\ Rest # {} => n + 1 \in 1..Len(layers')
  BY <1>1 DEF IInv, TypeOK
<1>3. \A j \in 1..n : layers[j] \subseteq visited
  BY <1>1 DEF IInv, PlacedInv
<1>4. Edge' = Edge
  BY <1>1 DEF Edge
<1>5. TypeOK' /\ CountInv'
  <2>1. layers' \in Seq(SUBSET Planned)
    BY <1>1 DEF IInv, TypeOK
  <2>2. \A t \in Planned : EdgesInto(t, Planned \ visited)' = EdgesInto(t, Planned \ visited)
    BY <1>1 DEF Edge, EdgesInto
  <2>3. TypeOK'
    BY <1>1, <2>1 DEF IInv, TypeOK
  <2>4. CountInv'
    BY <1>1, <2>2 DEF IInv, CountInv
  <2> QED
    BY <2>3, <2>4
<1>6. PlacedInv'
  <2>1. \A i, j \in 1..Len(layers') : \A t \in layers'[i] \intersect layers'[j] : i = j
    BY <1>2, <1>3 DEF IInv, PlacedInv
  <2>2. \A t \in visited : \E i \in 1..Len(layers') : t \in layers'[i]
    BY <1>2 DEF IInv, PlacedInv
  <2>3. \A t \in Rest : \E i \in 1..Len(layers') : t \in layers'[i]
    BY <1>2
  <2> QED
    BY <1>1, <2>1, <2>2, <2>3 DEF PlacedInv
<1>7. FrontierInv'
  BY <1>1 DEF FrontierInv
<1>8. ParentsFirst'
  <2>1. ASSUME NEW f \in Edge, NEW j \in 1..Len(layers'),
               foreignKeys[f].child \in layers'[j], foreignKeys[f].child \in visited
        PROVE  \E i \in 1..(j - 1) : foreignKeys[f].parent \in layers'[i]
    <3>1. j \in 1..n /\ foreignKeys[f].child \in layers[j]
      BY <1>2, <2>1
    <3>2. PICK i \in 1..(j - 1) : foreignKeys[f].parent \in layers[i]
      BY <2>1, <3>1 DEF IInv, ParentsFirst
    <3> QED
      BY <1>2, <3>1, <3>2
  <2> QED
    BY <1>1, <1>4, <2>1 DEF ParentsFirst
<1>9. EarliestLayer'
  <2>1. ASSUME NEW j \in 2..Len(layers'), NEW t \in layers'[j] \intersect visited
        PROVE  \E f \in Edge : /\ foreignKeys[f].child = t
                               /\ foreignKeys[f].parent \in layers'[j - 1]
    <3>1. j \in 2..n /\ t \in layers[j] \intersect visited
      BY <1>2, <2>1
    <3>2. layers'[j - 1] = layers[j - 1]
      BY <1>2, <3>1
    <3> QED
      BY <3>1, <3>2 DEF IInv, EarliestLayer
  <2> QED
    BY <1>1, <1>4, <2>1 DEF EarliestLayer
<1> QED
  BY <1>5, <1>6, <1>7, <1>8, <1>9 DEF IInv

LEMMA StutterInv ==
  ASSUME IInv, UNCHANGED vars
  PROVE  IInv'
<1>1. TypeOK' /\ PlacedInv'
  BY DEF IInv, vars, TypeOK, PlacedInv
<1>2. CountInv'
  BY DEF IInv, vars, CountInv, EdgesInto, Edge
<1>3. FrontierInv' /\ ParentsFirst' /\ EarliestLayer'
  BY DEF IInv, vars, FrontierInv, ParentsFirst, EarliestLayer, Edge
<1> QED
  BY <1>1, <1>2, <1>3 DEF IInv

THEOREM Inductive == Spec => []IInv
<1>1. IInv /\ [Next]_vars => IInv'
  BY WaveInv, FinishInv, StutterInv DEF Next
<1> QED
  BY <1>1, InitInv, PTL DEF Spec

-----------------------------------------------------------------------------
(* The counts never fall below zero, and only planned tables are placed.   *)
THEOREM LayersTypeCorrect == Spec => []TypeOK
<1>1. IInv => TypeOK
  BY DEF IInv
<1> QED
  BY <1>1, Inductive, PTL

(* Parents first: the reason the layers exist.                             *)
THEOREM LayersOrdered == Spec => []ParentsFirst
<1>1. IInv => ParentsFirst
  BY DEF IInv
<1> QED
  BY <1>1, Inductive, PTL

(* No planned table is lost and none is copied twice, cycles or not.       *)
THEOREM LayersPartition == Spec => []EachTableOnce
<1>1. IInv => EachTableOnce
  <2> SUFFICES ASSUME IInv, pc = "done", NEW t \in Planned
               PROVE  \E i \in 1..Len(layers) : \A j \in 1..Len(layers) :
                        t \in layers[j] <=> j = i
    BY DEF EachTableOnce
  <2>1. PICK i \in 1..Len(layers) : t \in layers[i]
    BY DEF IInv, PlacedInv
  <2>2. \A j \in 1..Len(layers) : t \in layers[j] <=> j = i
    BY <2>1 DEF IInv, PlacedInv
  <2> QED
    BY <2>2
<1> QED
  BY <1>1, Inductive, PTL

(* Each table left to the last layer has a parent left with it.            *)
THEOREM LayersLeaveCycles == Spec => []OnlyCyclesRemain
<1>1. IInv => OnlyCyclesRemain
  <2> SUFFICES ASSUME IInv, pc = "done", NEW t \in Planned \ visited
               PROVE  \E f \in Edge : /\ foreignKeys[f].child = t
                                      /\ foreignKeys[f].parent \notin visited
    BY DEF OnlyCyclesRemain
  <2>1. indeg[t] # 0
    BY DEF IInv, PlacedInv, CountInv
  <2>2. EdgesInto(t, Planned \ visited) # {}
    BY <2>1, EdgesFinite DEF IInv, CountInv
  <2> QED
    BY <2>2 DEF EdgesInto
<1> QED
  BY <1>1, Inductive, PTL

(* The layers are as early as the references allow.                        *)
THEOREM LayersEarliest == Spec => []EarliestLayer
<1>1. IInv => EarliestLayer
  BY DEF IInv
<1> QED
  BY <1>1, Inductive, PTL
=============================================================================
