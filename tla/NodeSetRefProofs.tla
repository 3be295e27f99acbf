-------------------------- MODULE NodeSetRefProofs --------------------------
(***************************************************************************)
(* Reference counting of the cluster's node arrays and nodes (NodeSet),  *)
(* for every set of threads and nodes and every bound, given the grace   *)
(* interval as_cluster_gc relies on (GraceAssumed).                      *)
(*                                                                         *)
(* RefCountExact is not inductive as it stands: it says nothing of which *)
(* array a thread loaded, of how the gc vector relates to cluster->nodes *)
(* or of the tend cycle's phases.  IInv adds what the copy-on-write      *)
(* scheme keeps true across a tend cycle.                                 *)
(***************************************************************************)
EXTENDS NodeSetProofs, FiniteSetTheorems

Born(n) == nodeState[n] # "unborn"
Loading(r) == rpc[r] \in {"loaded", "reserved"}

(* Readers in flight when the tender went to sleep are still busy:       *)
(* stale only shrinks as they finish.                                    *)
StaleBusy == \A r \in stale : rpc[r] # "idle"

(* A thread's loaded array is cluster->nodes or waits on cluster->gc.   *)
LoadedHeld == \A r \in Readers : Loading(r) => rset[r] = current \/ rset[r] \in gcSets

(* At the start of a cycle, a thread still using a retired array was in *)
(* flight when the tender went to sleep: as_cluster_gc waits for it.    *)
GcWaitsForReaders ==
    tpc = "gc" => \A r \in Readers : Loading(r) /\ rset[r] \in gcSets => r \in stale

(* cluster->nodes is not on the gc vector, and only built arrays are.    *)
SetsApart ==
    /\ current \notin gcSets
    /\ gcSets \subseteq 1..nsets
    /\ setFreed \subseteq 1..nsets

(* Nothing refers to a node that is not created yet.                     *)
UnbornUnused ==
    \A n \in Nodes : ~Born(n) =>
        /\ \A i \in 1..nsets : n \notin members[i]
        /\ n \notin toAdd \cup gcNodes
        /\ \A r \in Readers : rpc[r] = "holding" => rnode[r] # n

(* The cluster holds each node through one path only.                    *)
NodesApart ==
    /\ members[current] \cap gcNodes = {}
    /\ toAdd \cap (members[current] \cup gcNodes) = {}
    /\ tpc \notin {"remove", "add"} => toAdd = {}

(* Every node of an array still in use is held by the cluster.          *)
RetiredMembersHeld ==
    \A i \in gcSets \cup {current} : members[i] \subseteq members[current] \cup gcNodes

RefInv ==
    /\ RefCountExact
    /\ StaleBusy
    /\ LoadedHeld
    /\ GcWaitsForReaders
    /\ SetsApart
    /\ UnbornUnused
    /\ NodesApart
    /\ RetiredMembersHeld

IInv == TypeOK /\ RefInv

(* The part of IInv about the counts, stated per array and per node.     *)
SetCount(i) == (IF ClusterHoldsSet(i) THEN 1 ELSE 0) + Cardinality(SetHolders(i))
NodeCount(n) == (IF ClusterHoldsNode(n) THEN 1 ELSE 0) + Cardinality(NodeHolders(n))
SetOK(i) == setRef[i] = SetCount(i) /\ ((i \in setFreed) <=> setRef[i] = 0)
NodeOK(n) ==
    /\ Born(n) => nodeRef[n] = NodeCount(n)
    /\ (nodeState[n] = "freed") <=> (Born(n) /\ nodeRef[n] = 0)

LEMMA RefCountSplit ==
    RefCountExact <=> (\A i \in 1..nsets : SetOK(i)) /\ \A n \in Nodes : NodeOK(n)
BY DEF RefCountExact, SetOK, NodeOK, SetCount, NodeCount, Born

(* The threads holding an array or a node are finitely many.            *)
LEMMA HoldersFinite ==
    ASSUME NEW i, NEW n
    PROVE  /\ IsFiniteSet(SetHolders(i)) /\ Cardinality(SetHolders(i)) \in Nat
           /\ IsFiniteSet(NodeHolders(n)) /\ Cardinality(NodeHolders(n)) \in Nat
<1>1. SetHolders(i) \in SUBSET Readers /\ NodeHolders(n) \in SUBSET Readers
  BY DEF SetHolders, NodeHolders
<1>2. IsFiniteSet(SetHolders(i)) /\ IsFiniteSet(NodeHolders(n))
  <2>1. IsFiniteSet(Readers)
    BY NodeSetAssumption
  <2>2. IsFiniteSet(SetHolders(i))
    BY <1>1, <2>1, FS_Subset
  <2>3. IsFiniteSet(NodeHolders(n))
    BY <1>1, <2>1, FS_Subset
  <2>4. QED
    BY <2>2, <2>3
<1>3. QED
  BY <1>2, FS_CardinalityType

(* Steps that leave the threads alone leave who holds what unchanged.    *)
LEMMA HoldersUnchanged ==
    ASSUME UNCHANGED <<rpc, rset, rnode>>, NEW i, NEW n
    PROVE  SetHolders(i)' = SetHolders(i) /\ NodeHolders(n)' = NodeHolders(n)
BY DEF SetHolders, NodeHolders

-----------------------------------------------------------------------------
(* Steps that touch no count, no reference and no array: the tend steps  *)
(* that only move through the cycle or mark nodes inactive, and a thread *)
(* skipping an inactive node.  None of them starts a gc.                  *)
LEMMA QuietStep ==
    ASSUME TypeOK, RefInv,
           UNCHANGED <<members, nsets, current, setRef, setFreed, nodeRef,
                       nodeState, gcSets, gcNodes, toAdd, stale, rpc, rset, rnode>>,
           tpc' = "gc" => tpc = "gc",
           tpc' \notin {"remove", "add"} => toAdd = {}
    PROVE  RefInv'
<1>1. \A i : SetHolders(i)' = SetHolders(i)
  BY HoldersUnchanged
<1>2. \A n : NodeHolders(n)' = NodeHolders(n)
  BY HoldersUnchanged
<1>3. RefCountExact'
  BY <1>1, <1>2 DEF RefInv, RefCountExact, ClusterHoldsSet, ClusterHoldsNode
<1>4. (StaleBusy /\ LoadedHeld /\ GcWaitsForReaders /\ SetsApart)'
  BY DEF RefInv, StaleBusy, LoadedHeld, GcWaitsForReaders, SetsApart, Loading
<1>5. (UnbornUnused /\ NodesApart /\ RetiredMembersHeld)'
  BY DEF RefInv, UnbornUnused, NodesApart, RetiredMembersHeld, Born
<1>6. QED
  BY <1>3, <1>4, <1>5 DEF RefInv

LEMMA NoSeedRef ==
    ASSUME TypeOK, RefInv, NoSeed PROVE RefInv'
BY QuietStep DEF NoSeed, setVars, nodeVars, gcVars, readerVars, RefInv, NodesApart

LEMMA SetPartitionSizeRef ==
    ASSUME TypeOK, RefInv, SetPartitionSize PROVE RefInv'
BY QuietStep DEF SetPartitionSize, setVars, nodeVars, gcVars, readerVars, RefInv,
                 NodesApart

LEMMA RefreshNodesRef ==
    ASSUME TypeOK, RefInv, NEW D, RefreshNodes(D) PROVE RefInv'
BY QuietStep DEF RefreshNodes, setVars, gcVars, readerVars, RefInv, NodesApart

LEMMA NoRemovalRef ==
    ASSUME TypeOK, RefInv, NoRemoval PROVE RefInv'
BY QuietStep DEF NoRemoval, setVars, nodeVars, gcVars, readerVars

LEMMA NoAdditionRef ==
    ASSUME TypeOK, RefInv, NoAddition PROVE RefInv'
BY QuietStep DEF NoAddition, setVars, nodeVars, gcVars, readerVars

LEMMA SkipNodeRef ==
    ASSUME TypeOK, RefInv, NEW r \in Readers, NEW n \in Nodes, SkipNode(r, n)
    PROVE  RefInv'
BY QuietStep DEF SkipNode, setVars, nodeVars, gcVars, tendVars, RefInv, NodesApart

(* as_cluster_tender goes to sleep: every thread still using a retired  *)
(* array is in flight now, and the next gc waits for it.                *)
LEMMA SleepRef ==
    ASSUME TypeOK, RefInv, Sleep PROVE RefInv'
<1>1. UNCHANGED <<members, nsets, current, setRef, setFreed, nodeRef, nodeState,
                  gcSets, gcNodes, toAdd, rpc, rset, rnode>>
  BY DEF Sleep, setVars, nodeVars, gcVars, readerVars
<1>2. RefCountExact'
  BY <1>1, HoldersUnchanged DEF RefInv, RefCountExact, ClusterHoldsSet, ClusterHoldsNode
<1>3. (StaleBusy /\ GcWaitsForReaders)'
  BY <1>1 DEF Sleep, StaleBusy, GcWaitsForReaders, Loading
<1>4. (LoadedHeld /\ SetsApart /\ UnbornUnused /\ RetiredMembersHeld)'
  BY <1>1 DEF RefInv, LoadedHeld, SetsApart, UnbornUnused, RetiredMembersHeld,
              Born, Loading
<1>5. NodesApart'
  BY <1>1 DEF Sleep, RefInv, NodesApart
<1>6. QED
  BY <1>2, <1>3, <1>4, <1>5 DEF RefInv

(* A thread loads cluster->nodes (first half of as_nodes_reserve); it    *)
(* holds no count yet.                                                    *)
LEMMA LoadRef ==
    ASSUME TypeOK, RefInv, NEW r \in Readers, Load(r) PROVE RefInv'
<1>1. UNCHANGED <<members, nsets, current, setRef, setFreed, nodeRef, nodeState,
                  gcSets, gcNodes, toAdd, tpc, stale, rnode>>
  BY DEF Load, setVars, nodeVars, gcVars, tendVars
<1>2. rpc[r] = "idle" /\ rpc' = [rpc EXCEPT ![r] = "loaded"]
      /\ rset' = [rset EXCEPT ![r] = current]
  BY DEF Load
<1>3. \A i : SetHolders(i)' = SetHolders(i)
  BY <1>1, <1>2 DEF SetHolders, TypeOK
<1>4. \A n : NodeHolders(n)' = NodeHolders(n)
  BY <1>1, <1>2 DEF NodeHolders, TypeOK
<1>5. RefCountExact'
  BY <1>1, <1>3, <1>4 DEF RefInv, RefCountExact, ClusterHoldsSet, ClusterHoldsNode
<1>6. (LoadedHeld /\ GcWaitsForReaders /\ StaleBusy)'
  BY <1>1, <1>2 DEF RefInv, LoadedHeld, GcWaitsForReaders, StaleBusy, SetsApart,
                    Loading, TypeOK
<1>7. (SetsApart /\ NodesApart /\ RetiredMembersHeld)'
  BY <1>1 DEF RefInv, SetsApart, NodesApart, RetiredMembersHeld
<1>8. UnbornUnused'
  BY <1>1, <1>2 DEF RefInv, UnbornUnused, Born, TypeOK
<1>9. QED
  BY <1>5, <1>6, <1>7, <1>8 DEF RefInv

(* The second half of as_nodes_reserve: the loaded array's count grows  *)
(* by the thread's reference.  The array is still held by the cluster, *)
(* so it was not freed in between.                                      *)
LEMMA ReserveRef ==
    ASSUME TypeOK, RefInv, NEW r \in Readers, Reserve(r) PROVE RefInv'
<1> DEFINE x == rset[r]
<1>1. UNCHANGED <<members, nsets, current, setFreed, nodeRef, nodeState,
                  gcSets, gcNodes, toAdd, tpc, stale, rset, rnode>>
  BY DEF Reserve, setVars, nodeVars, gcVars, tendVars
<1>2. rpc[r] = "loaded" /\ rpc' = [rpc EXCEPT ![r] = "reserved"]
      /\ setRef' = [setRef EXCEPT ![x] = @ + 1]
  BY DEF Reserve
<1>3. x \in 1..nsets /\ ClusterHoldsSet(x)
  BY <1>2 DEF TypeOK, RefInv, LoadedHeld, Loading, ClusterHoldsSet
<1>4. SetHolders(x)' = SetHolders(x) \cup {r} /\ r \notin SetHolders(x)
  BY <1>1, <1>2 DEF SetHolders, TypeOK
<1>5. \A i : i # x => SetHolders(i)' = SetHolders(i)
  BY <1>1, <1>2 DEF SetHolders, TypeOK
<1>6. \A n : NodeHolders(n)' = NodeHolders(n)
  BY <1>1, <1>2 DEF NodeHolders, TypeOK
<1>7. Cardinality(SetHolders(x)') = Cardinality(SetHolders(x)) + 1
  BY <1>4, HoldersFinite, FS_AddElement
<1>8. SetOK(x)'
  <2>1. SetOK(x)
    BY <1>3, RefCountSplit DEF RefInv
  <2>2. setRef[x] \in Nat /\ setRef[x] >= 1
    BY <1>3, <2>1, HoldersFinite DEF SetOK, SetCount
  <2>3. x \in SetIds /\ setRef'[x] = setRef[x] + 1
    BY <1>2, <1>3, NodeSetAssumption DEF TypeOK, SetIds
  <2>4. SetCount(x)' = SetCount(x) + 1
    BY <1>1, <1>3, <1>7, HoldersFinite DEF SetCount, ClusterHoldsSet
  <2>5. setRef'[x] = SetCount(x)'
    BY <2>1, <2>3, <2>4 DEF SetOK
  <2>6. x \notin setFreed' /\ setRef'[x] # 0
    BY <1>1, <2>1, <2>2, <2>3 DEF SetOK
  <2>7. QED
    BY <1>1, <2>5, <2>6 DEF SetOK
<1>9. \A i \in 1..nsets : i # x => SetOK(i)'
  BY <1>1, <1>2, <1>5, RefCountSplit DEF RefInv, SetOK, SetCount, ClusterHoldsSet, TypeOK
<1>10. \A n \in Nodes : NodeOK(n)'
  BY <1>1, <1>6, RefCountSplit DEF RefInv, NodeOK, NodeCount, ClusterHoldsNode, Born
<1>11. RefCountExact'
  BY <1>1, <1>3, <1>8, <1>9, <1>10
     DEF RefCountExact, SetOK, NodeOK, SetCount, NodeCount, Born
<1>12. (LoadedHeld /\ GcWaitsForReaders /\ StaleBusy)'
  BY <1>1, <1>2 DEF RefInv, LoadedHeld, GcWaitsForReaders, StaleBusy, Loading, TypeOK
<1>13. (SetsApart /\ NodesApart /\ RetiredMembersHeld /\ UnbornUnused)'
  BY <1>1, <1>2 DEF RefInv, SetsApart, NodesApart, RetiredMembersHeld, UnbornUnused,
                    Born, TypeOK
<1>14. QED
  BY <1>11, <1>12, <1>13 DEF RefInv

(* as_nodes_release by a thread that reserved array x: its count drops  *)
(* with the thread's reference, and the array is freed exactly when the *)
(* thread held the last reference.                                       *)
LEMMA SetRelease ==
    ASSUME TypeOK, RefInv, NEW r \in Readers, rpc[r] = "reserved",
           NEW x, rset[r] = x,
           NEW v \in {"idle", "holding"},
           rpc' = [rpc EXCEPT ![r] = v], rset' = [rset EXCEPT ![r] = NoSet],
           ReleaseSets({x}),
           UNCHANGED <<members, nsets, current, gcSets>>
    PROVE  \A i \in 1..nsets : SetOK(i)'
<1>1. x \in 1..nsets /\ r \in SetHolders(x)
  BY DEF TypeOK, SetHolders
<1>2. SetHolders(x)' = SetHolders(x) \ {r}
  BY DEF SetHolders, TypeOK, NoSet
<1>3. \A i : i # x => SetHolders(i)' = SetHolders(i)
  BY DEF SetHolders, TypeOK
<1>4. Cardinality(SetHolders(x)') = Cardinality(SetHolders(x)) - 1
      /\ Cardinality(SetHolders(x)) >= 1
  <2>1. IsFiniteSet(SetHolders(x))
    BY HoldersFinite
  <2>2. Cardinality(SetHolders(x)) # 0
    BY <1>1, <2>1, FS_EmptySet
  <2>3. Cardinality(SetHolders(x) \ {r}) = Cardinality(SetHolders(x)) - 1
    BY <1>1, <2>1, FS_RemoveElement
  <2>4. Cardinality(SetHolders(x)) \in Nat
    BY HoldersFinite
  <2>5. QED
    BY <1>2, <2>2, <2>3, <2>4
<1>5. \A i \in 1..nsets : SetOK(i)
  BY RefCountSplit DEF RefInv
<1>6. \A i \in 1..nsets : i \in SetIds /\ setRef[i] \in Int
  BY NodeSetAssumption DEF TypeOK, SetIds
<1>7. SetOK(x)'
  <2>1. setRef'[x] = setRef[x] - 1 /\ SetCount(x)' = SetCount(x) - 1
    BY <1>1, <1>4, <1>6, HoldersFinite DEF ReleaseSets, SetCount, ClusterHoldsSet
  <2>2. (x \in setFreed') <=> setRef[x] = 1
    <3>1. x \notin setFreed
      BY <1>1, <1>4, <1>5, HoldersFinite DEF SetOK, SetCount
    <3>2. QED
      BY <3>1 DEF ReleaseSets
  <2>3. QED
    BY <1>1, <1>5, <1>6, <2>1, <2>2 DEF SetOK
<1>8. ASSUME NEW i \in 1..nsets, i # x PROVE SetOK(i)'
  <2>1. setRef'[i] = setRef[i] /\ SetCount(i)' = SetCount(i)
    BY <1>3, <1>6, <1>8 DEF ReleaseSets, SetCount, ClusterHoldsSet
  <2>2. (i \in setFreed') <=> (i \in setFreed)
    BY <1>8 DEF ReleaseSets
  <2>3. QED
    BY <1>5, <1>8, <2>1, <2>2 DEF SetOK
<1>9. QED
  BY <1>7, <1>8

(* A thread that reserved an array releases it and ends its request      *)
(* without taking a node: as_node_get_random finding no active node,    *)
(* as_cluster_get_node_names, as_cluster_is_connected, a name not found. *)
LEMMA ReleaseIdle ==
    ASSUME TypeOK, RefInv, NEW r \in Readers, rpc[r] = "reserved",
           rpc' = [rpc EXCEPT ![r] = "idle"], rset' = [rset EXCEPT ![r] = NoSet],
           ReleaseSets({rset[r]}), stale' = stale \ {r},
           UNCHANGED <<members, nsets, current, nodeRef, nodeState, gcSets, gcNodes,
                       toAdd, tpc, rnode>>
    PROVE  RefInv'
<1>1. \A i \in 1..nsets : SetOK(i)'
  BY SetRelease
<1>2. \A n : NodeHolders(n)' = NodeHolders(n)
  BY DEF NodeHolders, TypeOK
<1>3. \A n \in Nodes : NodeOK(n)'
  BY <1>2, RefCountSplit DEF RefInv, NodeOK, NodeCount, ClusterHoldsNode, Born
<1>4. RefCountExact'
  BY <1>1, <1>3 DEF RefCountExact, SetOK, NodeOK, SetCount, NodeCount, Born
<1>5. (LoadedHeld /\ GcWaitsForReaders /\ StaleBusy)'
  BY DEF RefInv, LoadedHeld, GcWaitsForReaders, StaleBusy, Loading, TypeOK
<1>6. setFreed' \subseteq setFreed \cup {rset[r]} /\ rset[r] \in 1..nsets
  BY DEF ReleaseSets, TypeOK
<1>7. (SetsApart /\ NodesApart /\ RetiredMembersHeld /\ UnbornUnused)'
  BY <1>6 DEF RefInv, SetsApart, NodesApart, RetiredMembersHeld, UnbornUnused,
              Born, TypeOK
<1>8. QED
  BY <1>4, <1>5, <1>7 DEF RefInv

LEMMA NoneFoundRef ==
    ASSUME TypeOK, RefInv, NEW r \in Readers, NoneFound(r) PROVE RefInv'
<1>1. /\ rpc[r] = "reserved"
      /\ rpc' = [rpc EXCEPT ![r] = "idle"] /\ rset' = [rset EXCEPT ![r] = NoSet]
      /\ ReleaseSets({rset[r]}) /\ stale' = stale \ {r}
      /\ UNCHANGED <<members, nsets, current, nodeRef, nodeState, gcSets, gcNodes,
                     toAdd, tpc, rnode>>
  BY DEF NoneFound, nodeVars, gcVars
<1>2. QED
  BY <1>1, ReleaseIdle

LEMMA ReleaseOnlyRef ==
    ASSUME TypeOK, RefInv, NEW r \in Readers, ReleaseOnly(r) PROVE RefInv'
<1>1. /\ rpc[r] = "reserved"
      /\ rpc' = [rpc EXCEPT ![r] = "idle"] /\ rset' = [rset EXCEPT ![r] = NoSet]
      /\ ReleaseSets({rset[r]}) /\ stale' = stale \ {r}
      /\ UNCHANGED <<members, nsets, current, nodeRef, nodeState, gcSets, gcNodes,
                     toAdd, tpc, rnode>>
  BY DEF ReleaseOnly, nodeVars, gcVars
<1>2. QED
  BY <1>1, ReleaseIdle

(* A thread takes node n of the array it reserved (as_node_reserve) and *)
(* releases the array.  The node is still held by the cluster, through  *)
(* cluster->nodes or the gc vector, so it is alive; its count grows by  *)
(* the thread's reference.                                               *)
LEMMA TakeNode ==
    ASSUME TypeOK, RefInv, NEW r \in Readers, NEW n \in Nodes, NEW x,
           rpc[r] = "reserved", rset[r] = x, n \in members[x],
           nodeRef' = [nodeRef EXCEPT ![n] = @ + 1], ReleaseSets({x}),
           rpc' = [rpc EXCEPT ![r] = "holding"], rset' = [rset EXCEPT ![r] = NoSet],
           rnode' = [rnode EXCEPT ![r] = n],
           UNCHANGED <<members, nsets, current, nodeState, gcSets, gcNodes, toAdd,
                       tpc, stale>>
    PROVE  RefInv'
<1>1. \A i \in 1..nsets : SetOK(i)'
  BY SetRelease
<1>2. x \in 1..nsets /\ ClusterHoldsNode(n) /\ Born(n)
  BY DEF TypeOK, RefInv, LoadedHeld, Loading, RetiredMembersHeld, ClusterHoldsNode,
         UnbornUnused
<1>3. NodeHolders(n)' = NodeHolders(n) \cup {r} /\ r \notin NodeHolders(n)
  BY DEF NodeHolders, TypeOK
<1>4. \A m : m # n => NodeHolders(m)' = NodeHolders(m)
  BY DEF NodeHolders, TypeOK
<1>5. Cardinality(NodeHolders(n)') = Cardinality(NodeHolders(n)) + 1
  <2>1. IsFiniteSet(NodeHolders(n))
    BY HoldersFinite
  <2>2. QED
    BY <1>3, <2>1, FS_AddElement
<1>6. \A m \in Nodes : NodeOK(m)
  BY RefCountSplit DEF RefInv
<1>7. NodeOK(n)'
  <2>1. nodeRef[n] = NodeCount(n) /\ nodeRef[n] \in Nat /\ nodeRef[n] >= 1
    BY <1>2, <1>6, HoldersFinite DEF NodeOK, NodeCount
  <2>2. nodeRef'[n] = nodeRef[n] + 1
    BY DEF TypeOK
  <2>3. NodeCount(n)' = NodeCount(n) + 1
    BY <1>5, HoldersFinite DEF NodeCount, ClusterHoldsNode
  <2>4. nodeState[n] # "freed"
    BY <1>2, <1>6, <2>1 DEF NodeOK
  <2>5. QED
    BY <1>2, <2>1, <2>2, <2>3, <2>4 DEF NodeOK, Born
<1>8. ASSUME NEW m \in Nodes, m # n PROVE NodeOK(m)'
  <2>1. nodeRef'[m] = nodeRef[m] /\ NodeCount(m)' = NodeCount(m)
    BY <1>4, <1>8 DEF TypeOK, NodeCount, ClusterHoldsNode
  <2>2. QED
    BY <1>6, <2>1 DEF NodeOK, Born
<1>9. RefCountExact'
  BY <1>1, <1>7, <1>8 DEF RefCountExact, SetOK, NodeOK, SetCount, NodeCount, Born
<1>10. (LoadedHeld /\ GcWaitsForReaders /\ StaleBusy)'
  BY DEF RefInv, LoadedHeld, GcWaitsForReaders, StaleBusy, Loading, TypeOK
<1>11. setFreed' \subseteq setFreed \cup {x}
  BY DEF ReleaseSets
<1>12. (SetsApart /\ NodesApart /\ RetiredMembersHeld)'
  BY <1>2, <1>11 DEF RefInv, SetsApart, NodesApart, RetiredMembersHeld
<1>13. UnbornUnused'
  BY <1>2 DEF RefInv, UnbornUnused, Born, TypeOK
<1>14. QED
  BY <1>9, <1>10, <1>12, <1>13 DEF RefInv

LEMMA PickNodeRef ==
    ASSUME TypeOK, RefInv, NEW r \in Readers, NEW n \in Nodes, PickNode(r, n)
    PROVE  RefInv'
<1>1. /\ rpc[r] = "reserved" /\ n \in members[rset[r]]
      /\ nodeRef' = [nodeRef EXCEPT ![n] = @ + 1] /\ ReleaseSets({rset[r]})
      /\ rpc' = [rpc EXCEPT ![r] = "holding"] /\ rset' = [rset EXCEPT ![r] = NoSet]
      /\ rnode' = [rnode EXCEPT ![r] = n]
      /\ UNCHANGED <<members, nsets, current, nodeState, gcSets, gcNodes, toAdd,
                     tpc, stale>>
  BY DEF PickNode, gcVars, tendVars
<1>2. QED
  BY <1>1, TakeNode

LEMMA GetByNameRef ==
    ASSUME TypeOK, RefInv, NEW r \in Readers, NEW n \in Nodes, GetByName(r, n)
    PROVE  RefInv'
<1>1. /\ rpc[r] = "reserved" /\ n \in members[rset[r]]
      /\ nodeRef' = [nodeRef EXCEPT ![n] = @ + 1] /\ ReleaseSets({rset[r]})
      /\ rpc' = [rpc EXCEPT ![r] = "holding"] /\ rset' = [rset EXCEPT ![r] = NoSet]
      /\ rnode' = [rnode EXCEPT ![r] = n]
      /\ UNCHANGED <<members, nsets, current, nodeState, gcSets, gcNodes, toAdd,
                     tpc, stale>>
  BY DEF GetByName, gcVars, tendVars
<1>2. QED
  BY <1>1, TakeNode

(* as_node_release when the command is done: the node's count drops by  *)
(* the thread's reference and the node is destroyed exactly when that   *)
(* was the last one.                                                     *)
LEMMA FinishRef ==
    ASSUME TypeOK, RefInv, NEW r \in Readers, Finish(r) PROVE RefInv'
<1>1. PICK n \in Nodes : rnode[r] = n
  BY DEF Finish, TypeOK
<1>2. /\ rpc[r] = "holding" /\ rpc' = [rpc EXCEPT ![r] = "idle"]
      /\ rnode' = [rnode EXCEPT ![r] = NoNode] /\ stale' = stale \ {r}
      /\ ReleaseNodes({n})
      /\ UNCHANGED <<members, nsets, current, setRef, setFreed, gcSets, gcNodes,
                     toAdd, tpc, rset>>
  BY <1>1 DEF Finish, setVars, gcVars
<1>3. \A i : SetHolders(i)' = SetHolders(i)
  BY <1>2 DEF SetHolders, TypeOK
<1>4. NodeHolders(n)' = NodeHolders(n) \ {r} /\ r \in NodeHolders(n)
  BY <1>1, <1>2 DEF NodeHolders, TypeOK, NodeSetAssumption
<1>5. \A m : m # n => NodeHolders(m)' = NodeHolders(m)
  BY <1>1, <1>2 DEF NodeHolders, TypeOK
<1>6. Cardinality(NodeHolders(n)') = Cardinality(NodeHolders(n)) - 1
      /\ Cardinality(NodeHolders(n)) >= 1
  <2>1. IsFiniteSet(NodeHolders(n)) /\ Cardinality(NodeHolders(n)) \in Nat
    BY HoldersFinite
  <2>2. Cardinality(NodeHolders(n)) # 0
    BY <1>4, <2>1, FS_EmptySet
  <2>3. Cardinality(NodeHolders(n) \ {r}) = Cardinality(NodeHolders(n)) - 1
    BY <1>4, <2>1, FS_RemoveElement
  <2>4. QED
    BY <1>4, <2>1, <2>2, <2>3
<1>7. \A m \in Nodes : NodeOK(m)
  BY RefCountSplit DEF RefInv
<1>8. NodeOK(n)'
  <2>1. Born(n)
    BY <1>1, <1>2 DEF RefInv, UnbornUnused
  <2>2. nodeRef[n] = NodeCount(n) /\ nodeRef[n] \in Nat /\ nodeRef[n] >= 1
    BY <1>6, <1>7, <2>1, HoldersFinite DEF NodeOK, NodeCount
  <2>3. nodeRef'[n] = nodeRef[n] - 1
        /\ (nodeState'[n] = "freed") <=> nodeRef[n] = 1
    BY <1>2, <1>7, <2>1, <2>2 DEF ReleaseNodes, NodeOK, TypeOK
  <2>4. NodeCount(n)' = NodeCount(n) - 1
    BY <1>2, <1>6, HoldersFinite DEF NodeCount, ClusterHoldsNode
  <2>5. QED
    BY <1>2, <2>1, <2>2, <2>3, <2>4 DEF NodeOK, Born, ReleaseNodes, TypeOK
<1>9. ASSUME NEW m \in Nodes, m # n PROVE NodeOK(m)'
  <2>1. nodeRef'[m] = nodeRef[m] /\ nodeState'[m] = nodeState[m]
        /\ NodeCount(m)' = NodeCount(m)
    BY <1>2, <1>5, <1>9 DEF ReleaseNodes, NodeCount, ClusterHoldsNode
  <2>2. QED
    BY <1>7, <2>1 DEF NodeOK, Born
<1>10. \A i \in 1..nsets : SetOK(i)'
  BY <1>2, <1>3, RefCountSplit DEF RefInv, SetOK, SetCount, ClusterHoldsSet
<1>11. RefCountExact'
  BY <1>2, <1>8, <1>9, <1>10 DEF RefCountExact, SetOK, NodeOK, SetCount, NodeCount, Born
<1>12. (LoadedHeld /\ GcWaitsForReaders /\ StaleBusy)'
  BY <1>2 DEF RefInv, LoadedHeld, GcWaitsForReaders, StaleBusy, Loading, TypeOK
<1>13. \A m \in Nodes : Born(m)' <=> Born(m)
  <2>1. Born(n)
    BY <1>1, <1>2 DEF RefInv, UnbornUnused
  <2>2. QED
    BY <1>2, <2>1 DEF ReleaseNodes, Born, TypeOK
<1>14. (SetsApart /\ NodesApart /\ RetiredMembersHeld /\ UnbornUnused)'
  BY <1>2, <1>13 DEF RefInv, SetsApart, NodesApart, RetiredMembersHeld, UnbornUnused,
                     TypeOK
<1>15. QED
  BY <1>11, <1>12, <1>14 DEF RefInv

-----------------------------------------------------------------------------
(* set_nodes: the new array k = nsets + 1 starts with the cluster's one   *)
(* reference and no reader (every loaded array was built earlier), and   *)
(* the old cluster->nodes keeps its count, now held through the gc       *)
(* vector.  A thread that loaded it still finds it held.                 *)
LEMMA PublishSets ==
    ASSUME TypeOK, RefInv, NEW new, Publish(new),
           UNCHANGED <<rpc, rset, rnode, stale>>, tpc' # "gc"
    PROVE  /\ \A i \in 1..nsets' : SetOK(i)'
           /\ (StaleBusy /\ LoadedHeld /\ GcWaitsForReaders /\ SetsApart)'
           /\ gcSets' \cup {current'} = gcSets \cup {current} \cup {current'}
           /\ current' = nsets + 1 /\ nsets' = nsets + 1 /\ members'[current'] = new
           /\ \A i \in 1..nsets : members'[i] = members[i]
<1>0. PICK k : k = nsets + 1
  OBVIOUS
<1>1. /\ nsets' = k /\ current' = k /\ k \in SetIds /\ k \notin 1..nsets
      /\ members' = [members EXCEPT ![k] = new] /\ setRef' = [setRef EXCEPT ![k] = 1]
      /\ gcSets' = gcSets \cup {current} /\ setFreed' = setFreed
  BY <1>0, NodeSetAssumption DEF Publish, TypeOK, SetIds
<1>2. \A i : SetHolders(i)' = SetHolders(i)
  BY HoldersUnchanged
<1>3. SetHolders(k) = {}
  BY <1>1 DEF SetHolders, TypeOK
<1>4. \A i \in 1..nsets : SetOK(i)
  BY RefCountSplit DEF RefInv
<1>5. SetOK(k)'
  <2>1. Cardinality(SetHolders(k)') = 0
    BY <1>2, <1>3, FS_EmptySet
  <2>2. setRef'[k] = 1 /\ SetCount(k)' = 1
    BY <1>1, <2>1 DEF TypeOK, SetCount, ClusterHoldsSet
  <2>3. k \notin setFreed'
    BY <1>1 DEF RefInv, SetsApart
  <2>4. QED
    BY <2>2, <2>3 DEF SetOK
<1>6. ASSUME NEW i \in 1..nsets PROVE SetOK(i)'
  <2>1. ClusterHoldsSet(i)' <=> ClusterHoldsSet(i)
    BY <1>1 DEF ClusterHoldsSet, RefInv, SetsApart, TypeOK
  <2>2. setRef'[i] = setRef[i] /\ SetCount(i)' = SetCount(i)
    BY <1>1, <1>2, <2>1 DEF SetCount, TypeOK
  <2>3. QED
    BY <1>1, <1>4, <2>2 DEF SetOK
<1>7. \A i \in 1..nsets' : i \in 1..nsets \/ i = k
  BY <1>0, <1>1, NodeSetAssumption DEF TypeOK, SetIds
<1>8. (StaleBusy /\ LoadedHeld /\ GcWaitsForReaders)'
  BY <1>1 DEF RefInv, StaleBusy, LoadedHeld, GcWaitsForReaders, Loading
<1>9. SetsApart'
  <2>1. nsets \in Nat /\ current \in 1..nsets /\ gcSets \subseteq 1..nsets
        /\ setFreed \subseteq 1..nsets
    BY NodeSetAssumption DEF TypeOK, SetIds, RefInv, SetsApart
  <2>2. k \notin gcSets \cup {current}
    BY <1>0, <2>1
  <2>3. 1..nsets \subseteq 1..k /\ k \in 1..k
    BY <1>0, <2>1
  <2>4. QED
    BY <1>1, <2>1, <2>2, <2>3 DEF SetsApart
<1>10. members'[current'] = new /\ \A i \in 1..nsets : members'[i] = members[i]
  BY <1>1 DEF TypeOK
<1>11. \A i \in 1..nsets' : SetOK(i)'
  BY <1>5, <1>6, <1>7
<1>12. QED
  BY <1>0, <1>1, <1>8, <1>9, <1>10, <1>11

(* as_cluster_add_nodes: nodes_to_add move into the new cluster->nodes;  *)
(* the cluster still holds each node through exactly one path.           *)
LEMMA AddNodesRef ==
    ASSUME TypeOK, RefInv, AddNodes PROVE RefInv'
<1>1. /\ Publish(members[current] \cup toAdd) /\ toAdd' = {} /\ tpc' = "sleep"
      /\ UNCHANGED <<nodeRef, nodeState, gcNodes, rpc, rset, rnode, stale>>
  BY DEF AddNodes, nodeVars, readerVars
<1>2. /\ \A i \in 1..nsets' : SetOK(i)'
      /\ (StaleBusy /\ LoadedHeld /\ GcWaitsForReaders /\ SetsApart)'
      /\ gcSets' \cup {current'} = gcSets \cup {current} \cup {current'}
      /\ members'[current'] = members[current] \cup toAdd
      /\ \A i \in 1..nsets : members'[i] = members[i]
      /\ current' = nsets + 1 /\ nsets' = nsets + 1
  BY <1>1, PublishSets
<1>3. \A n : ClusterHoldsNode(n)' <=> ClusterHoldsNode(n)
  BY <1>1, <1>2 DEF ClusterHoldsNode
<1>4. \A n \in Nodes : NodeOK(n)'
  BY <1>1, <1>3, HoldersUnchanged, RefCountSplit DEF RefInv, NodeOK, NodeCount, Born
<1>5. RefCountExact'
  BY <1>2, <1>4 DEF RefCountExact, SetOK, NodeOK, SetCount, NodeCount, Born
<1>6. UnbornUnused'
  <2>1. \A i \in 1..nsets' : i \in 1..nsets \/ i = current'
    BY <1>2, NodeSetAssumption DEF TypeOK, SetIds
  <2>2. current \in 1..nsets
    BY DEF TypeOK
  <2>3. QED
    BY <1>1, <1>2, <2>1, <2>2 DEF RefInv, UnbornUnused, Born
<1>7. NodesApart'
  BY <1>1, <1>2 DEF RefInv, NodesApart
<1>8. RetiredMembersHeld'
  <2>1. \A i \in gcSets \cup {current} : i \in 1..nsets
    BY DEF RefInv, SetsApart, TypeOK
  <2>2. QED
    BY <1>1, <1>2, <2>1 DEF RefInv, RetiredMembersHeld
<1>9. QED
  BY <1>2, <1>5, <1>6, <1>7, <1>8 DEF RefInv

(* as_cluster_remove_nodes: the removed nodes leave cluster->nodes and   *)
(* their cluster reference goes on the gc vector.                         *)
LEMMA RemoveNodesRef ==
    ASSUME TypeOK, RefInv, NEW R \in SUBSET members[current], RemoveNodes(R)
    PROVE  RefInv'
<1>1. /\ Publish(members[current] \ R) /\ gcNodes' = gcNodes \cup R /\ tpc' = "add"
      /\ UNCHANGED <<nodeRef, nodeState, toAdd, rpc, rset, rnode, stale>>
  BY DEF RemoveNodes, readerVars
<1>2. /\ \A i \in 1..nsets' : SetOK(i)'
      /\ (StaleBusy /\ LoadedHeld /\ GcWaitsForReaders /\ SetsApart)'
      /\ gcSets' \cup {current'} = gcSets \cup {current} \cup {current'}
      /\ members'[current'] = members[current] \ R
      /\ \A i \in 1..nsets : members'[i] = members[i]
      /\ current' = nsets + 1 /\ nsets' = nsets + 1
  BY <1>1, PublishSets
<1>3. \A n : ClusterHoldsNode(n)' <=> ClusterHoldsNode(n)
  BY <1>1, <1>2 DEF ClusterHoldsNode
<1>4. \A n \in Nodes : NodeOK(n)'
  BY <1>1, <1>3, HoldersUnchanged, RefCountSplit DEF RefInv, NodeOK, NodeCount, Born
<1>5. RefCountExact'
  BY <1>2, <1>4 DEF RefCountExact, SetOK, NodeOK, SetCount, NodeCount, Born
<1>6. UnbornUnused'
  <2>1. \A i \in 1..nsets' : i \in 1..nsets \/ i = current'
    BY <1>2, NodeSetAssumption DEF TypeOK, SetIds
  <2>2. current \in 1..nsets
    BY DEF TypeOK
  <2>3. QED
    BY <1>1, <1>2, <2>1, <2>2 DEF RefInv, UnbornUnused, Born
<1>7. NodesApart'
  BY <1>1, <1>2 DEF RefInv, NodesApart
<1>8. RetiredMembersHeld'
  <2>1. \A i \in gcSets \cup {current} : i \in 1..nsets
    BY DEF RefInv, SetsApart, TypeOK
  <2>2. QED
    BY <1>1, <1>2, <2>1 DEF RefInv, RetiredMembersHeld
<1>9. QED
  BY <1>2, <1>5, <1>6, <1>7, <1>8 DEF RefInv

-----------------------------------------------------------------------------
(* as_node_create on nodes nobody refers to yet: each starts with the     *)
(* one reference of the cluster, which now holds it.                      *)
LEMMA CreateNodesOK ==
    ASSUME TypeOK, RefInv, NEW A \in SUBSET Unborn, CreateNodes(A),
           UNCHANGED <<rpc, rset, rnode>>,
           \A n \in Nodes : ClusterHoldsNode(n)' <=> (ClusterHoldsNode(n) \/ n \in A)
    PROVE  \A n \in Nodes : NodeOK(n)'
<1>1. \A n \in Nodes : NodeOK(n)
  BY RefCountSplit DEF RefInv
<1>2. ASSUME NEW n \in A PROVE NodeOK(n)'
  <2>1. n \in Nodes /\ ~Born(n)
    BY <1>2 DEF Unborn, Born
  <2>2. NodeHolders(n)' = {}
    <3>1. \A r \in Readers : rpc[r] = "holding" => rnode[r] # n
      BY <2>1 DEF RefInv, UnbornUnused
    <3>2. QED
      BY <3>1, HoldersUnchanged DEF NodeHolders
  <2>3. NodeCount(n)' = 1
    BY <1>2, <2>1, <2>2, FS_EmptySet DEF NodeCount
  <2>4. nodeRef'[n] = 1 /\ nodeState'[n] = "live"
    BY <1>2, <2>1 DEF CreateNodes
  <2>5. QED
    BY <2>3, <2>4 DEF NodeOK, Born
<1>3. ASSUME NEW n \in Nodes \ A PROVE NodeOK(n)'
  <2>1. nodeRef'[n] = nodeRef[n] /\ nodeState'[n] = nodeState[n]
    BY <1>3 DEF CreateNodes
  <2>2. NodeCount(n)' = NodeCount(n)
    BY <1>3, HoldersUnchanged DEF NodeCount
  <2>3. QED
    BY <1>1, <1>3, <2>1, <2>2 DEF NodeOK, Born
<1>4. QED
  BY <1>2, <1>3

(* as_cluster_find_nodes_to_add: each new friend gets a node, held by    *)
(* the cluster through nodes_to_add.                                     *)
LEMMA FindNodesToAddRef ==
    ASSUME TypeOK, RefInv, NEW P \in SUBSET Nodes, FindNodesToAdd(P) PROVE RefInv'
<1>1. /\ tpc = "find" /\ P \subseteq Unborn /\ CreateNodes(P) /\ toAdd' = P
      /\ tpc' = "remove"
      /\ UNCHANGED <<members, nsets, current, setRef, setFreed, gcSets, gcNodes,
                     rpc, rset, rnode, stale>>
  BY DEF FindNodesToAdd, setVars, gcVars, readerVars
<1>2. toAdd = {}
  BY <1>1 DEF RefInv, NodesApart
<1>3. \A n \in Nodes : ClusterHoldsNode(n)' <=> (ClusterHoldsNode(n) \/ n \in P)
  BY <1>1, <1>2 DEF ClusterHoldsNode
<1>4. \A n \in Nodes : NodeOK(n)'
  BY <1>1, <1>3, CreateNodesOK
<1>5. \A i \in 1..nsets : SetOK(i)'
  BY <1>1, HoldersUnchanged, RefCountSplit DEF RefInv, SetOK, SetCount, ClusterHoldsSet
<1>6. RefCountExact'
  BY <1>1, <1>4, <1>5 DEF RefCountExact, SetOK, NodeOK, SetCount, NodeCount, Born
<1>7. (StaleBusy /\ LoadedHeld /\ GcWaitsForReaders /\ SetsApart)'
  BY <1>1 DEF RefInv, StaleBusy, LoadedHeld, GcWaitsForReaders, SetsApart, Loading
<1>8. \A n \in Nodes : Born(n) => Born(n)'
  BY <1>1 DEF CreateNodes, Born
<1>9. \A n \in P : n \notin members[current] \cup gcNodes /\ Born(n)'
  <2>1. current \in 1..nsets
    BY DEF TypeOK
  <2>2. QED
    BY <1>1, <2>1 DEF RefInv, UnbornUnused, Unborn, Born, CreateNodes
<1>10. UnbornUnused'
  BY <1>1, <1>8, <1>9 DEF RefInv, UnbornUnused
<1>11. NodesApart'
  BY <1>1, <1>9 DEF RefInv, NodesApart
<1>12. RetiredMembersHeld'
  BY <1>1 DEF RefInv, RetiredMembersHeld
<1>13. QED
  BY <1>6, <1>7, <1>10, <1>11, <1>12 DEF RefInv

(* as_node_create on new names followed by set_nodes with the current     *)
(* members and the new nodes, the step of seeding and of reseeding.       *)
LEMMA CreatePublish ==
    ASSUME TypeOK, RefInv, NEW A \in SUBSET Unborn, CreateNodes(A),
           Publish(members[current] \cup A),
           UNCHANGED <<gcNodes, toAdd, rpc, rset, rnode, stale>>,
           tpc' # "gc",
           tpc' \notin {"remove", "add"} => tpc \notin {"remove", "add"}
    PROVE  RefInv'
<1>1. /\ \A i \in 1..nsets' : SetOK(i)'
      /\ (StaleBusy /\ LoadedHeld /\ GcWaitsForReaders /\ SetsApart)'
      /\ gcSets' \cup {current'} = gcSets \cup {current} \cup {current'}
      /\ members'[current'] = members[current] \cup A
      /\ \A i \in 1..nsets : members'[i] = members[i]
      /\ current' = nsets + 1 /\ nsets' = nsets + 1
  BY PublishSets
<1>2. \A n \in Nodes : ClusterHoldsNode(n)' <=> (ClusterHoldsNode(n) \/ n \in A)
  BY <1>1 DEF ClusterHoldsNode
<1>3. \A n \in Nodes : NodeOK(n)'
  BY <1>2, CreateNodesOK
<1>4. RefCountExact'
  BY <1>1, <1>3 DEF RefCountExact, SetOK, NodeOK, SetCount, NodeCount, Born
<1>5. current \in 1..nsets
  BY DEF TypeOK
<1>6. \A n \in A : ~Born(n) /\ Born(n)'
  BY DEF Unborn, Born, CreateNodes
<1>7. \A n \in A : n \notin members[current] /\ n \notin toAdd \cup gcNodes
  <2>1. SUFFICES ASSUME NEW n \in A
                 PROVE  n \notin members[current] /\ n \notin toAdd \cup gcNodes
    OBVIOUS
  <2>2. n \in Nodes /\ ~Born(n)
    BY <1>6 DEF Unborn
  <2>3. (\A i \in 1..nsets : n \notin members[i]) /\ n \notin toAdd \cup gcNodes
    BY <2>2 DEF RefInv, UnbornUnused
  <2>4. QED
    BY <1>5, <2>3
<1>8. UnbornUnused'
  <2>1. \A i \in 1..nsets' : i \in 1..nsets \/ i = current'
    BY <1>1, NodeSetAssumption DEF TypeOK, SetIds
  <2>2. \A n \in Nodes : ~Born(n)' => ~Born(n) /\ n \notin A
    BY DEF CreateNodes, Born
  <2>3. QED
    BY <1>1, <1>5, <2>1, <2>2 DEF RefInv, UnbornUnused
<1>9. NodesApart'
  BY <1>1, <1>7 DEF RefInv, NodesApart
<1>10. RetiredMembersHeld'
  <2>1. \A i \in gcSets \cup {current} : i \in 1..nsets
    BY DEF RefInv, SetsApart, TypeOK
  <2>2. QED
    BY <1>1, <2>1 DEF RefInv, RetiredMembersHeld
<1>11. QED
  BY <1>1, <1>4, <1>8, <1>9, <1>10 DEF RefInv

(* as_cluster_seed_nodes on an empty cluster: the seeds' nodes are       *)
(* created and published, or the tend gives up until the next interval.  *)
LEMMA SeedNodesRef ==
    ASSUME TypeOK, RefInv, SeedNodes PROVE RefInv'
<1>1. CASE tpc' = "sleep" /\ UNCHANGED <<setVars, nodeVars, gcSets>>
  <2>1. UNCHANGED <<members, nsets, current, setRef, setFreed, nodeRef, nodeState,
                    gcSets, gcNodes, toAdd, rpc, rset, rnode, stale>>
    BY <1>1 DEF SeedNodes, setVars, nodeVars, readerVars
  <2>2. tpc' # "gc" /\ (tpc' \notin {"remove", "add"} => toAdd = {})
    BY <1>1 DEF SeedNodes, RefInv, NodesApart
  <2>3. QED
    BY <2>1, <2>2, QuietStep
<1>2. ASSUME NEW A \in (SUBSET Unborn) \ {{}}, CreateNodes(A),
             Publish(members[current] \cup A), tpc' = "partitions"
      PROVE  RefInv'
  <2>1. UNCHANGED <<gcNodes, toAdd, rpc, rset, rnode, stale>> /\ tpc = "seed"
    BY DEF SeedNodes, readerVars
  <2>2. QED
    BY <1>2, <2>1, CreatePublish
<1>3. QED
  BY <1>1, <1>2 DEF SeedNodes

(* The single active node of the cluster is marked for removal and the   *)
(* seeds' nodes are created and published beside it.                     *)
LEMMA ReseedSingleRef ==
    ASSUME TypeOK, RefInv, ReseedSingle PROVE RefInv'
<1>1. PICK A \in (SUBSET Unborn) \ {{}} :
          CreateNodes(A) /\ Publish(members[current] \cup A)
  BY DEF ReseedSingle
<1>2. UNCHANGED <<gcNodes, toAdd, tpc, rpc, rset, rnode, stale>> /\ tpc = "remove"
  BY DEF ReseedSingle, readerVars
<1>3. QED
  BY <1>1, <1>2, CreatePublish

-----------------------------------------------------------------------------
(* as_cluster_gc, a tend interval after the arrays and nodes were        *)
(* retired.  With the grace period no thread still reads a retired       *)
(* array, so its count drops from 1 to 0 and it is freed; a retired node *)
(* keeps the references of the threads that hold it.                     *)
LEMMA GcRef ==
    ASSUME GraceAssumed, TypeOK, RefInv, Gc PROVE RefInv'
<1>1. /\ tpc = "gc" /\ stale = {} /\ ReleaseSets(gcSets) /\ ReleaseNodes(gcNodes)
      /\ gcSets' = {} /\ gcNodes' = {} /\ tpc' = "seed"
      /\ UNCHANGED <<members, nsets, current, toAdd, stale, rpc, rset, rnode>>
  BY DEF Gc, readerVars
<1>2. \A r \in Readers : Loading(r) => rset[r] \notin gcSets
  BY <1>1 DEF RefInv, GcWaitsForReaders
<1>3. \A i \in 1..nsets : SetOK(i)
  BY RefCountSplit DEF RefInv
<1>4. \A n \in Nodes : NodeOK(n)
  BY RefCountSplit DEF RefInv
<1>5. ASSUME NEW i \in 1..nsets PROVE SetOK(i)'
  <2>1. SetHolders(i)' = SetHolders(i)
    BY <1>1, HoldersUnchanged
  <2>2. CASE i \in gcSets
    <3>1. SetHolders(i) = {}
      BY <1>2, <2>2 DEF SetHolders, Loading
    <3>2. i # current
      BY <2>2 DEF RefInv, SetsApart
    <3>3. setRef[i] = 1
      BY <1>3, <2>2, <3>1, FS_EmptySet DEF SetOK, SetCount, ClusterHoldsSet
    <3>4. setRef'[i] = 0 /\ i \in setFreed'
      BY <1>1, <2>2, <3>3 DEF ReleaseSets, TypeOK, SetIds
    <3>5. SetCount(i)' = 0
      BY <1>1, <2>1, <3>1, <3>2, FS_EmptySet DEF SetCount, ClusterHoldsSet
    <3>6. QED
      BY <3>4, <3>5 DEF SetOK
  <2>3. CASE i \notin gcSets
    <3>1. setRef'[i] = setRef[i] /\ (i \in setFreed' <=> i \in setFreed)
      <4>1. i \in SetIds
        BY NodeSetAssumption DEF TypeOK, SetIds
      <4>2. setRef'[i] = setRef[i]
        BY <1>1, <2>3, <4>1 DEF ReleaseSets
      <4>3. QED
        BY <1>1, <2>3, <4>2 DEF ReleaseSets
    <3>2. SetCount(i)' = SetCount(i)
      BY <1>1, <2>1, <2>3 DEF SetCount, ClusterHoldsSet
    <3>3. QED
      BY <1>3, <3>1, <3>2 DEF SetOK
  <2>4. QED
    BY <2>2, <2>3
<1>6. ASSUME NEW n \in Nodes PROVE NodeOK(n)'
  <2>1. NodeHolders(n)' = NodeHolders(n) /\ Cardinality(NodeHolders(n)) \in Nat
    BY <1>1, HoldersUnchanged, HoldersFinite
  <2>2. CASE n \in gcNodes
    <3>1. Born(n) /\ n \notin members[current] /\ n \notin toAdd
      BY <2>2 DEF RefInv, UnbornUnused, NodesApart
    <3>2. nodeRef[n] = 1 + Cardinality(NodeHolders(n)) /\ nodeState[n] # "freed"
      BY <1>4, <2>1, <2>2, <3>1 DEF NodeOK, NodeCount, ClusterHoldsNode
    <3>3. /\ nodeRef'[n] = Cardinality(NodeHolders(n))
          /\ nodeState'[n] = IF nodeRef[n] = 1 THEN "freed" ELSE nodeState[n]
      BY <1>1, <2>1, <2>2, <3>2 DEF ReleaseNodes
    <3>4. NodeCount(n)' = Cardinality(NodeHolders(n))
      BY <1>1, <2>1, <3>1 DEF NodeCount, ClusterHoldsNode
    <3>5. Born(n)'
      BY <3>1, <3>3 DEF Born
    <3>6. QED
      BY <2>1, <3>2, <3>3, <3>4, <3>5 DEF NodeOK
  <2>3. CASE n \notin gcNodes
    <3>1. nodeRef'[n] = nodeRef[n] /\ nodeState'[n] = nodeState[n]
      BY <1>1, <2>3 DEF ReleaseNodes
    <3>2. NodeCount(n)' = NodeCount(n)
      BY <1>1, <2>1, <2>3 DEF NodeCount, ClusterHoldsNode
    <3>3. QED
      BY <1>4, <3>1, <3>2 DEF NodeOK, Born
  <2>4. QED
    BY <2>2, <2>3
<1>7. RefCountExact'
  BY <1>1, <1>5, <1>6 DEF RefCountExact, SetOK, NodeOK, SetCount, NodeCount, Born
<1>8. (StaleBusy /\ LoadedHeld /\ GcWaitsForReaders)'
  BY <1>1, <1>2 DEF RefInv, StaleBusy, LoadedHeld, GcWaitsForReaders, Loading
<1>9. SetsApart'
  <2>1. setFreed' \subseteq setFreed \cup gcSets
    BY <1>1 DEF ReleaseSets
  <2>2. QED
    BY <1>1, <2>1 DEF RefInv, SetsApart
<1>10. \A n \in Nodes : Born(n)' <=> Born(n)
  <2>1. \A n \in gcNodes : Born(n)
    BY DEF RefInv, UnbornUnused, TypeOK
  <2>2. QED
    BY <1>1, <2>1 DEF ReleaseNodes, Born
<1>11. UnbornUnused'
  BY <1>1, <1>10 DEF RefInv, UnbornUnused
<1>12. (NodesApart /\ RetiredMembersHeld)'
  <2>1. toAdd = {}
    BY <1>1 DEF RefInv, NodesApart
  <2>2. QED
    BY <1>1, <2>1 DEF NodesApart, RetiredMembersHeld
<1>13. QED
  BY <1>7, <1>8, <1>9, <1>11, <1>12 DEF RefInv

-----------------------------------------------------------------------------
(* The client starts with one empty array, no node and no request.       *)
LEMMA InitRef == Init => RefInv
<1> SUFFICES ASSUME Init PROVE RefInv
  OBVIOUS
<1>1. \A i : SetHolders(i) = {} /\ \A n : NodeHolders(n) = {}
  BY DEF Init, SetHolders, NodeHolders
<1>2. 1..nsets = {1} /\ current = 1 /\ setRef[1] = 1 /\ setFreed = {}
  BY NodeSetAssumption DEF Init, SetIds
<1>3. RefCountExact
  <2>1. \A i \in 1..nsets : setRef[i] = (IF ClusterHoldsSet(i) THEN 1 ELSE 0)
                                          + Cardinality(SetHolders(i))
    BY <1>1, <1>2, FS_EmptySet DEF ClusterHoldsSet
  <2>2. \A i \in 1..nsets : i \in setFreed <=> setRef[i] = 0
    BY <1>2
  <2>3. \A n \in Nodes : nodeState[n] = "unborn"
    BY DEF Init
  <2>4. QED
    BY <2>1, <2>2, <2>3 DEF RefCountExact
<1>4. StaleBusy /\ LoadedHeld /\ GcWaitsForReaders
  BY DEF Init, StaleBusy, LoadedHeld, GcWaitsForReaders, Loading
<1>5. SetsApart
  BY <1>2 DEF Init, SetsApart
<1>6. UnbornUnused
  <2>1. 1 \in SetIds
    BY NodeSetAssumption DEF SetIds
  <2>2. members[1] = {}
    BY <2>1 DEF Init
  <2>3. QED
    BY <1>2, <2>2 DEF Init, UnbornUnused, Born
<1>7. NodesApart /\ RetiredMembersHeld
  BY DEF Init, NodesApart, RetiredMembersHeld
<1>8. QED
  BY <1>3, <1>4, <1>5, <1>6, <1>7 DEF RefInv

(* Every step of the tender and of the request threads keeps RefInv.     *)
LEMMA NextRef ==
    ASSUME GraceAssumed, TypeOK, RefInv, [Next]_vars PROVE RefInv'
<1>1. CASE Tender
  <2>1. CASE \E D \in SUBSET members[current] : RefreshNodes(D)
    BY <2>1, RefreshNodesRef
  <2>2. CASE \E P \in SUBSET Nodes : FindNodesToAdd(P)
    BY <2>2, FindNodesToAddRef
  <2>3. CASE \E R \in SUBSET members[current] : RemoveNodes(R)
    BY <2>3, RemoveNodesRef
  <2>4. QED
    BY <1>1, <2>1, <2>2, <2>3, GcRef, SeedNodesRef, NoSeedRef, SetPartitionSizeRef,
       ReseedSingleRef, NoRemovalRef, AddNodesRef, NoAdditionRef, SleepRef
    DEF Tender
<1>2. ASSUME NEW r \in Readers, Reader(r) PROVE RefInv'
  <2>1. CASE \E n \in Nodes : PickNode(r, n) \/ SkipNode(r, n) \/ GetByName(r, n)
    BY <2>1, PickNodeRef, SkipNodeRef, GetByNameRef
  <2>2. QED
    BY <1>2, <2>1, LoadRef, ReserveRef, NoneFoundRef, ReleaseOnlyRef, FinishRef
    DEF Reader, InRequest
<1>3. CASE UNCHANGED vars
  <2>1. UNCHANGED <<members, nsets, current, setRef, setFreed, nodeRef, nodeState,
                    gcSets, gcNodes, toAdd, tpc, stale, rpc, rset, rnode>>
    BY <1>3 DEF vars, setVars, nodeVars, gcVars, tendVars, readerVars
  <2>2. tpc' \notin {"remove", "add"} => toAdd = {}
    BY <2>1 DEF RefInv, NodesApart
  <2>3. QED
    BY <2>1, <2>2, QuietStep
<1>4. QED
  BY <1>1, <1>2, <1>3 DEF Next

-----------------------------------------------------------------------------
(* The strengthened invariant holds in every reachable state of a client *)
(* whose requests end within a tend interval.                             *)
THEOREM RefInvHolds ==
    ASSUME GraceAssumed PROVE Spec => [](TypeOK /\ RefInv)
<1>1. Init => RefInv
  BY InitRef
<1>2. TypeOK /\ RefInv /\ [Next]_vars => RefInv'
  BY NextRef
<1>3. QED
  BY <1>1, <1>2, TypeCorrect, PTL DEF Spec

(* Reference counts are exact (RefCountExact): every count of a node     *)
(* array or a node is the cluster's own reference plus one per thread    *)
(* holding it, and it is freed exactly when the count is zero, whatever  *)
(* as_node_get_random, as_cluster_gc and set_nodes interleave.           *)
THEOREM RefCountExactHolds ==
    ASSUME GraceAssumed PROVE Spec => []RefCountExact
BY RefInvHolds, PTL DEF RefInv

(* What a thread can touch is counted: a loaded array is cluster-held, a *)
(* held node has the thread's reference, and a reserved array's nodes    *)
(* are held by the cluster.                                               *)
LEMMA SafeFromRef ==
    ASSUME TypeOK, RefInv PROVE NoUseAfterFree
<1>1. \A i \in gcSets \cup {current} : i \in 1..nsets /\ setRef[i] >= 1
  <2>1. SUFFICES ASSUME NEW i \in gcSets \cup {current} PROVE i \in 1..nsets /\ setRef[i] >= 1
    OBVIOUS
  <2>2. i \in 1..nsets
    BY DEF RefInv, SetsApart, TypeOK
  <2>3. Cardinality(SetHolders(i)) \in Nat
    BY HoldersFinite
  <2>4. QED
    BY <2>2, <2>3 DEF RefInv, RefCountExact, ClusterHoldsSet
<1>2. ASSUME NEW n \in Nodes, Born(n), ClusterHoldsNode(n) \/ NodeHolders(n) # {}
      PROVE  nodeState[n] # "freed"
  <2>1. IsFiniteSet(NodeHolders(n)) /\ Cardinality(NodeHolders(n)) \in Nat
    BY HoldersFinite
  <2>2. NodeHolders(n) # {} => Cardinality(NodeHolders(n)) >= 1
    BY <2>1, FS_EmptySet
  <2>3. nodeRef[n] >= 1
    BY <1>2, <2>1, <2>2 DEF RefInv, RefCountExact, Born
  <2>4. QED
    BY <2>3 DEF RefInv, RefCountExact
<1>3. ASSUME NEW r \in Readers, rpc[r] \in {"loaded", "reserved"} PROVE rset[r] \notin setFreed
  BY <1>1, <1>3 DEF RefInv, LoadedHeld, Loading, RefCountExact
<1>4. ASSUME NEW r \in Readers, rpc[r] = "holding" PROVE nodeState[rnode[r]] # "freed"
  <2>1. rnode[r] \in Nodes /\ r \in NodeHolders(rnode[r])
    BY <1>4 DEF TypeOK, NodeHolders
  <2>2. Born(rnode[r])
    BY <1>4, <2>1 DEF RefInv, UnbornUnused
  <2>3. QED
    BY <1>2, <2>1, <2>2
<1>5. ASSUME NEW r \in Readers, rpc[r] = "reserved", NEW n \in members[rset[r]]
      PROVE  nodeState[n] # "freed"
  <2>1. rset[r] \in gcSets \cup {current} /\ rset[r] \in 1..nsets
    BY <1>5 DEF RefInv, LoadedHeld, Loading, TypeOK
  <2>2. n \in members[current] \cup gcNodes /\ n \in Nodes
    <3>1. n \in members[current] \cup gcNodes
      BY <1>5, <2>1 DEF RefInv, RetiredMembersHeld
    <3>2. current \in SetIds
      <4>1. current \in Nat /\ 1 <= current /\ current <= MaxSets
        BY NodeSetAssumption DEF TypeOK, SetIds
      <4>2. QED
        BY <4>1 DEF SetIds
    <3>3. QED
      BY <3>1, <3>2 DEF TypeOK
  <2>3. Born(n)
    BY <1>5, <2>1, <2>2 DEF RefInv, UnbornUnused
  <2>4. QED
    BY <1>2, <2>2, <2>3 DEF ClusterHoldsNode
<1>6. QED
  BY <1>3, <1>4, <1>5 DEF NoUseAfterFree, ReservedSnapshotNodesLive

(* No use after free (NoUseAfterFree): under the grace interval of       *)
(* as_cluster_gc, no thread inside as_nodes_reserve, as_node_get_random  *)
(* or as_node_get_by_name reads a freed node array, a freed node of the  *)
(* array it reserved, or a freed node it holds.                          *)
THEOREM NoUseAfterFreeHolds ==
    ASSUME GraceAssumed PROVE Spec => []NoUseAfterFree
<1>1. TypeOK /\ RefInv => NoUseAfterFree
  BY SafeFromRef
<1>2. QED
  BY <1>1, RefInvHolds, PTL

=============================================================================
