--------------------------- MODULE NodeSetProofs ---------------------------
(***************************************************************************)
(* Proofs about NodeSet for every value of its constants.                 *)
(***************************************************************************)
EXTENDS NodeSet, TLAPS

USE NodeSetAssumption

ReaderPcs == {"idle", "loaded", "reserved", "holding"}

(* set_nodes keeps the arrays, counts and thread records well typed, and *)
(* every array a thread loaded stays one of the arrays built so far.     *)
LEMMA PublishType ==
    ASSUME TypeOK, NEW new \in SUBSET Nodes, Publish(new)
    PROVE  /\ nsets' \in SetIds
           /\ current' \in 1..nsets'
           /\ members' \in [SetIds -> SUBSET Nodes]
           /\ setRef' \in [SetIds -> Int]
           /\ gcSets' \subseteq SetIds
           /\ setFreed' = setFreed
           /\ 1..nsets \subseteq 1..nsets'
<1>1. nsets + 1 \in SetIds /\ current \in SetIds
  BY DEF Publish, TypeOK, SetIds
<1>2. QED
  BY <1>1 DEF Publish, TypeOK, SetIds

(* as_node_create keeps the node records well typed.                    *)
LEMMA CreateNodesType ==
    ASSUME TypeOK, NEW A \in SUBSET Nodes, CreateNodes(A)
    PROVE  /\ nodeRef' \in [Nodes -> Int]
           /\ nodeState' \in [Nodes -> {"unborn", "live", "freed"}]
           /\ active' \in [Nodes -> BOOLEAN]
<1>1. nodeRef' \in [Nodes -> Int]
  BY DEF CreateNodes, TypeOK
<1>2. nodeState' \in [Nodes -> {"unborn", "live", "freed"}]
  BY DEF CreateNodes, TypeOK
<1>3. active' \in [Nodes -> BOOLEAN]
  <2>1. active' = [n \in Nodes |-> IF n \in A THEN TRUE ELSE active[n]]
    BY DEF CreateNodes
  <2>2. \A n \in Nodes : active[n] \in BOOLEAN
    BY DEF TypeOK
  <2>3. QED
    BY <2>1, <2>2, Zenon
<1>4. QED
  BY <1>1, <1>2, <1>3

(* Releasing arrays keeps the counts integers and frees only arrays.    *)
LEMMA ReleaseSetsType ==
    ASSUME TypeOK, NEW S \in SUBSET SetIds, ReleaseSets(S)
    PROVE  /\ setRef' \in [SetIds -> Int]
           /\ setFreed' \subseteq SetIds
<1>1. setRef' \in [SetIds -> Int]
  BY DEF ReleaseSets, TypeOK
<1>2. setFreed' \subseteq setFreed \cup S
  BY Zenon DEF ReleaseSets
<1>3. QED
  BY <1>1, <1>2 DEF TypeOK

(* Releasing nodes keeps the node records well typed.                   *)
LEMMA ReleaseNodesType ==
    ASSUME TypeOK, NEW N \in SUBSET Nodes, ReleaseNodes(N)
    PROVE  /\ nodeRef' \in [Nodes -> Int]
           /\ nodeState' \in [Nodes -> {"unborn", "live", "freed"}]
BY DEF ReleaseNodes, TypeOK

(* The thread records are well typed and every loaded array is one of    *)
(* those built so far.  Shared by the steps that leave the threads alone.*)
ReadersOK ==
    /\ rpc \in [Readers -> ReaderPcs]
    /\ rset \in [Readers -> SetIds \cup {NoSet}]
    /\ rtries \in [Readers -> Nat]
    /\ rnode \in [Readers -> Nodes \cup {NoNode}]
    /\ \A r \in Readers : rpc[r] \in {"loaded", "reserved"} => rset[r] \in 1..nsets
    /\ \A r \in Readers : rpc[r] = "holding" => rnode[r] \in Nodes

(* TypeOK split into the part about shared state and ReadersOK.          *)
LEMMA TypeOKSplit ==
    TypeOK <=> /\ members \in [SetIds -> SUBSET Nodes]
               /\ nsets \in SetIds
               /\ current \in 1..nsets
               /\ setRef \in [SetIds -> Int]
               /\ setFreed \subseteq SetIds
               /\ nodeRef \in [Nodes -> Int]
               /\ nodeState \in [Nodes -> {"unborn", "live", "freed"}]
               /\ active \in [Nodes -> BOOLEAN]
               /\ gcSets \subseteq SetIds
               /\ gcNodes \subseteq Nodes
               /\ nPartKnown \in BOOLEAN
               /\ toAdd \subseteq Nodes
               /\ victim \in Nodes \cup {NoNode}
               /\ tpc \in {"gc", "seed", "partitions", "refresh", "find",
                           "remove", "add", "sleep"}
               /\ stale \subseteq Readers
               /\ ReadersOK
BY DEF TypeOK, ReadersOK, ReaderPcs

(* A tender step that publishes leaves the thread records well typed,   *)
(* since the arrays built so far only grow.                             *)
LEMMA ReadersAfterPublish ==
    ASSUME TypeOK, 1..nsets \subseteq 1..nsets', UNCHANGED readerVars
    PROVE  ReadersOK'
BY DEF TypeOK, ReadersOK, ReaderPcs, readerVars

(* The current array holds nodes.                                       *)
LEMMA CurrentInNodes ==
    ASSUME TypeOK PROVE current \in SetIds /\ members[current] \in SUBSET Nodes
<1>1. current \in SetIds
  BY DEF TypeOK, SetIds
<1>2. QED
  BY <1>1 DEF TypeOK

(* The type invariant holds in every reachable state: the reference     *)
(* counts are integers, the arrays and queues hold nodes and arrays that *)
(* exist, and each thread's loaded array is one the tender has built.    *)
THEOREM TypeCorrect == Spec => []TypeOK
<1>1. Init => TypeOK
  <2> SUFFICES ASSUME Init PROVE TypeOK
    OBVIOUS
  <2>1. members \in [SetIds -> SUBSET Nodes] /\ setRef \in [SetIds -> Int]
    BY DEF Init
  <2>2. nsets \in SetIds /\ current \in 1..nsets
    BY DEF Init, SetIds
  <2>3. /\ nodeRef \in [Nodes -> Int]
        /\ nodeState \in [Nodes -> {"unborn", "live", "freed"}]
        /\ active \in [Nodes -> BOOLEAN]
    BY DEF Init
  <2>4. /\ rpc \in [Readers -> {"idle", "loaded", "reserved", "holding"}]
        /\ rset \in [Readers -> SetIds \cup {NoSet}]
        /\ rtries \in [Readers -> Nat]
        /\ rnode \in [Readers -> Nodes \cup {NoNode}]
    BY DEF Init
  <2>5. QED
    BY <2>1, <2>2, <2>3, <2>4 DEF Init, TypeOK
<1>2. TypeOK /\ [Next]_vars => TypeOK'
  <2> SUFFICES ASSUME TypeOK, [Next]_vars PROVE TypeOK'
    OBVIOUS
  <2>1. CASE Gc
    <3>1. gcSets \in SUBSET SetIds /\ gcNodes \in SUBSET Nodes
      BY DEF TypeOK
    <3>2. setRef' \in [SetIds -> Int] /\ setFreed' \subseteq SetIds
      BY <2>1, <3>1, ReleaseSetsType DEF Gc
    <3>3. nodeRef' \in [Nodes -> Int] /\ nodeState' \in [Nodes -> {"unborn", "live", "freed"}]
      BY <2>1, <3>1, ReleaseNodesType DEF Gc
    <3>4. QED
      BY <2>1, <3>2, <3>3 DEF Gc, TypeOK, readerVars
  <2>2. CASE SeedNodes
    <3>1. CASE \E A \in (SUBSET Unborn) \ {{}} :
                 /\ DistinctNames(A) /\ CreateNodes(A)
                 /\ Publish(members[current] \cup A) /\ tpc' = "partitions"
      <4>1. PICK A \in (SUBSET Unborn) \ {{}} :
                 /\ CreateNodes(A)
                 /\ Publish(members[current] \cup A) /\ tpc' = "partitions"
        BY <3>1
      <4>2. A \in SUBSET Nodes /\ members[current] \cup A \in SUBSET Nodes
        <5>1. A \in SUBSET Nodes
          BY <4>1 DEF Unborn
        <5>2. members[current] \in SUBSET Nodes
          BY CurrentInNodes
        <5>3. QED
          BY <5>1, <5>2
      <4>3. /\ nsets' \in SetIds /\ current' \in 1..nsets'
            /\ members' \in [SetIds -> SUBSET Nodes] /\ setRef' \in [SetIds -> Int]
            /\ gcSets' \subseteq SetIds /\ setFreed' = setFreed
            /\ 1..nsets \subseteq 1..nsets'
        BY <4>1, <4>2, PublishType
      <4>4. /\ nodeRef' \in [Nodes -> Int]
            /\ nodeState' \in [Nodes -> {"unborn", "live", "freed"}]
            /\ active' \in [Nodes -> BOOLEAN]
        BY <4>1, <4>2, CreateNodesType
      <4>5. ReadersOK'
        BY <2>2, <4>3, ReadersAfterPublish DEF SeedNodes
      <4>6. QED
        BY <2>2, <4>1, <4>3, <4>4, <4>5 DEF SeedNodes, TypeOK, ReadersOK, ReaderPcs
    <3>2. CASE tpc' = "sleep" /\ UNCHANGED <<setVars, nodeVars, gcSets>>
      BY <2>2, <3>2 DEF SeedNodes, TypeOK, setVars, nodeVars, readerVars
    <3>3. QED
      BY <2>2, <3>1, <3>2 DEF SeedNodes
  <2>3. CASE NoSeed
    BY <2>3 DEF NoSeed, TypeOK, setVars, nodeVars, gcVars, readerVars
  <2>4. CASE SetPartitionSize
    BY <2>4 DEF SetPartitionSize, TypeOK, setVars, nodeVars, gcVars, readerVars
  <2>5. ASSUME NEW D \in SUBSET members[current], RefreshNodes(D) PROVE TypeOK'
    BY <2>5 DEF RefreshNodes, TypeOK, setVars, gcVars, readerVars
  <2>6. ASSUME NEW P \in SUBSET Nodes, FindNodesToAdd(P) PROVE TypeOK'
    <3>1. /\ nodeRef' \in [Nodes -> Int]
          /\ nodeState' \in [Nodes -> {"unborn", "live", "freed"}]
          /\ active' \in [Nodes -> BOOLEAN]
      BY <2>6, CreateNodesType DEF FindNodesToAdd
    <3>2. QED
      BY <2>6, <3>1 DEF FindNodesToAdd, TypeOK, setVars, gcVars, readerVars
  <2>7. CASE ReseedSingle
    <3>1. PICK A \in (SUBSET Unborn) \ {{}} :
               /\ CreateNodes(A) /\ Publish(members[current] \cup A)
      BY <2>7 DEF ReseedSingle
    <3>2. A \in SUBSET Nodes /\ members[current] \cup A \in SUBSET Nodes
      <4>1. A \in SUBSET Nodes
        BY <3>1 DEF Unborn
      <4>2. QED
        BY <4>1, CurrentInNodes
    <3>3. /\ nsets' \in SetIds /\ current' \in 1..nsets'
          /\ members' \in [SetIds -> SUBSET Nodes] /\ setRef' \in [SetIds -> Int]
          /\ gcSets' \subseteq SetIds /\ setFreed' = setFreed
          /\ 1..nsets \subseteq 1..nsets'
      BY <3>1, <3>2, PublishType
    <3>4. /\ nodeRef' \in [Nodes -> Int]
          /\ nodeState' \in [Nodes -> {"unborn", "live", "freed"}]
          /\ active' \in [Nodes -> BOOLEAN]
      BY <3>1, <3>2, CreateNodesType
    <3>5. victim' \in Nodes
      BY <2>7, CurrentInNodes DEF ReseedSingle
    <3>6. ReadersOK'
      BY <2>7, <3>3, ReadersAfterPublish DEF ReseedSingle
    <3>7. QED
      BY <2>7, <3>3, <3>4, <3>5, <3>6 DEF ReseedSingle, TypeOK, ReadersOK, ReaderPcs
  <2>8. ASSUME NEW R \in SUBSET members[current], RemoveNodes(R) PROVE TypeOK'
    <3>1. members[current] \ R \in SUBSET Nodes /\ R \in SUBSET Nodes
      BY CurrentInNodes
    <3>2. /\ nsets' \in SetIds /\ current' \in 1..nsets'
          /\ members' \in [SetIds -> SUBSET Nodes] /\ setRef' \in [SetIds -> Int]
          /\ gcSets' \subseteq SetIds /\ setFreed' = setFreed
          /\ 1..nsets \subseteq 1..nsets'
      BY <2>8, <3>1, PublishType DEF RemoveNodes
    <3>3. active' \in [Nodes -> BOOLEAN] /\ gcNodes' \subseteq Nodes
      BY <2>8, <3>1 DEF RemoveNodes, TypeOK
    <3>4. ReadersOK'
      BY <2>8, <3>2, ReadersAfterPublish DEF RemoveNodes
    <3>5. QED
      BY <2>8, <3>2, <3>3, <3>4 DEF RemoveNodes, TypeOK, ReadersOK, ReaderPcs
  <2>9. CASE NoRemoval
    BY <2>9 DEF NoRemoval, TypeOK, setVars, nodeVars, gcVars, readerVars
  <2>10. CASE AddNodes
    <3>1. members[current] \cup toAdd \in SUBSET Nodes
      BY CurrentInNodes DEF TypeOK
    <3>2. /\ nsets' \in SetIds /\ current' \in 1..nsets'
          /\ members' \in [SetIds -> SUBSET Nodes] /\ setRef' \in [SetIds -> Int]
          /\ gcSets' \subseteq SetIds /\ setFreed' = setFreed
          /\ 1..nsets \subseteq 1..nsets'
      BY <2>10, <3>1, PublishType DEF AddNodes
    <3>3. ReadersOK'
      BY <2>10, <3>2, ReadersAfterPublish DEF AddNodes
    <3>4. QED
      BY <2>10, <3>2, <3>3 DEF AddNodes, TypeOK, ReadersOK, ReaderPcs, nodeVars
  <2>11. CASE NoAddition
    BY <2>11 DEF NoAddition, TypeOK, setVars, nodeVars, gcVars, readerVars
  <2>12. CASE Sleep
    BY <2>12 DEF Sleep, TypeOK, setVars, nodeVars, gcVars, readerVars
  <2>13. ASSUME NEW r \in Readers, Load(r) PROVE TypeOK'
    BY <2>13 DEF Load, TypeOK, SetIds, setVars, nodeVars, gcVars, tendVars
  <2>14. ASSUME NEW r \in Readers, Reserve(r) PROVE TypeOK'
    <3>1. rset[r] \in SetIds
      BY <2>14 DEF Reserve, TypeOK, SetIds
    <3>2. setRef' \in [SetIds -> Int]
      BY <2>14, <3>1 DEF Reserve, TypeOK
    <3>3. /\ rpc' \in [Readers -> {"idle", "loaded", "reserved", "holding"}]
          /\ \A s \in Readers : rpc'[s] \in {"loaded", "reserved"} => rset'[s] \in 1..nsets'
          /\ \A s \in Readers : rpc'[s] = "holding" => rnode'[s] \in Nodes
      BY <2>14 DEF Reserve, TypeOK
    <3>4. QED
      BY <2>14, <3>2, <3>3 DEF Reserve, TypeOK, nodeVars, gcVars, tendVars
  <2>15. ASSUME NEW r \in Readers, NEW n \in Nodes, PickNode(r, n) PROVE TypeOK'
    <3>1. rset[r] \in SetIds
      BY <2>15 DEF PickNode, TypeOK, SetIds
    <3>2. setRef' \in [SetIds -> Int] /\ setFreed' \subseteq SetIds
      BY <2>15, <3>1, ReleaseSetsType DEF PickNode
    <3>3. /\ rpc' \in [Readers -> {"idle", "loaded", "reserved", "holding"}]
          /\ rset' \in [Readers -> SetIds \cup {NoSet}]
          /\ rtries' \in [Readers -> Nat]
          /\ rnode' \in [Readers -> Nodes \cup {NoNode}]
      BY <2>15 DEF PickNode, TypeOK, NoSet
    <3>4. \A q \in Readers : rpc'[q] \in {"loaded", "reserved"} => rset'[q] \in 1..nsets'
      BY <2>15 DEF PickNode, TypeOK
    <3>5. \A q \in Readers : rpc'[q] = "holding" => rnode'[q] \in Nodes
      BY <2>15 DEF PickNode, TypeOK
    <3>6. nodeRef' \in [Nodes -> Int]
      BY <2>15 DEF PickNode, TypeOK
    <3>7. QED
      BY <2>15, <3>2, <3>3, <3>4, <3>5, <3>6 DEF PickNode, TypeOK, gcVars, tendVars
  <2>16. ASSUME NEW r \in Readers, NEW n \in Nodes, SkipNode(r, n) PROVE TypeOK'
    BY <2>16 DEF SkipNode, TypeOK, setVars, nodeVars, gcVars, tendVars
  <2>17. ASSUME NEW r \in Readers, NoneFound(r) PROVE TypeOK'
    <3>1. rset[r] \in SetIds
      BY <2>17 DEF NoneFound, TypeOK, SetIds
    <3>2. setRef' \in [SetIds -> Int] /\ setFreed' \subseteq SetIds
      BY <2>17, <3>1, ReleaseSetsType DEF NoneFound
    <3>3. QED
      BY <2>17, <3>2 DEF NoneFound, TypeOK, SetIds, NoSet, nodeVars, gcVars
  <2>18. ASSUME NEW r \in Readers, NEW n \in Nodes, GetByName(r, n) PROVE TypeOK'
    <3>1. rset[r] \in SetIds
      BY <2>18 DEF GetByName, TypeOK, SetIds
    <3>2. setRef' \in [SetIds -> Int] /\ setFreed' \subseteq SetIds
      BY <2>18, <3>1, ReleaseSetsType DEF GetByName
    <3>3. /\ rpc' \in [Readers -> {"idle", "loaded", "reserved", "holding"}]
          /\ rset' \in [Readers -> SetIds \cup {NoSet}]
          /\ rnode' \in [Readers -> Nodes \cup {NoNode}]
      BY <2>18 DEF GetByName, TypeOK, NoSet
    <3>4. \A q \in Readers : rpc'[q] \in {"loaded", "reserved"} => rset'[q] \in 1..nsets'
      BY <2>18 DEF GetByName, TypeOK
    <3>5. \A q \in Readers : rpc'[q] = "holding" => rnode'[q] \in Nodes
      BY <2>18 DEF GetByName, TypeOK
    <3>6. nodeRef' \in [Nodes -> Int]
      BY <2>18 DEF GetByName, TypeOK
    <3>7. QED
      BY <2>18, <3>2, <3>3, <3>4, <3>5, <3>6 DEF GetByName, TypeOK, gcVars, tendVars
  <2>19. ASSUME NEW r \in Readers, ReleaseOnly(r) PROVE TypeOK'
    <3>1. rset[r] \in SetIds
      BY <2>19 DEF ReleaseOnly, TypeOK, SetIds
    <3>2. setRef' \in [SetIds -> Int] /\ setFreed' \subseteq SetIds
      BY <2>19, <3>1, ReleaseSetsType DEF ReleaseOnly
    <3>3. QED
      BY <2>19, <3>2 DEF ReleaseOnly, TypeOK, SetIds, NoSet, nodeVars, gcVars
  <2>20. ASSUME NEW r \in Readers, Finish(r) PROVE TypeOK'
    <3>1. {rnode[r]} \in SUBSET Nodes
      BY <2>20 DEF Finish, TypeOK
    <3>2. nodeRef' \in [Nodes -> Int] /\ nodeState' \in [Nodes -> {"unborn", "live", "freed"}]
      BY <2>20, <3>1, ReleaseNodesType DEF Finish
    <3>3. QED
      BY <2>20, <3>2 DEF Finish, TypeOK, setVars, gcVars
  <2>21. CASE UNCHANGED vars
    BY <2>21 DEF vars, TypeOK, setVars, nodeVars, gcVars, tendVars, readerVars
  <2>30. QED
    BY <2>1, <2>2, <2>3, <2>4, <2>5, <2>6, <2>7, <2>8, <2>9, <2>10, <2>11, <2>12,
       <2>13, <2>14, <2>15, <2>16, <2>17, <2>18, <2>19, <2>20, <2>21 DEF Next, Tender, Reader, InRequest
<1>3. QED
  BY <1>1, <1>2, PTL DEF Spec
=============================================================================
