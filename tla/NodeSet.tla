------------------------------ MODULE NodeSet ------------------------------
(***************************************************************************)
(* The cluster's copy-on-write node array, the tend cycle that replaces    *)
(* it, and the application threads that read it (as_cluster.c:            *)
(* as_cluster_tend and what it calls, as_cluster_tender,                  *)
(* as_node_get_random, as_node_get_by_name, as_cluster_get_node_names,     *)
(* as_cluster_is_connected).                                               *)
(*                                                                         *)
(* The tender never edits a published array: it builds a new one, stores  *)
(* it in cluster->nodes (set_nodes) and appends the cluster's reference to *)
(* the old array, and to every removed node, to cluster->gc, which the     *)
(* next cycle releases (as_cluster_gc).  A reader loads cluster->nodes,   *)
(* then increments that array's count (as_nodes_reserve: two atomics),    *)
(* reserves a node, releases the array, uses the node and releases it.    *)
(* Whoever drops a count to zero frees the structure.  as_nodes_reserve,  *)
(* as_nodes_release, as_node_reserve and as_node_release are inline       *)
(* functions of a header that is not in src/; they follow spec 4.1.       *)
(*                                                                         *)
(* An array is modelled by the set of node objects it holds (its order    *)
(* only steers as_node_get_random, whose shared index is abstracted).  A  *)
(* node object is created with the name of one server (NodeServer); two   *)
(* objects can carry the same name.  A node's failure and friend counters *)
(* are abstracted: the removal policy may pick any active node of a       *)
(* cluster of two or more nodes.                                          *)
(***************************************************************************)
EXTENDS Integers, FiniteSets

CONSTANTS
    Readers,       \* application threads
    Nodes,         \* as_node objects the tender may create
    Servers,       \* server node names
    NodeServer,    \* the name each node object is created with
    MaxSets,       \* bound on the number of arrays ever published
    NoNode,        \* no node
    GraceAssumed   \* TRUE: every request ends within one tend interval

ASSUME NodeSetAssumption ==
    /\ IsFiniteSet(Readers)
    /\ MaxSets \in Nat \ {0}
    /\ NoNode \notin Nodes
    /\ NodeServer \in [Nodes -> Servers]
    /\ GraceAssumed \in BOOLEAN

SetIds == 1..MaxSets
NoSet == 0

VARIABLES
    members,    \* members[i]: the nodes of array i (never edited once built)
    nsets,      \* number of arrays built so far
    current,    \* the array cluster->nodes points to
    setRef,     \* ref_count of each array
    setFreed,   \* arrays whose memory has been freed
    nodeRef,    \* ref_count of each node
    nodeState,  \* "unborn" (not created yet), "live" or "freed"
    active,     \* node->active
    gcSets,     \* cluster->gc: arrays whose cluster reference awaits release
    gcNodes,    \* cluster->gc: removed nodes whose cluster reference awaits release
    nPartKnown, \* cluster->n_partitions > 0
    toAdd,      \* nodes_to_add: nodes created this cycle, not yet published
    victim,     \* the single node a reseed in this cycle replaces (NoNode if none)
    tpc,        \* tender's place in as_cluster_tend / as_cluster_tender
    stale,      \* readers in flight when the tender last went to sleep
    rpc,        \* reader: "idle", "loaded", "reserved", "holding"
    rset,       \* the array a reader loaded (NoSet when none)
    rtries,     \* iterations of as_node_get_random's loop so far
    rnode       \* the node a reader holds (NoNode when none)

setVars == <<members, nsets, current, setRef, setFreed>>
nodeVars == <<nodeRef, nodeState, active>>
gcVars == <<gcSets, gcNodes>>
tendVars == <<nPartKnown, toAdd, victim, tpc, stale>>
readerVars == <<rpc, rset, rtries, rnode>>
vars == <<setVars, nodeVars, gcVars, tendVars, readerVars>>

-----------------------------------------------------------------------------
(* release_nodes -> as_nodes_release on each array of S: one reference    *)
(* dropped, the array freed when its count reaches zero.                  *)
ReleaseSets(S) ==
    /\ setRef' = [i \in SetIds |-> IF i \in S THEN setRef[i] - 1 ELSE setRef[i]]
    /\ setFreed' = setFreed \cup {i \in S : setRef[i] = 1}

(* release_node -> as_node_release on each node of N; a node whose count  *)
(* reaches zero is destroyed (as_node_destroy).                           *)
ReleaseNodes(N) ==
    /\ nodeRef' = [n \in Nodes |-> IF n \in N THEN nodeRef[n] - 1 ELSE nodeRef[n]]
    /\ nodeState' = [n \in Nodes |->
                        IF n \in N /\ nodeRef[n] = 1 THEN "freed" ELSE nodeState[n]]

(* as_node_create for each node of A: count 1, active.                    *)
CreateNodes(A) ==
    /\ nodeRef' = [n \in Nodes |-> IF n \in A THEN 1 ELSE nodeRef[n]]
    /\ nodeState' = [n \in Nodes |-> IF n \in A THEN "live" ELSE nodeState[n]]
    /\ active' = [n \in Nodes |-> IF n \in A THEN TRUE ELSE active[n]]

Unborn == {n \in Nodes : nodeState[n] = "unborn"}
NamesOf(S) == {NodeServer[n] : n \in S}
DistinctNames(S) == \A m, n \in S : m # n => NodeServer[m] # NodeServer[n]
Inactive(S) == {n \in S : ~active[n]}

(* Seeded faults, each a plausible slip in the code it stands for.       *)

(* The old array is released at once instead of being put on the gc.    *)
PublishReleaseNow(new) ==
    /\ nsets < MaxSets
    /\ nsets' = nsets + 1
    /\ members' = [members EXCEPT ![nsets + 1] = new]
    /\ setRef' = [setRef EXCEPT ![nsets + 1] = 1, ![current] = @ - 1]
    /\ current' = nsets + 1
    /\ gcSets' = gcSets
    /\ setFreed' = IF setRef[current] = 1 THEN setFreed \cup {current} ELSE setFreed

(* cluster->gc is cleared without calling the release functions.        *)
GcDropQueue ==
    /\ tpc = "gc"
    /\ GraceAssumed => stale = {}
    /\ gcSets' = {}
    /\ gcNodes' = {}
    /\ victim' = NoNode
    /\ tpc' = "seed"
    /\ UNCHANGED <<setVars, nodeVars, nPartKnown, toAdd, stale, readerVars>>

(* The loop ends without finding an active node and returns without     *)
(* as_nodes_release.                                                     *)
NoneFoundLeak(r) ==
    /\ rpc[r] = "reserved"
    /\ rtries[r] = Cardinality(members[rset[r]])
    /\ rpc' = [rpc EXCEPT ![r] = "idle"]
    /\ rset' = [rset EXCEPT ![r] = NoSet]
    /\ rtries' = [rtries EXCEPT ![r] = 0]
    /\ stale' = stale \ {r}
    /\ UNCHANGED <<setVars, nodeVars, gcVars, nPartKnown, toAdd, victim, tpc, rnode>>

(* as_nodes_create, then set_nodes: array nsets + 1 holding `new` becomes *)
(* cluster->nodes with count 1, and the old array goes on cluster->gc.    *)
Publish(new) ==
    /\ nsets < MaxSets
    /\ nsets' = nsets + 1
    /\ members' = [members EXCEPT ![nsets + 1] = new]
    /\ setRef' = [setRef EXCEPT ![nsets + 1] = 1]
    /\ current' = nsets + 1
    /\ gcSets' = gcSets \cup {current}
    /\ UNCHANGED setFreed

-----------------------------------------------------------------------------
(* Tender thread: as_cluster_tend, once per tend interval.               *)

(* as_cluster_gc: call every release function on cluster->gc, then clear *)
(* it.  Under GraceAssumed the cycle only starts once every request that *)
(* was in flight when the previous cycle ended has finished.             *)
Gc ==
    /\ tpc = "gc"
    /\ GraceAssumed => stale = {}
    /\ ReleaseSets(gcSets)
    /\ ReleaseNodes(gcNodes)
    /\ gcSets' = {}
    /\ gcNodes' = {}
    /\ victim' = NoNode
    /\ tpc' = "seed"
    /\ UNCHANGED <<members, nsets, current, active, nPartKnown, toAdd, stale, readerVars>>

(* The array is empty: as_cluster_seed_nodes creates one node per name   *)
(* the seeds answered with (looked up in its own nodes_to_add first) and *)
(* publishes them at once; if no node was found the tend returns early.  *)
SeedNodes ==
    /\ tpc = "seed"
    /\ members[current] = {}
    /\ \/ \E A \in (SUBSET Unborn) \ {{}} :
             /\ DistinctNames(A)
             /\ CreateNodes(A)
             /\ Publish(members[current] \cup A)
             /\ tpc' = "partitions"
       \/ /\ tpc' = "sleep"
          /\ UNCHANGED <<setVars, nodeVars, gcSets>>
    /\ UNCHANGED <<gcNodes, nPartKnown, toAdd, victim, stale, readerVars>>

(* The array is not empty: no seeding.                                   *)
NoSeed ==
    /\ tpc = "seed"
    /\ members[current] # {}
    /\ tpc' = "partitions"
    /\ UNCHANGED <<setVars, nodeVars, gcVars, nPartKnown, toAdd, victim, stale, readerVars>>

(* as_cluster_set_partition_size, while n_partitions is still 0: it asks *)
(* the nodes in turn and fails when none answers (or there is none); the *)
(* tend then returns early.                                              *)
SetPartitionSize ==
    /\ tpc = "partitions"
    /\ \/ /\ nPartKnown
          /\ tpc' = "refresh"
          /\ UNCHANGED nPartKnown
       \/ /\ ~nPartKnown
          /\ members[current] # {}
          /\ nPartKnown' = TRUE
          /\ tpc' = "refresh"
       \/ /\ ~nPartKnown
          /\ tpc' = "sleep"
          /\ UNCHANGED nPartKnown
    /\ UNCHANGED <<setVars, nodeVars, gcVars, toAdd, victim, stale, readerVars>>

(* The refresh loop: as_node_refresh on every active node; a node whose  *)
(* info reply names another server is deactivated (verify_name).  The    *)
(* friends it reports are the input of the next step.                    *)
RefreshNodes(D) ==
    /\ tpc = "refresh"
    /\ D \subseteq members[current] \ Inactive(members[current])
    /\ active' = [n \in Nodes |-> IF n \in D THEN FALSE ELSE active[n]]
    /\ tpc' = "find"
    /\ UNCHANGED <<setVars, nodeRef, nodeState, gcVars, nPartKnown, toAdd, victim,
                   stale, readerVars>>

(* as_cluster_find_nodes_to_add: a friend whose name is that of a node of *)
(* cluster->nodes only gains an address; any other gets a new node in    *)
(* nodes_to_add.  The name is not looked up in nodes_to_add itself.      *)
FindNodesToAdd(P) ==
    /\ tpc = "find"
    /\ P \subseteq Unborn
    /\ NamesOf(P) \cap NamesOf(members[current]) = {}
    /\ CreateNodes(P)
    /\ toAdd' = P
    /\ tpc' = "remove"
    /\ UNCHANGED <<setVars, gcVars, nPartKnown, victim, stale, readerVars>>

(* as_cluster_find_nodes_to_remove, case 1: the only node is active but  *)
(* has failed 5 refreshes; as_cluster_seed_nodes succeeds (it publishes  *)
(* the seeded nodes at once) and the old node is marked for removal.     *)
ReseedSingle ==
    /\ tpc = "remove"
    /\ victim = NoNode
    /\ \E v \in members[current] :
          /\ members[current] = {v}
          /\ active[v]
          /\ victim' = v
    /\ \E A \in (SUBSET Unborn) \ {{}} :
          /\ DistinctNames(A)
          /\ CreateNodes(A)
          /\ Publish(members[current] \cup A)
    /\ UNCHANGED <<gcNodes, nPartKnown, toAdd, tpc, stale, readerVars>>

(* The nodes as_cluster_find_nodes_to_remove may choose: every inactive  *)
(* node; the reseeded node; an active node of a single-node cluster only *)
(* through a reseed; any other active node by the friend/failure policy. *)
RemovalCandidate(R) ==
    IF victim # NoNode
    THEN R = {victim}
    ELSE /\ Inactive(members[current]) \subseteq R
         /\ Cardinality(members[current]) = 1 => R = Inactive(members[current])

(* as_cluster_remove_nodes: deactivate them, publish the array without   *)
(* them (as_cluster_remove_nodes_copy) and put the cluster's reference to *)
(* each removed node, then to the old array, on cluster->gc.             *)
RemoveNodes(R) ==
    /\ tpc = "remove"
    /\ R # {}
    /\ RemovalCandidate(R)
    /\ active' = [n \in Nodes |-> IF n \in R THEN FALSE ELSE active[n]]
    /\ Publish(members[current] \ R)
    /\ gcNodes' = gcNodes \cup R
    /\ tpc' = "add"
    /\ UNCHANGED <<nodeRef, nodeState, nPartKnown, toAdd, victim, stale, readerVars>>

(* Nothing to remove: no inactive node and no reseed.                    *)
NoRemoval ==
    /\ tpc = "remove"
    /\ victim = NoNode
    /\ Inactive(members[current]) = {}
    /\ tpc' = "add"
    /\ UNCHANGED <<setVars, nodeVars, gcVars, nPartKnown, toAdd, victim, stale, readerVars>>

(* as_cluster_add_nodes: publish the array with nodes_to_add appended.   *)
AddNodes ==
    /\ tpc = "add"
    /\ toAdd # {}
    /\ Publish(members[current] \cup toAdd)
    /\ toAdd' = {}
    /\ tpc' = "sleep"
    /\ UNCHANGED <<nodeVars, gcNodes, nPartKnown, victim, stale, readerVars>>

NoAddition ==
    /\ tpc = "add"
    /\ toAdd = {}
    /\ tpc' = "sleep"
    /\ UNCHANGED <<setVars, nodeVars, gcVars, nPartKnown, toAdd, victim, stale, readerVars>>

(* as_cluster_tender: wait one tend interval; the requests in flight now *)
(* are the ones the next as_cluster_gc must outlast.                     *)
Sleep ==
    /\ tpc = "sleep"
    /\ tpc' = "gc"
    /\ stale' = {r \in Readers : rpc[r] # "idle"}
    /\ UNCHANGED <<setVars, nodeVars, gcVars, nPartKnown, toAdd, victim, readerVars>>

-----------------------------------------------------------------------------
(* Application threads.  as_nodes_reserve (spec 4.1) is two atomics:     *)
(* load cluster->nodes, then increment that array's count.               *)

Load(r) ==
    /\ rpc[r] = "idle"
    /\ rpc' = [rpc EXCEPT ![r] = "loaded"]
    /\ rset' = [rset EXCEPT ![r] = current]
    /\ UNCHANGED <<setVars, nodeVars, gcVars, tendVars, rtries, rnode>>

Reserve(r) ==
    /\ rpc[r] = "loaded"
    /\ rpc' = [rpc EXCEPT ![r] = "reserved"]
    /\ setRef' = [setRef EXCEPT ![rset[r]] = @ + 1]
    /\ UNCHANGED <<members, nsets, current, setFreed, nodeVars, gcVars, tendVars,
                   rset, rtries, rnode>>

(* as_node_get_random, one iteration: ck_pr_faa_32 on the shared         *)
(* node_index picks a slot; since other threads advance the same index,  *)
(* any node of the array may come up.  An active node is reserved and    *)
(* the array released.                                                   *)
PickNode(r, n) ==
    /\ rpc[r] = "reserved"
    /\ rtries[r] < Cardinality(members[rset[r]])
    /\ n \in members[rset[r]]
    /\ active[n]
    /\ nodeRef' = [nodeRef EXCEPT ![n] = @ + 1]
    /\ ReleaseSets({rset[r]})
    /\ rpc' = [rpc EXCEPT ![r] = "holding"]
    /\ rset' = [rset EXCEPT ![r] = NoSet]
    /\ rtries' = [rtries EXCEPT ![r] = 0]
    /\ rnode' = [rnode EXCEPT ![r] = n]
    /\ UNCHANGED <<members, nsets, current, nodeState, active, gcVars, tendVars>>

(* The slot holds an inactive node: next iteration.                      *)
SkipNode(r, n) ==
    /\ rpc[r] = "reserved"
    /\ rtries[r] < Cardinality(members[rset[r]])
    /\ n \in members[rset[r]]
    /\ ~active[n]
    /\ rtries' = [rtries EXCEPT ![r] = @ + 1]
    /\ UNCHANGED <<setVars, nodeVars, gcVars, tendVars, rpc, rset, rnode>>

(* size iterations found no active node: release the array, return 0.   *)
NoneFound(r) ==
    /\ rpc[r] = "reserved"
    /\ rtries[r] = Cardinality(members[rset[r]])
    /\ ReleaseSets({rset[r]})
    /\ rpc' = [rpc EXCEPT ![r] = "idle"]
    /\ rset' = [rset EXCEPT ![r] = NoSet]
    /\ rtries' = [rtries EXCEPT ![r] = 0]
    /\ stale' = stale \ {r}
    /\ UNCHANGED <<members, nsets, current, nodeVars, gcVars, nPartKnown, toAdd,
                   victim, tpc, rnode>>

(* as_node_get_by_name: the node of the array with the requested name is *)
(* reserved, active or not, and the array released.                      *)
GetByName(r, n) ==
    /\ rpc[r] = "reserved"
    /\ rtries[r] = 0
    /\ n \in members[rset[r]]
    /\ nodeRef' = [nodeRef EXCEPT ![n] = @ + 1]
    /\ ReleaseSets({rset[r]})
    /\ rpc' = [rpc EXCEPT ![r] = "holding"]
    /\ rset' = [rset EXCEPT ![r] = NoSet]
    /\ rnode' = [rnode EXCEPT ![r] = n]
    /\ UNCHANGED <<members, nsets, current, nodeState, active, gcVars, tendVars, rtries>>

(* as_cluster_get_node_names, as_cluster_is_connected, or a name that is *)
(* not in the array: read the array and release it.                      *)
ReleaseOnly(r) ==
    /\ rpc[r] = "reserved"
    /\ rtries[r] = 0
    /\ ReleaseSets({rset[r]})
    /\ rpc' = [rpc EXCEPT ![r] = "idle"]
    /\ rset' = [rset EXCEPT ![r] = NoSet]
    /\ stale' = stale \ {r}
    /\ UNCHANGED <<members, nsets, current, nodeVars, gcVars, nPartKnown, toAdd,
                   victim, tpc, rtries, rnode>>

(* The command is done with the node: as_node_release.                   *)
Finish(r) ==
    /\ rpc[r] = "holding"
    /\ ReleaseNodes({rnode[r]})
    /\ rpc' = [rpc EXCEPT ![r] = "idle"]
    /\ rnode' = [rnode EXCEPT ![r] = NoNode]
    /\ stale' = stale \ {r}
    /\ UNCHANGED <<setVars, active, gcVars, nPartKnown, toAdd, victim, tpc, rset, rtries>>

-----------------------------------------------------------------------------
(* as_cluster_create: an empty array (as_nodes_create(0)), no partitions *)
(* count, an empty gc vector; the tender thread starts its first tend.   *)
Init ==
    /\ members = [i \in SetIds |-> {}]
    /\ nsets = 1
    /\ current = 1
    /\ setRef = [i \in SetIds |-> IF i = 1 THEN 1 ELSE 0]
    /\ setFreed = {}
    /\ nodeRef = [n \in Nodes |-> 0]
    /\ nodeState = [n \in Nodes |-> "unborn"]
    /\ active = [n \in Nodes |-> FALSE]
    /\ gcSets = {}
    /\ gcNodes = {}
    /\ nPartKnown = FALSE
    /\ toAdd = {}
    /\ victim = NoNode
    /\ tpc = "gc"
    /\ stale = {}
    /\ rpc = [r \in Readers |-> "idle"]
    /\ rset = [r \in Readers |-> NoSet]
    /\ rtries = [r \in Readers |-> 0]
    /\ rnode = [r \in Readers |-> NoNode]

Tender ==
    \/ Gc
    \/ SeedNodes
    \/ NoSeed
    \/ SetPartitionSize
    \/ \E D \in SUBSET members[current] : RefreshNodes(D)
    \/ \E P \in SUBSET Nodes : FindNodesToAdd(P)
    \/ ReseedSingle
    \/ \E R \in SUBSET members[current] : RemoveNodes(R)
    \/ NoRemoval
    \/ AddNodes
    \/ NoAddition
    \/ Sleep

(* What a thread does once it has loaded the array pointer.              *)
InRequest(r) ==
    \/ Reserve(r)
    \/ \E n \in Nodes : PickNode(r, n) \/ SkipNode(r, n) \/ GetByName(r, n)
    \/ NoneFound(r)
    \/ ReleaseOnly(r)
    \/ Finish(r)

Reader(r) == Load(r) \/ InRequest(r)

Next == Tender \/ \E r \in Readers : Reader(r)

(* The tender wakes every tend interval (as_cluster_tender's timed wait) *)
(* and each step it takes is bounded by socket deadlines; a request that *)
(* has started ends.  Starting a request is not forced.                  *)
Fairness ==
    /\ WF_vars(Tender)
    /\ \A r \in Readers : WF_vars(InRequest(r))

Spec == Init /\ [][Next]_vars /\ Fairness

-----------------------------------------------------------------------------
TypeOK ==
    /\ members \in [SetIds -> SUBSET Nodes]
    /\ nsets \in SetIds
    /\ current \in 1..nsets
    /\ setRef \in [SetIds -> Int]
    /\ setFreed \subseteq SetIds
    /\ nodeRef \in [Nodes -> Int]
    /\ nodeState \in [Nodes -> {"unborn", "live", "freed"}]
    /\ active \in [Nodes -> BOOLEAN]
    /\ gcSets \subseteq SetIds
    /\ gcNodes \subseteq Nodes
    /\ nPartKnown \in BOOLEAN
    /\ toAdd \subseteq Nodes
    /\ victim \in Nodes \cup {NoNode}
    /\ tpc \in {"gc", "seed", "partitions", "refresh", "find", "remove", "add", "sleep"}
    /\ stale \subseteq Readers
    /\ rpc \in [Readers -> {"idle", "loaded", "reserved", "holding"}]
    /\ rset \in [Readers -> SetIds \cup {NoSet}]
    /\ rtries \in [Readers -> Nat]
    /\ rnode \in [Readers -> Nodes \cup {NoNode}]
    /\ \A r \in Readers : rpc[r] \in {"loaded", "reserved"} => rset[r] \in 1..nsets
    /\ \A r \in Readers : rpc[r] = "holding" => rnode[r] \in Nodes

(* Reference counts are exact: an array's count is the cluster's own     *)
(* reference (while it is cluster->nodes or on cluster->gc) plus one per *)
(* thread that reserved it; a node's count is the cluster's reference    *)
(* (while in cluster->nodes, in nodes_to_add or on cluster->gc) plus one *)
(* per thread holding it; each is freed exactly when its count reaches   *)
(* zero.  Breaks if a path of as_node_get_random, as_cluster_gc or the   *)
(* copy-on-write publication drops or repeats a reference.               *)
SetHolders(i) == {r \in Readers : rpc[r] = "reserved" /\ rset[r] = i}
NodeHolders(n) == {r \in Readers : rpc[r] = "holding" /\ rnode[r] = n}
ClusterHoldsSet(i) == i = current \/ i \in gcSets
ClusterHoldsNode(n) == n \in members[current] \/ n \in toAdd \/ n \in gcNodes
RefCountExact ==
    /\ \A i \in 1..nsets :
          setRef[i] = (IF ClusterHoldsSet(i) THEN 1 ELSE 0) + Cardinality(SetHolders(i))
    /\ \A i \in 1..nsets : (i \in setFreed) <=> setRef[i] = 0
    /\ \A n \in Nodes : nodeState[n] # "unborn" =>
          nodeRef[n] = (IF ClusterHoldsNode(n) THEN 1 ELSE 0) + Cardinality(NodeHolders(n))
    /\ \A n \in Nodes : (nodeState[n] = "freed") <=> (nodeState[n] # "unborn" /\ nodeRef[n] = 0)

(* A reserved array keeps its nodes alive (spec 4.1 and 8): however long *)
(* a thread holds a reservation, no node of that array has been freed,   *)
(* so reading node->active in as_node_get_random is safe.                *)
ReservedSnapshotNodesLive ==
    \A r \in Readers :
        rpc[r] = "reserved" => \A n \in members[rset[r]] : nodeState[n] # "freed"

(* No use after free: a thread never touches a freed array (the pointer  *)
(* it loaded, before and after incrementing its count), nor a freed node *)
(* of the array it reserved, nor a freed node it holds.  This is what    *)
(* the one-interval delay of as_cluster_gc is for.                       *)
NoUseAfterFree ==
    /\ \A r \in Readers :
          /\ rpc[r] \in {"loaded", "reserved"} => rset[r] \notin setFreed
          /\ rpc[r] = "holding" => nodeState[rnode[r]] # "freed"
    /\ ReservedSnapshotNodesLive

(* Every array and node the tender retires is eventually freed: the gc   *)
(* vector is run and the threads' releases reach zero.  The model stops  *)
(* publishing at MaxSets, after which the tender may wait forever.       *)
AtBound == nsets = MaxSets
RetiredEventuallyFreed ==
    /\ \A i \in SetIds : (i \in gcSets) ~> (i \in setFreed \/ AtBound)
    /\ \A n \in Nodes : (n \in gcNodes) ~> (nodeState[n] = "freed" \/ AtBound)

(* The comment in as_cluster_find_nodes_to_add: a server reported under  *)
(* two addresses must not become two nodes.  Outside the removal step    *)
(* (where a reseed keeps the old node next to the new ones until it is   *)
(* removed), no two nodes of cluster->nodes carry the same name.         *)
NoDuplicateNames ==
    tpc # "remove" => DistinctNames(members[current])
=============================================================================
