-------------------------- MODULE NodeRefreshProofs --------------------------
(***************************************************************************)
(* Safety of one node's refresh (NodeRefresh) for every generation width *)
(* and every bound on faults, renames and generation changes.            *)
(*                                                                         *)
(* The three safety properties are inductive together with TypeOK: a     *)
(* reply is applied as the replicas answer only because the socket holds *)
(* nothing but the awaited answer (NoStrayReply), and the generation is  *)
(* only recorded from such an answer (TablesMatchGeneration).            *)
(***************************************************************************)
EXTENDS NodeRefresh, SequenceTheorems, TLAPS

IInv == TypeOK /\ NoStrayReply /\ TablesMatchGeneration /\ GossipOnlyFromVerified

-----------------------------------------------------------------------------
(* What INFO_STR_CHECK and INFO_STR_GET_REPLICAS ask for.                 *)
LEMMA FieldFacts ==
    /\ Len(CheckFields) = 3 /\ Len(ReplicasFields) = 3
    /\ CheckFields # ReplicasFields
    /\ Contains(CheckFields, "node")
    /\ ~Contains(ReplicasFields, "node") /\ ~Contains(ReplicasFields, "services")
    /\ Contains(ReplicasFields, "partition-generation")
    /\ Contains(ReplicasFields, "replicas-master")
    /\ Contains(ReplicasFields, "replicas-prole")
BY DEF CheckFields, ReplicasFields, Contains

(* as_node_process_response stops inside the reply: the fields it       *)
(* processes are a prefix of the reply's fields.                          *)
LEMMA ProcessedWithin ==
    ASSUME NEW rep, rep.fields \in {CheckFields, ReplicasFields}, NEW f,
           Contains(Processed(rep), f)
    PROVE  \E i \in 1..BreakAt(rep) : rep.fields[i] = f
<1>1. BreakAt(rep) \in Nat /\ 1 <= BreakAt(rep) /\ BreakAt(rep) <= 3
  <2> DEFINE stops == {i \in 1..Len(rep.fields) :
                         rep.fields[i] = "node" /\ ~VerifyName(rep.name)}
  <2>1. stops = {} \/ stops = {1}
    BY DEF CheckFields, ReplicasFields
  <2>2. CASE stops = {}
    <3>1. BreakAt(rep) = Len(rep.fields)
      BY <2>2 DEF BreakAt
    <3>2. Len(rep.fields) = 3
      BY FieldFacts
    <3>3. QED
      BY <3>1, <3>2
  <2>3. CASE stops = {1}
    BY <2>3 DEF BreakAt
  <2>4. QED
    BY <2>1, <2>2, <2>3
<1>2. Processed(rep) = [i \in 1..BreakAt(rep) |-> rep.fields[i]]
  BY <1>1 DEF Processed
<1>3. QED
  BY <1>1, <1>2 DEF Contains

(* as_node_process_response reads the services list only of a reply     *)
(* whose "node" field verified: with another name it stops at "node",   *)
(* before "services".                                                    *)
LEMMA ServicesOnlyVerified ==
    ASSUME NEW rep, rep.fields \in {CheckFields, ReplicasFields},
           Contains(Processed(rep), "services")
    PROVE  rep.name = NodeName
<1>1. PICK i \in 1..BreakAt(rep) : rep.fields[i] = "services"
  BY ProcessedWithin
<1>2. CASE rep.fields = ReplicasFields
  BY <1>1, <1>2, FieldFacts DEF BreakAt, ReplicasFields
<1>3. CASE rep.fields = CheckFields
  <2>1. SUFFICES ASSUME rep.name # NodeName PROVE FALSE
    OBVIOUS
  <2>2. {j \in 1..Len(rep.fields) : rep.fields[j] = "node" /\ ~VerifyName(rep.name)} = {1}
    BY <1>3, <2>1 DEF CheckFields, VerifyName
  <2>3. BreakAt(rep) = 1
    BY <2>2 DEF BreakAt
  <2>4. QED
    BY <1>1, <1>3, <2>3 DEF CheckFields
<1>4. QED
  BY <1>2, <1>3

-----------------------------------------------------------------------------
(* A node starts with no info socket, the sentinel generation and no    *)
(* peers learnt.                                                          *)
LEMMA InitIInv == Init => IInv
<1> SUFFICES ASSUME Init PROVE IInv
  OBVIOUS
<1>1. TypeOK
  <2>1. InitGen \in Gens /\ 0 \in Gens
    BY NodeRefreshAssumption DEF InitGen, Gens
  <2>2. 0 \in 0..MaxGenChanges /\ 0 \in 0..MaxRenames /\ 0 \in 0..MaxFaults
    BY NodeRefreshAssumption
  <2>3. envCount \in [gen : 0..MaxGenChanges, rename : 0..MaxRenames, fault : 0..MaxFaults]
    BY <2>2 DEF Init
  <2>4. tables \in [master : Gens \cup {NoTable}, prole : Gens \cup {NoTable}]
    BY DEF Init
  <2>5. reqs \in Seq({CheckFields, ReplicasFields}) /\ replies \in Seq(Replies)
    BY DEF Init
  <2>6. QED
    BY <2>1, <2>3, <2>4, <2>5 DEF Init, TypeOK, Names
<1>2. NoStrayReply /\ TablesMatchGeneration /\ GossipOnlyFromVerified
  BY DEF Init, NoStrayReply, Pending, TablesMatchGeneration, GossipOnlyFromVerified
<1>3. QED
  BY <1>1, <1>2 DEF IInv
-----------------------------------------------------------------------------
(* Pending for given requests q and replies ps: the field lists owed on  *)
(* the socket, oldest first.                                              *)
FieldLists == {CheckFields, ReplicasFields}
PendingOf(q, ps) == q \o [i \in 1..Len(ps) |-> ps[i].fields]

(* The field lists of a sequence of replies form a sequence.            *)
LEMMA FieldsSeq ==
    ASSUME NEW ps \in Seq(Replies)
    PROVE  [i \in 1..Len(ps) |-> ps[i].fields] \in Seq(FieldLists)
<1>1. ASSUME NEW i \in 1..Len(ps) PROVE ps[i].fields \in FieldLists
  <2>1. ps[i] \in Replies
    BY <1>1, ElementOfSeq
  <2>2. QED
    BY <2>1 DEF Replies, FieldLists
<1>2. QED
  BY <1>1, LenProperties, SeqDef

(* Length and entries of the requests and replies owed on the socket.    *)
LEMMA PendingOfProps ==
    ASSUME NEW q \in Seq(FieldLists), NEW ps \in Seq(Replies)
    PROVE  /\ PendingOf(q, ps) \in Seq(FieldLists)
           /\ Len(PendingOf(q, ps)) = Len(q) + Len(ps)
           /\ \A i \in 1..Len(q) : PendingOf(q, ps)[i] = q[i]
           /\ \A i \in 1..Len(ps) : PendingOf(q, ps)[Len(q) + i] = ps[i].fields
<1>1. [i \in 1..Len(ps) |-> ps[i].fields] \in Seq(FieldLists)
  BY FieldsSeq
<1>2. QED
  BY <1>1, ConcatProperties DEF PendingOf

(* The shapes the info socket may have, as Pending sees them.             *)
LEMMA PendingValues ==
    ASSUME NEW q \in Seq(FieldLists), NEW ps \in Seq(Replies)
    PROVE  /\ q = <<>> /\ ps = <<>> => PendingOf(q, ps) = <<>>
           /\ \A a : q = <<a>> /\ ps = <<>> => PendingOf(q, ps) = <<a>>
           /\ \A r : q = <<>> /\ ps = <<r>> => PendingOf(q, ps) = <<r.fields>>
           /\ PendingOf(q, ps) = <<>> => q = <<>> /\ ps = <<>>
           /\ \A a : PendingOf(q, ps) = <<a>> =>
                 \/ q = <<a>> /\ ps = <<>>
                 \/ q = <<>> /\ Len(ps) = 1 /\ ps[1].fields = a
<1>1. /\ Len(q) \in Nat /\ Len(ps) \in Nat
      /\ q \in [1..Len(q) -> FieldLists] /\ ps \in [1..Len(ps) -> Replies]
  BY LenProperties
<1>2. /\ Len(PendingOf(q, ps)) = Len(q) + Len(ps)
      /\ PendingOf(q, ps) \in [1..Len(PendingOf(q, ps)) -> FieldLists]
      /\ \A i \in 1..Len(q) : PendingOf(q, ps)[i] = q[i]
      /\ \A i \in 1..Len(ps) : PendingOf(q, ps)[Len(q) + i] = ps[i].fields
  <2>1. PendingOf(q, ps) \in Seq(FieldLists)
    BY PendingOfProps
  <2>2. QED
    BY <2>1, PendingOfProps, LenProperties
<1>3. q = <<>> /\ ps = <<>> => PendingOf(q, ps) = <<>>
  BY <1>1, <1>2
<1>4. ASSUME NEW a, q = <<a>>, ps = <<>> PROVE PendingOf(q, ps) = <<a>>
  BY <1>1, <1>2, <1>4
<1>5. ASSUME NEW r, q = <<>>, ps = <<r>> PROVE PendingOf(q, ps) = <<r.fields>>
  <2>1. Len(q) = 0 /\ Len(ps) = 1 /\ ps[1] = r
    BY <1>5
  <2>2. PendingOf(q, ps)[1] = r.fields
    BY <1>2, <2>1
  <2>3. QED
    BY <1>2, <2>1, <2>2
<1>6. PendingOf(q, ps) = <<>> => q = <<>> /\ ps = <<>>
  BY <1>1, <1>2
<1>7. ASSUME NEW a, PendingOf(q, ps) = <<a>>
      PROVE  \/ q = <<a>> /\ ps = <<>>
             \/ q = <<>> /\ Len(ps) = 1 /\ ps[1].fields = a
  <2>1. Len(q) + Len(ps) = 1
    BY <1>2, <1>7
  <2>2. CASE Len(q) = 1
    <3>1. q[1] = a /\ Len(ps) = 0
      BY <1>1, <1>2, <1>7, <2>1, <2>2
    <3>2. QED
      BY <1>1, <2>2, <3>1
  <2>3. CASE Len(q) = 0
    <3>1. Len(ps) = 1
      BY <2>1, <2>3, <1>1
    <3>2. PendingOf(q, ps)[1] = ps[1].fields
      BY <1>2, <2>3, <3>1
    <3>3. QED
      BY <1>1, <1>7, <2>3, <3>1, <3>2
  <2>4. QED
    BY <1>1, <2>1, <2>2, <2>3
<1>8. QED
  BY <1>3, <1>4, <1>5, <1>6, <1>7

(* Conversely: the socket holds at most the awaited request or its       *)
(* reply, and nothing outside a wait.                                     *)
LEMMA SocketShape ==
    ASSUME TypeOK, NoStrayReply
    PROVE  /\ tpc \notin {"waitCheck", "waitReplicas"} => reqs = <<>> /\ replies = <<>>
           /\ tpc \in {"waitCheck", "waitReplicas"} =>
                 \/ reqs = <<>> /\ replies = <<>>
                 \/ reqs = <<Awaited>> /\ replies = <<>>
                 \/ reqs = <<>> /\ Len(replies) = 1 /\ replies[1].fields = Awaited
<1>1. Pending = PendingOf(reqs, replies) /\ reqs \in Seq(FieldLists) /\ replies \in Seq(Replies)
  BY DEF Pending, PendingOf, TypeOK, FieldLists
<1>2. QED
  BY <1>1, PendingValues DEF NoStrayReply
-----------------------------------------------------------------------------
(* One environment fault, within its budget, keeps the counters typed.  *)
LEMMA FaultType ==
    ASSUME TypeOK, Fault
    PROVE  envCount' \in [gen : 0..MaxGenChanges, rename : 0..MaxRenames, fault : 0..MaxFaults]
<1>1. envCount.fault \in Nat /\ envCount.fault + 1 <= MaxFaults
  BY NodeRefreshAssumption DEF TypeOK, Fault
<1>2. QED
  BY <1>1 DEF TypeOK, Fault

(* A step that leaves the socket empty outside a wait keeps NoStrayReply. *)
LEMMA QuietSocket ==
    ASSUME reqs' = <<>>, replies' = <<>>, tpc' \notin {"waitCheck", "waitReplicas"}
    PROVE  NoStrayReply'
BY DEF NoStrayReply, Pending

(* as_node_get_info_connection: the socket it reuses or opens is empty.  *)
LEMMA GetInfoConnectionIInv ==
    ASSUME IInv, GetInfoConnection PROVE IInv'
<1>1. reqs = <<>> /\ replies = <<>>
  BY SocketShape DEF IInv, GetInfoConnection
<1>2. TypeOK'
  BY FaultType DEF IInv, TypeOK, GetInfoConnection, EndRefresh
<1>3. NoStrayReply'
  BY <1>1, QuietSocket DEF GetInfoConnection, EndRefresh
<1>4. QED
  BY <1>2, <1>3 DEF IInv, GetInfoConnection, TablesMatchGeneration, GossipOnlyFromVerified

(* as_node_get_info writes the request on an empty socket.               *)
LEMMA SendRequestIInv ==
    ASSUME IInv, SendRequest PROVE IInv'
<1>1. reqs = <<>> /\ replies = <<>>
  BY SocketShape DEF IInv, SendRequest
<1>2. PICK F \in FieldLists :
        /\ F = IF tpc = "check" THEN CheckFields ELSE ReplicasFields
        /\ reqs' = <<F>>
  BY <1>1 DEF SendRequest, FieldLists
<1>3. Awaited' = F
  BY <1>2 DEF SendRequest, Awaited, CheckFields, ReplicasFields
<1>4. TypeOK'
  <2>1. reqs' \in Seq({CheckFields, ReplicasFields})
    BY <1>2 DEF FieldLists
  <2>2. QED
    BY <2>1 DEF IInv, TypeOK, SendRequest, envVars, nodeVars
<1>5. NoStrayReply'
  <2>1. Pending' = PendingOf(<<F>>, <<>>)
    BY <1>1, <1>2 DEF SendRequest, Pending, PendingOf
  <2>2. <<F>> \in Seq(FieldLists) /\ << >> \in Seq(Replies)
    BY <1>2
  <2>3. Pending' = <<Awaited'>>
    BY <1>3, <2>1, <2>2, PendingValues
  <2>4. QED
    BY <2>3 DEF SendRequest, NoStrayReply
<1>6. QED
  BY <1>4, <1>5 DEF IInv, SendRequest, nodeVars, TablesMatchGeneration,
                    GossipOnlyFromVerified

(* A failed as_node_get_info closes the socket with whatever it owed.    *)
LEMMA GetInfoFailedIInv ==
    ASSUME IInv, GetInfoFailed PROVE IInv'
<1>1. TypeOK'
  <2>1. envCount' \in [gen : 0..MaxGenChanges, rename : 0..MaxRenames, fault : 0..MaxFaults]
    BY FaultType DEF IInv, GetInfoFailed
  <2>2. << >> \in Seq({CheckFields, ReplicasFields}) /\ << >> \in Seq(Replies)
    BY EmptySeq
  <2>3. QED
    BY <2>1, <2>2 DEF IInv, TypeOK, GetInfoFailed, CloseInfoConnection, EndRefresh
<1>2. NoStrayReply'
  BY QuietSocket DEF GetInfoFailed, CloseInfoConnection, EndRefresh
<1>3. QED
  BY <1>1, <1>2 DEF IInv, GetInfoFailed, TablesMatchGeneration, GossipOnlyFromVerified

(* The server answers the request on the socket: the awaited request    *)
(* becomes the awaited reply.                                            *)
LEMMA ServerReplyIInv ==
    ASSUME IInv, ServerReply PROVE IInv'
<1> DEFINE rec == [fields |-> Head(reqs), name |-> srvName, gen |-> srvGen]
<1>1. tpc \in {"waitCheck", "waitReplicas"} /\ reqs = <<Awaited>> /\ replies = <<>>
  BY SocketShape DEF IInv, ServerReply
<1>2. reqs' = <<>> /\ replies' = <<rec>> /\ rec.fields = Awaited
  BY <1>1 DEF ServerReply
<1>3. rec \in Replies
  BY <1>1 DEF IInv, TypeOK, Replies, Awaited
<1>4. TypeOK'
  BY <1>2, <1>3 DEF IInv, TypeOK, ServerReply, vars, envVars, nodeVars
<1>5. NoStrayReply'
  <2>1. Pending' = PendingOf(<<>>, <<rec>>)
    BY <1>2 DEF Pending, PendingOf
  <2>2. << >> \in Seq(FieldLists) /\ <<rec>> \in Seq(Replies)
    BY <1>3
  <2>3. Pending' = <<Awaited>>
    BY <1>2, <2>1, <2>2, PendingValues
  <2>4. QED
    BY <1>1, <2>3 DEF ServerReply, NoStrayReply, Awaited
<1>6. QED
  BY <1>4, <1>5 DEF IInv, ServerReply, nodeVars, TablesMatchGeneration,
                    GossipOnlyFromVerified

(* The server's generation moves on, or its name changes.                *)
LEMMA ServerChangeIInv ==
    ASSUME IInv, ServerGenChange \/ ServerRename PROVE IInv'
<1>1. CASE ServerGenChange
  <2>1. srvGen' \in Gens
    BY <1>1, NodeRefreshAssumption DEF ServerGenChange, Gens, IInv, TypeOK
  <2>2. envCount' \in [gen : 0..MaxGenChanges, rename : 0..MaxRenames, fault : 0..MaxFaults]
    <3>1. envCount.gen \in Nat /\ envCount.gen + 1 <= MaxGenChanges
      BY <1>1, NodeRefreshAssumption DEF IInv, TypeOK, ServerGenChange
    <3>2. QED
      BY <1>1, <3>1 DEF IInv, TypeOK, ServerGenChange
  <2>3. QED
    BY <1>1, <2>1, <2>2 DEF IInv, TypeOK, ServerGenChange, sockVars, nodeVars,
                            NoStrayReply, Pending, Awaited, TablesMatchGeneration,
                            GossipOnlyFromVerified
<1>2. CASE ServerRename
  <2>1. srvName' \in Names
    BY <1>2 DEF ServerRename
  <2>2. envCount' \in [gen : 0..MaxGenChanges, rename : 0..MaxRenames, fault : 0..MaxFaults]
    <3>1. envCount.rename \in Nat /\ envCount.rename + 1 <= MaxRenames
      BY <1>2, NodeRefreshAssumption DEF IInv, TypeOK, ServerRename
    <3>2. QED
      BY <1>2, <3>1 DEF IInv, TypeOK, ServerRename
  <2>3. QED
    BY <1>2, <2>1, <2>2 DEF IInv, TypeOK, ServerRename, sockVars, nodeVars,
                            NoStrayReply, Pending, Awaited, TablesMatchGeneration,
                            GossipOnlyFromVerified
<1>3. QED
  BY <1>1, <1>2
(* A reply read in a wait is the only thing on the socket and answers    *)
(* the awaited request.                                                   *)
LEMMA ReadShape ==
    ASSUME IInv, tpc \in {"waitCheck", "waitReplicas"}, replies # <<>>
    PROVE  /\ reqs = <<>> /\ Tail(replies) = <<>>
           /\ Head(replies) \in Replies /\ Head(replies).fields = Awaited
<1>1. reqs = <<>> /\ Len(replies) = 1 /\ replies[1].fields = Awaited
  <2>1. replies # <<>> /\ replies \in Seq(Replies)
    BY DEF IInv, TypeOK
  <2>2. QED
    BY <2>1, SocketShape DEF IInv
<1>2. replies \in Seq(Replies) /\ replies # <<>>
  BY DEF IInv, TypeOK
<1>3. Tail(replies) = <<>> /\ Head(replies) = replies[1] /\ replies[1] \in Replies
  BY <1>1, <1>2, HeadTailProperties, ElementOfSeq
<1>4. QED
  BY <1>1, <1>3

(* as_node_refresh hands the check reply to as_node_process_response:   *)
(* the services list is read only when the name verified.               *)
LEMMA ReadCheckReplyIInv ==
    ASSUME IInv, ReadCheckReply PROVE IInv'
<1> DEFINE rep == Head(replies)
<1>1. /\ reqs = <<>> /\ Tail(replies) = <<>> /\ rep \in Replies
      /\ rep.fields = CheckFields
  BY ReadShape DEF ReadCheckReply, Awaited
<1>2. tpc' \in {"replicas", "idle"} /\ lastResult' \in BOOLEAN
  <2>1. CASE ResponseStatus(rep) /\ UpdatePartitions(rep)
    BY <2>1 DEF ReadCheckReply, IInv, TypeOK
  <2>2. CASE ~(ResponseStatus(rep) /\ UpdatePartitions(rep))
    BY <2>2 DEF ReadCheckReply, EndRefresh, ResponseStatus
  <2>3. QED
    BY <2>1, <2>2
<1>3. gossip' \subseteq {NodeName}
  <2>1. Contains(Processed(rep), "services") => rep.name = NodeName
    BY <1>1, ServicesOnlyVerified
  <2>2. QED
    BY <2>1 DEF ReadCheckReply, IInv, GossipOnlyFromVerified
<1>4. TypeOK'
  <2>1. << >> \in Seq(Replies) /\ NodeName \in Names
    BY EmptySeq DEF Names
  <2>2. active' \in BOOLEAN /\ status' \in BOOLEAN
    BY DEF ReadCheckReply, ResponseStatus, IInv, TypeOK
  <2>3. replies' = << >> /\ gossip' \subseteq Names
    BY <1>1, <1>3, <2>1 DEF ReadCheckReply
  <2>4. QED
    BY <1>2, <2>1, <2>2, <2>3 DEF IInv, TypeOK, ReadCheckReply, envVars
<1>5. NoStrayReply'
  BY <1>1, <1>2, QuietSocket DEF ReadCheckReply
<1>6. QED
  BY <1>3, <1>4, <1>5 DEF IInv, ReadCheckReply, TablesMatchGeneration,
                          GossipOnlyFromVerified

(* as_node_process_partitions applies the generation and both replica   *)
(* lists of the replicas reply, which carries all three.                 *)
LEMMA ReadReplicasReplyIInv ==
    ASSUME IInv, ReadReplicasReply PROVE IInv'
<1> DEFINE rep == Head(replies)
<1>1. /\ reqs = <<>> /\ Tail(replies) = <<>> /\ rep \in Replies
      /\ rep.fields = ReplicasFields
  BY ReadShape DEF ReadReplicasReply, Awaited
<1>2. nodeGen' = rep.gen /\ tables' = [master |-> rep.gen, prole |-> rep.gen]
  <2>1. Contains(rep.fields, "partition-generation")
        /\ Contains(rep.fields, "replicas-master") /\ Contains(rep.fields, "replicas-prole")
    BY <1>1, FieldFacts
  <2>2. tables \in [master : Gens \cup {NoTable}, prole : Gens \cup {NoTable}]
    BY DEF IInv, TypeOK
  <2>3. QED
    BY <2>1, <2>2 DEF ReadReplicasReply
<1>3. rep.gen \in Gens
  BY <1>1 DEF Replies
<1>4. TypeOK'
  <2>1. << >> \in Seq(Replies)
    BY EmptySeq
  <2>2. QED
    BY <1>1, <1>2, <1>3, <2>1 DEF IInv, TypeOK, ReadReplicasReply, EndRefresh, envVars
<1>5. NoStrayReply'
  BY <1>1, QuietSocket DEF ReadReplicasReply, EndRefresh
<1>6. TablesMatchGeneration'
  BY <1>2 DEF TablesMatchGeneration
<1>7. QED
  BY <1>4, <1>5, <1>6 DEF IInv, ReadReplicasReply, GossipOnlyFromVerified
-----------------------------------------------------------------------------
(* Every step of the tender, the server and the network keeps IInv.     *)
LEMMA NextIInv ==
    ASSUME IInv, [Next]_vars PROVE IInv'
<1>1. CASE UNCHANGED vars
  BY <1>1 DEF vars, envVars, sockVars, nodeVars, IInv, TypeOK, NoStrayReply,
              Pending, Awaited, TablesMatchGeneration, GossipOnlyFromVerified
<1>2. QED
  BY <1>1, GetInfoConnectionIInv, SendRequestIInv, ReadCheckReplyIInv,
     ReadReplicasReplyIInv, GetInfoFailedIInv, ServerReplyIInv, ServerChangeIInv
  DEF Next, Refresh

(* IInv holds in every state of every behaviour.                         *)
THEOREM IInvHolds == Spec => []IInv
<1>1. Init => IInv
  BY InitIInv
<1>2. IInv /\ [Next]_vars => IInv'
  BY NextIInv
<1>3. QED
  BY <1>1, <1>2, PTL DEF Spec

(* TypeOK: every variable of the refresh keeps its type.                 *)
THEOREM TypeCorrect == Spec => []TypeOK
BY IInvHolds, PTL DEF IInv

(* NoStrayReply: a reply read by as_node_refresh always answers the     *)
(* request it just wrote, because every as_node_get_info failure closes  *)
(* the info socket with whatever the server still owed on it.            *)
THEOREM NoStrayReplyHolds == Spec => []NoStrayReply
BY IInvHolds, PTL DEF IInv

(* TablesMatchGeneration: once as_node_process_partitions has recorded a  *)
(* partition generation, both replica lists were applied from the reply *)
(* of that generation.                                                    *)
THEOREM TablesMatchGenerationHolds == Spec => []TablesMatchGeneration
BY IInvHolds, PTL DEF IInv

(* GossipOnlyFromVerified: as_node_process_response parses a services    *)
(* list only from a server that confirmed the node's name.               *)
THEOREM GossipOnlyFromVerifiedHolds == Spec => []GossipOnlyFromVerified
BY IInvHolds, PTL DEF IInv
=============================================================================
