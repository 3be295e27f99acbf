----------------------------- MODULE NodeRefresh -----------------------------
(***************************************************************************)
(* The tender's refresh of one node over its info connection              *)
(* (as_node.c: as_node_refresh, as_node_get_info_connection,               *)
(* as_node_get_info, as_node_close_info_connection,                        *)
(* as_node_process_response, as_node_verify_name,                          *)
(* as_node_process_partitions).                                            *)
(*                                                                         *)
(* One refresh sends the check request (node, partition-generation,       *)
(* services); if the node's name is confirmed and the generation differs  *)
(* from the one recorded, it sends the replicas request and applies the   *)
(* partition tables and the generation.  Every failure of as_node_get_info*)
(* (write error, header read error or deadline, bad size, allocation,     *)
(* body read error or deadline) makes the caller close the info socket.   *)
(* The server answers requests in order on the socket, possibly after the *)
(* client's deadline; it may rename itself or change its generation at    *)
(* any time.  A reply is the list of requested fields with the server's   *)
(* name and generation at the moment it answered.                          *)
(***************************************************************************)
EXTENDS Integers, Sequences

CONSTANTS
    NodeName,       \* the name the node was created with (node->name)
    OtherName,      \* a different name the server may take
    EmptyName,      \* an empty "node" value
    GenMod,         \* 2^32: partition_generation is a uint32_t
    MaxGenChanges,  \* bound on the server's generation changes
    MaxRenames,     \* bound on the server's renames
    MaxFaults       \* bound on socket faults and deadlines

ASSUME NodeRefreshAssumption ==
    /\ GenMod \in Nat \ {0, 1}
    /\ {MaxGenChanges, MaxRenames, MaxFaults} \subseteq Nat
    /\ NodeName # OtherName /\ NodeName # EmptyName /\ OtherName # EmptyName

Names == {NodeName, OtherName, EmptyName}
Gens == 0..(GenMod - 1)

(* node->partition_generation = 0xFFFFFFFF in as_node_create.             *)
InitGen == GenMod - 1
NoTable == -1

(* INFO_STR_CHECK and INFO_STR_GET_REPLICAS.                              *)
CheckFields == <<"node", "partition-generation", "services">>
ReplicasFields == <<"partition-generation", "replicas-master", "replicas-prole">>
Replies == [fields : {CheckFields, ReplicasFields}, name : Names, gen : Gens]

VARIABLES
    srvName,     \* the name the server reports now
    srvGen,      \* the server's partition generation now
    envCount,    \* [gen, rename, fault]: environment events so far
    infoOpen,    \* node->info_fd >= 0
    reqs,        \* requests written on the info socket, not yet answered
    replies,     \* replies on the info socket, not yet read
    tpc,         \* tender: "idle", "check", "waitCheck", "replicas", "waitReplicas"
    status,      \* as_node_refresh's status after the check reply
    nodeGen,     \* node->partition_generation
    tables,      \* [master, prole]: generation of the replica lists applied
    active,      \* node->active
    gossip,      \* names of the replies whose services list was parsed
    lastResult   \* what as_node_refresh returned last

envVars == <<srvName, srvGen, envCount>>
sockVars == <<infoOpen, reqs, replies>>
nodeVars == <<nodeGen, tables, active, gossip, lastResult>>
vars == <<envVars, sockVars, tpc, status, nodeVars>>

-----------------------------------------------------------------------------
(* as_node_verify_name: a missing or empty name fails, a different name   *)
(* fails and deactivates the node.                                        *)
VerifyName(name) == name = NodeName
Deactivates(name) == name # EmptyName /\ name # NodeName

(* Seeded fault: the field loop does not stop at a name that fails to   *)
(* verify.                                                                 *)
ProcessedNoBreak(rep) == rep.fields

(* The field f is among the fields fs (SequencesExt's Contains, kept    *)
(* here without that module's recursive operators).                      *)
Contains(fs, f) == \E i \in 1..Len(fs) : fs[i] = f

(* as_node_process_response walks the reply's fields in order and stops  *)
(* at the first "node" field whose name does not verify.                 *)
BreakAt(rep) ==
    LET stops == {i \in 1..Len(rep.fields) :
                    rep.fields[i] = "node" /\ ~VerifyName(rep.name)}
    IN IF stops = {} THEN Len(rep.fields)
       ELSE CHOOSE b \in stops : \A i \in stops : b <= i
Processed(rep) == SubSeq(rep.fields, 1, BreakAt(rep))
ResponseStatus(rep) ==
    /\ Contains(rep.fields, "node")
    /\ VerifyName(rep.name)
UpdatePartitions(rep) ==
    Contains(Processed(rep), "partition-generation") /\ rep.gen # nodeGen

(* as_node_close_info_connection: shutdown and close; whatever the server *)
(* still owes on that socket is lost with it.                             *)
CloseInfoConnection ==
    /\ infoOpen' = FALSE
    /\ reqs' = <<>>
    /\ replies' = <<>>

(* as_node_refresh returns `ok` to the tender.                            *)
EndRefresh(ok) ==
    /\ tpc' = "idle"
    /\ lastResult' = ok

(* A fault of the environment, within its budget.                         *)
Fault ==
    /\ envCount.fault < MaxFaults
    /\ envCount' = [envCount EXCEPT !.fault = @ + 1]

-----------------------------------------------------------------------------
(* Seeded faults. *)

(* The replicas query's failure returns without closing the socket.      *)
GetInfoFailedKeepSocket ==
    /\ tpc \in {"check", "waitCheck", "replicas", "waitReplicas"}
    /\ Fault
    /\ IF tpc \in {"replicas", "waitReplicas"}
          THEN UNCHANGED <<infoOpen, reqs, replies>>
          ELSE CloseInfoConnection
    /\ EndRefresh(FALSE)
    /\ UNCHANGED <<srvName, srvGen, status, nodeGen, tables, active, gossip>>

(* as_node_process_partitions without its replicas-prole branch.         *)
ReadReplicasNoProle ==
    /\ tpc = "waitReplicas"
    /\ replies # <<>>
    /\ LET rep == Head(replies)
       IN /\ replies' = Tail(replies)
          /\ nodeGen' = IF Contains(rep.fields, "partition-generation")
                           THEN rep.gen ELSE nodeGen
          /\ tables' = [tables EXCEPT
                           !.master = IF Contains(rep.fields, "replicas-master")
                                         THEN rep.gen ELSE @]
          /\ EndRefresh(status)
    /\ UNCHANGED <<envVars, infoOpen, reqs, status, active, gossip>>

(* The generation is recorded as soon as the check reply shows a change. *)
ReadCheckEarlyGen ==
    /\ tpc = "waitCheck"
    /\ replies # <<>>
    /\ LET rep == Head(replies)
           upd == UpdatePartitions(rep)
       IN /\ replies' = Tail(replies)
          /\ active' = IF Deactivates(rep.name) /\ Contains(rep.fields, "node")
                          THEN FALSE ELSE active
          /\ gossip' = IF Contains(Processed(rep), "services")
                          THEN gossip \cup {rep.name} ELSE gossip
          /\ status' = ResponseStatus(rep)
          /\ nodeGen' = IF upd THEN rep.gen ELSE nodeGen
          /\ IF ResponseStatus(rep) /\ upd
                THEN tpc' = "replicas" /\ UNCHANGED lastResult
                ELSE EndRefresh(ResponseStatus(rep))
    /\ UNCHANGED <<envVars, infoOpen, reqs, tables>>

-----------------------------------------------------------------------------
(* Tender: as_node_refresh.                                                *)

(* as_node_get_info_connection: reuse the info socket or open one; a    *)
(* failed connect ends the refresh with false.  Only active nodes are   *)
(* refreshed (spec 4.4 step 4).                                          *)
GetInfoConnection ==
    /\ tpc = "idle"
    /\ active
    /\ \/ /\ infoOpen
          /\ tpc' = "check"
          /\ UNCHANGED <<envCount, infoOpen, lastResult>>
       \/ /\ ~infoOpen
          /\ infoOpen' = TRUE
          /\ tpc' = "check"
          /\ UNCHANGED <<envCount, lastResult>>
       \/ /\ ~infoOpen
          /\ Fault
          /\ EndRefresh(FALSE)
          /\ UNCHANGED infoOpen
    /\ UNCHANGED <<srvName, srvGen, reqs, replies, status, nodeGen, tables, active, gossip>>

(* as_node_get_info, write half: the request goes out on the socket.     *)
SendRequest ==
    /\ tpc \in {"check", "replicas"}
    /\ reqs' = Append(reqs, IF tpc = "check" THEN CheckFields ELSE ReplicasFields)
    /\ tpc' = IF tpc = "check" THEN "waitCheck" ELSE "waitReplicas"
    /\ UNCHANGED <<envVars, infoOpen, replies, status, nodeVars>>

(* as_node_get_info returns 0 (write error, read error or deadline, size *)
(* 0 or above 512 KiB, failed allocation); as_node_refresh closes the   *)
(* info socket and returns false.  A write error comes before the        *)
(* request is on the wire; the other failures after it.                  *)
GetInfoFailed ==
    /\ tpc \in {"check", "waitCheck", "replicas", "waitReplicas"}
    /\ Fault
    /\ CloseInfoConnection
    /\ EndRefresh(FALSE)
    /\ UNCHANGED <<srvName, srvGen, status, nodeGen, tables, active, gossip>>

(* The check reply is read and handed to as_node_process_response; if    *)
(* the name verified and the generation changed, the replicas query      *)
(* follows, otherwise the refresh returns the status.                    *)
ReadCheckReply ==
    /\ tpc = "waitCheck"
    /\ replies # <<>>
    /\ LET rep == Head(replies)
           ok  == ResponseStatus(rep)
       IN /\ replies' = Tail(replies)
          /\ active' = IF Deactivates(rep.name) /\ Contains(rep.fields, "node")
                          THEN FALSE ELSE active
          /\ gossip' = IF Contains(Processed(rep), "services")
                          THEN gossip \cup {rep.name} ELSE gossip
          /\ status' = ok
          /\ IF ok /\ UpdatePartitions(rep)
                THEN tpc' = "replicas" /\ UNCHANGED lastResult
                ELSE EndRefresh(ok)
    /\ UNCHANGED <<envVars, infoOpen, reqs, nodeGen, tables>>

(* The replicas reply is read and handed to as_node_process_partitions:  *)
(* each field it carries is applied; the refresh returns the status.     *)
ReadReplicasReply ==
    /\ tpc = "waitReplicas"
    /\ replies # <<>>
    /\ LET rep == Head(replies)
       IN /\ replies' = Tail(replies)
          /\ nodeGen' = IF Contains(rep.fields, "partition-generation")
                           THEN rep.gen ELSE nodeGen
          /\ tables' = [tables EXCEPT
                           !.master = IF Contains(rep.fields, "replicas-master")
                                         THEN rep.gen ELSE @,
                           !.prole = IF Contains(rep.fields, "replicas-prole")
                                        THEN rep.gen ELSE @]
          /\ EndRefresh(status)
    /\ UNCHANGED <<envVars, infoOpen, reqs, status, active, gossip>>

-----------------------------------------------------------------------------
(* Server and network.                                                     *)

(* The server answers the oldest request with its name and generation    *)
(* as they are now.                                                        *)
ServerReply ==
    /\ infoOpen
    /\ reqs # <<>>
    /\ replies' = Append(replies, [fields |-> Head(reqs), name |-> srvName, gen |-> srvGen])
    /\ reqs' = Tail(reqs)
    /\ UNCHANGED <<envVars, infoOpen, tpc, status, nodeVars>>

(* The cluster changes: the server's partition generation moves on       *)
(* (a uint32 that wraps).                                                 *)
ServerGenChange ==
    /\ envCount.gen < MaxGenChanges
    /\ srvGen' = (srvGen + 1) % GenMod
    /\ envCount' = [envCount EXCEPT !.gen = @ + 1]
    /\ UNCHANGED <<srvName, sockVars, tpc, status, nodeVars>>

(* The address now answers with another name (a different server).       *)
ServerRename ==
    /\ envCount.rename < MaxRenames
    /\ \E n \in Names \ {srvName} : srvName' = n
    /\ envCount' = [envCount EXCEPT !.rename = @ + 1]
    /\ UNCHANGED <<srvGen, sockVars, tpc, status, nodeVars>>

-----------------------------------------------------------------------------
Init ==
    /\ srvName = NodeName
    /\ srvGen = 0
    /\ envCount = [gen |-> 0, rename |-> 0, fault |-> 0]
    /\ infoOpen = FALSE
    /\ reqs = <<>>
    /\ replies = <<>>
    /\ tpc = "idle"
    /\ status = FALSE
    /\ nodeGen = InitGen
    /\ tables = [master |-> NoTable, prole |-> NoTable]
    /\ active = TRUE
    /\ gossip = {}
    /\ lastResult = FALSE

Refresh ==
    \/ GetInfoConnection
    \/ SendRequest
    \/ ReadCheckReply
    \/ ReadReplicasReply

Next ==
    \/ Refresh
    \/ GetInfoFailed
    \/ ServerReply
    \/ ServerGenChange
    \/ ServerRename

(* The tender thread runs a refresh every cycle and the server answers   *)
(* every request it receives; faults and cluster changes are not forced. *)
Fairness == WF_vars(Refresh) /\ WF_vars(ServerReply)

Spec == Init /\ [][Next]_vars /\ Fairness

-----------------------------------------------------------------------------
TypeOK ==
    /\ srvName \in Names
    /\ srvGen \in Gens
    /\ envCount \in [gen : 0..MaxGenChanges, rename : 0..MaxRenames, fault : 0..MaxFaults]
    /\ infoOpen \in BOOLEAN
    /\ reqs \in Seq({CheckFields, ReplicasFields})
    /\ replies \in Seq(Replies)
    /\ tpc \in {"idle", "check", "waitCheck", "replicas", "waitReplicas"}
    /\ status \in BOOLEAN
    /\ nodeGen \in Gens
    /\ tables \in [master : Gens \cup {NoTable}, prole : Gens \cup {NoTable}]
    /\ active \in BOOLEAN
    /\ gossip \subseteq Names
    /\ lastResult \in BOOLEAN

(* Every reply read answers the request just written: outside a wait no  *)
(* request or reply is pending on the info socket, and during a wait at  *)
(* most the one awaited, of the awaited kind.  A late reply left behind  *)
(* by a deadline would otherwise be parsed as the answer to the next     *)
(* query; closing the socket on every as_node_get_info failure is what   *)
(* prevents it.                                                           *)
Pending == reqs \o [i \in 1..Len(replies) |-> replies[i].fields]
Awaited == IF tpc = "waitCheck" THEN CheckFields ELSE ReplicasFields
NoStrayReply ==
    IF tpc \in {"waitCheck", "waitReplicas"}
    THEN Pending \in {<<>>, <<Awaited>>}
    ELSE Pending = <<>>

(* The recorded generation always has its replica lists applied: once   *)
(* partition_generation is no longer the initial value, both the master  *)
(* and the prole lists were taken from a reply of that generation.  If it*)
(* were recorded without them, later refreshes would see no change and   *)
(* never fetch the lists.                                                 *)
TablesMatchGeneration ==
    nodeGen # InitGen => tables.master = nodeGen /\ tables.prole = nodeGen

(* Peers are only learnt from a server that confirmed the node's name:  *)
(* a services list is parsed only from a reply whose "node" verified.    *)
GossipOnlyFromVerified == gossip \subseteq {NodeName}

(* While the node is active and its server has its name, the replica    *)
(* lists eventually settle on the server's generation, however the      *)
(* faults and generation changes interleave with the refreshes.          *)
TablesEventuallyCurrent ==
    <>[](active /\ srvName = NodeName =>
            tables.master = srvGen /\ tables.prole = srvGen)
=============================================================================
