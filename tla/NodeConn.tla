------------------------------ MODULE NodeConn ------------------------------
(***************************************************************************)
(* One node's connections (as_node.c): the pool of idle sockets shared by *)
(* request threads (as_node_get_connection, as_node_put_connection,       *)
(* is_connected), connection establishment with address failover         *)
(* (as_node_create_connection, as_node_authenticate_connection), the      *)
(* tender's info socket (as_node_get_info_connection,                     *)
(* as_node_close_info_connection), alias addresses appended by the        *)
(* tender (as_node_add_address) and as_node_destroy.                      *)
(*                                                                         *)
(* Sockets are a finite set of descriptors; closing one makes its number  *)
(* free for the next socket.  The peer end of each connection is an       *)
(* environment that may close it, reset it or leave unread bytes on it.   *)
(* The address list is an as_vector created with capacity 2; an append    *)
(* to a full vector reallocates its array, which may move (the old array  *)
(* is then freed).  Only the number of addresses and the identity of the  *)
(* array matter here.                                                     *)
(***************************************************************************)
EXTENDS Integers, Sequences, FiniteSets

CONSTANTS
    Threads,         \* request threads using this node
    Fds,             \* socket descriptors the process can hold
    NoFd,            \* "no descriptor" (-1 in the code)
    PoolLimit,       \* capacity of conn_q (300 in as_node_put_connection)
    MaxAddrs,        \* bound on the number of addresses the node learns
    MaxPeerEvents,   \* bound on peer-side closes, resets and stray bytes
    AuthEnabled      \* cluster->user is set

ASSUME NodeConnAssumption ==
    /\ NoFd \notin Fds
    /\ PoolLimit \in Nat \ {0}
    /\ MaxAddrs \in Nat \ {0}
    /\ MaxPeerEvents \in Nat
    /\ AuthEnabled \in BOOLEAN

InitCapacity == 2    \* as_vector_init(&node->addresses, sizeof(as_address), 2)

(* What a MSG_PEEK recv sees on a connection: nothing pending ("up"), an  *)
(* orderly close ("closed", rv = 0), a reset ("reset", rv < 0 with an     *)
(* errno other than EWOULDBLOCK), unread bytes ("data", rv > 0), or       *)
(* unread bytes followed by the peer's close ("dataclosed", rv > 0).      *)
PeerStates == {"up", "closed", "reset", "data", "dataclosed"}

VARIABLES
    pool,        \* conn_q, a stack of idle descriptors
    fdOpen,      \* descriptors currently open in the process
    peer,        \* state of the peer end of each descriptor
    tpc,         \* thread: "idle", "acquire", "connect", "auth" or "use"
    tfd,         \* the descriptor a thread works with
    tprim,       \* the thread's `primary` pointer: <<array, index>>
    ti,          \* the thread's alias loop index (0-based, as in the code)
    tseen,       \* what is_connected saw for the descriptor a thread took from the pool
    naddrs,      \* node->addresses.size
    cap,         \* node->addresses.capacity
    arr,         \* identity of the array node->addresses.list points to
    freedArrs,   \* arrays freed by a moving realloc
    addrIndex,   \* node->address_index, the primary hint
    infoFd,      \* node->info_fd, the tender's info socket
    destroyed,   \* as_node_destroy has run
    peerEvents   \* peer-side events so far (bounded by MaxPeerEvents)

addrVars == <<naddrs, cap, arr, freedArrs, addrIndex>>
threadVars == <<tpc, tfd, tprim, ti, tseen>>
vars == <<pool, fdOpen, peer, threadVars, addrVars, infoFd, destroyed, peerEvents>>

-----------------------------------------------------------------------------
(* cf_queue_pop / cf_queue_push_limit (library code, outside src/; the    *)
(* spec's pool pops the most recently returned socket).                  *)
Top(q) == q[Len(q)]
Pop(q) == SubSeq(q, 1, Len(q) - 1)

(* is_connected: the classification of a pooled descriptor.              *)
IsConnected(fd) ==
    IF fd \notin fdOpen THEN "CONNECTED_BADFD"
    ELSE CASE peer[fd] \in {"up", "data", "dataclosed"} -> "CONNECTED"
           [] peer[fd] = "closed" -> "CONNECTED_NOT"
           [] peer[fd] = "reset" -> "CONNECTED_ERROR"

FreeFds == Fds \ fdOpen

(* The thread's request ends and the thread goes back to idle.           *)
Done(t) ==
    /\ tpc' = [tpc EXCEPT ![t] = "idle"]
    /\ tfd' = [tfd EXCEPT ![t] = NoFd]
    /\ ti' = [ti EXCEPT ![t] = 0]

-----------------------------------------------------------------------------
(* Seeded faults, each a plausible slip in the code it stands for; every *)
(* property below is violated by one of them.                             *)

(* A dead pooled socket is put back instead of dropped (loop never ends). *)
GetPooledRetrySame(t) ==
    /\ tpc[t] = "acquire"
    /\ pool # <<>>
    /\ LET fd == Top(pool)
       IN IF IsConnected(fd) = "CONNECTED"
            THEN /\ pool' = Pop(pool)
                 /\ tpc' = [tpc EXCEPT ![t] = "use"]
                 /\ tfd' = [tfd EXCEPT ![t] = fd]
            ELSE UNCHANGED <<pool, tpc, tfd>>
    /\ UNCHANGED <<fdOpen, peer, tprim, ti, tseen, addrVars, infoFd, destroyed, peerEvents>>

(* No address answered, and the socket is not closed (descriptor leak).  *)
ConnectFailedLeak(t) ==
    /\ tpc[t] = "connect"
    /\ ti[t] >= naddrs
    /\ tpc' = [tpc EXCEPT ![t] = "idle"]
    /\ tfd' = [tfd EXCEPT ![t] = NoFd]
    /\ ti' = [ti EXCEPT ![t] = 0]
    /\ UNCHANGED <<pool, fdOpen, peer, tprim, tseen, addrVars, infoFd, destroyed, peerEvents>>

(* The socket is queued without checking the queue's limit.              *)
PutConnectionUnbounded(t) ==
    /\ tpc[t] = "use"
    /\ pool' = Append(pool, tfd[t])
    /\ tpc' = [tpc EXCEPT ![t] = "idle"]
    /\ tfd' = [tfd EXCEPT ![t] = NoFd]
    /\ ti' = [ti EXCEPT ![t] = 0]
    /\ UNCHANGED <<fdOpen, peer, tprim, tseen, addrVars, infoFd, destroyed, peerEvents>>

-----------------------------------------------------------------------------
(* Request threads.                                                       *)

(* A command asks for a connection.                                       *)
Begin(t) ==
    /\ tpc[t] = "idle"
    /\ ~destroyed
    /\ tpc' = [tpc EXCEPT ![t] = "acquire"]
    /\ UNCHANGED <<pool, fdOpen, peer, tfd, tprim, ti, tseen, addrVars,
                   infoFd, destroyed, peerEvents>>

(* as_node_get_connection, one turn of the loop with a non-empty queue:  *)
(* pop the top descriptor and classify it.  A live one is returned; a    *)
(* bad handle is dropped without closing; any other one is closed.       *)
GetPooled(t) ==
    /\ tpc[t] = "acquire"
    /\ pool # <<>>
    /\ LET fd == Top(pool)
           rv == IsConnected(fd)
       IN /\ pool' = Pop(pool)
          /\ tseen' = [tseen EXCEPT ![t] = IF fd \in fdOpen THEN peer[fd] ELSE "up"]
          /\ IF rv = "CONNECTED"
               THEN /\ tpc' = [tpc EXCEPT ![t] = "use"]
                    /\ tfd' = [tfd EXCEPT ![t] = fd]
                    /\ UNCHANGED fdOpen
               ELSE /\ fdOpen' = IF rv = "CONNECTED_BADFD" THEN fdOpen ELSE fdOpen \ {fd}
                    /\ UNCHANGED <<tpc, tfd>>
    /\ UNCHANGED <<peer, tprim, ti, addrVars, infoFd, destroyed, peerEvents>>

(* as_node_get_connection found the queue empty and calls                *)
(* as_node_create_connection: a descriptor is created (or socket creation *)
(* fails: AEROSPIKE_ERR_CLIENT), `primary` is taken from address_index   *)
(* and a connect to it is started; success goes on to authentication,    *)
(* failure to the alias loop.                                            *)
CreateConnection(t) ==
    /\ tpc[t] = "acquire"
    /\ pool = <<>>
    /\ \/ /\ FreeFds = {}
          /\ Done(t)
          /\ UNCHANGED <<fdOpen, peer, tprim>>
       \/ \E fd \in FreeFds, ok \in BOOLEAN :
          /\ fdOpen' = fdOpen \cup {fd}
          /\ peer' = [peer EXCEPT ![fd] = "up"]
          /\ tfd' = [tfd EXCEPT ![t] = fd]
          /\ tprim' = [tprim EXCEPT ![t] = <<arr, addrIndex>>]
          /\ tpc' = [tpc EXCEPT ![t] = IF ok THEN "auth" ELSE "connect"]
          /\ ti' = [ti EXCEPT ![t] = 0]
    /\ tseen' = [tseen EXCEPT ![t] = "up"]
    /\ UNCHANGED <<pool, addrVars, infoFd, destroyed, peerEvents>>

(* One turn of the alias loop: address i of the current array is skipped *)
(* if it is `primary` (pointer comparison), else a connect is started;   *)
(* on success address_index becomes i.                                    *)
TryAlias(t) ==
    /\ tpc[t] = "connect"
    /\ ti[t] < naddrs
    /\ \/ /\ <<arr, ti[t]>> = tprim[t]
          /\ ti' = [ti EXCEPT ![t] = @ + 1]
          /\ UNCHANGED <<tpc, addrIndex>>
       \/ /\ <<arr, ti[t]>> # tprim[t]
          /\ \/ /\ ti' = [ti EXCEPT ![t] = @ + 1]
                /\ UNCHANGED <<tpc, addrIndex>>
             \/ /\ addrIndex' = ti[t]
                /\ tpc' = [tpc EXCEPT ![t] = "auth"]
                /\ UNCHANGED ti
    /\ UNCHANGED <<pool, fdOpen, peer, tfd, tprim, tseen, naddrs, cap, arr,
                   freedArrs, infoFd, destroyed, peerEvents>>

(* No address accepted a connect: the failure is logged with             *)
(* primary->name, the socket is closed, AEROSPIKE_ERR_CLUSTER returned.  *)
ConnectFailed(t) ==
    /\ tpc[t] = "connect"
    /\ ti[t] >= naddrs
    /\ fdOpen' = fdOpen \ {tfd[t]}
    /\ Done(t)
    /\ UNCHANGED <<pool, peer, tprim, tseen, addrVars, infoFd, destroyed, peerEvents>>

(* as_node_authenticate_connection: without a user the socket is ready;  *)
(* with one, a failed login closes it and returns the error.             *)
Authenticate(t) ==
    /\ tpc[t] = "auth"
    /\ \/ /\ tpc' = [tpc EXCEPT ![t] = "use"]
          /\ UNCHANGED <<fdOpen, tfd, ti>>
       \/ /\ AuthEnabled
          /\ fdOpen' = fdOpen \ {tfd[t]}
          /\ Done(t)
    /\ UNCHANGED <<pool, peer, tprim, tseen, addrVars, infoFd, destroyed, peerEvents>>

(* as_node_put_connection: the command succeeded and hands the socket     *)
(* back; a full queue means it is closed instead.                         *)
PutConnection(t) ==
    /\ tpc[t] = "use"
    /\ IF Len(pool) < PoolLimit
         THEN /\ pool' = Append(pool, tfd[t])
              /\ UNCHANGED fdOpen
         ELSE /\ fdOpen' = fdOpen \ {tfd[t]}
              /\ UNCHANGED pool
    /\ Done(t)
    /\ UNCHANGED <<peer, tprim, tseen, addrVars, infoFd, destroyed, peerEvents>>

(* The command failed on the socket: the caller closes it (as_close).    *)
CloseConnection(t) ==
    /\ tpc[t] = "use"
    /\ fdOpen' = fdOpen \ {tfd[t]}
    /\ Done(t)
    /\ UNCHANGED <<pool, peer, tprim, tseen, addrVars, infoFd, destroyed, peerEvents>>
-----------------------------------------------------------------------------
(* Tender thread.                                                         *)

(* as_node_get_info_connection with info_fd < 0: as_node_create_connection *)
(* on &node->info_fd.  Its outcome (which address answered, whether the   *)
(* login worked) is a choice; a failure leaves info_fd at -1.  An alias  *)
(* that answers becomes address_index.                                   *)
InfoConnect ==
    /\ ~destroyed
    /\ infoFd = NoFd
    /\ FreeFds # {}
    /\ \E fd \in FreeFds, i \in 0..(naddrs - 1), ok \in BOOLEAN :
          /\ addrIndex' = i
          /\ IF ok THEN /\ infoFd' = fd
                        /\ fdOpen' = fdOpen \cup {fd}
                        /\ peer' = [peer EXCEPT ![fd] = "up"]
                   ELSE UNCHANGED <<infoFd, fdOpen, peer>>
    /\ UNCHANGED <<pool, threadVars, naddrs, cap, arr, freedArrs, destroyed, peerEvents>>

(* as_node_close_info_connection after a failed info exchange            *)
(* (as_node_refresh): shutdown, close, info_fd = -1.                     *)
InfoClose ==
    /\ infoFd # NoFd
    /\ fdOpen' = fdOpen \ {infoFd}
    /\ infoFd' = NoFd
    /\ UNCHANGED <<pool, peer, threadVars, addrVars, destroyed, peerEvents>>

(* as_node_add_address: gossip revealed another address of this node.   *)
(* as_vector_append on a full vector doubles its capacity with realloc,  *)
(* which may move the array and free the old one.                        *)
AddAddress ==
    /\ ~destroyed
    /\ naddrs < MaxAddrs
    /\ naddrs' = naddrs + 1
    /\ IF naddrs = cap
         THEN /\ cap' = 2 * cap
              /\ \E moved \in BOOLEAN :
                    /\ arr' = IF moved THEN arr + 1 ELSE arr
                    /\ freedArrs' = IF moved THEN freedArrs \cup {arr} ELSE freedArrs
         ELSE UNCHANGED <<cap, arr, freedArrs>>
    /\ UNCHANGED <<pool, fdOpen, peer, threadVars, addrIndex, infoFd, destroyed, peerEvents>>

(* as_node_destroy, once no thread uses the node: drain the queue closing *)
(* every descriptor, then close the info socket.                         *)
Destroy ==
    /\ ~destroyed
    /\ \A t \in Threads : tpc[t] = "idle"
    /\ destroyed' = TRUE
    /\ pool' = <<>>
    /\ fdOpen' = fdOpen \ ({pool[k] : k \in DOMAIN pool} \cup {infoFd})
    /\ infoFd' = NoFd
    /\ UNCHANGED <<peer, threadVars, addrVars, peerEvents>>

-----------------------------------------------------------------------------
(* The peer end of an open connection closes it, resets it, or leaves    *)
(* bytes on it that nobody reads.                                        *)
PeerEvent(fd) ==
    /\ fd \in fdOpen
    /\ peerEvents < MaxPeerEvents
    /\ \/ /\ peer[fd] = "up"
          /\ \E s \in {"closed", "reset", "data"} : peer' = [peer EXCEPT ![fd] = s]
       \/ /\ peer[fd] = "data"
          /\ peer' = [peer EXCEPT ![fd] = "dataclosed"]
    /\ peerEvents' = peerEvents + 1
    /\ UNCHANGED <<pool, fdOpen, threadVars, addrVars, infoFd, destroyed>>

-----------------------------------------------------------------------------
Init ==
    /\ pool = <<>>
    /\ fdOpen = {}
    /\ peer = [fd \in Fds |-> "up"]
    /\ tpc = [t \in Threads |-> "idle"]
    /\ tfd = [t \in Threads |-> NoFd]
    /\ tprim = [t \in Threads |-> <<0, 0>>]
    /\ ti = [t \in Threads |-> 0]
    /\ tseen = [t \in Threads |-> "up"]
    /\ naddrs = 1
    /\ cap = InitCapacity
    /\ arr = 0
    /\ freedArrs = {}
    /\ addrIndex = 0
    /\ infoFd = NoFd
    /\ destroyed = FALSE
    /\ peerEvents = 0

(* Everything a thread does once it asked for a connection.               *)
Working(t) ==
    \/ GetPooled(t)
    \/ CreateConnection(t)
    \/ TryAlias(t)
    \/ ConnectFailed(t)
    \/ Authenticate(t)
    \/ PutConnection(t)
    \/ CloseConnection(t)

Tender == InfoConnect \/ InfoClose \/ AddAddress \/ Destroy

Next ==
    \/ \E t \in Threads : Begin(t) \/ Working(t)
    \/ Tender
    \/ \E fd \in Fds : PeerEvent(fd)

(* A thread that asked for a connection keeps running (socket calls have *)
(* deadlines); nothing forces a thread to start a request.               *)
Spec == Init /\ [][Next]_vars /\ \A t \in Threads : WF_vars(Working(t))

-----------------------------------------------------------------------------
Range(s) == {s[k] : k \in DOMAIN s}
Busy(t) == tpc[t] \in {"connect", "auth", "use"}

TypeOK ==
    /\ pool \in Seq(Fds) /\ Len(pool) <= PoolLimit
    /\ fdOpen \subseteq Fds
    /\ peer \in [Fds -> PeerStates]
    /\ tpc \in [Threads -> {"idle", "acquire", "connect", "auth", "use"}]
    /\ tfd \in [Threads -> Fds \cup {NoFd}]
    /\ tprim \in [Threads -> Nat \X Nat]
    /\ ti \in [Threads -> Nat]
    /\ tseen \in [Threads -> PeerStates]
    /\ naddrs \in 1..MaxAddrs /\ naddrs <= cap
    /\ arr \in Nat /\ freedArrs \subseteq Nat
    /\ addrIndex \in 0..(naddrs - 1)
    /\ infoFd \in Fds \cup {NoFd}
    /\ destroyed \in BOOLEAN
    /\ peerEvents \in 0..MaxPeerEvents

(* Every open socket has exactly one owner: a slot of the pool, the       *)
(* thread connecting or using it, or the tender's info_fd; and nothing   *)
(* owns a closed one.  Violated by a leaked descriptor (a path that drops *)
(* a socket without closing it), by a double hand-out, or by a socket    *)
(* closed while someone still owns it (whose number the next socket     *)
(* would then reuse).  After as_node_destroy, nothing is left open.      *)
FdAccounting ==
    /\ \A j, k \in DOMAIN pool : pool[j] = pool[k] => j = k
    /\ \A t \in Threads : Busy(t) => tfd[t] \notin Range(pool) \cup {infoFd}
    /\ \A t, u \in Threads : Busy(t) /\ Busy(u) /\ tfd[t] = tfd[u] => t = u
    /\ fdOpen = Range(pool) \cup {tfd[t] : t \in {u \in Threads : Busy(u)}}
                           \cup ({infoFd} \ {NoFd})

(* The pointer `primary` that the failure path of                        *)
(* as_node_create_connection dereferences (primary->name in the log) is  *)
(* still inside the live address array.                                  *)
PrimaryPointerLive ==
    \A t \in Threads :
        tpc[t] = "connect" /\ ti[t] >= naddrs => tprim[t][1] \notin freedArrs

(* Spec 8: after the peer closed a connection, as_node_get_connection    *)
(* never returns that socket; a socket taken from the pool had a live    *)
(* peer when it was checked.                                             *)
PooledPeerAlive ==
    \A t \in Threads : tpc[t] = "use" => tseen[t] \in {"up", "data"}

(* A thread that asked for a connection gets one or an error: the loop in *)
(* as_node_get_connection, and the alias loop, end.                      *)
AcquireCompletes ==
    \A t \in Threads : tpc[t] = "acquire" ~> tpc[t] \in {"use", "idle"}
=============================================================================
