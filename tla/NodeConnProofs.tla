--------------------------- MODULE NodeConnProofs ---------------------------
(***************************************************************************)
(* Proofs about one node's connections (NodeConn): every reachable state  *)
(* is well typed, and every open descriptor has exactly one owner (the    *)
(* pool, one busy request thread or the tender's info socket), for every *)
(* set of threads and descriptors and every bound.                        *)
(*                                                                         *)
(* FdAccounting is not inductive as it stands: it says a busy thread's    *)
(* socket is not the info socket, but not that the info socket is not in  *)
(* the pool.  A state with info_fd also queued in conn_q satisfies it,    *)
(* and as_node_close_info_connection would then close a pooled socket.   *)
(* IInv adds that fact, and that the vector's capacity is a number (the   *)
(* doubling in as_vector_append is arithmetic on it).                     *)
(***************************************************************************)
EXTENDS NodeConn, TLAPS

(* The tender's info socket is never also queued in conn_q.               *)
InfoNotPooled == infoFd \notin Range(pool)

(* The descriptors the busy request threads hold.                        *)
BusyFds == {tfd[u] : u \in {v \in Threads : Busy(v)}}

IInv ==
    /\ TypeOK
    /\ cap \in Nat
    /\ FdAccounting
    /\ InfoNotPooled

-----------------------------------------------------------------------------
(* Pop and Top of cf_queue's stack: popping a non-empty stack leaves the  *)
(* elements below the top in place and removes the top from its range.   *)
LEMMA PopFacts ==
    ASSUME NEW S, NEW s \in Seq(S), s # <<>>
    PROVE  /\ Pop(s) \in Seq(S)
           /\ Len(Pop(s)) = Len(s) - 1
           /\ Top(s) \in S
           /\ \A k \in DOMAIN Pop(s) : Pop(s)[k] = s[k]
           /\ Range(s) = Range(Pop(s)) \cup {Top(s)}
<1>1. Len(s) \in Nat /\ Len(s) >= 1
  OBVIOUS
<1>2. Pop(s) \in Seq(S) /\ Len(Pop(s)) = Len(s) - 1
      /\ \A k \in DOMAIN Pop(s) : Pop(s)[k] = s[k]
  <2>1. Pop(s) = [k \in 1..(Len(s) - 1) |-> s[k]]
    BY <1>1 DEF Pop
  <2>2. \A k \in 1..(Len(s) - 1) : s[k] \in S
    BY <1>1
  <2>3. QED
    BY <1>1, <2>1, <2>2
<1>3. Top(s) \in S
  BY <1>1 DEF Top
<1>4. DOMAIN s = DOMAIN Pop(s) \cup {Len(s)}
  BY <1>1, <1>2
<1>5. Range(s) = Range(Pop(s)) \cup {Top(s)}
  BY <1>2, <1>4 DEF Range, Top
<1>6. QED
  BY <1>2, <1>3, <1>5

(* Pushing x onto the stack (cf_queue_push) adds x to its range and keeps *)
(* the elements below it.                                                  *)
LEMMA AppendFacts ==
    ASSUME NEW S, NEW s \in Seq(S), NEW x \in S
    PROVE  /\ Append(s, x) \in Seq(S)
           /\ Len(Append(s, x)) = Len(s) + 1
           /\ \A k \in DOMAIN s : Append(s, x)[k] = s[k]
           /\ Append(s, x)[Len(s) + 1] = x
           /\ DOMAIN Append(s, x) = DOMAIN s \cup {Len(s) + 1}
           /\ Range(Append(s, x)) = Range(s) \cup {x}
<1>1. /\ Append(s, x) \in Seq(S)
      /\ Len(Append(s, x)) = Len(s) + 1
      /\ \A k \in DOMAIN s : Append(s, x)[k] = s[k]
      /\ Append(s, x)[Len(s) + 1] = x
      /\ DOMAIN Append(s, x) = DOMAIN s \cup {Len(s) + 1}
  OBVIOUS
<1>2. Range(Append(s, x)) = Range(s) \cup {x}
  BY <1>1 DEF Range
<1>3. QED
  BY <1>1, <1>2

-----------------------------------------------------------------------------
(* The initial state: nothing is open and nothing is owned.               *)
LEMMA InitIInv == Init => IInv
<1> SUFFICES ASSUME Init PROVE IInv
  OBVIOUS
<1>1. TypeOK
  <2>1. naddrs \in 1..MaxAddrs /\ naddrs <= cap
    BY NodeConnAssumption DEF Init, InitCapacity
  <2>2. addrIndex \in 0..(naddrs - 1) /\ peerEvents \in 0..MaxPeerEvents
    BY NodeConnAssumption DEF Init
  <2>3. tprim \in [Threads -> Nat \X Nat]
    BY DEF Init
  <2>4. pool \in Seq(Fds) /\ Len(pool) <= PoolLimit
    BY NodeConnAssumption DEF Init
  <2>5. /\ peer \in [Fds -> PeerStates]
        /\ tpc \in [Threads -> {"idle", "acquire", "connect", "auth", "use"}]
        /\ tfd \in [Threads -> Fds \cup {NoFd}]
        /\ ti \in [Threads -> Nat]
        /\ tseen \in [Threads -> PeerStates]
    BY DEF Init, PeerStates
  <2>6. /\ fdOpen \subseteq Fds /\ arr \in Nat /\ freedArrs \subseteq Nat
        /\ infoFd \in Fds \cup {NoFd} /\ destroyed \in BOOLEAN
    BY DEF Init
  <2>7. QED
    BY <2>1, <2>2, <2>3, <2>4, <2>5, <2>6 DEF TypeOK
<1>2. FdAccounting
  BY NodeConnAssumption DEF Init, FdAccounting, Range, Busy
<1>3. InfoNotPooled
  BY DEF Init, InfoNotPooled, Range
<1>4. QED
  BY <1>1, <1>2, <1>3 DEF IInv, Init, InitCapacity

-----------------------------------------------------------------------------
(* Steps that neither open, close nor hand over a descriptor.             *)

(* A command asking for a connection takes nothing yet.                   *)
LEMMA BeginIInv ==
    ASSUME IInv, NEW t \in Threads, Begin(t)
    PROVE  IInv'
<1>1. TypeOK'
  BY DEF IInv, TypeOK, Begin, addrVars
<1>2. \A u \in Threads : Busy(u)' <=> Busy(u)
  BY DEF IInv, TypeOK, Begin, Busy
<1>3. FdAccounting' /\ InfoNotPooled'
  BY <1>2 DEF IInv, Begin, FdAccounting, InfoNotPooled, Range
<1>4. QED
  BY <1>1, <1>3 DEF IInv, Begin, addrVars

(* The alias loop moves from connect to auth at most; the socket stays.  *)
LEMMA TryAliasIInv ==
    ASSUME IInv, NEW t \in Threads, TryAlias(t)
    PROVE  IInv'
<1>1. addrIndex' \in 0..(naddrs - 1)
  BY DEF IInv, TypeOK, TryAlias
<1>2. ti' \in [Threads -> Nat]
  <2>1. ti \in [Threads -> Nat]
    BY DEF IInv, TypeOK
  <2>2. ti' = [ti EXCEPT ![t] = @ + 1] \/ ti' = ti
    BY DEF TryAlias
  <2>3. QED
    BY <2>1, <2>2
<1>3. tpc' \in [Threads -> {"idle", "acquire", "connect", "auth", "use"}]
  BY DEF IInv, TypeOK, TryAlias
<1>4. TypeOK'
  BY <1>1, <1>2, <1>3 DEF IInv, TypeOK, TryAlias
<1>5. \A u \in Threads : Busy(u)' <=> Busy(u)
  BY DEF IInv, TypeOK, TryAlias, Busy
<1>6. FdAccounting' /\ InfoNotPooled'
  BY <1>5 DEF IInv, TryAlias, FdAccounting, InfoNotPooled, Range
<1>7. QED
  BY <1>4, <1>6 DEF IInv, TryAlias

(* as_node_add_address grows the vector, doubling a full one.             *)
LEMMA AddAddressIInv ==
    ASSUME IInv, AddAddress
    PROVE  IInv'
<1>1. naddrs' \in 1..MaxAddrs /\ naddrs' <= cap' /\ cap' \in Nat
  BY NodeConnAssumption DEF IInv, TypeOK, AddAddress
<1>2. addrIndex' \in 0..(naddrs' - 1)
  BY DEF IInv, TypeOK, AddAddress
<1>3. arr' \in Nat /\ freedArrs' \subseteq Nat
  <2>1. arr \in Nat /\ freedArrs \subseteq Nat
    BY DEF IInv, TypeOK
  <2>2. CASE naddrs = cap
    <3>1. PICK moved \in BOOLEAN :
                /\ arr' = IF moved THEN arr + 1 ELSE arr
                /\ freedArrs' = IF moved THEN freedArrs \cup {arr} ELSE freedArrs
      BY <2>2 DEF AddAddress
    <3>2. QED
      BY <2>1, <3>1
  <2>3. CASE naddrs # cap
    BY <2>1, <2>3 DEF AddAddress
  <2>4. QED
    BY <2>2, <2>3
<1>4. TypeOK'
  BY <1>1, <1>2, <1>3 DEF IInv, TypeOK, AddAddress, threadVars
<1>5. FdAccounting' /\ InfoNotPooled'
  BY DEF IInv, AddAddress, threadVars, FdAccounting, InfoNotPooled, Range, Busy
<1>6. QED
  BY <1>1, <1>4, <1>5 DEF IInv

(* A peer-side close, reset or stray byte changes no ownership.           *)
LEMMA PeerEventIInv ==
    ASSUME IInv, NEW fd \in Fds, PeerEvent(fd)
    PROVE  IInv'
<1>1. peer' \in [Fds -> PeerStates]
  BY DEF IInv, TypeOK, PeerEvent, PeerStates
<1>2. peerEvents' \in 0..MaxPeerEvents
  BY NodeConnAssumption DEF IInv, TypeOK, PeerEvent
<1>3. TypeOK'
  BY <1>1, <1>2 DEF IInv, TypeOK, PeerEvent, threadVars, addrVars
<1>4. FdAccounting' /\ InfoNotPooled'
  BY DEF IInv, PeerEvent, threadVars, addrVars, FdAccounting, InfoNotPooled, Range, Busy
<1>5. QED
  BY <1>3, <1>4 DEF IInv, PeerEvent, addrVars

-----------------------------------------------------------------------------
(* Steps of a busy thread that close its socket and end the request: the *)
(* failure paths of as_node_create_connection and                         *)
(* as_node_authenticate_connection, as_close after a failed command, and *)
(* as_node_put_connection on a full queue.  The descriptor leaves the    *)
(* busy set and the open set together, and nobody else held it.          *)
LEMMA ReleaseIInv ==
    ASSUME IInv, NEW t \in Threads, Busy(t),
           fdOpen' = fdOpen \ {tfd[t]}, Done(t),
           UNCHANGED <<pool, peer, tprim, tseen, addrVars, infoFd, destroyed, peerEvents>>
    PROVE  IInv'
<1> DEFINE f == tfd[t]
<1>1. f \in fdOpen /\ f \notin Range(pool) /\ f # infoFd
  BY DEF IInv, FdAccounting
<1>2. \A u \in Threads : Busy(u)' <=> (Busy(u) /\ u # t)
  BY DEF IInv, TypeOK, Done, Busy
<1>3. \A u \in Threads \ {t} : tfd'[u] = tfd[u]
  BY DEF IInv, TypeOK, Done
<1>4. BusyFds' = BusyFds \ {f}
  <2>1. \A u \in Threads : Busy(u) /\ u # t => tfd[u] # f
    BY DEF IInv, FdAccounting
  <2>2. QED
    BY <1>2, <1>3, <2>1 DEF BusyFds
<1>5. TypeOK'
  BY DEF IInv, TypeOK, Done, addrVars
<1>6. FdAccounting'
  <2>1. \A u \in Threads : Busy(u)' => tfd'[u] \notin Range(pool') \cup {infoFd'}
    BY <1>2, <1>3 DEF IInv, FdAccounting, Range
  <2>2. \A u, w \in Threads : Busy(u)' /\ Busy(w)' /\ tfd'[u] = tfd'[w] => u = w
    BY <1>2, <1>3 DEF IInv, FdAccounting
  <2>3. fdOpen' = Range(pool') \cup BusyFds' \cup ({infoFd'} \ {NoFd})
    BY <1>1, <1>4 DEF IInv, FdAccounting, BusyFds, Range
  <2>4. QED
    BY <2>1, <2>2, <2>3 DEF IInv, FdAccounting, BusyFds
<1>7. QED
  BY <1>5, <1>6 DEF IInv, InfoNotPooled, addrVars

(* No address answered: the socket is closed and the error returned.      *)
LEMMA ConnectFailedIInv ==
    ASSUME IInv, NEW t \in Threads, ConnectFailed(t)
    PROVE  IInv'
BY ReleaseIInv DEF ConnectFailed, Busy

(* as_close after a failed command.                                       *)
LEMMA CloseConnectionIInv ==
    ASSUME IInv, NEW t \in Threads, CloseConnection(t)
    PROVE  IInv'
BY ReleaseIInv DEF CloseConnection, Busy

(* A login either hands the socket to the command or closes it.           *)
LEMMA AuthenticateIInv ==
    ASSUME IInv, NEW t \in Threads, Authenticate(t)
    PROVE  IInv'
<1>1. CASE tpc' = [tpc EXCEPT ![t] = "use"] /\ UNCHANGED <<fdOpen, tfd, ti>>
  <2>1. TypeOK'
    BY <1>1 DEF IInv, TypeOK, Authenticate, addrVars
  <2>2. \A u \in Threads : Busy(u)' <=> Busy(u)
    BY <1>1 DEF IInv, TypeOK, Authenticate, Busy
  <2>3. FdAccounting' /\ InfoNotPooled'
    BY <1>1, <2>2 DEF IInv, Authenticate, FdAccounting, InfoNotPooled, Range
  <2>4. QED
    BY <2>1, <2>3 DEF IInv, Authenticate, addrVars
<1>2. CASE AuthEnabled /\ fdOpen' = fdOpen \ {tfd[t]} /\ Done(t)
  BY <1>2, ReleaseIInv DEF Authenticate, Busy
<1>3. QED
  BY <1>1, <1>2 DEF Authenticate

(* as_node_put_connection queues the socket unless conn_q is full.        *)
LEMMA PutConnectionIInv ==
    ASSUME IInv, NEW t \in Threads, PutConnection(t)
    PROVE  IInv'
<1> DEFINE f == tfd[t]
<1>1. CASE Len(pool) < PoolLimit
  <2>1. f \in Fds /\ f \notin Range(pool) /\ f # infoFd
    BY DEF IInv, TypeOK, FdAccounting, PutConnection, Done, Busy
  <2>2. pool' = Append(pool, f) /\ UNCHANGED fdOpen
    BY <1>1 DEF PutConnection
  <2>3. /\ pool' \in Seq(Fds) /\ Len(pool') = Len(pool) + 1
        /\ \A k \in DOMAIN pool : pool'[k] = pool[k]
        /\ pool'[Len(pool) + 1] = f
        /\ DOMAIN pool' = DOMAIN pool \cup {Len(pool) + 1}
        /\ Range(pool') = Range(pool) \cup {f}
    BY <2>1, <2>2, AppendFacts DEF IInv, TypeOK
  <2>4. \A u \in Threads : Busy(u)' <=> (Busy(u) /\ u # t)
    BY DEF IInv, TypeOK, PutConnection, Done, Busy
  <2>5. \A u \in Threads \ {t} : tfd'[u] = tfd[u]
    BY DEF IInv, TypeOK, PutConnection, Done
  <2>6. \A u \in Threads : Busy(u) /\ u # t => tfd[u] # f
    BY DEF IInv, FdAccounting, PutConnection, Busy
  <2>7. BusyFds' = BusyFds \ {f} /\ f \in BusyFds
    BY <2>4, <2>5, <2>6 DEF BusyFds, PutConnection, Busy
  <2>8. TypeOK'
    <3>1. Len(pool') <= PoolLimit
      BY <1>1, <2>3, NodeConnAssumption DEF IInv, TypeOK
    <3>2. QED
      BY <2>3, <3>1 DEF IInv, TypeOK, PutConnection, Done, addrVars
  <2>9. \A j, k \in DOMAIN pool' : pool'[j] = pool'[k] => j = k
    BY <2>1, <2>3 DEF IInv, TypeOK, FdAccounting, Range
  <2>10. \A u \in Threads : Busy(u)' => tfd'[u] \notin Range(pool') \cup {infoFd'}
    BY <2>3, <2>4, <2>5, <2>6 DEF IInv, FdAccounting, PutConnection
  <2>11. \A u, w \in Threads : Busy(u)' /\ Busy(w)' /\ tfd'[u] = tfd'[w] => u = w
    BY <2>4, <2>5 DEF IInv, FdAccounting
  <2>12. fdOpen' = Range(pool') \cup BusyFds' \cup ({infoFd'} \ {NoFd})
    <3>1. fdOpen = Range(pool) \cup BusyFds \cup ({infoFd} \ {NoFd})
      BY DEF IInv, FdAccounting, BusyFds
    <3>2. QED
      BY <2>2, <2>3, <2>7, <3>1 DEF PutConnection
  <2>13. InfoNotPooled'
    BY <2>1, <2>3 DEF IInv, InfoNotPooled, PutConnection
  <2>14. QED
    <3>1. cap' \in Nat
      BY DEF IInv, PutConnection, addrVars
    <3>2. QED
      BY <2>8, <2>9, <2>10, <2>11, <2>12, <2>13, <3>1 DEF IInv, FdAccounting, BusyFds
<1>2. CASE ~(Len(pool) < PoolLimit)
  BY <1>2, ReleaseIInv DEF PutConnection, Busy
<1>3. QED
  BY <1>1, <1>2

-----------------------------------------------------------------------------
(* as_node_get_connection pops the top socket of conn_q.  It was owned by *)
(* that slot alone, so it is open, not the info socket and held by no     *)
(* thread; is_connected never reports a bad handle for it, and it is      *)
(* either handed to the thread or closed.                                 *)
LEMMA GetPooledIInv ==
    ASSUME IInv, NEW t \in Threads, GetPooled(t)
    PROVE  IInv'
<1> DEFINE fd == Top(pool)
           rest == Pop(pool)
<1>1. pool \in Seq(Fds) /\ pool # <<>>
  BY DEF IInv, TypeOK, GetPooled
<1>2. /\ rest \in Seq(Fds) /\ Len(rest) = Len(pool) - 1 /\ fd \in Fds
      /\ \A k \in DOMAIN rest : rest[k] = pool[k]
      /\ Range(pool) = Range(rest) \cup {fd}
  BY <1>1, PopFacts
<1>3. fd \notin Range(rest)
  <2>1. Len(pool) \in DOMAIN pool /\ fd = pool[Len(pool)]
    BY <1>1 DEF Top
  <2>2. \A k \in DOMAIN rest : k \in DOMAIN pool /\ k # Len(pool)
    BY <1>1, <1>2
  <2>3. QED
    BY <1>2, <2>1, <2>2 DEF IInv, FdAccounting, Range
<1>4. \A j, k \in DOMAIN rest : rest[j] = rest[k] => j = k
  BY <1>1, <1>2 DEF IInv, FdAccounting
<1>5. /\ fd \in fdOpen /\ fd # infoFd /\ fd \notin BusyFds
      /\ fdOpen = Range(rest) \cup {fd} \cup BusyFds \cup ({infoFd} \ {NoFd})
  BY <1>2 DEF IInv, FdAccounting, InfoNotPooled, BusyFds
<1>6. ~Busy(t) /\ pool' = rest /\ IsConnected(fd) # "CONNECTED_BADFD"
  <2>1. ~Busy(t) /\ pool' = rest
    BY DEF GetPooled, Busy
  <2>2. peer[fd] \in PeerStates
    BY <1>2 DEF IInv, TypeOK
  <2>3. IsConnected(fd) \in {"CONNECTED", "CONNECTED_NOT", "CONNECTED_ERROR"}
    BY <1>5, <2>2 DEF IsConnected, PeerStates
  <2>4. QED
    BY <2>1, <2>3
<1>7. /\ pool' \in Seq(Fds) /\ Len(pool') <= PoolLimit
      /\ tseen' \in [Threads -> PeerStates]
  <2>1. Len(pool') <= PoolLimit
    BY <1>2, <1>6, NodeConnAssumption DEF IInv, TypeOK
  <2>2. tseen' = [tseen EXCEPT ![t] = peer[fd]]
    BY <1>5 DEF GetPooled
  <2>3. tseen' \in [Threads -> PeerStates]
    BY <1>2, <2>2 DEF IInv, TypeOK
  <2>4. QED
    BY <1>2, <1>6, <2>1, <2>3
<1>8. InfoNotPooled' /\ cap' \in Nat
  BY <1>2, <1>6 DEF IInv, InfoNotPooled, GetPooled, addrVars
<1>9. CASE IsConnected(fd) = "CONNECTED"
  <2>1. tpc' = [tpc EXCEPT ![t] = "use"] /\ tfd' = [tfd EXCEPT ![t] = fd]
        /\ UNCHANGED <<fdOpen, infoFd>>
    BY <1>9 DEF GetPooled
  <2>2. \A u \in Threads : Busy(u)' <=> (Busy(u) \/ u = t)
    BY <2>1 DEF IInv, TypeOK, Busy
  <2>3. tfd'[t] = fd /\ \A u \in Threads \ {t} : tfd'[u] = tfd[u]
    BY <2>1 DEF IInv, TypeOK
  <2>4. BusyFds' = BusyFds \cup {fd}
    BY <1>6, <2>2, <2>3 DEF BusyFds
  <2>5. TypeOK'
    BY <1>2, <1>7, <2>1 DEF IInv, TypeOK, GetPooled, addrVars
  <2>6. Range(rest) \subseteq Range(pool)
    BY <1>2
  <2>7. \A u \in Threads : Busy(u)' => tfd'[u] \notin Range(pool') \cup {infoFd'}
    <3>1. \A u \in Threads \ {t} : Busy(u) => tfd[u] \notin Range(pool) \cup {infoFd}
      BY DEF IInv, FdAccounting
    <3>2. QED
      BY <1>3, <1>5, <1>6, <2>1, <2>2, <2>3, <2>6, <3>1
  <2>8. \A u, w \in Threads : Busy(u)' /\ Busy(w)' /\ tfd'[u] = tfd'[w] => u = w
    <3>1. \A u \in Threads : Busy(u) => tfd[u] # fd
      BY <1>5 DEF BusyFds
    <3>2. \A u, w \in Threads : Busy(u) /\ Busy(w) /\ tfd[u] = tfd[w] => u = w
      BY DEF IInv, FdAccounting
    <3>3. QED
      BY <1>6, <2>2, <2>3, <3>1, <3>2
  <2>9. fdOpen' = Range(pool') \cup BusyFds' \cup ({infoFd'} \ {NoFd})
    BY <1>5, <1>6, <2>1, <2>4
  <2>10. QED
    BY <1>4, <1>6, <1>8, <2>5, <2>7, <2>8, <2>9 DEF IInv, FdAccounting, BusyFds
<1>10. CASE IsConnected(fd) # "CONNECTED"
  <2>1. UNCHANGED <<tpc, tfd, infoFd>> /\ fdOpen' = fdOpen \ {fd}
    BY <1>6, <1>10 DEF GetPooled
  <2>2. TypeOK'
    BY <1>7, <2>1 DEF IInv, TypeOK, GetPooled, addrVars
  <2>3. (\A u \in Threads : Busy(u)' <=> Busy(u)) /\ BusyFds' = BusyFds
    BY <2>1 DEF Busy, BusyFds
  <2>4. fdOpen' = Range(pool') \cup BusyFds' \cup ({infoFd'} \ {NoFd})
    BY <1>3, <1>5, <1>6, <2>1, <2>3
  <2>5. \A u \in Threads : Busy(u)' => tfd'[u] \notin Range(pool') \cup {infoFd'}
    <3>1. Range(rest) \subseteq Range(pool)
      BY <1>2
    <3>2. QED
      BY <1>6, <2>1, <2>3, <3>1 DEF IInv, FdAccounting
  <2>6. \A u, w \in Threads : Busy(u)' /\ Busy(w)' /\ tfd'[u] = tfd'[w] => u = w
    BY <2>1, <2>3 DEF IInv, FdAccounting
  <2>7. QED
    BY <1>4, <1>6, <1>8, <2>2, <2>4, <2>5, <2>6 DEF IInv, FdAccounting, BusyFds
<1>11. QED
  BY <1>9, <1>10

(* as_node_create_connection with conn_q empty.  Without a free           *)
(* descriptor the request ends; otherwise the new socket is one nobody   *)
(* holds (it was closed), and the thread that made it is its only owner. *)
LEMMA CreateConnectionIInv ==
    ASSUME IInv, NEW t \in Threads, CreateConnection(t)
    PROVE  IInv'
<1>1. ~Busy(t) /\ pool = <<>> /\ UNCHANGED <<pool, infoFd>>
      /\ tseen' \in [Threads -> PeerStates] /\ cap' \in Nat
  BY DEF IInv, TypeOK, CreateConnection, Busy, PeerStates, addrVars
<1>2. Range(pool) = {} /\ InfoNotPooled'
  BY <1>1 DEF Range, InfoNotPooled
<1>3. fdOpen = BusyFds \cup ({infoFd} \ {NoFd})
  BY <1>2 DEF IInv, FdAccounting, BusyFds
<1>4. CASE FreeFds = {} /\ Done(t) /\ UNCHANGED <<fdOpen, peer, tprim>>
  <2>1. (\A u \in Threads : Busy(u)' <=> Busy(u))
        /\ \A u \in Threads \ {t} : tfd'[u] = tfd[u]
    BY <1>1, <1>4 DEF IInv, TypeOK, Done, Busy
  <2>2. BusyFds' = BusyFds
    BY <1>1, <2>1 DEF BusyFds
  <2>3. TypeOK'
    BY <1>1, <1>4 DEF IInv, TypeOK, Done, CreateConnection, addrVars
  <2>4. FdAccounting'
    BY <1>1, <1>2, <1>3, <1>4, <2>1, <2>2 DEF IInv, FdAccounting, BusyFds
  <2>5. QED
    BY <1>1, <1>2, <2>3, <2>4 DEF IInv
<1>5. CASE \E fd \in FreeFds, ok \in BOOLEAN :
             /\ fdOpen' = fdOpen \cup {fd}
             /\ peer' = [peer EXCEPT ![fd] = "up"]
             /\ tfd' = [tfd EXCEPT ![t] = fd]
             /\ tprim' = [tprim EXCEPT ![t] = <<arr, addrIndex>>]
             /\ tpc' = [tpc EXCEPT ![t] = IF ok THEN "auth" ELSE "connect"]
             /\ ti' = [ti EXCEPT ![t] = 0]
  <2>1. PICK fd \in FreeFds, ok \in BOOLEAN :
             /\ fdOpen' = fdOpen \cup {fd}
             /\ peer' = [peer EXCEPT ![fd] = "up"]
             /\ tfd' = [tfd EXCEPT ![t] = fd]
             /\ tprim' = [tprim EXCEPT ![t] = <<arr, addrIndex>>]
             /\ tpc' = [tpc EXCEPT ![t] = IF ok THEN "auth" ELSE "connect"]
             /\ ti' = [ti EXCEPT ![t] = 0]
    BY <1>5
  <2>2. fd \in Fds /\ fd \notin fdOpen /\ fd # NoFd
    BY <2>1, NodeConnAssumption DEF FreeFds
  <2>3. fd \notin BusyFds /\ fd # infoFd
    BY <1>3, <2>2
  <2>4. (\A u \in Threads : Busy(u)' <=> (Busy(u) \/ u = t))
        /\ tfd'[t] = fd /\ \A u \in Threads \ {t} : tfd'[u] = tfd[u]
    BY <2>1 DEF IInv, TypeOK, Busy
  <2>5. BusyFds' = BusyFds \cup {fd}
    BY <1>1, <2>4 DEF BusyFds
  <2>6. TypeOK'
    <3>1. tprim' \in [Threads -> Nat \X Nat]
      BY <2>1 DEF IInv, TypeOK
    <3>2. QED
      BY <1>1, <2>1, <2>2, <3>1 DEF IInv, TypeOK, PeerStates, CreateConnection, addrVars
  <2>7. \A u \in Threads : Busy(u)' => tfd'[u] \notin Range(pool') \cup {infoFd'}
    <3>1. \A u \in Threads : Busy(u) => tfd[u] # infoFd
      BY DEF IInv, FdAccounting
    <3>2. QED
      BY <1>1, <1>2, <2>3, <2>4, <3>1
  <2>8. \A u, w \in Threads : Busy(u)' /\ Busy(w)' /\ tfd'[u] = tfd'[w] => u = w
    <3>1. \A u \in Threads : Busy(u) => tfd[u] # fd
      BY <2>3 DEF BusyFds
    <3>2. QED
      BY <1>1, <2>4, <3>1 DEF IInv, FdAccounting
  <2>9. fdOpen' = Range(pool') \cup BusyFds' \cup ({infoFd'} \ {NoFd})
    BY <1>1, <1>2, <1>3, <2>1, <2>5
  <2>10. QED
    BY <1>1, <1>2, <2>6, <2>7, <2>8, <2>9 DEF IInv, FdAccounting, BusyFds
<1>6. QED
  BY <1>4, <1>5 DEF CreateConnection

-----------------------------------------------------------------------------
(* The tender's steps.                                                    *)

(* as_node_get_info_connection opens info_fd on a descriptor nobody holds *)
(* (or fails and leaves it at -1); an answering alias becomes the hint.   *)
LEMMA InfoConnectIInv ==
    ASSUME IInv, InfoConnect
    PROVE  IInv'
<1>1. PICK fd \in FreeFds, i \in 0..(naddrs - 1), ok \in BOOLEAN :
         /\ addrIndex' = i
         /\ IF ok THEN /\ infoFd' = fd
                       /\ fdOpen' = fdOpen \cup {fd}
                       /\ peer' = [peer EXCEPT ![fd] = "up"]
                  ELSE UNCHANGED <<infoFd, fdOpen, peer>>
  BY DEF InfoConnect
<1>2. /\ UNCHANGED <<pool, tpc, tfd, tprim, ti, tseen, naddrs, cap, arr, freedArrs>>
      /\ infoFd = NoFd
      /\ BusyFds' = BusyFds /\ \A u \in Threads : Busy(u)' <=> Busy(u)
  BY DEF InfoConnect, threadVars, BusyFds, Busy
<1>3. fd \in Fds /\ fd \notin Range(pool) /\ fd \notin BusyFds
  BY DEF FreeFds, IInv, FdAccounting, BusyFds
<1>4. TypeOK'
  <2>1. addrIndex' \in 0..(naddrs' - 1)
    BY <1>1, <1>2
  <2>2. peer' \in [Fds -> PeerStates] /\ infoFd' \in Fds \cup {NoFd}
        /\ fdOpen' \subseteq Fds
    <3>1. CASE ok
      <4>1. infoFd' = fd /\ fdOpen' = fdOpen \cup {fd}
            /\ peer' = [peer EXCEPT ![fd] = "up"]
        BY <1>1, <3>1
      <4>2. QED
        BY <1>3, <4>1 DEF IInv, TypeOK, PeerStates
    <3>2. CASE ~ok
      BY <1>1, <3>2 DEF IInv, TypeOK
    <3>3. QED
      BY <3>1, <3>2
  <2>3. QED
    BY <1>2, <2>1, <2>2 DEF IInv, TypeOK, InfoConnect
<1>5. CASE ok
  <2>1. infoFd' = fd /\ fdOpen' = fdOpen \cup {fd}
    BY <1>1, <1>5
  <2>2. fdOpen' = Range(pool') \cup BusyFds' \cup ({infoFd'} \ {NoFd})
    BY <1>2, <1>3, <2>1, NodeConnAssumption DEF IInv, FdAccounting, BusyFds
  <2>3. \A u \in Threads : Busy(u)' => tfd'[u] \notin Range(pool') \cup {infoFd'}
    BY <1>2, <1>3, <2>1 DEF IInv, FdAccounting, BusyFds
  <2>4. QED
    BY <1>2, <1>3, <1>4, <2>1, <2>2, <2>3 DEF IInv, FdAccounting, BusyFds, InfoNotPooled
<1>6. CASE ~ok
  <2>1. UNCHANGED <<infoFd, fdOpen>>
    BY <1>1, <1>6
  <2>2. QED
    BY <1>2, <1>4, <2>1 DEF IInv, FdAccounting, BusyFds, InfoNotPooled
<1>7. QED
  BY <1>5, <1>6

(* as_node_close_info_connection: info_fd was the tender's alone.        *)
LEMMA InfoCloseIInv ==
    ASSUME IInv, InfoClose
    PROVE  IInv'
<1>1. /\ UNCHANGED <<pool, tpc, tfd, cap>>
      /\ BusyFds' = BusyFds /\ \A u \in Threads : Busy(u)' <=> Busy(u)
  BY DEF InfoClose, threadVars, addrVars, BusyFds, Busy
<1>2. infoFd \notin Range(pool) /\ infoFd \notin BusyFds /\ infoFd # NoFd
  BY DEF IInv, InfoNotPooled, FdAccounting, BusyFds, InfoClose
<1>3. TypeOK'
  BY NodeConnAssumption DEF IInv, TypeOK, InfoClose, threadVars, addrVars
<1>4. fdOpen' = Range(pool') \cup BusyFds' \cup ({infoFd'} \ {NoFd})
  BY <1>1, <1>2 DEF IInv, FdAccounting, BusyFds, InfoClose
<1>5. \A u \in Threads : Busy(u) => tfd[u] \in Fds
  BY DEF IInv, TypeOK, FdAccounting
<1>6. \A u \in Threads : Busy(u)' => tfd'[u] \notin Range(pool') \cup {infoFd'}
  BY <1>1, <1>5, NodeConnAssumption DEF IInv, FdAccounting, InfoClose
<1>7. \A u, w \in Threads : Busy(u)' /\ Busy(w)' /\ tfd'[u] = tfd'[w] => u = w
  BY <1>1 DEF IInv, FdAccounting
<1>8. InfoNotPooled'
  BY <1>1, NodeConnAssumption DEF IInv, TypeOK, InfoNotPooled, InfoClose, Range
<1>9. QED
  BY <1>1, <1>3, <1>4, <1>6, <1>7, <1>8 DEF IInv, FdAccounting, BusyFds

(* as_node_destroy with every thread idle: the queue is drained and each *)
(* descriptor closed, then the info socket; nothing stays open.          *)
LEMMA DestroyIInv ==
    ASSUME IInv, Destroy
    PROVE  IInv'
<1>1. BusyFds = {} /\ BusyFds' = {} /\ \A u \in Threads : ~Busy(u)'
  BY DEF Destroy, threadVars, BusyFds, Busy
<1>2. fdOpen' = {} /\ pool' = <<>> /\ infoFd' = NoFd
  BY <1>1 DEF IInv, FdAccounting, BusyFds, Destroy, Range
<1>3. TypeOK'
  BY <1>2, NodeConnAssumption DEF IInv, TypeOK, Destroy, threadVars, addrVars
<1>4. QED
  BY <1>1, <1>2, <1>3 DEF IInv, FdAccounting, BusyFds, InfoNotPooled, Range,
                          Destroy, addrVars

-----------------------------------------------------------------------------
(* Every step of the node's threads, its tender and the peers keeps IInv. *)
LEMMA NextIInv == IInv /\ [Next]_vars => IInv'
<1> SUFFICES ASSUME IInv, [Next]_vars PROVE IInv'
  OBVIOUS
<1>1. ASSUME NEW t \in Threads, Begin(t) \/ Working(t) PROVE IInv'
  BY <1>1, BeginIInv, GetPooledIInv, CreateConnectionIInv, TryAliasIInv,
     ConnectFailedIInv, AuthenticateIInv, PutConnectionIInv,
     CloseConnectionIInv DEF Working
<1>2. CASE Tender
  BY <1>2, InfoConnectIInv, InfoCloseIInv, AddAddressIInv, DestroyIInv DEF Tender
<1>3. ASSUME NEW fd \in Fds, PeerEvent(fd) PROVE IInv'
  BY <1>3, PeerEventIInv
<1>4. CASE UNCHANGED vars
  BY <1>4 DEF vars, threadVars, addrVars, IInv, TypeOK, FdAccounting,
              InfoNotPooled, Range, Busy
<1>5. QED
  BY <1>1, <1>2, <1>3, <1>4 DEF Next

(* IInv holds in every reachable state, for every set of threads and     *)
(* descriptors and every bound.                                           *)
THEOREM IInvHolds == Spec => []IInv
<1>1. Init => IInv
  BY InitIInv
<1>2. IInv /\ [Next]_vars => IInv'
  BY NextIInv
<1>3. QED
  BY <1>1, <1>2, PTL DEF Spec

(* Every reachable state of as_node.c's connection handling is well      *)
(* typed: conn_q holds at most its limit of descriptors, address_index  *)
(* is an index into the address vector and size never exceeds capacity. *)
THEOREM TypeCorrect == Spec => []TypeOK
<1>1. IInv => TypeOK
  BY DEF IInv
<1>2. QED
  BY <1>1, IInvHolds, PTL

(* The descriptor accounting of as_node.c holds for every instance: every *)
(* open socket is owned by exactly one of a conn_q slot, one busy request *)
(* thread or the tender's info_fd; none leaks and none is closed while   *)
(* owned, across the pool, connection failover, authentication, the info *)
(* socket and as_node_destroy.                                            *)
THEOREM FdAccountingHolds == Spec => []FdAccounting
<1>1. IInv => FdAccounting
  BY DEF IInv
<1>2. QED
  BY <1>1, IInvHolds, PTL
=============================================================================
