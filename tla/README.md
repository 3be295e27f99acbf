# TLA+ models of the Aerospike C client's cluster and node code

This directory holds TLA+ models of the parts of the client under `src/` where
threads interact: the cluster's node array and its tend cycle
(`src/src/main/aerospike/as_cluster.c`), a node's sockets and its refresh
protocol (`src/src/main/aerospike/as_node.c`), and the process-wide random byte
buffer (`src/modules/common/src/main/citrusleaf/cf_random.c`). It also models the
byte-order macros of `src/modules/common/src/include/citrusleaf/cf_byte_order.h`
as built on the big-endian hosts. It has TLC configurations that model-check small
instances, and TLAPS proofs: the node-array model's type invariant, that the random
buffer implements an abstract pool of fresh bytes, and what the 16- and 32-bit
byte-swap macros compute.

## The system

An `as_cluster` owns an array of `as_node` pointers, `cluster->nodes`. It has one
tender thread and any number of application threads.

- **Tender** (`as_cluster_tender`). Every tend interval it runs `as_cluster_tend`:
  1. Release everything on `cluster->gc` (`as_cluster_gc`).
  2. If the array is empty, seed it.
  3. Fetch the partition count once.
  4. Refresh every active node (`as_node_refresh`). A refresh may deactivate a node
     whose server now answers with another name, and it collects the friends the
     node gossips.
  5. Create nodes for new friends (`as_cluster_find_nodes_to_add`).
  6. Choose the nodes to remove (`as_cluster_find_nodes_to_remove`).
  7. Remove them, then add the new ones.

  The tender never edits a published array. It builds a copy (`as_nodes_create`),
  stores it (`set_nodes`), and appends the cluster's reference to the old array,
  and to every removed node, to `cluster->gc`. That vector is released one interval
  later.
- **Application threads.** `as_node_get_random`, `as_node_get_by_name`,
  `as_cluster_get_node_names` and `as_cluster_is_connected` reserve the array
  (`as_nodes_reserve`: load the pointer, then increment its count). They pick a node
  and reserve it, then release the array. The command uses the node's connection
  pool (`as_node_get_connection` / `as_node_put_connection`) and finally releases
  the node.
- **Random bytes.** `cf_get_rand_buf`, `cf_get_rand64` and `cf_get_rand32` take
  bytes from one static buffer, `rand_buf`, under `rand_buf_lock`. The unread bytes
  lie below `rand_buf_off`. When too few are left, `cf_rand_reload` refills the
  whole buffer with `RAND_bytes`. The first refill seeds OpenSSL from
  `/dev/urandom`.
- **Byte order.** On PowerPC and HP-UX (`__PPC__ || __hpux`) the host is
  big-endian. `cf_swap_to/from_be*` are the identity, and `cf_swap_to/from_le*`
  are `___my_swab16/32/64`, which mask each byte and shift it to the mirrored
  position.
- **One node.** A node has:
  - a pool of idle sockets (`conn_q`);
  - a vector of addresses that the tender appends to (`as_node_add_address`);
  - one info socket that only the tender uses (`as_node_refresh`).

## Modules

| Module | Models | State ↔ code |
|---|---|---|
| `NodeSet` | as_cluster.c: the tend cycle, publication, gc, readers | `members[i]` is the node array `i`, kept as a set of node objects. `current` is `cluster->nodes`. `setRef` / `nodeRef` are the ref counts. `gcSets` / `gcNodes` are `cluster->gc`. `toAdd` is `nodes_to_add`. `victim` is the node a single-node reseed replaces. `tpc` is the tender's place in `as_cluster_tend`. `rpc`, `rset`, `rtries` and `rnode` are an application thread's place, its reserved array, its loop counter and the node it holds. |
| `NodeSetProofs` | TLAPS proof of `NodeSet`'s type invariant | — |
| `NodeSetRefProofs` | TLAPS proofs of `NodeSet`'s exact reference counts and of no use after free | — |
| `NodeConn` | as_node.c: pool, connect and failover, authentication, info socket, address growth, destroy | `pool` is `conn_q`, a stack. `fdOpen` is the process's open descriptors. `peer` is the far end of each one. `naddrs`, `cap` and `arr` are the address vector. `tprim` is a thread's `primary` pointer. `infoFd` is `node->info_fd`. |
| `NodeRefresh` | as_node.c: `as_node_refresh` and the info exchanges | `reqs` and `replies` are the bytes on the info socket in each direction. `tpc` is the refresh's place. `nodeGen` is `node->partition_generation`. `tables` is the generation of the replica lists applied. `gossip` is the names whose services list was read. |
| `NodeRefreshProofs` | TLAPS proofs of `NodeRefresh`'s type and safety invariants | — |
| `RandPool` | what the random functions promise: an abstract pool of fresh bytes | `pool` is the unread bytes. `issued` is every byte handed out. `got` is what the last call received. |
| `CfRandom` | cf_random.c, the build without `__APPLE__` | `rand_buf_off`, `seeded` as in the code. `fills` counts successful refills; a byte is named `<<fill, position>>`. `openFds` is descriptors of `/dev/urandom` left open. `issued`, `got` and `ret` record what callers received. `Pool` maps the unread bytes to `RandPool`'s `pool`. |
| `CfRandomProofs` | TLAPS proofs of `CfRandom`'s type invariant and refinement | — |
| `ByteOrder` | cf_byte_order.h, the `__PPC__ \|\| __hpux` block | No state. A value is a natural number; `UInt(w, x)` is the cast to `u_intW_t`, `MaskByte` the `& 0x..ff..` mask, `Shl` / `Shr` the shifts, and the OR of disjoint masked bytes is their sum. `Swab16/32/64` are the three macros and `SwapTo/FromBE/LE*` the `cf_swap_*` macros. `ByteOf` and `StoredBE` are the reference: byte `i` of a value, and the byte a big-endian host stores at an address offset. |
| `ByteOrderProofs` | TLAPS proofs of what `ByteOrder`'s 16- and 32-bit macros compute | — |
| `MC_*` | TLC instances | Model values for threads, nodes, servers and descriptors. |

Every action models one whole handler or one step of a loop, with its guard from
the code's conditions and early returns. In `NodeSet`:

| Action | Code it models |
|---|---|
| `Gc` | `as_cluster_gc` |
| `SeedNodes`, `NoSeed` | `as_cluster_seed_nodes` and the early return |
| `SetPartitionSize` | `as_cluster_set_partition_size` |
| `RefreshNodes` | the refresh loop and `verify_name`'s deactivation |
| `FindNodesToAdd` | `as_cluster_find_nodes_to_add` |
| `ReseedSingle` | the size-1 case of `as_cluster_find_nodes_to_remove`, which publishes through `as_cluster_seed_nodes` |
| `RemoveNodes`, `NoRemoval` | `as_cluster_remove_nodes` and `_copy` |
| `AddNodes`, `NoAddition` | `as_cluster_add_nodes` |
| `Sleep` | the timed wait of `as_cluster_tender` |
| `Load`, `Reserve` | the two halves of `as_nodes_reserve` |
| `PickNode`, `SkipNode`, `NoneFound` | `as_node_get_random`'s loop |
| `GetByName` | `as_node_get_by_name` |
| `ReleaseOnly` | `get_node_names`, `is_connected`, or a name that is not found |
| `Finish` | `as_node_release` |

In `CfRandom`, each public function is one action, because its whole body holds
`rand_buf_lock`:

| Action / helper | Code it models |
|---|---|
| `GetRandBuf(len)` | `cf_get_rand_buf`, including the `(uint)len` test before the lock |
| `GetRand64`, `GetRand32` | `cf_get_rand64`, `cf_get_rand32` (both take `sizeof(uint64_t)` bytes) |
| `Draw(len)` | the locked body the three share: refill if short, return the failure value if the refill fails, then take `len` bytes |
| `ReloadOK`, `ReloadFail` | `cf_rand_reload`'s outcomes: open fails, short read (descriptor left open), `RAND_bytes` fails, success |
| `TakeUnread`, `HandOut` | `rand_buf_off -= len` on a 32-bit unsigned offset, and the `memcpy` |

`PROJECT.json` maps every definition to the lines it translates.

Abstractions:

- **Array order.** It is dropped. Other threads advance the shared `node_index`
  (`ck_pr_faa_32`), so each try of `as_node_get_random` may land on any slot.
- **Removal policy.** A node's failure and friend counters are abstracted. The
  removal policy may pick any active node of a cluster of two or more nodes; every
  inactive node is removed. A lone active node goes only through a reseed.
- **Names.** A node's name is the constant `NodeServer[n]`.
- **Random bytes.** Their values are left out; a byte is named by the refill that
  produced it and its position. A refill's seed bytes never reach a caller, because
  the offset is 0 until `RAND_bytes` succeeds. The unsigned width of `rand_buf_off`
  is the constant `UintMod`. It is 2^32 in the code; the run uses 2^16 because TLC's
  integers are 32-bit signed, and only the wrap matters.
- **Spec-based parts.** `as_nodes_reserve`/`release` and `as_node_reserve`/`release`
  are inline functions in a header that is not under `src/`; they follow spec §4.1
  and are marked `spec_modelled`. So are `cf_queue` (a stack) and the callers of
  the connection API.

## Runs

| Run | Result | What it shows |
|---|---|---|
| `nodeset_safety` | pass, ~700k states, ~35 s | With three threads, four node objects of two servers and six arrays, `RefCountExact` and `NoUseAfterFree` hold. `RefCountExact`: every count equals the cluster's reference plus one per holding thread, and a structure is freed exactly at zero. `NoUseAfterFree`: no thread touches a freed array or node. Both hold under `GraceAssumed`: every request that was in flight when the tender went to sleep ends before the next `as_cluster_gc`. |
| `nodeset_live` | pass | `RetiredEventuallyFreed`: every retired array and node is eventually freed, or the model has used up its `MaxSets` arrays. |
| `nodeset_no_grace` | violation | Without the grace assumption, a thread between the two halves of `as_nodes_reserve` touches a freed array. The code's own comment (as_cluster.c:541-545) admits this; spec §8 does not. |
| `nodeset_slow_reader` | violation | A thread that keeps an array reserved for two cycles sees a removed node of it freed. The gc releases nodes regardless of the arrays that list them. |
| `nodeset_dup_names` | violation | `as_cluster_find_nodes_to_add` checks a friend's name only against `cluster->nodes`. A new server reported under two addresses therefore becomes two nodes with one name. The trace: seed `n1`, one refresh reports `n3` and `n4` of server `sB`, and both are added. |
| `nodeconn_safety` | pass | `FdAccounting`: every open descriptor has exactly one owner (a pool slot, a thread or `info_fd`), none leaks, and nothing is open after `as_node_destroy`. The run covers two threads, three descriptors, pool limit 1, up to three addresses and two peer events. |
| `nodeconn_live` | pass | `AcquireCompletes`: the loops of `as_node_get_connection` and the alias loop end. |
| `nodeconn_primary_pointer` | violation | The failure log at as_node.c:236 reads `primary->name` after `as_node_add_address` may have moved the address array with `realloc`. |
| `nodeconn_pooled_peer` | violation | `is_connected` accepts a socket with unread bytes even when the peer then closed it (as_node.c:174). |
| `noderefresh_safety` | pass | `NoStrayReply`: a failed exchange closes the info socket, so no late reply is read by the next request. `TablesMatchGeneration`: the recorded generation changes only together with the replica tables. `GossipOnlyFromVerified`: gossip is only taken from replies whose name verified. `TablesEventuallyCurrent`: once faults stop, an active node's tables reach the server's generation. |
| `random_pool` | pass, ~700 states | `RandPoolRefined`: `CfRandom` implements `RandPool`, under the mapping of the unread bytes below `rand_buf_off` to the pool. So every call gets unread bytes of the current fill, or bytes of a fill nobody has seen, and never a byte an earlier call got. The run covers a 6-byte buffer, 2-byte words, the lengths -1, 0, 1, 5 and 6, three refills and every outcome of `cf_rand_reload`. |
| `random_fd_leak` | violation | `NoFdLeak`: when `read` from `/dev/urandom` is short, `cf_rand_reload` returns at cf_random.c:58 without `close(rfd)`. `seeded` stays 0, so every later call leaks another descriptor. |

**Bounds.** Six arrays is enough for a full cycle of every kind: a seed, a reseed
plus removal, removal plus addition, and a restart of a server as a fresh node
object, while three threads sit at different points of `as_nodes_reserve`. Two
node objects per server let the duplicate and restart cases happen. `NodeRefresh`
uses generations modulo 4 and at most 2 changes, 2 renames and 3 faults. That
reaches every branch of `process_response`. `CfRandom`'s lengths include:
- a negative one, refused by the cast;
- 0;
- an odd one, which leaves a remainder;
- 5, which no longer fits after one word;
- `BufSz`, refused.

Three refills make a refill happen while bytes of the old fill are still unread.

**Deadlock.** Deadlock checking is off only in `NodeConn`, where nothing runs after
`as_node_destroy`, and in `NodeRefresh`, where a deactivated node is never
refreshed again. `CfRandom` never stops: a refused or failing call is always
possible.

**Fairness.** The tender gets weak fairness: it wakes every interval, and each of
its steps is bounded by socket deadlines. A thread that has started a request gets
weak fairness for its remaining steps. Nothing forces a thread to start a request,
and nothing forces a fault or a cluster change. In `NodeRefresh` the server
answers every request it receives.

**Mutants.** Each property of a passing run is broken by one seeded fault that a
plausible bug would introduce, listed in `PROJECT.json`:

- a dropped capacity check;
- an array released at once instead of queued;
- a gc that forgets its releases;
- a missing `as_nodes_release` on the no-node path;
- a socket not closed after a failed connect;
- a pool limit ignored;
- a dead socket put back;
- a kept info socket;
- a generation recorded too early;
- a missing `break`;
- a missing prole branch;
- an off-by-one initial generation;
- a refill failure that does not return early;
- `cf_get_rand32` moving the offset by 4 bytes while it reads 8.

## Proofs

The type invariants of `NodeSet` and `NodeRefresh` are not run properties: every
action of those models writes values of the right type whatever the code's
control does, so no plausible slip in the code breaks them. They are proved
instead, and serve as the typing half of the inductive invariants below.

`NodeSetProofs.tla` proves `THEOREM TypeCorrect == Spec => []TypeOK` for every
value of the constants, assuming `NodeSetAssumption`:

- `MaxSets` is a positive natural number;
- `NoNode` is not a node;
- `NodeServer` maps nodes to servers.

`TypeOK` is inductive as it stands because it includes two facts:

- every thread that has loaded an array holds one of the arrays built so far
  (`rset[r] \in 1..nsets`);
- a thread holding a node holds a real node.

The proof has one step per action. It rests on five lemmas:

- `PublishType`: `set_nodes` keeps arrays and counts typed and only grows the set
  of built arrays.
- `CreateNodesType`, `ReleaseSetsType` and `ReleaseNodesType`: the other helpers
  preserve types.
- `CurrentInNodes`: the current array holds nodes.

`tlapm NodeSetProofs.tla` checks it from scratch in about 40 seconds.

`CfRandomProofs.tla` proves, for every buffer size, word size, set of request
lengths and bound, assuming `CfRandomAssumption` (`0 < WordSz < BufSz < UintMod`):

- `THEOREM Refinement == Spec => RandPoolRefined`: the buffer implements the pool
  of fresh bytes.
- `THEOREM TypeCorrect == Spec => []TypeOK`.

Both rest on `THEOREM InvHolds == Spec => []Inv`. The refinement is not inductive
by itself: a refill must produce bytes no caller has seen, and taking bytes must
not hand out one handed out before. The inductive invariant `Inv` adds three facts
to `TypeOK`:

- `IssuedFromPastFills`: every handed-out byte is of a refill that has happened.
- `UnreadNotIssued`: no unread byte of the current fill has been handed out.
- `NothingBeforeFirstFill`: the offset is 0 until the first refill.

TLC checks `Inv` on the run's instance.

The step proof has one lemma per path of the locked body: `TakeStep`,
`ReloadFailStep`, `RefillStep`, and `RefuseStep` for a refused length. `DrawStep`
and `NextStep` combine them. Each shows `Inv'` and the matching `RandPool` step:
`Take`, `Fail` or `RefillTake`. `NoWrap` shows that the unsigned subtraction never
wraps on the code's path. It checks from scratch in a few seconds.

`ByteOrderProofs.tla` proves, for every value of the type:

- `THEOREM SwapToLE16Layout` and `THEOREM SwapToLE32Layout`: the byte a big-endian
  host stores at offset `a` of `cf_swap_to_le16(v)` or `cf_swap_to_le32(v)` is byte
  `a` of `v`. The value lands in memory least significant byte first.
- `THEOREM SwapRoundTrip32`: `cf_swap_from_le32(cf_swap_to_le32(v)) = v`.

The argument has three steps:

1. `Swab32Sum` rewrites the macro as the sum of the bytes of `v`, byte `k` weighted
   `256^(3-k)`. It unfolds each mask to `ByteOf(v, k) * 256^k` and shows that no
   shift overflows the 32-bit result.
2. `Swab32Bytes` reads the bytes of that sum back with `\div` and `%`.
3. `Bytes32` says a value is the sum of its bytes, which closes the round trip.

`Swab16Bytes` is proved directly by SMT. The 64-bit macro is not proved: the
provers do not evaluate powers of two beyond about 2^36, and TLC's 32-bit integers
cannot evaluate it either. The file checks in seconds.

`NodeConnProofs.tla` proves, for every set of threads and descriptors and every
bound, assuming `NodeConnAssumption` (`NoFd` is not a descriptor, the limits are
natural numbers, `PoolLimit` and `MaxAddrs` are positive):

- `THEOREM FdAccountingHolds == Spec => []FdAccounting`: every open descriptor has
  exactly one owner, which is a slot of `conn_q`, one busy request thread, or the
  tender's `info_fd`. No path leaks a socket, hands one out twice, or closes one
  that is still owned.
- `THEOREM TypeCorrect == Spec => []TypeOK`.

Both rest on `THEOREM IInvHolds == Spec => []IInv`. `FdAccounting` is not
inductive by itself. It says a busy thread's socket is not `info_fd`, but it does
not say that `info_fd` is not also queued in `conn_q`. In a state where it is,
`as_node_close_info_connection` would close a pooled socket and break the
accounting. `IInv` therefore adds two facts:

- `InfoNotPooled`: `info_fd` is never in the queue.
- `cap \in Nat`: the capacity doubling in `as_vector_append` is arithmetic.

TLC checked `IInv` as an invariant on the `nodeconn_safety` instance: 1,139,608
distinct states and no violation.

The step proof has one lemma per action. Two lemmas about the stack are cited
wherever it changes: `PopFacts` (what `Pop` and `Top` leave) and `AppendFacts`
(what `Append` adds).

`ReleaseIInv` covers the four ways a busy thread closes its socket and ends:

- the alias loop fails;
- the login fails;
- the command fails;
- the queue is full on a put.

In each case the descriptor leaves the busy set and the open set together.

`GetPooledIInv` uses uniqueness in the queue: the popped socket was owned by that
slot alone. It is therefore open, is not `info_fd`, and no thread holds it, so
`is_connected` never reports a bad handle for it.

`CreateConnectionIInv` and `InfoConnectIInv` use the accounting equation: a free
descriptor is owned by nobody.

`tlapm NodeConnProofs.tla` checks its 542 obligations from scratch in about a
minute.

`NodeSetRefProofs.tla` proves, for every set of threads, nodes and servers and
every bound on the number of arrays, assuming `GraceAssumed`:

- `THEOREM RefCountExactHolds == ASSUME GraceAssumed PROVE Spec => []RefCountExact`.
- `THEOREM NoUseAfterFreeHolds == ASSUME GraceAssumed PROVE Spec => []NoUseAfterFree`.

`GraceAssumed` means every request in flight when the tender slept has ended
before the next `as_cluster_gc`. The assumption is needed. Without it, a thread
that loaded `cluster->nodes` just before the swap reserves an array that the gc
has already freed. `NodeSetAssumption` also requires the set of threads to be
finite, so that a count can be a cardinality.

`RefCountExact` is not inductive as it stands. It counts references but says
nothing of:

- which array a thread loaded;
- how the gc vector relates to `cluster->nodes`;
- where the tender is in its cycle.

`RefInvHolds` proves `Spec => [](TypeOK /\ RefInv)`. `RefInv` adds these facts:

- `LoadedHeld`: a loaded array is `cluster->nodes` or on the gc vector. So it
  still has the cluster's reference when the thread increments its count.
- `GcWaitsForReaders` and `StaleBusy`: at the start of a gc, a thread using a
  retired array is one of the threads in flight when the tender slept, and those
  threads are still busy. With the grace interval none remains, so the gc drops a
  retired array's count from 1 to 0.
- `SetsApart`: `cluster->nodes` is never on the gc vector, and only arrays already
  built are on it or freed.
- `NodesApart`: the cluster holds a node through one path only: `cluster->nodes`,
  `nodes_to_add`, or the gc vector. `nodes_to_add` is empty outside the remove and
  add steps.
- `UnbornUnused`: no array, list or thread refers to a node not created yet. So
  `as_node_create` starts a node at exactly the cluster's one reference.
- `RetiredMembersHeld`: the nodes of `cluster->nodes` and of every retired array
  are still held by the cluster. This gives `ReservedSnapshotNodesLive`.

TLC checked `TypeOK /\ RefInv` as an invariant on the `nodeset_safety` instance:
695,711 distinct states and no violation.

The step proof has one lemma per action, and a few are shared:

- `QuietStep`: the steps that change no count.
- `SetRelease` and `TakeNode`: a thread drops its array or takes a node.
- `PublishSets`: the copy-on-write `set_nodes`.
- `CreateNodesOK` and `CreatePublish`: node creation, and seeding and reseeding.

`GcRef` is the only step that uses `GraceAssumed`. `NoUseAfterFree` then follows
state by state (`SafeFromRef`): a loaded array has count at least 1, and a held or
snapshot node is born and has count at least 1.

`tlapm NodeSetRefProofs.tla` checks its 936 obligations.

`NodeRefreshProofs.tla` proves, for every generation width `GenMod` and every
bound on faults, renames and generation changes:

- `TypeCorrect`;
- `NoStrayReplyHolds`;
- `TablesMatchGenerationHolds`;
- `GossipOnlyFromVerifiedHolds`.

All four rest on `IInvHolds`. `IInv` is the conjunction of the four invariants
that `noderefresh_safety` checks, with `TypeOK`; together they are inductive, with no
strengthening. The order of the argument:

1. `SocketShape`, which is `NoStrayReply` read backwards: outside a wait the
   socket is empty. During a wait it holds the awaited request or its one reply.
2. So a reply read in `waitReplicas` has the replicas fields (`ReadShape`), and
   `as_node_process_partitions` sets the generation and both lists from it
   together.
3. `ServicesOnlyVerified`: `as_node_process_response` stops at a `"node"` field
   whose name fails, before `"services"`.

To make the proof possible, `NodeRefresh` no longer extends `SequencesExt`:

- It defines `Contains` as the library does.
- `BreakAt` takes the least stopping index directly instead of through
  `SelectInSeq`.

The meaning is unchanged: `noderefresh_safety` reaches the same 4,904 states.
`tlapm NodeRefreshProofs.tla` checks its 349 obligations.

What stays with TLC:

- **Liveness.** `RetiredEventuallyFreed`, `AcquireCompletes` and
  `TablesEventuallyCurrent` are beyond the prover.
- **`NodeSet` without the grace interval.** The theorems assume `GraceAssumed`.
  What happens without it is shown by a TLC run, not by a proof.

## Not modelled

- **`aerospike_llist.c`.** Stateless wrappers around one UDF call each.
- **`as_config.c`.** Field assignments.
- **The services-string parser and partition tables.** `as_node_add_friends` and
  `as_cluster_find_friend` (as_node.c:437-509) parse the services string into
  friends; the models take the friends as a nondeterministic choice. Their one
  effect on control, `friend->friends++` (as_node.c:488), feeds the removal policy,
  which `RemovalCandidate` over-approximates. `as_partition_tables_*` is not in
  `src/`; its effect enters `NodeRefresh` as the `tables` generation.
- **`as_cluster_destroy`.** It runs the gc immediately, with no grace interval for
  threads still inside `as_nodes_reserve`. This is listed as a hazard.
- **`___my_swab64`.** It is translated in `ByteOrder`, but neither checked nor
  proved (see Proofs). The `__linux__`, `__APPLE__` and `CF_WINDOWS` blocks of
  `cf_byte_order.h` name system headers that are not under `src/`.
- **The `__APPLE__` branch of `cf_rand_reload`.** It uses `arc4random` and is not
  built on HP-UX or AIX.
- **The `linear.c` benchmark.** A load generator outside the client library, not
  modelled. Its hazards are listed in `PROJECT.json`:
  - the int32 key counter wrapping;
  - workers left running after a failed `pthread_create`.
- **Three publications per cycle.** A single-node reseed makes one cycle publish
  three arrays, where spec §4.4 says two. The reference handling of the extra
  publication is checked; the count per cycle is not a property.
- **The generation sentinel.** `partition_generation` starts at `0xFFFFFFFF`, so a
  server that reaches that generation is never refreshed. With one more generation
  change, TLC shows `TablesEventuallyCurrent` violated. The runs keep below it.
