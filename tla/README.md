# A TLA+ verification of KRCore

KRCore gives user programs RDMA through the kernel: a module exposes
`/dev/krdma`, every open file is a *virtual queue* (VQ) driven by `ioctl`, and
the kernel keeps the queue pairs (QPs) behind it.  This directory holds TLA+
models of its concurrent parts, the TLC configurations that check them and the
proofs that TLAPS checks.  Paths below abbreviate

- `S/` = `src/KRdmaKit-syscall/src/`
- `K/` = `src/rust-kernel-rdma/KRdmaKit/src/`
- `CM` = `src/mlnx-ofed-4.9-driver/drivers/infiniband/core/cm.c`

## 1. The system

| Part | Code | State | Operations |
|---|---|---|---|
| RC, active side | `K/qp/rc.rs`, `K/cm/client.rs` | QP, cm_id, `done` completion | `connect`, the CM callback (`handle_reply`), `Drop` |
| RCtrl (one per service and NIC) | `K/ctrl.rs` | `registered_rcs`, `free_in_qp_key`, `mutex`, DC/UD QPs, receive ring | CM callback: REQ, REJ, RTU, DREQ, SIDR REQ; `get_trc`, `dereg_rc` |
| Kernel CM | `CM` | state of each cm_id, queued events | the protocol messages, callbacks, `ib_destroy_cm_id` |
| Virtual queue | `S/virtual_queue.rs`, `S/core.rs` | RC, local DC/UD, ports, endpoint, caches | `Connect`, `Push`, `PushRecv`, `Pop`, `PopMsgs`, `Binds`, `UnBinds`, `RpcPoll`, close |
| Migration thread | `S/core.rs` | `rc_connect_param` of its VQ | make an RC in the background, store it in the VQ |
| Receive ring | `K/qp/recv_helper.rs` | linked work requests, `cur_idx`, completions | `post_recvs`, `pop_recvs` |
| RPC over UD | `S/rpc/client.rs` | send and receive buffers, handlers | `call`, `poll_all` |
| Meta server | `S/rpc/protocol.rs`, `S/client.rs` | `META_INFO`, tables in registered memory | register, deregister, query, one-sided lookup |
| SIDR, endpoints | `K/cm/sidr.rs`, `K/ctrl.rs` | cm_id, address handles | `sidr_connect`, `sidr_callback` |
| Path resolution | `K/ib_path_explorer.rs` | SA query, completion | `resolve` |
| Lifecycle | `S/lib.rs`, `S/client.rs`, `K/lib.rs` | global vectors | `Client::create`, `Drop` |

How they interact: a VQ's `Connect` resolves the path, then either makes an RC
(the active side talks to the remote RCtrl through the CM) or, with the cargo
feature `dct_qp`, learns the remote's DC endpoint (from its cache, the meta
server's table or SIDR) and uses the DC QP that all VQs of an RCtrl share.  With
`migrate_qp` a kernel thread adds an RC later.  `Push` prefers the RC, else the
DC; `Pop` polls the DC's completion queue, then the RC's.  A server binds its VQ
to a port and uses the RCs that RCtrl's callback has registered.

What makes it hard: CM callbacks of different cm_ids run concurrently (`ib_cm`
is a workqueue with no ordering between cm_ids), while those of one cm_id are
serialised; `ib_destroy_cm_id` waits for a running callback; messages are lost,
connect times out; VQ, RC and RCtrl are shared through raw pointers with almost
no locks; several Options are filled in stages by calls that may fail midway.

## 2. Modules

### `RcConn`: connecting and disconnecting RCs

A member `c` of `Clients` is one RC object of the active side.  It connects once
and is dropped once, and it also names the cm_id and the RC that its REQ creates
at the passive side.

- Client thread (`cpc`): `SendReq`, `WaitDone` or `WaitTimeout`, `SendRtu` are
  `RC::connect`; `DropQp`, `DropCm`, `DropEnd` are `Drop for RC`.  `Drop` is three
  steps, since the callback can run between them.
- Client callback (`ccb`): `RecvRep` starts `handle_reply`, whose steps are
  `ReplyInit`, `ReplyRtr`, `ReplyRts`, `ReplyDone`.  A state change of the QP needs
  attributes from the cm_id (`AttrStates`) and fails when a REJ or `Drop` has moved
  that on; on a QP that `Drop` has destroyed it can come out either way.  REJ, DREQ
  and REQ_ERROR are only printed by the code and change only the CM state.
- Server callback (`spc`): `RecvReq` starts `rc_conn_callback`, whose steps are
  `CbCreate`, `CbInit`, `CbRtr`, `CbRts`, `CbReply`, `CbSetContext`, `CbInsert`,
  (`CbDropOld`,) `CbUnlock`, `CbPost`; its error branch is `CbSelfDrop`.  `RecvDreqS`
  starts or queues the DREQ event, `CbDreq` takes the context back, `CbDereg` is
  `dereg_rc`.
- `mutex` is `RCtrl.mutex`; `dropping` is the replaced RC that `HashMap::insert`
  drops while the mutex is held.
- The CM is modelled by the states of `CM`'s `cm_destroy_id`, `ib_send_cm_*` and
  `cm_*_handler`, as far as these calls and events reach them.  The message that
  `ib_destroy_cm_id` sends (`DestroyMsgs`) depends on the state of the cm_id and may
  fail to be sent; a REJ that names the passive cm_id finds the active one only once
  that has the REP (`RecvRejC`).  Messages wait in
  the set `net`.  Nothing obliges one to be received, which is how loss is
  modelled.  The CM drops duplicates before they reach a callback.

Abstracted: path records, QP numbers, PSNs, memory regions, timers' durations.
`trc` of RCtrl is never set to anything but `None`.  Receives posted by `CbPost`
belong to the receive ring (section 6).

### `VirtualQueue`: VQs as clients, and migration

Each VQ is driven by one user thread.  An ioctl that does not block and does not
touch what a migration thread or another VQ touches is one action; `Push` is one
action per batch, since the migration thread may install an RC between batches
or before the wait at the end.

- `Connect` is the ioctl branch and `connect_impl`.  `ConnectAgain`,
  `ConnectBadAddr`, `ConnectCached`, `ConnectNoPath` and `ConnectRc` are paths that
  end in one action; `Enter` is their common prefix, whose effects stay when the
  rest fails.  With `dct_qp`, `ConnectDct` is followed by the two reads of
  `query_dct_meta` (`KvPost`, `KvWait`, twice) if there is `meta_kv`, then by
  `KvFound` or `KvMissing`, and by `Sidr` or `SidrNoPath`: other VQs and the
  migration thread run in between.
- A wait of `query_dct_meta` takes the head of the DC completion queue, whoever
  posted that, or times out.
- `PushBegin`, `PushBatch` (`PushRc`, `PushDc`), `PushEnd`, `WaitRc`, `WaitUd`.
- `Pop` (`PopDc`, `PopRc`, `PopNothing`), `Bind`, `UnBind`, `Close`.
- `MigrateStart`, `MigrateCheck`, `MigrateConnect` are the migration thread.  The
  copy of `rc_connect_param` is two steps, since a second `Connect` overwrites
  the block without a lock: the thread may get one field of each.

The cargo features are the constants `DctQp`, `MetaKv`, `MetaCache`, `MigrateQp`.
`goal` (address of the last `Connect` answered ok), `got` (owner of the last
completion popped) and `owed` (signalled batches on a DC QP, less what `Pop`
returned from it) are history variables.  An ioctl that unwraps a missing
Option goes to the state `"panic"` and stays there.

Abstracted: addresses and ports are small sets (a port is reduced modulo
`MAX_SERVICE_NUM`, as in the code); a batch leaves at most one entry in a
completion queue; an entry may complete at any time after it was posted; which
endpoint a table lookup copies is left open here, `MetaServer` is about that.

### `MetaServer`: registration with the meta server, and lookups

The `meta_kv` build: nodes that load and unload the module, and the server.

- Nodes: `Load` is `conn_meta` once SIDR has found the server, `Unload` is `Drop
  for Client`; `CallReturns` and `CallTimeout` end `RPCClient::call`, which takes
  whatever is first in its receive queue for its reply.
- Server: `Poll`, `ReadHeader`, `HandleReg`, `HandleDereg`, `Reply` are `poll_all`
  with the handlers.  A request is read in two steps (header, payload), after its
  buffer was posted again.  `WriteGid`, `WritePoint`, `WriteLen` copy `META_INFO`
  into each table, word by word.  The order of the entries is any order, chosen
  anew when a key is added.
- Receive queue: `rq`, `cq`, `mem`, with `Chain` and `NextIdx` for `post_recvs`.
  `RCtrl::create` has posted `Foreign` receives on the same UD before; since
  `poll_all` answers each completion with one of its own buffers, these are in the
  queue twice from then on.
- Lookups: `Lookup`, `ReadCount`, `ScanGid`, `ScanPoint` are the reads of
  `query_dct_meta` when each wait has taken the completion of its own read.  A post
  that fails, a wait that times out or takes another completion of the shared DC, and
  another VQ that reads into the shared buffer are `Disturbed`: the buffer then holds
  something else, the code does not notice, and nothing is said of the result.
- Init has the server's own registration in its queue: the server runs `conn_meta`
  too, and nothing polls while it does.

`late`, `overrun`, and the fields `known` and `raced` of a lookup are history
variables.  Messages are lost, or dropped when no receive is posted.  Abstracted:
an endpoint is its gid and the load it belongs to.  Left out: other users of
RCtrl 0's receive queue, `RpcPoll` in two processes,
lookups through the fallback address, the query request (nobody sends it).

### `RcConnProofs`

The theorems about `RcConn` and their proofs, section 5.

## 3. Runs

| Run | Instance | Checks |
|---|---|---|
| `rc_same_key` | 2 clients, same qd; failing sends, a CM that gives up | type; the registry holds live RCs under their own keys; the DREQ callback finds its own context and removes its own RC; no callback on freed memory; a reply to a dead QP only after an error; receives are posted on a dead QP only while the RC is being replaced; a connect that returned ok has both QPs up; only a client that gave up leaves a callback waiting for itself |
| `rc_live` | 2 clients, fresh keys, any message lost | connect and drop end; a callback stays for ever only in the error branch and holds up no other; a DREQ that arrived ends in deregistration |
| `vq_rc` | default build, 2 addresses, ports 0 and 3, every failure | type; a wait for a signalled request can end |
| `vq_dct` | `dct_qp`, `meta_kv`, 2 VQs, 2 ports | completions are where Pop looks; lookups take no completion without leaving one |
| `vq_migrate` | `dct_qp`, `meta_cache`, `migrate_qp`, 2 threads | a VQ answered ok can push |
| `meta_server` | 2 nodes, the second loads twice; 2 tables, ring of 2 buffers and 1 foreign | type; an unread request is overwritten only if a caller gave up or there are more callers than buffers; an answered registration holds; every table lists the registered nodes; a lookup reads only written slots; a lookup that reads what it asked for and does not race is right |
| `rc_reconnect` | 2 clients, same qd | *fails*: two callbacks block each other for ever |
| `rc_self_drop` | 2 clients, fresh keys | *fails*: a callback waits for itself after the client's REJ |
| `vq_cache_hit` | `meta_cache` | *fails*: a cached Connect pushes to the wrong address |
| `vq_pop_steal` | `dct_qp`, 2 VQs | *fails*: Pop returns another VQ's completion |
| `vq_dc_wait` | `dct_qp` | *fails*: a DC push waits on the UD's queue |
| `vq_close` | `migrate_qp` | *fails*: a thread outlives its VQ |

The last six show where the code departs from what its comments, headers or
tests say; `PROJECT.json` quotes the lines.

**Bounds.** Two clients are enough for every interaction of `RcConn` that the
code distinguishes: an RC is replaced by one other, and the mutex has one holder
and one waiter; the proofs have no bound.  `rc_same_key` has no failures of
`ib_modify_qp` itself, since `OkMeansBothUp` and `SelfDropOnlyAfterGiveUp` speak of
the other failures; the state changes fail there because of REJs.  `rc_live` has no
failing calls, to keep its state graph small: lost messages and timeouts are enough
for REJs to arrive at any point of the callbacks.
In `VirtualQueue`: `MaxThreads` 2 lets one migration overtake another,
`MaxPosted` 1 or 2 lets completions queue up, `MaxBatches` 1 or 2 lets a
migration fall between two batches, two addresses and two services let a VQ be
redirected.  `vq_dct` has one address, as no property of it tells addresses apart,
and a `VIEW` that leaves out what is not read again.
In `MetaServer` the first node loads once and looks up the second, which loads
twice; lookups change nothing else, so that following those of one node is enough
(`Lookups`).  With the server's own registration up
to six requests go round a ring of two buffers, and a buffer is overwritten unread
once a call has timed out (`overrun`).  The properties about the registry exclude
what follows such an overwriting, see section 4, and the run does not go on from
there (`CONSTRAINT Intact`); without that constraint it has 11.6 million states
instead of 2.6 million, takes 7 minutes and passes too.
Deadlock is not checked: a program that has closed its VQs, or whose RCs are all
gone, may stop.

**Fairness** (`FairSpec` of `RcConn`): weak fairness for each thread and each
callback, that is, the scheduler runs what can run, and a sleeping thread wakes
when its timeout passes.  No fairness for messages (they may be lost), none for
dropping an RC that is up (its owner decides).  `VirtualQueue` has no liveness
property: its spinning waits are covered by the invariant `WaitCanEnd`.

## 4. Behaviours met while modelling that have no run

- `qp_connect` answers `Ok(None)` when the RC cannot be created: `Connect`
  returns ok and the VQ has no RC.
- `Connect` on a VQ with an RC returns `already_connected` from the ioctl without
  writing the reply, so the library reports the preset `err`.
- After a failed `Connect` without `dct_qp`, `Push` finds `local_dc` and
  unwraps the missing endpoint.
- `handle_reply` wakes `connect` although `bring_to_rtr` or `bring_to_rts`
  failed.  When `ib_modify_qp` was the cause, `connect` returns ok with a QP that is
  not up; when a REJ was, `send_rtu` fails (`OkMeansBothUp`).
- The REP carries the request's qd, 0 for a fresh key, not the key generated.
- A second connection with the same qd destroys the first one's passive RC, whose
  callback may just be posting receives on its QP (`PostOnDeadQpIsReplaced`).  A
  generated key can equal a qd that another client named.
- The passive cm_id of a closed connection is handed off and never destroyed.
- Once a call has timed out, a request can be overwritten between the reads of its
  header and its payload.  A registration then takes the payload of a
  deregistration, and `META_INFO` maps the gid of one node to the endpoint that the
  buffer held before.
- Once a wait of `query_dct_meta` has timed out, its completion is taken by a later
  wait or `Pop` of the RCtrl, whose own is left to the next: from then on lookups
  there may look at the buffer before their reads have landed.
- A lookup that races with a registration can return an entry with the gid of one
  node and the rest of another's, or miss a registered node while entries move.
- The tables keep a deregistered node until the next registration.
- A migration thread can install the RC of an earlier `Connect` after a later one
  to another address was answered ok, or replace an RC with completions waiting.

## 5. Proofs

`RcConnProofs` proves, for every set of clients, every choice of keys and every
set of failures (`ConstantsAssumption` only):

- `TypeCorrect`: `Spec => []TypeOK`
- `RegistryIsConsistent`: `Spec => []RegistryConsistent`
- `ContextIsItsOwn`: `Spec => []DreqSeesItsContext`
- `NoFreeUnderCallback`: `Spec => []CallbackBeforeFree`
- `LateReplyIsAfterError`: `Spec => []LateReplyOnlyAfterError`
- `DeregIsExact`: `Spec => DreqRemovesOwnRc`
- `PostMeetsReplacementOnly`: `Spec => []PostOnDeadQpIsReplaced`
- `OkConnectIsUp`: `Spec => []OkMeansBothUp`
- `SelfDropIsAfterGiveUp`: `Spec => []SelfDropOnlyAfterGiveUp`

None of these is inductive.  The inductive invariant `IndInv` adds:

- `ClientInv`: how the client's program counter, callback, CM state and result
  go together (a callback runs only after a REP and before the free);
- `ReqInv`: before the REQ is received the passive side of a client is untouched,
  so each REQ starts exactly one callback;
- `MutexInv`: the mutex is held iff some callback is between `CbInsert` and
  `CbUnlock`, and at most one is; `dropping` belongs to it;
- `CallbackInv`: which context, QP state and queued event go with each step of
  the server callback;
- `HeldInv`: an RC past its insertion is in the registry under its own key,
  or has been replaced and its cm_id destroyed.  This is why removal by key is
  exact: a DREQ whose RC was replaced cannot get past the mutex before
  the replacing callback's `ib_destroy_cm_id` has seen it finish;
- `RetInv`: a REJ under way to the passive side, or a passive cm_id that has left
  REQ_RCVD without a REP, means that the client's `connect` has returned an error;
- `RepInv`: a REP is under way or was received only after the passive callback sent
  it;
- `PassiveUpInv`, `ActiveUpInv`: when the REP was sent the passive QP was at RTS, and
  when the client's callback ends with the cm_id still at REP_RCVD so is the active
  one.  The last four lead to the theorems about ok and given-up connects.

Each conjunct has a lemma saying that every action preserves it (`TypeStep`,
`ClientStep`, `ReqStep`, `MutexStep`, `CallbackStep`, `HeldStep`, `RetStep`, `RepStep`,
`PassiveUpStep`, `ActiveUpStep`), with one step per action that can disturb it.
`NetSource` and `RepSource` say which action a message comes from; `StepInd` combines
the lemmas.  `IndInv` was also checked with TLC on the instance of `rc_same_key`.

Only model-checked: all liveness properties (outside the prover's reach), and
everything about `VirtualQueue` and `MetaServer`.

## 6. Not modelled yet, and the plan

In this order:

1. `RecvRing` (`K/qp/recv_helper.rs`): freezing and restoring the link of the
   last work request, unsynchronised posters, counts of 0 and above the capacity,
   the bound on completions.  To prove: a sequential poster leaves the ring intact
   and hands over the buffers it should, which `MetaServer` takes for granted.
2. `MetaServer` against an abstract specification: a map from addresses to
   endpoints, of which a lookup that does not race reads the last version written.
3. Proofs about `MetaServer`: `LookupReadsWritten` and `TablesCoverRegistry` for any
   number of nodes, tables and buffers.
4. `BindServer`: `bind_server_push_impl`, bound `Pop` and `PopMsgs` over
   `RcConn`'s registry, with `get_trc` outside the mutex.
5. `Sidr` with path resolution: timeouts against late callbacks, ownership of
   address handles.
6. `Lifecycle`: creation and destruction of the global state against open files.
7. Proofs: `OkConnectCanPush`, `CompletionsArePolled` and `LookupsPayBack` of
   `VirtualQueue`; refinement of the registry to an abstract map.

Left out for good: the verbs and the rest of the OFED driver (vendored; only the
CM's protocol matters here), memory registration and the address arithmetic of
`K/mem/`, the benchmark ioctl `RegMRs`, doorbell batching (one thread, used by
benchmarks), the user library's wrappers.
