---------------------------- MODULE VirtualQueue ----------------------------
(***************************************************************************)
(* The virtual queues behind /dev/krdma (KRdmaKit-syscall, virtual_queue.rs *)
(* and core.rs) as a client uses them: each open file is one VQ, driven by  *)
(* one user thread through ioctl.  Connect binds the VQ to a remote, either *)
(* by an RC of its own or by the endpoint of a DC target reached through    *)
(* the DC QP of an RCtrl, which every VQ on that RCtrl shares; Push posts   *)
(* requests on whichever the VQ has; Pop polls the completions.  With       *)
(* migrate_qp, Connect also starts a kernel thread that makes an RC in the  *)
(* background and stores it in the VQ, without a lock.                      *)
(*                                                                         *)
(* The build's cargo features are the Boolean constants.  Two-sided         *)
(* receives and what Push and Pop do in bind mode are not in this module:   *)
(* they use the RCtrl of the bound port and none of the state below.        *)
(***************************************************************************)
EXTENDS Integers, Sequences, FiniteSets

CONSTANTS VQs, Addrs, Ports,
          DctQp, MetaKv, MetaCache, MigrateQp,  \* cargo features
          MAX_SERVICE_NUM,
          CanFail,     \* the calls that may fail: see FailKinds
          MaxThreads,  \* bound: migration threads started per VQ
          MaxPosted,   \* bound: completions waiting in one completion queue
          MaxBatches,  \* bound: batches of one Push
          None

\* Address parsing, path resolution, QP creation, the CM and SIDR handshakes,
\* posting a work request.
FailKinds == {"addr", "path", "create", "conn", "sidr", "post"}

ASSUME FeatureAssumption ==
    /\ {DctQp, MetaKv, MetaCache, MigrateQp} \subseteq BOOLEAN
    /\ MAX_SERVICE_NUM \in Nat \ {0}
    /\ Ports \subseteq Nat
    /\ CanFail \subseteq FailKinds
    /\ {MaxThreads, MaxPosted, MaxBatches} \subseteq Nat

Services == 0 .. MAX_SERVICE_NUM - 1
Targets == Addrs \X Services

VARIABLES
    pc,              \* what the ioctl running on the VQ is doing
    dst,             \* the remote of the Connect under way, or None
    op,              \* the Push under way: batches left, signalled, pop_at_once
    reply,           \* the status the last library call returned to the user
    virtual_queue,   \* VQ.virtual_queue: the remote its RC is connected to, or None
    local_dc,        \* VQ.local_dc and local_ud: the RCtrl whose DC and UD it uses
    local_connect_port,  \* VQ.local_connect_port, and the RCtrl of local_mr
    bind_port,       \* VQ.bind_port
    remote_endpoint, \* LocalCache.remote_endpoint: the remote of the DC endpoint
    dct_meta_cache,  \* LocalCache.dct_meta_cache: its keys
    path_rec_cache,  \* LocalCache.path_rec_cache: its keys
    rc_connect_param,  \* VQ.rc_connect_param: the remote it names
    thr,             \* the migration threads of the VQ, in the order they started
    dc_cq,           \* per RCtrl, the owners of the completions on its DC QP
    rc_cq,           \* completions on the VQ's RC
    owed,            \* history, per RCtrl: signalled batches posted on its DC QP, less
                     \* the entries that Pop has returned from it
    goal,            \* history: the address of the last Connect answered ok
    got              \* history: who posted the request the last successful Pop returned

conn   == <<virtual_queue, local_dc, local_connect_port, remote_endpoint,
            dct_meta_cache, path_rec_cache, rc_connect_param, thr, goal>>
queues == <<dc_cq, rc_cq, owed, got>>
vars   == <<pc, dst, op, reply, bind_port, conn, queues>>

NoOp == [left |-> 0, sig |-> FALSE, pop |-> FALSE]

Init ==
    /\ pc = [v \in VQs |-> "user"]
    /\ dst = [v \in VQs |-> None]
    /\ op = [v \in VQs |-> NoOp]
    /\ reply = [v \in VQs |-> "none"]
    /\ virtual_queue = [v \in VQs |-> None]
    /\ local_dc = [v \in VQs |-> None]
    /\ local_connect_port = [v \in VQs |-> None]
    /\ bind_port = [v \in VQs |-> None]
    /\ remote_endpoint = [v \in VQs |-> None]
    /\ dct_meta_cache = [v \in VQs |-> {}]
    /\ path_rec_cache = [v \in VQs |-> {}]
    /\ rc_connect_param = [v \in VQs |-> None]
    /\ thr = [v \in VQs |-> << >>]
    /\ dc_cq = [s \in Services |-> << >>]
    /\ rc_cq = [v \in VQs |-> 0]
    /\ owed = [s \in Services |-> 0]
    /\ goal = [v \in VQs |-> None]
    /\ got = [v \in VQs |-> None]

Reply(v, status) == reply' = [reply EXCEPT ![v] = status]

-----------------------------------------------------------------------------
(* Connect: the ioctl branch and connect_impl.                             *)

\* Mutant: the port is taken for the service.
ServiceRaw(port) == port

Service(port) == port % MAX_SERVICE_NUM

\* The ioctl returns at once and never writes reply_buf, which qconnect has
\* preset to err.  A migration thread may also finish between this test and the
\* same test in connect_impl, whose answer is written.
ConnectAgain(v) ==
    /\ pc[v] = "user"
    /\ virtual_queue[v] # None
    /\ Reply(v, "err") \/ (thr[v] # << >> /\ Reply(v, "already_connected"))
    /\ UNCHANGED <<pc, dst, op, bind_port, conn, queues>>

ConnectBadAddr(v) ==
    /\ pc[v] = "user"
    /\ virtual_queue[v] = None
    /\ "addr" \in CanFail
    /\ Reply(v, "addr_error")
    /\ UNCHANGED <<pc, dst, op, bind_port, conn, queues>>

\* Mutant: every Connect takes the DC and UD of its own port.
EnterFresh(v, t) ==
    /\ pc[v] = "user"
    /\ virtual_queue[v] = None
    /\ local_connect_port' = [local_connect_port EXCEPT ![v] = t[2]]
    /\ local_dc' = [local_dc EXCEPT ![v] = t[2]]
    /\ UNCHANGED <<op, bind_port, queues>>

\* What every other Connect does first: local_mr, local_connect_port, and the
\* local DC and UD unless the VQ already has them.
Enter(v, t) ==
    /\ pc[v] = "user"
    /\ virtual_queue[v] = None
    /\ local_connect_port' = [local_connect_port EXCEPT ![v] = t[2]]
    /\ local_dc' = [local_dc EXCEPT ![v] = IF @ = None THEN t[2] ELSE @]
    /\ UNCHANGED <<op, bind_port, queues>>

\* A hit in the cache is answered ok; remote_endpoint is left as it is.
CacheHit(v, t) == DctQp /\ t \in dct_meta_cache[v]

ConnectCached(v, t) ==
    /\ Enter(v, t)
    /\ CacheHit(v, t)
    /\ goal' = [goal EXCEPT ![v] = t[1]]
    /\ Reply(v, "ok")
    /\ UNCHANGED <<pc, dst, virtual_queue, remote_endpoint, dct_meta_cache, path_rec_cache,
                   rc_connect_param, thr>>

\* explore_path resolves only addresses that are not in path_rec_cache.
CachePath(v, t) == path_rec_cache' = [path_rec_cache EXCEPT ![v] = @ \cup {t[1]}]
PathFails(v, t) == t[1] \notin path_rec_cache[v] /\ "path" \in CanFail

\* The path is needed first without dct_qp, and with migrate_qp.
ConnectNoPath(v, t) ==
    /\ Enter(v, t)
    /\ ~CacheHit(v, t)
    /\ DctQp => MigrateQp
    /\ PathFails(v, t)
    /\ Reply(v, "err")
    /\ UNCHANGED <<pc, dst, virtual_queue, remote_endpoint, dct_meta_cache, path_rec_cache,
                   rc_connect_param, thr, goal>>

\* migrate_qp: the parameter block of the VQ is overwritten and a thread started.
StartMigration(v, t) ==
    IF MigrateQp
    THEN /\ Len(thr[v]) < MaxThreads
         /\ CachePath(v, t)
         /\ rc_connect_param' = [rc_connect_param EXCEPT ![v] = t]
         /\ thr' = [thr EXCEPT ![v] = Append(@, [pc |-> "start", t |-> None])]
    ELSE UNCHANGED <<path_rec_cache, rc_connect_param, thr>>

\* With dct_qp, what a Connect does before it asks for the endpoint.
ConnectDct(v, t) ==
    /\ Enter(v, t)
    /\ DctQp /\ ~CacheHit(v, t)
    /\ StartMigration(v, t)
    /\ pc' = [pc EXCEPT ![v] = IF MetaKv THEN "post_1" ELSE "sidr"]
    /\ dst' = [dst EXCEPT ![v] = t]
    /\ UNCHANGED <<reply, virtual_queue, remote_endpoint, dct_meta_cache, goal>>

\* query_dct_meta reads the meta server's table with two one-sided reads on the
\* VQ's DC, the count and then the entries; "scan" looks through the entries.
AfterRead(n) == IF n = 1 THEN "post_2" ELSE "scan"
Post(n) == IF n = 1 THEN "post_1" ELSE "post_2"
Wait(n) == IF n = 1 THEN "wait_1" ELSE "wait_2"

\* Mutant: the completion is waited for whether or not the read was posted.
KvPostAnyway(v, n) ==
    /\ pc[v] = Post(n)
    /\ pc' = [pc EXCEPT ![v] = Wait(n)]
    /\ \/ /\ Len(dc_cq[local_dc[v]]) < MaxPosted
          /\ dc_cq' = [dc_cq EXCEPT ![local_dc[v]] = Append(@, v)]
       \/ "post" \in CanFail /\ UNCHANGED dc_cq
    /\ UNCHANGED <<dst, op, reply, bind_port, conn, rc_cq, owed, got>>

\* A read is posted; the wait is skipped when that fails, and the error dropped.
KvPost(v, n) ==
    /\ pc[v] = Post(n)
    /\ \/ /\ Len(dc_cq[local_dc[v]]) < MaxPosted
          /\ dc_cq' = [dc_cq EXCEPT ![local_dc[v]] = Append(@, v)]
          /\ pc' = [pc EXCEPT ![v] = Wait(n)]
       \/ /\ "post" \in CanFail
          /\ pc' = [pc EXCEPT ![v] = AfterRead(n)]
          /\ UNCHANGED dc_cq
    /\ UNCHANGED <<dst, op, reply, bind_port, conn, rc_cq, owed, got>>

\* DCOp::wait_til_comp takes the head of the completion queue, whoever posted
\* that, or gives up after 10000 polls; its result is dropped.
KvWait(v, n) ==
    /\ pc[v] = Wait(n)
    /\ pc' = [pc EXCEPT ![v] = AfterRead(n)]
    /\ \/ /\ dc_cq[local_dc[v]] # << >>
          /\ dc_cq' = [dc_cq EXCEPT ![local_dc[v]] = Tail(@)]
       \/ UNCHANGED dc_cq
    /\ UNCHANGED <<dst, op, reply, bind_port, conn, rc_cq, owed, got>>

\* Connect with dct_qp returns to the user.
ConnectReturns(v, status) ==
    /\ Reply(v, status)
    /\ pc' = [pc EXCEPT ![v] = "user"]
    /\ dst' = [dst EXCEPT ![v] = None]
    /\ goal' = IF status = "ok" THEN [goal EXCEPT ![v] = dst[v][1]] ELSE goal
    /\ UNCHANGED <<op, bind_port, virtual_queue, local_dc, local_connect_port,
                   rc_connect_param, thr, queues>>

CacheMeta(v) ==
    dct_meta_cache' =
        IF MetaCache THEN [dct_meta_cache EXCEPT ![v] = @ \cup {dst[v]}] ELSE dct_meta_cache

\* An entry has the gid and is copied.  It lies in the RCtrl's buffer, which
\* reads still under way may write between the two, and the table has one entry
\* per address whatever the service: which endpoint is copied is left open here.
KvFound(v) ==
    /\ pc[v] = "scan"
    /\ \E t \in Targets : remote_endpoint' = [remote_endpoint EXCEPT ![v] = t]
    /\ CacheMeta(v)
    /\ ConnectReturns(v, "ok")
    /\ UNCHANGED path_rec_cache

KvMissing(v) ==
    /\ pc[v] = "scan"
    /\ pc' = [pc EXCEPT ![v] = "sidr"]
    /\ UNCHANGED <<dst, op, reply, bind_port, conn, queues>>

SidrNoPath(v) ==
    /\ pc[v] = "sidr"
    /\ PathFails(v, dst[v])
    /\ ConnectReturns(v, "err")
    /\ UNCHANGED <<remote_endpoint, dct_meta_cache, path_rec_cache>>

\* Mutant: the cache is filled before SIDR has answered.
SidrCached(v) ==
    /\ pc[v] = "sidr"
    /\ CachePath(v, dst[v])
    /\ CacheMeta(v)
    /\ \/ /\ remote_endpoint' = [remote_endpoint EXCEPT ![v] = dst[v]]
          /\ ConnectReturns(v, "ok")
       \/ /\ "sidr" \in CanFail
          /\ ConnectReturns(v, "err")
          /\ UNCHANGED remote_endpoint

\* The remote is asked for its endpoint.
Sidr(v) ==
    /\ pc[v] = "sidr"
    /\ CachePath(v, dst[v])
    /\ \/ /\ remote_endpoint' = [remote_endpoint EXCEPT ![v] = dst[v]]
          /\ CacheMeta(v)
          /\ ConnectReturns(v, "ok")
       \/ /\ "sidr" \in CanFail
          /\ ConnectReturns(v, "err")
          /\ UNCHANGED <<remote_endpoint, dct_meta_cache>>

\* What qp_connect can return: a connected RC, no RC, or an error.
QpConnect(t) == {t} \cup (IF "create" \in CanFail THEN {None} ELSE {})

\* Without dct_qp: an RC is made and connected before Connect returns; it is
\* answered ok also when the QP could not be created.
ConnectRc(v, t) ==
    /\ Enter(v, t)
    /\ ~DctQp
    /\ CachePath(v, t)
    /\ \/ /\ \E qp \in QpConnect(t) : virtual_queue' = [virtual_queue EXCEPT ![v] = qp]
          /\ goal' = [goal EXCEPT ![v] = t[1]]
          /\ Reply(v, "ok")
       \/ /\ "conn" \in CanFail
          /\ Reply(v, "err")
          /\ UNCHANGED <<virtual_queue, goal>>
    /\ UNCHANGED <<pc, dst, remote_endpoint, dct_meta_cache, rc_connect_param, thr>>

Connect(v) ==
    \/ ConnectAgain(v)
    \/ ConnectBadAddr(v)
    \/ \E a \in Addrs, p \in Ports : LET t == <<a, Service(p)>> IN
          \/ ConnectCached(v, t) \/ ConnectNoPath(v, t) \/ ConnectDct(v, t)
          \/ ConnectRc(v, t)
    \/ \E n \in {1, 2} : KvPost(v, n) \/ KvWait(v, n)
    \/ KvFound(v) \/ KvMissing(v) \/ SidrNoPath(v) \/ Sidr(v)

-----------------------------------------------------------------------------
(* Push: the ioctl branch, push_recv_impl, rc_push_impl and dc_push_impl.   *)
(* The requests of a batch are all signalled or all not; a batch leaves one *)
(* entry in the completion queue if they are.                               *)

Panic(v) ==
    /\ pc' = [pc EXCEPT ![v] = "panic"]
    /\ UNCHANGED <<dst, op, reply, queues>>

\* push_recv_cnt receives are posted first; the status is overwritten by the
\* first batch.
RecvStatus(v) ==
    IF local_connect_port[v] = None THEN {"not_connected"}
    ELSE {"ok"} \cup IF "post" \in CanFail THEN {"err"} ELSE {}

PushBegin(v) ==
    /\ pc[v] = "user"
    /\ bind_port[v] = None
    /\ pc' = [pc EXCEPT ![v] = "push"]
    /\ \E n \in 0 .. MaxBatches, s \in BOOLEAN, p \in BOOLEAN :
          op' = [op EXCEPT ![v] = [left |-> n, sig |-> s /\ n > 0, pop |-> p]]
    /\ \E status \in {"ok"} \cup RecvStatus(v) : Reply(v, status)
    /\ UNCHANGED <<dst, bind_port, conn, queues>>

BatchDone(v, status) ==
    /\ Reply(v, status)
    /\ op' = [op EXCEPT ![v].left = IF status = "err" THEN 0 ELSE @ - 1]
    /\ UNCHANGED <<pc, dst, got>>

\* The status of a batch, and whether it leaves an entry in the completion
\* queue: a post that fails may follow posts that did not.
BatchStatus == {"ok"} \cup IF "post" \in CanFail THEN {"err"} ELSE {}
Entries(v, status) == {op[v].sig} \cup IF status = "err" THEN {FALSE} ELSE {}

\* One batch on the VQ's RC.
PushRc(v) ==
    /\ virtual_queue[v] # None
    /\ rc_cq[v] < MaxPosted
    /\ \E status \in BatchStatus : \E entry \in Entries(v, status) :
          /\ BatchDone(v, status)
          /\ rc_cq' = IF entry THEN [rc_cq EXCEPT ![v] = @ + 1] ELSE rc_cq
    /\ UNCHANGED <<dc_cq, owed>>

\* One batch on the shared DC QP.
PushDc(v) ==
    /\ virtual_queue[v] = None
    /\ IF local_dc[v] = None THEN BatchDone(v, "nil") /\ UNCHANGED <<dc_cq, rc_cq, owed>>
       ELSE IF remote_endpoint[v] = None THEN Panic(v)
       ELSE /\ Len(dc_cq[local_dc[v]]) < MaxPosted
            /\ \E status \in BatchStatus : \E entry \in Entries(v, status) :
                  /\ BatchDone(v, status)
                  /\ IF entry THEN /\ dc_cq' = [dc_cq EXCEPT ![local_dc[v]] = Append(@, v)]
                                   /\ owed' = [owed EXCEPT ![local_dc[v]] = @ + 1]
                     ELSE UNCHANGED <<dc_cq, owed>>
            /\ UNCHANGED rc_cq

PushBatch(v) ==
    /\ pc[v] = "push"
    /\ op[v].left > 0
    /\ PushRc(v) \/ PushDc(v)
    /\ UNCHANGED <<bind_port, conn>>

\* Mutant: it waits even if a batch failed.
PushEndAlwaysWaits(v) ==
    /\ pc[v] = "push"
    /\ op[v].left = 0
    /\ pc' = [pc EXCEPT ![v] =
                 IF ~op[v].pop THEN "user"
                 ELSE IF virtual_queue[v] # None THEN "wait_rc"
                 ELSE IF local_dc[v] # None THEN "wait_ud" ELSE "panic"]
    /\ UNCHANGED <<dst, op, reply, bind_port, conn, queues>>

\* pop_at_once waits for one completion: on the RC if the VQ has one by now,
\* and on local_ud if not.
PushEnd(v) ==
    /\ pc[v] = "push"
    /\ op[v].left = 0
    /\ pc' = [pc EXCEPT ![v] =
                 IF ~(op[v].pop /\ reply[v] = "ok") THEN "user"
                 ELSE IF virtual_queue[v] # None THEN "wait_rc"
                 ELSE IF local_dc[v] # None THEN "wait_ud" ELSE "panic"]
    /\ UNCHANGED <<dst, op, reply, bind_port, conn, queues>>

\* RCOp::wait_til_comp spins until the completion queue of the RC has an entry.
WaitRc(v) ==
    /\ pc[v] = "wait_rc"
    /\ rc_cq[v] > 0
    /\ rc_cq' = [rc_cq EXCEPT ![v] = @ - 1]
    /\ pc' = [pc EXCEPT ![v] = "user"]
    /\ UNCHANGED <<dst, op, reply, bind_port, conn, dc_cq, owed, got>>

\* UDOp::wait_til_comp spins on the UD's queue.  No request of this VQ is there:
\* only a completion of the UD's other users (the RPC client) can end it.
WaitUd(v) ==
    /\ pc[v] = "wait_ud"
    /\ pc' = [pc EXCEPT ![v] = "user"]
    /\ UNCHANGED <<dst, op, reply, bind_port, conn, queues>>

-----------------------------------------------------------------------------
(* Pop.  An entry that is posted may not have completed yet, in which case  *)
(* polling finds nothing.                                                   *)

PopDc(v) ==
    /\ DctQp /\ local_dc[v] # None
    /\ dc_cq[local_dc[v]] # << >>
    /\ owed[local_dc[v]] > -MaxPosted
    /\ owed' = [owed EXCEPT ![local_dc[v]] = @ - 1]
    /\ dc_cq' = [dc_cq EXCEPT ![local_dc[v]] = Tail(@)]
    /\ got' = [got EXCEPT ![v] = Head(dc_cq[local_dc[v]])]
    /\ Reply(v, "ok")
    /\ UNCHANGED <<pc, dst, op, rc_cq>>

PopRc(v) ==
    /\ DctQp => local_dc[v] # None
    /\ virtual_queue[v] # None
    /\ rc_cq[v] > 0
    /\ rc_cq' = [rc_cq EXCEPT ![v] = @ - 1]
    /\ got' = [got EXCEPT ![v] = v]
    /\ Reply(v, "ok")
    /\ UNCHANGED <<pc, dst, op, dc_cq, owed>>

PopNothing(v) ==
    /\ DctQp => local_dc[v] # None
    /\ Reply(v, "nil")
    /\ UNCHANGED <<pc, dst, op, queues>>

Pop(v) ==
    /\ pc[v] = "user"
    /\ bind_port[v] = None
    /\ \/ PopDc(v) \/ PopRc(v) \/ PopNothing(v)
       \/ DctQp /\ local_dc[v] = None /\ Panic(v)
    /\ UNCHANGED <<bind_port, conn>>

-----------------------------------------------------------------------------
(* Binds, UnBinds and closing the file.                                    *)

Bind(v) ==
    /\ pc[v] = "user"
    /\ \E p \in Ports :
          IF bind_port[v] # None THEN Reply(v, "already_bind") /\ UNCHANGED bind_port
          ELSE IF p > MAX_SERVICE_NUM THEN Reply(v, "nil") /\ UNCHANGED bind_port
          ELSE Reply(v, "ok") /\ bind_port' = [bind_port EXCEPT ![v] = p]
    /\ UNCHANGED <<pc, dst, op, conn, queues>>

UnBind(v) ==
    /\ pc[v] = "user"
    /\ \E p \in Ports :
          IF bind_port[v] = p
          THEN Reply(v, "ok") /\ bind_port' = [bind_port EXCEPT ![v] = None]
          ELSE Reply(v, "not_bind") /\ UNCHANGED bind_port
    /\ UNCHANGED <<pc, dst, op, conn, queues>>

\* The VQ is freed, and with it its RC and the completions on it; what it
\* posted on the shared DC QP stays there.
Close(v) ==
    /\ pc[v] = "user"
    /\ pc' = [pc EXCEPT ![v] = "closed"]
    /\ virtual_queue' = [virtual_queue EXCEPT ![v] = None]
    /\ local_dc' = [local_dc EXCEPT ![v] = None]
    /\ rc_cq' = [rc_cq EXCEPT ![v] = 0]
    /\ UNCHANGED <<dst, op, reply, bind_port, local_connect_port, remote_endpoint,
                   dct_meta_cache, path_rec_cache, rc_connect_param, thr, goal,
                   dc_cq, owed, got>>

-----------------------------------------------------------------------------
(* bg_rc_migrate_thread.                                                   *)

\* The thread copies port and path out of rc_connect_param, which a second
\* Connect may overwrite meanwhile: it can end up with one field of each.
MigrateStart(v, i) ==
    /\ pc[v] # "closed"
    /\ thr[v][i].pc = "start"
    /\ thr' = [thr EXCEPT ![v][i] = [pc |-> "copy", t |-> rc_connect_param[v]]]
    /\ UNCHANGED <<pc, dst, op, reply, bind_port, virtual_queue, local_dc, local_connect_port,
                   remote_endpoint, dct_meta_cache, path_rec_cache, rc_connect_param,
                   goal, queues>>

\* It goes on only if the VQ has no RC now.
MigrateCheck(v, i) ==
    /\ pc[v] # "closed"
    /\ thr[v][i].pc = "copy"
    /\ LET old == thr[v][i].t
           new == rc_connect_param[v] IN
       \E t \in {old, new, <<old[1], new[2]>>, <<new[1], old[2]>>} :
          thr' = [thr EXCEPT ![v][i] =
                    [pc |-> IF virtual_queue[v] = None THEN "connect" ELSE "done", t |-> t]]
    /\ UNCHANGED <<pc, dst, op, reply, bind_port, virtual_queue, local_dc, local_connect_port,
                   remote_endpoint, dct_meta_cache, path_rec_cache, rc_connect_param,
                   goal, queues>>

\* qp_connect, whose result replaces whatever the VQ holds by then: the RC
\* that is replaced is dropped.
MigrateConnect(v, i) ==
    /\ pc[v] # "closed"
    /\ thr[v][i].pc = "connect"
    /\ thr' = [thr EXCEPT ![v][i].pc = "done"]
    /\ \/ /\ \E qp \in QpConnect(thr[v][i].t) :
                virtual_queue' = [virtual_queue EXCEPT ![v] = qp]
          /\ rc_cq' = [rc_cq EXCEPT ![v] = 0]
       \/ "conn" \in CanFail /\ UNCHANGED <<virtual_queue, rc_cq>>
    /\ UNCHANGED <<pc, dst, op, reply, bind_port, local_dc, local_connect_port,
                   remote_endpoint, dct_meta_cache, path_rec_cache, rc_connect_param,
                   goal, dc_cq, owed, got>>

Next == \E v \in VQs :
    \/ Connect(v) \/ PushBegin(v) \/ PushBatch(v) \/ PushEnd(v) \/ WaitRc(v) \/ WaitUd(v) \/ Pop(v)
    \/ Bind(v) \/ UnBind(v) \/ Close(v)
    \/ \E i \in DOMAIN thr[v] : MigrateStart(v, i) \/ MigrateCheck(v, i) \/ MigrateConnect(v, i)

Spec == Init /\ [][Next]_vars

-----------------------------------------------------------------------------
(* Properties.                                                             *)

OrNone(S) == S \cup {None}

TypeOK ==
    /\ pc \in [VQs -> {"user", "post_1", "wait_1", "post_2", "wait_2", "scan", "sidr", "push", 
                       "wait_rc", "wait_ud", "panic", "closed"}]
    /\ dst \in [VQs -> OrNone(Targets)]
    /\ op \in [VQs -> [left : Nat, sig : BOOLEAN, pop : BOOLEAN]]
    /\ virtual_queue \in [VQs -> OrNone(Targets)]
    /\ local_dc \in [VQs -> OrNone(Services)]
    /\ local_connect_port \in [VQs -> OrNone(Services)]
    /\ bind_port \in [VQs -> OrNone(Ports)]
    /\ remote_endpoint \in [VQs -> OrNone(Targets)]
    /\ dct_meta_cache \in [VQs -> SUBSET Targets]
    /\ path_rec_cache \in [VQs -> SUBSET Addrs]
    /\ rc_connect_param \in [VQs -> OrNone(Targets)]
    /\ \A v \in VQs : thr[v] \in Seq([pc : {"start", "copy", "connect", "done"},
                                      t : OrNone(Targets)])
    /\ \A s \in Services : dc_cq[s] \in Seq(VQs)
    /\ rc_cq \in [VQs -> Nat]
    /\ owed \in [Services -> Int]
    /\ goal \in [VQs -> OrNone(Addrs)]
    /\ got \in [VQs -> OrNone(VQs)]

\* The remote that the next Push of the VQ reaches: Push prefers the RC.
Reaches(v) == IF virtual_queue[v] # None THEN virtual_queue[v] ELSE remote_endpoint[v]

\* "Connect the QP according to the `addr`": while the VQ is open, what is
\* pushed goes to the address of the last Connect that was answered ok.
PushReachesLastConnect ==
    \A v \in VQs : goal[v] # None /\ pc[v] # "closed" =>
        Reaches(v) # None /\ Reaches(v)[1] = goal[v]

\* "pop an RDMA request from the queue": Pop returns completions of requests
\* that were pushed on the same VQ.
PopReturnsOwn == \A v \in VQs : got[v] \in {None, v}

\* A Push with a signalled request that waits for a completion (pop_at_once)
\* waits where that request completes, so that it returns.
WaitCanEnd ==
    \A v \in VQs :
        op[v].sig => (pc[v] = "wait_rc" => rc_cq[v] > 0) /\ pc[v] # "wait_ud"

\* "Persist this field to avoid lifetime trouble in `kthread_run`": a migration
\* thread that has not finished finds the VQ it points to.
ThreadSeesVq ==
    \A v \in VQs : pc[v] = "closed" => \A i \in DOMAIN thr[v] : thr[v][i].pc = "done"

\* A VQ whose Connect was answered ok can push: it has an RC or an endpoint,
\* whatever failed in earlier attempts and whatever they left in the caches.
OkConnectCanPush ==
    \A v \in VQs : goal[v] # None /\ pc[v] # "closed" => Reaches(v) # None

\* A completion on the DC QP of an RCtrl is on the DC QP that the Pop of the VQ
\* that posted it polls, while that VQ is open and not bound, whichever ports
\* its later Connects name: no VQ has left completions where it never looks.
CompletionsArePolled ==
    \A s \in Services : \A i \in DOMAIN dc_cq[s] : LET v == dc_cq[s][i] IN
        pc[v] # "closed" /\ bind_port[v] = None => DctQp /\ local_dc[v] = s

\* The lookups of query_dct_meta may take the completions of pushed requests,
\* but leave as many of their own for Pop: however they interleave, time out or
\* fail, what was pushed and not popped, and what lookups still wait for, is
\* there to be polled.
LookupsPayBack ==
    \A s \in Services :
        Len(dc_cq[s]) >= owed[s] + Cardinality({v \in VQs : local_dc[v] = s
                                                            /\ pc[v] \in {"wait_1", "wait_2"}})
=============================================================================
