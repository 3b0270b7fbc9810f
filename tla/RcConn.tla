------------------------------- MODULE RcConn -------------------------------
(***************************************************************************)
(* Connection and disconnection of reliable-connected QPs through the      *)
(* InfiniBand connection manager (CM).                                     *)
(*                                                                         *)
(* The active side is KRdmaKit's RC object (qp/rc.rs): connect() sends a   *)
(* REQ, sleeps on a completion, is woken by the REP callback and answers   *)
(* RTU; dropping the object destroys the QP and then the cm_id.            *)
(* The passive side is RCtrl (ctrl.rs): its CM callback builds one RC per  *)
(* REQ and keeps it in registered_rcs until the DREQ callback removes it.  *)
(* Between them is the kernel CM (drivers/infiniband/core/cm.c): it keeps  *)
(* the state of each cm_id, runs the callbacks of one cm_id one at a time  *)
(* and those of different cm_ids concurrently, and makes ib_destroy_cm_id  *)
(* wait for the callback that is running.                                  *)
(*                                                                         *)
(* A member of Clients stands for one RC object of the active side, which  *)
(* connects once and is dropped once, and also names the cm_id and the RC  *)
(* that its REQ creates at the passive side.                               *)
(***************************************************************************)
EXTENDS Naturals, FiniteSets

CONSTANTS Clients,  \* the RC objects that connect to this RCtrl
          Vid,      \* Vid[c] is the qd that c passes to connect(); 0 asks for a fresh key
          CanFail   \* the calls that may fail: see FailKinds

\* A CM call, a QP state change of either side; the CM gives up resending.
FailKinds == {"cm_send", "client_qp", "server_qp", "give_up"}

ASSUME ConstantsAssumption ==
    /\ Vid \in [Clients -> Nat]
    /\ CanFail \subseteq FailKinds

VARIABLES
    cpc,    \* where the thread that owns RC c is (connect, then drop)
    ret,    \* what connect() returned to its caller
    cqp,    \* state of c's own QP
    ccm,    \* CM state of c's own cm_id
    done,   \* RC.done: the completion connect() sleeps on has fired
    ccb,    \* the step c's own CM callback (handle_reply) is about to take
    scm,    \* CM state of the passive cm_id that c's REQ created
    sqp,    \* state of the passive QP
    sctx,   \* what the context pointer of the passive cm_id points to
    skey,   \* new_key of rc_conn_callback, and the key stored in InQPContext
    spc,    \* the step the callback of the passive cm_id is about to take
    pend,   \* a DREQ event waits behind the running callback of that cm_id
    mutex,  \* RCtrl.mutex is held
    dropping,  \* the replaced RC whose drop is waiting in ib_destroy_cm_id, if any
    registered_rcs,  \* RCtrl.registered_rcs: key -> RC
    free_in_qp_key,  \* RCtrl.free_in_qp_key
    net     \* CM messages in flight; one that is never received is lost

cvars == <<cpc, ret, cqp, ccm, done, ccb>>
svars == <<scm, sqp, sctx, skey, spc, pend, mutex, dropping, registered_rcs, free_in_qp_key>>
vars  == <<cvars, svars, net>>

ClientPc  == {"new", "wait", "rtu", "up", "err", "qpfreed", "cmwait", "gone"}
QpState   == {"none", "RESET", "INIT", "RTR", "RTS", "destroyed"}
ActiveCm  == {"IDLE", "REQ_SENT", "REP_RCVD", "ESTABLISHED", "DREQ_RCVD", "TIMEWAIT", "destroyed"}
PassiveCm == {"none", "REQ_RCVD", "REP_SENT", "ESTABLISHED", "IDLE", "DREQ_RCVD", "TIMEWAIT",
              "destroyed"}
ClientCb  == {"none", "init", "rtr", "rts", "done"}
ServerPc  == {"idle", "create", "init", "rtr", "rts", "reply", "reply_err", "ctx", "insert",
              "drop_old", "unlock", "post", "self_drop", "dreq", "dereg"}
\* To the passive side: REQ, RTU, REJ_S, DREQ_S.  To the active side: REP, DREQ_C,
\* and two REJs: REJ_Q answers the REQ and names no passive cm_id, REJ_P comes
\* from a passive cm_id that has sent its REP and names it.
MsgKinds  == {"REQ", "REP", "RTU", "REJ_S", "DREQ_S", "REJ_Q", "REJ_P", "DREQ_C"}

\* Mutant: an entry that is there is kept.
MapInsertIfAbsent(m, k, v) ==
    [x \in DOMAIN m \cup {k} |-> IF x \in DOMAIN m THEN m[x] ELSE v]

MapInsert(m, k, v) == [x \in DOMAIN m \cup {k} |-> IF x = k THEN v ELSE m[x]]

\* Mutant: the entry is only looked up.
MapRemoveNothing(m, k) == m

MapRemove(m, k) == [x \in DOMAIN m \ {k} |-> m[x]]

\* Mutant: a passive cm_id gets its attributes only once the REP is out.
AttrStatesReplied == {"REP_SENT", "REP_RCVD", "ESTABLISHED"}

\* The CM states in which ib_cm_init_qp_attr fills in the attributes of a QP
\* state change.  (REQ_SENT also serves INIT, but no callback runs in it.)
AttrStates == {"REQ_RCVD", "REP_SENT", "REP_RCVD", "ESTABLISHED"}

\* Mutant: a QP that is gone is reported as one in error.
ModifyQpErr(qp, to) == IF qp = "destroyed" THEN "ERR" ELSE to

\* ib_modify_qp.  A call on a QP that Drop has destroyed brings nothing back.
ModifyQp(qp, to) == IF qp = "destroyed" THEN qp ELSE to
Registered == {registered_rcs[k] : k \in DOMAIN registered_rcs}

Init ==
    /\ cpc  = [c \in Clients |-> "new"]
    /\ ret  = [c \in Clients |-> "none"]
    /\ cqp  = [c \in Clients |-> "RESET"]
    /\ ccm  = [c \in Clients |-> "IDLE"]
    /\ done = [c \in Clients |-> FALSE]
    /\ ccb  = [c \in Clients |-> "none"]
    /\ scm  = [c \in Clients |-> "none"]
    /\ sqp  = [c \in Clients |-> "none"]
    /\ sctx = [c \in Clients |-> "none"]
    /\ skey = [c \in Clients |-> 0]
    /\ spc  = [c \in Clients |-> "idle"]
    /\ pend = [c \in Clients |-> FALSE]
    /\ mutex = FALSE
    /\ dropping = {}
    /\ registered_rcs = [k \in {} |-> 0]
    /\ free_in_qp_key = 0
    /\ net = {}

-----------------------------------------------------------------------------
(* The active side: RC::connect and Drop for RC.                           *)

\* connect returns Err: qp_connect propagates it with `?` and so drops the RC.
ConnectFails(c) ==
    /\ cpc' = [cpc EXCEPT ![c] = "err"]
    /\ ret' = [ret EXCEPT ![c] = "err"]

\* done.init() and send_req: the CM queues the REQ, or the call fails.
SendReq(c) ==
    /\ cpc[c] = "new"
    /\ \/ /\ cpc' = [cpc EXCEPT ![c] = "wait"]
          /\ ccm' = [ccm EXCEPT ![c] = "REQ_SENT"]
          /\ net' = net \cup {<<"REQ", c>>}
          /\ UNCHANGED ret
       \/ /\ "cm_send" \in CanFail
          /\ ConnectFails(c)
          /\ UNCHANGED <<ccm, net>>
    /\ UNCHANGED <<cqp, done, ccb, svars>>

\* Mutant: the wait is taken for done whenever it returns.
WaitDoneUnchecked(c) ==
    /\ cpc[c] = "wait"
    /\ cpc' = [cpc EXCEPT ![c] = "rtu"]
    /\ done' = [done EXCEPT ![c] = FALSE]
    /\ UNCHANGED <<ret, cqp, ccm, ccb, svars, net>>

\* done.wait returns because the REP callback fired the completion.
WaitDone(c) ==
    /\ cpc[c] = "wait"
    /\ done[c]
    /\ cpc' = [cpc EXCEPT ![c] = "rtu"]
    /\ done' = [done EXCEPT ![c] = FALSE]
    /\ UNCHANGED <<ret, cqp, ccm, ccb, svars, net>>

\* Mutant: a wait without a timeout.
WaitForEver(c) == FALSE

\* CONNECT_TIME_OUT_MS passed, or a signal interrupted the wait.
WaitTimeout(c) ==
    /\ cpc[c] = "wait"
    /\ ~done[c]
    /\ ConnectFails(c)
    /\ UNCHANGED <<cqp, ccm, done, ccb, svars, net>>

\* Mutant: the CM state is not looked at.
SendRtuAnyState(c) ==
    /\ cpc[c] = "rtu"
    /\ ccm' = [ccm EXCEPT ![c] = "ESTABLISHED"]
    /\ net' = net \cup {<<"RTU", c>>}
    /\ cpc' = [cpc EXCEPT ![c] = "up"]
    /\ ret' = [ret EXCEPT ![c] = "ok"]
    /\ UNCHANGED <<cqp, done, ccb, svars>>

\* send_rtu: ib_send_cm_rtu accepts only REP_RCVD.
SendRtu(c) ==
    /\ cpc[c] = "rtu"
    /\ \/ /\ ccm[c] = "REP_RCVD"
          /\ ccm' = [ccm EXCEPT ![c] = "ESTABLISHED"]
          /\ net' = net \cup {<<"RTU", c>>}
          /\ cpc' = [cpc EXCEPT ![c] = "up"]
          /\ ret' = [ret EXCEPT ![c] = "ok"]
       \/ /\ ccm[c] # "REP_RCVD" \/ "cm_send" \in CanFail
          /\ ConnectFails(c)
          /\ UNCHANGED <<ccm, net>>
    /\ UNCHANGED <<cqp, done, ccb, svars>>

\* Drop for RC, first half: ib_destroy_qp and ib_free_cq.  A connected RC is
\* dropped when its owner lets go of it, a failed one at once.
DropQp(c) ==
    /\ cpc[c] \in {"up", "err"}
    /\ cqp' = [cqp EXCEPT ![c] = "destroyed"]
    /\ cpc' = [cpc EXCEPT ![c] = "qpfreed"]
    /\ UNCHANGED <<ret, ccm, done, ccb, svars, net>>

\* What ib_destroy_cm_id may tell the peer, by the state the cm_id is in: a set of
\* sets of messages, for the send can fail and is not repeated.
DestroyMsgs(state, c, dreq) ==
    LET said == CASE state \in {"REQ_SENT", "REP_RCVD"} -> {<<"REJ_S", c>>}
                  [] state = "REQ_RCVD" -> {<<"REJ_Q", c>>}
                  [] state = "REP_SENT" -> {<<"REJ_P", c>>}
                  [] state = "ESTABLISHED" -> {<<dreq, c>>}
                  [] OTHER -> {}
    IN  {said} \cup IF "cm_send" \in CanFail THEN {{}} ELSE {}

\* Drop for RC, second half: cm.reset() = ib_destroy_cm_id, up to its wait.
DropCm(c) ==
    /\ cpc[c] = "qpfreed"
    /\ \E m \in DestroyMsgs(ccm[c], c, "DREQ_S") : net' = net \cup m
    /\ ccm' = [ccm EXCEPT ![c] = "destroyed"]
    /\ cpc' = [cpc EXCEPT ![c] = "cmwait"]
    /\ UNCHANGED <<ret, cqp, done, ccb, svars>>

\* Mutant: the cm_id is destroyed without waiting for its callback.
DropEndAtOnce(c) ==
    /\ cpc[c] = "cmwait"
    /\ cpc' = [cpc EXCEPT ![c] = "gone"]
    /\ UNCHANGED <<ret, cqp, ccm, done, ccb, svars, net>>

\* ib_destroy_cm_id returns when no callback of the cm_id runs; the RC is freed.
DropEnd(c) ==
    /\ cpc[c] = "cmwait"
    /\ ccb[c] = "none"
    /\ cpc' = [cpc EXCEPT ![c] = "gone"]
    /\ UNCHANGED <<ret, cqp, ccm, done, ccb, svars, net>>

-----------------------------------------------------------------------------
(* CM events at the active side: RC::cm_handler.                           *)

\* IB_CM_REP_RECEIVED: the CM accepts a REP only in REQ_SENT; handle_reply starts.
RecvRep(c) ==
    /\ <<"REP", c>> \in net
    /\ net' = net \ {<<"REP", c>>}
    /\ ccm[c] = "REQ_SENT"
    /\ ccm' = [ccm EXCEPT ![c] = "REP_RCVD"]
    /\ ccb' = [ccb EXCEPT ![c] = "init"]
    /\ UNCHANGED <<cpc, ret, cqp, done, svars>>

\* One QP state change of handle_reply: it fails when the CM state has moved on
\* (a REJ, or Drop) or ib_modify_qp refuses.  On a QP that Drop has destroyed
\* get_status and the change can come out either way.
ReplyModify(c, at, to, ok, err) ==
    /\ ccb[c] = at
    /\ \/ /\ ccm[c] \in AttrStates \/ cqp[c] = "destroyed"
          /\ cqp' = [cqp EXCEPT ![c] = ModifyQp(@, to)]
          /\ ccb' = [ccb EXCEPT ![c] = ok]
       \/ /\ ccm[c] \notin AttrStates \/ cqp[c] = "destroyed" \/ "client_qp" \in CanFail
          /\ ccb' = [ccb EXCEPT ![c] = err]
          /\ UNCHANGED cqp
    /\ UNCHANGED <<cpc, ret, ccm, done, svars, net>>

\* bring_to_rtr takes the QP to INIT and to RTR, and its error is printed; the
\* result of bring_to_rts is ignored.
ReplyInit(c) == ReplyModify(c, "init", "INIT", "rtr", "done")
ReplyRtr(c)  == ReplyModify(c, "rtr", "RTR", "rts", "done")
ReplyRts(c)  == ReplyModify(c, "rts", "RTS", "done", "done")

\* handle_reply: remote_mr is set and done.done() wakes connect().
ReplyDone(c) ==
    /\ ccb[c] = "done"
    /\ done' = [done EXCEPT ![c] = TRUE]
    /\ ccb' = [ccb EXCEPT ![c] = "none"]
    /\ UNCHANGED <<cpc, ret, cqp, ccm, svars, net>>

\* IB_CM_REJ_RECEIVED: the cm_id changes state, the callback only prints.  The
\* CM finds the cm_id of a REJ_P by the passive id too, which a client learns
\* with the REP: before that the REJ is discarded.
RecvRejC(c) ==
    \/ /\ <<"REJ_Q", c>> \in net
       /\ net' = net \ {<<"REJ_Q", c>>}
       /\ ccm[c] = "REQ_SENT"
       /\ ccm' = [ccm EXCEPT ![c] = "IDLE"]
       /\ UNCHANGED <<cpc, ret, cqp, done, ccb, svars>>
    \/ /\ <<"REJ_P", c>> \in net
       /\ net' = net \ {<<"REJ_P", c>>}
       /\ ccm[c] \in {"REP_RCVD", "ESTABLISHED"}
       /\ ccm' = [ccm EXCEPT ![c] = "TIMEWAIT"]
       /\ UNCHANGED <<cpc, ret, cqp, done, ccb, svars>>

\* IB_CM_DREQ_RECEIVED falls in the callback's `_` branch: only printed.
RecvDreqC(c) ==
    /\ <<"DREQ_C", c>> \in net
    /\ net' = net \ {<<"DREQ_C", c>>}
    /\ ccm[c] = "ESTABLISHED"
    /\ ccm' = [ccm EXCEPT ![c] = "DREQ_RCVD"]
    /\ UNCHANGED <<cpc, ret, cqp, done, ccb, svars>>

\* The CM gives up resending the REQ: IB_CM_REQ_ERROR, only printed.
ReqError(c) ==
    /\ "give_up" \in CanFail
    /\ ccm[c] = "REQ_SENT"
    /\ ccm' = [ccm EXCEPT ![c] = "IDLE"]
    /\ UNCHANGED <<cpc, ret, cqp, done, ccb, svars, net>>

-----------------------------------------------------------------------------
(* The passive side: RCtrl::cm_handler.                                    *)

\* IB_CM_REQ_RECEIVED: the CM makes a cm_id that inherits the listener's
\* callback and context, and runs the callback.
RecvReq(c) ==
    /\ <<"REQ", c>> \in net
    /\ net' = net \ {<<"REQ", c>>}
    /\ scm' = [scm EXCEPT ![c] = "REQ_RCVD"]
    /\ sctx' = [sctx EXCEPT ![c] = "rctrl"]
    /\ spc' = [spc EXCEPT ![c] = "create"]
    /\ UNCHANGED <<cvars, sqp, skey, pend, mutex, dropping, registered_rcs, free_in_qp_key>>

\* get_next_in_qp_key: a request for qd 0 takes the counter, any other its qd.
NextKey(vid) == IF vid = 0 THEN free_in_qp_key ELSE vid

\* rc_conn_callback: create the RC and choose its key.  Nobody else can see this
\* RC before its insertion.
CbCreate(c) ==
    /\ spc[c] = "create"
    /\ skey' = [skey EXCEPT ![c] = NextKey(Vid[c])]
    /\ free_in_qp_key' = IF Vid[c] = 0 THEN free_in_qp_key + 1 ELSE free_in_qp_key
    /\ sqp' = [sqp EXCEPT ![c] = "RESET"]
    /\ spc' = [spc EXCEPT ![c] = "init"]
    /\ UNCHANGED <<cvars, net, scm, sctx, pend, mutex, dropping, registered_rcs>>

\* One QP state change of rc_conn_callback: it fails when the client's REJ has
\* taken the cm_id out of REQ_RCVD, or ib_modify_qp refuses.
CbModify(c, at, to, ok, err) ==
    /\ spc[c] = at
    /\ \/ /\ scm[c] \in AttrStates
          /\ sqp' = [sqp EXCEPT ![c] = ModifyQp(@, to)]
          /\ spc' = [spc EXCEPT ![c] = ok]
       \/ /\ scm[c] \notin AttrStates \/ "server_qp" \in CanFail
          /\ spc' = [spc EXCEPT ![c] = err]
          /\ UNCHANGED sqp
    /\ UNCHANGED <<cvars, net, scm, sctx, skey, pend, mutex, dropping, registered_rcs, free_in_qp_key>>

\* bring_to_rtr takes the QP to INIT and to RTR, and its error selects the Err
\* branch; the result of bring_to_rts is ignored.
CbInit(c) == CbModify(c, "init", "INIT", "rtr", "reply_err")
CbRtr(c)  == CbModify(c, "rtr", "RTR", "rts", "reply_err")
CbRts(c)  == CbModify(c, "rts", "RTS", "reply", "reply")

\* connect_reply: the REP goes out whether or not the QP came up; the error
\* of ib_send_cm_rep (which accepts only REQ_RCVD) does not stop the callback.
CbReply(c) ==
    /\ spc[c] \in {"reply", "reply_err"}
    /\ \/ /\ scm[c] = "REQ_RCVD"
          /\ scm' = [scm EXCEPT ![c] = "REP_SENT"]
          /\ net' = net \cup {<<"REP", c>>}
       \/ /\ scm[c] # "REQ_RCVD" \/ "cm_send" \in CanFail
          /\ UNCHANGED <<scm, net>>
    /\ spc' = [spc EXCEPT ![c] = IF @ = "reply" THEN "ctx" ELSE "self_drop"]
    /\ UNCHANGED <<cvars, sqp, sctx, skey, pend, mutex, dropping, registered_rcs, free_in_qp_key>>

\* Mutant: the cm_id keeps the context of the listener.
CbSetContextLost(c) ==
    /\ spc[c] = "ctx"
    /\ spc' = [spc EXCEPT ![c] = "insert"]
    /\ UNCHANGED <<cvars, net, scm, sqp, sctx, skey, pend, mutex, dropping, registered_rcs, free_in_qp_key>>

\* set_context: the cm_id now carries its own InQPContext.
CbSetContext(c) ==
    /\ spc[c] = "ctx"
    /\ sctx' = [sctx EXCEPT ![c] = "in_qp"]
    /\ spc' = [spc EXCEPT ![c] = "insert"]
    /\ UNCHANGED <<cvars, net, scm, sqp, skey, pend, mutex, dropping, registered_rcs, free_in_qp_key>>

\* mutex.lock and registered_rcs.insert.  HashMap::insert returns the RC it
\* replaces, which is dropped there, with the mutex held: its QP is destroyed
\* and ib_destroy_cm_id is called for its cm_id.
CbInsert(c) ==
    /\ spc[c] = "insert"
    /\ ~mutex
    /\ mutex' = TRUE
    /\ registered_rcs' = MapInsert(registered_rcs, skey[c], c)
    /\ IF skey[c] \in DOMAIN registered_rcs
       THEN LET old == registered_rcs[skey[c]] IN
            /\ sqp' = [sqp EXCEPT ![old] = "destroyed"]
            /\ \E m \in DestroyMsgs(scm[old], old, "DREQ_C") : net' = net \cup m
            /\ scm' = [scm EXCEPT ![old] = "destroyed"]
            /\ spc' = [spc EXCEPT ![c] = "drop_old"]
            /\ dropping' = {old}
       ELSE /\ spc' = [spc EXCEPT ![c] = "unlock"]
            /\ UNCHANGED <<sqp, net, scm, dropping>>
    /\ UNCHANGED <<cvars, sctx, skey, pend, free_in_qp_key>>

\* Mutant: the replaced cm_id is not waited for.
CbDropOldAtOnce(c) ==
    /\ spc[c] = "drop_old"
    /\ dropping' = {}
    /\ spc' = [spc EXCEPT ![c] = "unlock"]
    /\ UNCHANGED <<cvars, net, scm, sqp, sctx, skey, pend, mutex, registered_rcs, free_in_qp_key>>

\* ib_destroy_cm_id of the replaced RC returns once no callback of it runs.
CbDropOld(c) ==
    /\ spc[c] = "drop_old"
    /\ \A old \in dropping : spc[old] = "idle"
    /\ dropping' = {}
    /\ spc' = [spc EXCEPT ![c] = "unlock"]
    /\ UNCHANGED <<cvars, net, scm, sqp, sctx, skey, pend, mutex, registered_rcs, free_in_qp_key>>

\* The callback returns 0; the CM then runs the event queued behind it, if any.
CallbackEnds(c) ==
    /\ spc' = [spc EXCEPT ![c] = IF pend[c] THEN "dreq" ELSE "idle"]
    /\ pend' = [pend EXCEPT ![c] = FALSE]


CbUnlock(c) ==
    /\ spc[c] = "unlock"
    /\ mutex' = FALSE
    /\ spc' = [spc EXCEPT ![c] = "post"]
    /\ UNCHANGED <<cvars, net, scm, sqp, sctx, skey, pend, dropping, registered_rcs, free_in_qp_key>>

\* post_recvs(ib_qp, null, 512), with the raw QP pointer taken at the start.
CbPost(c) ==
    /\ spc[c] = "post"
    /\ CallbackEnds(c)
    /\ UNCHANGED <<cvars, net, scm, sqp, sctx, skey, mutex, dropping, registered_rcs, free_in_qp_key>>

\* The Err branch of rc_conn_callback drops in_qp: the QP is destroyed and
\* ib_destroy_cm_id waits, inside the callback, for the callback to return.
CbSelfDrop(c) ==
    /\ spc[c] = "self_drop"
    /\ scm[c] # "destroyed"
    /\ sqp' = [sqp EXCEPT ![c] = "destroyed"]
    /\ \E m \in DestroyMsgs(scm[c], c, "DREQ_C") : net' = net \cup m
    /\ scm' = [scm EXCEPT ![c] = "destroyed"]
    /\ UNCHANGED <<cvars, sctx, skey, spc, pend, mutex, dropping, registered_rcs, free_in_qp_key>>

\* IB_CM_RTU_RECEIVED does nothing in the callback.
RecvRtu(c) ==
    /\ <<"RTU", c>> \in net
    /\ net' = net \ {<<"RTU", c>>}
    /\ scm[c] = "REP_SENT"
    /\ scm' = [scm EXCEPT ![c] = "ESTABLISHED"]
    /\ UNCHANGED <<cvars, sqp, sctx, skey, spc, pend, mutex, dropping, registered_rcs, free_in_qp_key>>

\* IB_CM_REJ_RECEIVED is only printed: the RC stays registered.
RecvRejS(c) ==
    /\ <<"REJ_S", c>> \in net
    /\ net' = net \ {<<"REJ_S", c>>}
    /\ scm[c] \in {"REQ_RCVD", "REP_SENT", "ESTABLISHED"}
    /\ scm' = [scm EXCEPT ![c] = IF @ = "ESTABLISHED" THEN "TIMEWAIT" ELSE "IDLE"]
    /\ UNCHANGED <<cvars, sqp, sctx, skey, spc, pend, mutex, dropping, registered_rcs, free_in_qp_key>>

\* The CM gives up resending the REP: IB_CM_REP_ERROR, only printed.
RepError(c) ==
    /\ "give_up" \in CanFail
    /\ scm[c] = "REP_SENT"
    /\ scm' = [scm EXCEPT ![c] = "IDLE"]
    /\ UNCHANGED <<cvars, net, sqp, sctx, skey, spc, pend, mutex, dropping, registered_rcs, free_in_qp_key>>

\* IB_CM_DREQ_RECEIVED: the event is queued behind a running callback.
RecvDreqS(c) ==
    /\ <<"DREQ_S", c>> \in net
    /\ net' = net \ {<<"DREQ_S", c>>}
    /\ scm[c] \in {"REP_SENT", "ESTABLISHED"}
    /\ scm' = [scm EXCEPT ![c] = "DREQ_RCVD"]
    /\ IF spc[c] = "idle"
       THEN spc' = [spc EXCEPT ![c] = "dreq"] /\ UNCHANGED pend
       ELSE pend' = [pend EXCEPT ![c] = TRUE] /\ UNCHANGED spc
    /\ UNCHANGED <<cvars, sqp, sctx, skey, mutex, dropping, registered_rcs, free_in_qp_key>>

\* The callback takes back the Box<InQPContext> the context points to.
CbDreq(c) ==
    /\ spc[c] = "dreq"
    /\ sctx' = [sctx EXCEPT ![c] = "freed"]
    /\ spc' = [spc EXCEPT ![c] = "dereg"]
    /\ UNCHANGED <<cvars, net, scm, sqp, skey, pend, mutex, dropping, registered_rcs, free_in_qp_key>>

\* dereg_rc(ctx.key), a section under the mutex: the RC is removed and dropped
\* after handoff_raw_cm, so that its cm_id is not destroyed.
CbDereg(c) ==
    /\ spc[c] = "dereg"
    /\ ~mutex
    /\ IF skey[c] \in DOMAIN registered_rcs
       THEN /\ sqp' = [sqp EXCEPT ![registered_rcs[skey[c]]] = "destroyed"]
            /\ registered_rcs' = MapRemove(registered_rcs, skey[c])
       ELSE UNCHANGED <<sqp, registered_rcs>>
    /\ CallbackEnds(c)
    /\ UNCHANGED <<cvars, net, scm, sctx, skey, mutex, dropping, free_in_qp_key>>

-----------------------------------------------------------------------------

ClientThread(c) ==
    \/ SendReq(c) \/ WaitDone(c) \/ WaitTimeout(c) \/ SendRtu(c)
    \/ DropQp(c) \/ DropCm(c) \/ DropEnd(c)

ClientCallback(c) == ReplyInit(c) \/ ReplyRtr(c) \/ ReplyRts(c) \/ ReplyDone(c)

ServerCallback(c) ==
    \/ CbCreate(c) \/ CbInit(c) \/ CbRtr(c) \/ CbRts(c) \/ CbReply(c) \/ CbSetContext(c)
    \/ CbInsert(c) \/ CbDropOld(c) \/ CbUnlock(c) \/ CbPost(c) \/ CbSelfDrop(c)
    \/ CbDreq(c) \/ CbDereg(c)

CmEvent(c) ==
    \/ RecvRep(c) \/ RecvRejC(c) \/ RecvDreqC(c) \/ ReqError(c)
    \/ RecvReq(c) \/ RecvRtu(c) \/ RecvRejS(c) \/ RepError(c) \/ RecvDreqS(c)

Next == \E c \in Clients :
    ClientThread(c) \/ ClientCallback(c) \/ ServerCallback(c) \/ CmEvent(c)

Spec == Init /\ [][Next]_vars

\* The scheduler runs a thread or a callback that can run.  Nothing obliges a
\* CM message to arrive, nor a connected RC to be dropped.
Fairness == \A c \in Clients :
    /\ WF_vars(ClientThread(c) /\ cpc[c] # "up")
    /\ WF_vars(ClientCallback(c))
    /\ WF_vars(ServerCallback(c))

FairSpec == Spec /\ Fairness

-----------------------------------------------------------------------------
(* Properties.                                                             *)

TypeOK ==
    /\ cpc  \in [Clients -> ClientPc]
    /\ ret  \in [Clients -> {"none", "ok", "err"}]
    /\ cqp  \in [Clients -> QpState]
    /\ ccm  \in [Clients -> ActiveCm]
    /\ done \in [Clients -> BOOLEAN]
    /\ ccb  \in [Clients -> ClientCb]
    /\ scm  \in [Clients -> PassiveCm]
    /\ sqp  \in [Clients -> QpState]
    /\ sctx \in [Clients -> {"none", "rctrl", "in_qp", "freed"}]
    /\ skey \in [Clients -> Nat]
    /\ spc  \in [Clients -> ServerPc]
    /\ pend \in [Clients -> BOOLEAN]
    /\ mutex \in BOOLEAN
    /\ dropping \subseteq Clients
    /\ DOMAIN registered_rcs \subseteq Nat
    /\ registered_rcs \in [DOMAIN registered_rcs -> Clients]
    /\ free_in_qp_key \in Nat
    /\ net \subseteq MsgKinds \X Clients

\* Whatever get_trc can hand out is usable: the RC found under a key was
\* registered under that key, its QP is up and its cm_id is not destroyed,
\* although inserts replace entries and DREQ callbacks remove them by key.
RegistryConsistent ==
    \A k \in DOMAIN registered_rcs : LET c == registered_rcs[k] IN
        /\ skey[c] = k
        /\ sqp[c] \in {"RTR", "RTS"}
        /\ scm[c] # "destroyed"

\* The DREQ callback casts the cm_id's context to Box<InQPContext>: it must be
\* the one rc_conn_callback stored after sending the REP, never the listener's
\* RCtrl pointer the cm_id was born with, and never a Box freed before.
DreqSeesItsContext ==
    \A c \in Clients : spc[c] = "dreq" => sctx[c] = "in_qp"

\* dereg_rc is given a key, not an RC: what it removes is still the RC of the
\* connection that was closed, never one that took over its key.
DreqRemovesOwnRc ==
    [][\A k \in DOMAIN registered_rcs :
          k \notin DOMAIN registered_rcs' => spc[registered_rcs[k]] = "dereg"]_vars

\* rc_conn_callback posts receives on the raw QP pointer after it has released
\* the mutex.  The QP can be gone by then, but only because a connection under
\* the same key replaced the RC, whose callback still waits, mutex in hand, for
\* this one: never because of the client's own DREQ.
PostOnDeadQpIsReplaced ==
    \A c \in Clients : spc[c] = "post" /\ sqp[c] = "destroyed" =>
        /\ c \in dropping
        /\ \E d \in Clients \ {c} : spc[d] = "drop_old" /\ skey[d] = skey[c]

\* handle_reply runs on memory that Drop for RC has not freed.
CallbackBeforeFree ==
    \A c \in Clients : ccb[c] # "none" => cpc[c] # "gone"

\* handle_reply can meet a QP that Drop has already destroyed only if connect()
\* gave up first; never for a connection that was reported as made.
LateReplyOnlyAfterError ==
    \A c \in Clients : ccb[c] # "none" /\ cqp[c] = "destroyed" => ret[c] = "err"

\* handle_reply and rc_conn_callback drop the errors of the state changes that a
\* REJ causes, and yet, unless ib_modify_qp itself fails, a connect() that returns
\* Ok has brought both QPs to RTS: the CM state that made them fail also stops
\* send_rtu and send_reply.
OkMeansBothUp ==
    CanFail \cap {"client_qp", "server_qp"} = {} =>
        \A c \in Clients : ret[c] = "ok" =>
            cqp[c] \in {"RTS", "destroyed"} /\ sqp[c] \in {"RTS", "destroyed"}

\* The Err branch of rc_conn_callback destroys its own cm_id and so never returns.
\* Unless ib_modify_qp itself fails, only the REJ of a client that has given up
\* leads there: no client that waits or is connected is left in that way.
SelfDropOnlyAfterGiveUp ==
    "server_qp" \notin CanFail =>
        \A c \in Clients : spc[c] \in {"reply_err", "self_drop"} => ret[c] = "err"

\* connect() returns, for the wait is bounded although a REJ does not end it, and
\* dropping an RC ends, for ib_destroy_cm_id is not kept waiting by handle_reply.
OwnerGoesOn ==
    \A c \in Clients : cpc[c] \notin {"new", "up", "gone"} ~> cpc[c] \in {"up", "gone"}

\* Every callback of RCtrl returns, so the CM's worker is never blocked for ever.
CallbackReturns ==
    \A c \in Clients : spc[c] # "idle" ~> spc[c] = "idle"

\* The Err branch of rc_conn_callback, which destroys its own cm_id, is the only
\* place where a callback of RCtrl can stay for ever, and one that stays there
\* holds up no callback of another connection.
OnlySelfDropBlocks ==
    \A c \in Clients : spc[c] # "idle" ~> spc[c] \in {"idle", "self_drop"}

\* A disconnection that reached the passive side ends with the RC deregistered.
DreqDeregisters ==
    \A c \in Clients : spc[c] = "dreq" ~> c \notin Registered
=============================================================================
