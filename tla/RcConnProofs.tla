---------------------------- MODULE RcConnProofs ----------------------------
(***************************************************************************)
(* Proofs about RcConn, for any number of clients, any choice of qds and    *)
(* any subset of the failures.                                              *)
(***************************************************************************)
EXTENDS RcConn, TLAPS

\* c is what the registry holds under c's key.
Held(c) == skey[c] \in DOMAIN registered_rcs /\ registered_rcs[skey[c]] = c

\* The active side: a REP can only start handle_reply in a client that is still
\* waiting or has given up, and a client that sees done has no callback running.
ClientInv == \A c \in Clients :
    /\ cpc[c] = "new" => ccm[c] = "IDLE" /\ ccb[c] = "none" /\ done[c] = FALSE
    /\ ccm[c] = "REQ_SENT" => cpc[c] \in {"wait", "err", "qpfreed"} /\ ccb[c] = "none"
                              /\ done[c] = FALSE
    /\ ccb[c] # "none" => cpc[c] \in {"wait", "err", "qpfreed", "cmwait"} /\ done[c] = FALSE
    /\ cpc[c] = "err" => ret[c] = "err"
    /\ cpc[c] = "qpfreed" /\ (ccm[c] = "REQ_SENT" \/ ccb[c] # "none") => ret[c] = "err"
    /\ cpc[c] = "cmwait" /\ ccb[c] # "none" => ret[c] = "err"
    /\ cqp[c] = "destroyed" => cpc[c] \in {"qpfreed", "cmwait", "gone"}
    /\ cpc[c] \in {"cmwait", "gone"} => ccm[c] = "destroyed"

\* A REQ is sent once and creates one passive cm_id.
ReqInFlight(c) == <<"REQ", c>> \in net
ReqInv == \A c \in Clients :
    /\ cpc[c] = "new" => ~ReqInFlight(c) /\ scm[c] = "none"
    /\ ReqInFlight(c) => scm[c] = "none"
    /\ scm[c] = "none" => spc[c] = "idle"

\* The mutex has one holder, and a drop under it is the holder's.
MutexInv ==
    /\ \A c \in Clients : spc[c] \in {"drop_old", "unlock"} => mutex = TRUE
    /\ \A c, d \in Clients : spc[c] \in {"drop_old", "unlock"} /\ spc[d] \in {"drop_old", "unlock"}
          => c = d
    /\ dropping # {} => \E c \in Clients : spc[c] = "drop_old"
    /\ \A d \in dropping : scm[d] = "destroyed"
    /\ \A c \in Clients : \A d \in dropping : spc[c] = "drop_old" => d # c /\ skey[d] = skey[c]

\* rc_conn_callback has not come to the end of connect_reply.
Building(c) == spc[c] \in {"create", "init", "rtr", "rts", "reply", "reply_err"}

\* Where the callbacks of one passive cm_id are, against its CM state.
CallbackInv == \A c \in Clients :
    /\ Building(c) => scm[c] \in {"REQ_RCVD", "IDLE"} /\ pend[c] = FALSE
    /\ pend[c] = TRUE => spc[c] \notin {"idle", "dreq", "dereg"}
    /\ pend[c] = TRUE \/ spc[c] \in {"dreq", "dereg"} => scm[c] \in {"DREQ_RCVD", "destroyed"}
    /\ spc[c] \in {"insert", "drop_old", "unlock", "post", "dreq"} => sctx[c] = "in_qp"
    /\ spc[c] = "idle" /\ scm[c] \in {"REP_SENT", "ESTABLISHED"} => sctx[c] = "in_qp"
    /\ spc[c] \in {"reply", "ctx", "insert"} => sqp[c] \in {"RTR", "RTS"}
    /\ spc[c] = "init" => sqp[c] = "RESET"
    /\ spc[c] = "rtr" => sqp[c] = "INIT"
    /\ spc[c] = "rts" => sqp[c] = "RTR"

\* rc_conn_callback has inserted c's RC and the DREQ callback has not removed it.
Inserted(c) ==
    \/ spc[c] \in {"drop_old", "unlock", "post", "dreq", "dereg"}
    \/ spc[c] = "idle" /\ scm[c] \in {"REQ_RCVD", "REP_SENT", "ESTABLISHED"}

\* The heart of the argument.  A connection whose callback has inserted its RC
\* is in the registry under its own key until its DREQ callback runs, unless
\* another RC took the key; in that case the thread that inserted the other RC
\* is waiting, mutex in hand, for the callbacks of this one to be over.
HeldInv == \A c \in Clients :
    /\ Inserted(c) => scm[c] = "destroyed" \/ Held(c)
    /\ scm[c] = "destroyed" /\ spc[c] \notin {"idle", "self_drop"} => c \in dropping
    /\ Held(c) => spc[c] \in {"idle", "drop_old", "unlock", "post", "dreq", "dereg"}
                  /\ scm[c] # "none"

\* What connect() has returned, against its thread, its cm_id and the REJ that only
\* a client that has given up sends.
RejInFlight(c) == <<"REJ_S", c>> \in net
RetInv == \A c \in Clients :
    /\ cpc[c] \in {"new", "wait", "rtu"} <=> ret[c] = "none"
    /\ ret[c] = "ok" => ccm[c] \notin {"REQ_SENT", "REP_RCVD"}
    /\ RejInFlight(c) => ret[c] = "err"
    /\ Building(c) /\ scm[c] = "IDLE" => ret[c] = "err"
    /\ "server_qp" \notin CanFail /\ spc[c] \in {"reply_err", "self_drop"} => ret[c] = "err"

\* The REP is under way, has been received, or was answered with success.
RepInFlight(c) == <<"REP", c>> \in net
RepOut(c) == RepInFlight(c) \/ ccm[c] = "REP_RCVD" \/ ret[c] = "ok"
RepInv == \A c \in Clients : RepOut(c) => ~Building(c) /\ scm[c] # "none"

\* How far the QPs are.  As long as the passive cm_id is in REQ_RCVD, or the active
\* one in REP_RCVD, every state change so far has succeeded.
PassiveUpInv == "server_qp" \notin CanFail => \A c \in Clients :
    /\ RepOut(c) => sqp[c] \in {"RTS", "destroyed"}
    /\ scm[c] = "REQ_RCVD" => spc[c] # "reply_err" /\ (spc[c] = "reply" => sqp[c] = "RTS")
ActiveUpInv == "client_qp" \notin CanFail => \A c \in Clients :
    /\ cpc[c] = "new" \/ ccm[c] = "REQ_SENT" => cqp[c] \in {"RESET", "destroyed"}
    /\ ccm[c] = "REP_RCVD" /\ cqp[c] # "destroyed" =>
          /\ ccb[c] = "init" => cqp[c] = "RESET"
          /\ ccb[c] = "rtr" => cqp[c] = "INIT"
          /\ ccb[c] = "rts" => cqp[c] = "RTR"
          /\ ccb[c] \in {"done", "none"} => cqp[c] = "RTS"
    /\ ret[c] = "ok" => cqp[c] \in {"RTS", "destroyed"}

IndInv ==
    /\ TypeOK /\ ClientInv /\ ReqInv /\ MutexInv /\ CallbackInv /\ HeldInv /\ RegistryConsistent
    /\ RetInv /\ RepInv /\ PassiveUpInv /\ ActiveUpInv

-----------------------------------------------------------------------------
USE DEF cvars, svars, vars, ClientPc, ClientCb, QpState, ActiveCm, PassiveCm, ServerPc, MsgKinds

\* What ib_destroy_cm_id sends: one REJ or DREQ of that connection, or nothing; the
\* active side's REJ comes from the states of the active side only.
LEMMA DestroyMsgsKind ==
    ASSUME NEW state, NEW c \in Clients, NEW dreq \in {"DREQ_S", "DREQ_C"},
           NEW m \in DestroyMsgs(state, c, dreq)
    PROVE  \/ m = {}
           \/ \E k \in {"REJ_Q", "REJ_P", "DREQ_S", "DREQ_C"} : m = {<<k, c>>}
           \/ m = {<<"REJ_S", c>>} /\ state \in {"REQ_SENT", "REP_RCVD"}
BY DEF DestroyMsgs

\* The type invariant is inductive by itself: one step per action.
LEMMA TypeStep == TypeOK /\ [Next]_vars => TypeOK'
<1> SUFFICES ASSUME TypeOK, Next PROVE TypeOK'
    BY DEF TypeOK
<1> USE ConstantsAssumption
<1> PICK c \in Clients : ClientThread(c) \/ ClientCallback(c) \/ ServerCallback(c) \/ CmEvent(c)
    BY DEF Next
<1>1. CASE SendReq(c)
    BY <1>1, SMTT(30) DEF TypeOK, SendReq, ConnectFails
<1>2. CASE WaitDone(c)
    BY <1>2 DEF TypeOK, WaitDone
<1>3. CASE WaitTimeout(c)
    BY <1>3 DEF TypeOK, WaitTimeout, ConnectFails
<1>4. CASE SendRtu(c)
    BY <1>4 DEF TypeOK, SendRtu, ConnectFails
<1>5. CASE DropQp(c)
    BY <1>5 DEF TypeOK, DropQp
<1>6. CASE DropCm(c)
    BY <1>6, DestroyMsgsKind DEF TypeOK, DropCm
<1>7. CASE DropEnd(c)
    BY <1>7 DEF TypeOK, DropEnd
<1>8. CASE ReplyInit(c) \/ ReplyRtr(c)
    BY <1>8 DEF TypeOK, ReplyInit, ReplyRtr, ReplyModify, ModifyQp
<1>9. CASE ReplyRts(c)
    BY <1>9, SMTT(30) DEF TypeOK, ReplyRts, ReplyModify, ModifyQp
<1>10. CASE ReplyDone(c)
    BY <1>10 DEF TypeOK, ReplyDone
<1>11. CASE CbCreate(c)
    BY <1>11 DEF TypeOK, CbCreate, NextKey
<1>12. CASE CbReply(c)
    BY <1>12 DEF TypeOK, CbReply
<1>13. CASE CbInit(c) \/ CbRtr(c)
    BY <1>13 DEF TypeOK, CbInit, CbRtr, CbModify, ModifyQp
<1>14. CASE CbRts(c)
    BY <1>14 DEF TypeOK, CbRts, CbModify, ModifyQp
<1>15. CASE CbSetContext(c)
    BY <1>15 DEF TypeOK, CbSetContext
<1>16. CASE CbInsert(c)
  <2>1. /\ DOMAIN registered_rcs' \subseteq Nat
        /\ registered_rcs' \in [DOMAIN registered_rcs' -> Clients]
    BY <1>16 DEF TypeOK, CbInsert, MapInsert
  <2>2. CASE skey[c] \in DOMAIN registered_rcs
    <3> DEFINE old == registered_rcs[skey[c]]
    <3>1. old \in Clients
      BY <2>2 DEF TypeOK
    <3>2. net' \subseteq MsgKinds \X Clients
      BY <1>16, <2>2, <3>1, DestroyMsgsKind DEF TypeOK, CbInsert
    <3> QED
      BY <1>16, <2>1, <2>2, <3>1, <3>2, SMTT(30) DEF TypeOK, CbInsert
  <2>3. CASE skey[c] \notin DOMAIN registered_rcs
    BY <1>16, <2>1, <2>3 DEF TypeOK, CbInsert
  <2> QED
    BY <2>2, <2>3
<1>17. CASE CbDropOld(c)
    BY <1>17 DEF TypeOK, CbDropOld
<1>18. CASE CbUnlock(c)
    BY <1>18, Zenon DEF TypeOK, CbUnlock
<1>19. CASE CbPost(c)
    BY <1>19 DEF TypeOK, CbPost, CallbackEnds
<1>20. CASE CbSelfDrop(c)
    BY <1>20, DestroyMsgsKind DEF TypeOK, CbSelfDrop
<1>21. CASE CbDreq(c)
    BY <1>21 DEF TypeOK, CbDreq
<1>22. CASE CbDereg(c)
    BY <1>22 DEF TypeOK, CbDereg, MapRemove, CallbackEnds
<1>23. CASE RecvRep(c)
    BY <1>23 DEF TypeOK, RecvRep
<1>24. CASE RecvRejC(c)
    BY <1>24 DEF TypeOK, RecvRejC
<1>25. CASE RecvDreqC(c)
    BY <1>25 DEF TypeOK, RecvDreqC
<1>26. CASE ReqError(c)
    BY <1>26 DEF TypeOK, ReqError
<1>27. CASE RecvReq(c)
    BY <1>27 DEF TypeOK, RecvReq
<1>28. CASE RecvRtu(c)
    BY <1>28 DEF TypeOK, RecvRtu
<1>29. CASE RecvRejS(c)
    BY <1>29 DEF TypeOK, RecvRejS
<1>30. CASE RepError(c)
    BY <1>30 DEF TypeOK, RepError
<1>31. CASE RecvDreqS(c)
  <2>1. pend' \in [Clients -> BOOLEAN]
    <3>1. pend' = pend \/ pend' = [pend EXCEPT ![c] = TRUE]
      BY <1>31 DEF RecvDreqS
    <3>2. pend \in [Clients -> BOOLEAN]
      BY DEF TypeOK
    <3> QED
      BY <3>1, <3>2, Zenon
  <2>2. spc' \in [Clients -> ServerPc]
    BY <1>31 DEF TypeOK, RecvDreqS
  <2> QED
    BY <1>31, <2>1, <2>2 DEF TypeOK, RecvDreqS
<1> QED
    BY <1>1, <1>2, <1>3, <1>4, <1>5, <1>6, <1>7, <1>8, <1>9, <1>10, <1>11, <1>12, <1>15, <1>16,
       <1>17, <1>18, <1>19, <1>20, <1>21, <1>22, <1>23, <1>24, <1>25, <1>26, <1>27, <1>28, <1>29,
       <1>30, <1>31, <1>13, <1>14
    DEF ClientThread, ClientCallback, ServerCallback, CmEvent

\* Only the client's thread, its callback and the CM events at its cm_id can
\* disturb ClientInv.
LEMMA ClientStep == TypeOK /\ ClientInv /\ [Next]_vars => ClientInv'
<1> SUFFICES ASSUME TypeOK, ClientInv, Next PROVE ClientInv'
    BY Zenon DEF ClientInv
<1> PICK c \in Clients : ClientThread(c) \/ ClientCallback(c) \/ ServerCallback(c) \/ CmEvent(c)
    BY DEF Next
<1> USE DEF TypeOK, ClientInv
<1>1. CASE ClientThread(c)
  <2>1. CASE SendReq(c)
    BY <2>1 DEF SendReq, ConnectFails
  <2>2. CASE WaitDone(c)
    BY <2>2 DEF WaitDone
  <2>3. CASE WaitTimeout(c)
    BY <2>3 DEF WaitTimeout, ConnectFails
  <2>4. CASE SendRtu(c)
    BY <2>4 DEF SendRtu, ConnectFails
  <2>5. CASE DropQp(c)
    BY <2>5 DEF DropQp
  <2>6. CASE DropCm(c)
    BY <2>6 DEF DropCm
  <2>7. CASE DropEnd(c)
    BY <2>7 DEF DropEnd
  <2> QED
    BY <1>1, <2>1, <2>2, <2>3, <2>4, <2>5, <2>6, <2>7, Zenon DEF ClientThread
<1>2. CASE ClientCallback(c)
  <2>1. CASE ReplyInit(c) \/ ReplyRtr(c)
    BY <2>1 DEF ReplyInit, ReplyRtr, ReplyModify, ModifyQp
  <2>2. CASE ReplyRts(c)
    BY <2>2 DEF ReplyRts, ReplyModify, ModifyQp
  <2>3. CASE ReplyDone(c)
    BY <2>3 DEF ReplyDone
  <2> QED
    BY <1>2, <2>1, <2>2, <2>3, Zenon DEF ClientCallback
<1>3. CASE UNCHANGED cvars
    BY <1>3
<1>4. CASE RecvRep(c)
    BY <1>4 DEF RecvRep
<1>5. CASE RecvRejC(c)
    BY <1>5 DEF RecvRejC
<1>6. CASE RecvDreqC(c) \/ ReqError(c)
    BY <1>6 DEF RecvDreqC, ReqError
<1>7. ServerCallback(c) => UNCHANGED cvars
    BY DEF ServerCallback, CbCreate, CbInit, CbRtr, CbRts, CbModify, CbReply, CbSetContext, CbInsert,
           CbDropOld, CbUnlock, CbPost, CbSelfDrop, CbDreq, CbDereg
<1>8. RecvReq(c) \/ RecvRtu(c) \/ RecvRejS(c) \/ RepError(c) \/ RecvDreqS(c) => UNCHANGED cvars
    BY DEF RecvReq, RecvRtu, RecvRejS, RepError, RecvDreqS
<1> QED
    BY <1>1, <1>2, <1>3, <1>4, <1>5, <1>6, <1>7, <1>8, Zenon DEF CmEvent

\* A step of the active side leaves the passive side's variables alone.
LEMMA ActiveStep ==
    ASSUME NEW c \in Clients,
           ClientThread(c) \/ ClientCallback(c)
              \/ RecvRep(c) \/ RecvRejC(c) \/ RecvDreqC(c) \/ ReqError(c)
    PROVE  UNCHANGED svars
BY DEF ClientThread, SendReq, WaitDone, WaitTimeout, SendRtu, DropQp, DropCm, DropEnd,
       ClientCallback, ReplyInit, ReplyRtr, ReplyRts, ReplyModify, ReplyDone,
       RecvRep, RecvRejC, RecvDreqC, ReqError

\* A step of the passive side leaves the active side's variables alone.
LEMMA PassiveStep ==
    ASSUME NEW c \in Clients,
           ServerCallback(c) \/ RecvReq(c) \/ RecvRtu(c) \/ RecvRejS(c) \/ RepError(c) \/ RecvDreqS(c)
    PROVE  UNCHANGED cvars
BY DEF ServerCallback, CbCreate, CbInit, CbRtr, CbRts, CbModify, CbReply, CbSetContext, CbInsert,
       CbDropOld, CbUnlock, CbPost, CbSelfDrop, CbDreq, CbDereg, RecvReq, RecvRtu, RecvRejS, RepError,
       RecvDreqS

\* What the registry holds is a client that is past its insertion.
LEMMA Holder ==
    ASSUME TypeOK, HeldInv, RegistryConsistent, NEW k \in DOMAIN registered_rcs
    PROVE  LET r == registered_rcs[k] IN
           /\ r \in Clients
           /\ Held(r)
           /\ skey[r] = k
           /\ spc[r] \in {"idle", "drop_old", "unlock", "post", "dreq", "dereg"}
           /\ scm[r] \notin {"none", "destroyed"}
<1>1. registered_rcs[k] \in Clients
    BY DEF TypeOK
<1>2. Held(registered_rcs[k])
    BY <1>1 DEF RegistryConsistent, Held
<1> QED
    BY <1>1, <1>2 DEF HeldInv, RegistryConsistent

\* No drop is under way when the mutex is free.
LEMMA FreeMutex == ASSUME TypeOK, MutexInv, ~mutex PROVE dropping = {}
BY DEF TypeOK, MutexInv

\* Where the messages that start, answer and reject a connection come from.
LEMMA NetSource ==
    ASSUME TypeOK, NEW c \in Clients, NEW d \in Clients, NEW k \in {"REQ", "REP", "REJ_S"},
           ClientThread(c) \/ ClientCallback(c) \/ ServerCallback(c) \/ CmEvent(c),
           <<k, d>> \in net', <<k, d>> \notin net
    PROVE  c = d /\ \/ k = "REQ" /\ SendReq(c)
                    \/ k = "REP" /\ CbReply(c)
                    \/ k = "REJ_S" /\ DropCm(c)
<1>1. CASE SendReq(c)
    BY <1>1 DEF SendReq
<1>2. CASE SendRtu(c)
    BY <1>2 DEF SendRtu
<1>3. CASE DropCm(c)
    BY <1>3, DestroyMsgsKind DEF DropCm
<1>4. CASE WaitDone(c) \/ WaitTimeout(c) \/ DropQp(c) \/ DropEnd(c)
    BY <1>4 DEF WaitDone, WaitTimeout, DropQp, DropEnd
<1>5. CASE ClientCallback(c)
    BY <1>5 DEF ClientCallback, ReplyInit, ReplyRtr, ReplyRts, ReplyModify, ReplyDone
<1>6. CASE CmEvent(c)
    BY <1>6 DEF CmEvent, RecvRep, RecvRejC, RecvDreqC, ReqError, RecvReq, RecvRtu, RecvRejS, RepError,
       RecvDreqS
<1>7. CASE CbReply(c)
    BY <1>7 DEF CbReply
<1>8. CASE CbInsert(c)
  <2>1. CASE skey[c] \in DOMAIN registered_rcs
    <3> DEFINE old == registered_rcs[skey[c]]
    <3>1. old \in Clients /\ scm[old] \notin {"REQ_SENT", "REP_RCVD"}
      BY <2>1 DEF TypeOK
    <3>2. PICK m \in DestroyMsgs(scm[old], old, "DREQ_C") : net' = net \cup m
      BY <1>8, <2>1 DEF CbInsert
    <3> QED
      BY <3>1, <3>2, DestroyMsgsKind
  <2>2. CASE skey[c] \notin DOMAIN registered_rcs
    BY <1>8, <2>2 DEF CbInsert
  <2> QED
    BY <2>1, <2>2
<1>9. CASE CbSelfDrop(c)
  <2>1. scm[c] \notin {"REQ_SENT", "REP_RCVD"}
    BY SMTT(30) DEF TypeOK
  <2>2. PICK m \in DestroyMsgs(scm[c], c, "DREQ_C") : net' = net \cup m
    BY <1>9 DEF CbSelfDrop
  <2> QED
    BY <2>1, <2>2, DestroyMsgsKind
<1>10. CASE UNCHANGED net
    BY <1>10
<1>11. CASE CbCreate(c) \/ CbInit(c) \/ CbRtr(c) \/ CbRts(c) \/ CbSetContext(c) \/ CbDropOld(c)
            \/ CbUnlock(c) \/ CbPost(c) \/ CbDreq(c) \/ CbDereg(c)
    BY <1>10, <1>11 DEF CbCreate, CbInit, CbRtr, CbRts, CbModify, CbSetContext, CbDropOld, CbUnlock,
       CbPost, CbDreq, CbDereg
<1> QED
    BY <1>1, <1>2, <1>3, <1>4, <1>5, <1>6, <1>7, <1>8, <1>9, <1>11
    DEF ClientThread, ServerCallback

\* Only RecvReq makes the passive cm_id, and it consumes the REQ.
LEMMA ReqStep == TypeOK /\ ReqInv /\ HeldInv /\ RegistryConsistent /\ [Next]_vars => ReqInv'
<1> SUFFICES ASSUME TypeOK, ReqInv, HeldInv, RegistryConsistent PROVE [Next]_vars => ReqInv'
    OBVIOUS
<1>1. CASE UNCHANGED vars
    BY <1>1, Zenon DEF ReqInv, ReqInFlight
<1>2. ASSUME NEW c \in Clients,
             ClientThread(c) \/ ClientCallback(c) \/ ServerCallback(c) \/ CmEvent(c)
      PROVE  ReqInv'
  <2> USE DEF TypeOK, ReqInv
  <2>1. \A d \in Clients : ReqInFlight(d)' => ReqInFlight(d) \/ (c = d /\ SendReq(c))
    BY <1>2, NetSource, Zenon DEF ReqInFlight
  <2>2. CASE RecvReq(c)
    <3>1. ReqInFlight(c) /\ ~ReqInFlight(c)'
      BY <2>2 DEF RecvReq, ReqInFlight
    <3> QED
      BY <2>1, <2>2, <3>1 DEF RecvReq, SendReq
  <2>3. CASE SendReq(c)
    BY <2>1, <2>3 DEF SendReq, ConnectFails
  <2>4. CASE WaitDone(c)
    BY <2>1, <2>4 DEF WaitDone, SendReq
  <2>5. CASE WaitTimeout(c)
    BY <2>1, <2>5 DEF WaitTimeout, ConnectFails, SendReq
  <2>6. CASE SendRtu(c)
    BY <2>1, <2>6 DEF SendRtu, ConnectFails, SendReq
  <2>7. CASE DropQp(c)
    BY <2>1, <2>7 DEF DropQp, SendReq
  <2>8. CASE DropCm(c)
    BY <2>1, <2>8 DEF DropCm, SendReq
  <2>9. CASE DropEnd(c)
    BY <2>1, <2>9 DEF DropEnd, SendReq
  <2>10. CASE ReplyInit(c) \/ ReplyRtr(c)
    BY <2>1, <2>10 DEF ReplyInit, ReplyRtr, ReplyModify, SendReq
  <2>11. CASE ReplyRts(c)
    BY <2>1, <2>11 DEF ReplyRts, ReplyModify, SendReq
  <2>12. CASE ReplyDone(c)
    BY <2>1, <2>12 DEF ReplyDone, SendReq
  <2>13. CASE RecvRep(c)
    BY <2>1, <2>13 DEF RecvRep, SendReq
  <2>14. CASE RecvRejC(c)
    BY <2>1, <2>14 DEF RecvRejC, SendReq
  <2>15. CASE RecvDreqC(c)
    BY <2>1, <2>15 DEF RecvDreqC, SendReq
  <2>16. CASE ReqError(c)
    BY <2>1, <2>16 DEF ReqError, SendReq
  <2>17. CASE CbCreate(c) \/ CbInit(c) \/ CbRtr(c) \/ CbRts(c)
    BY <2>1, <2>17 DEF CbCreate, CbInit, CbRtr, CbRts, CbModify, SendReq
  <2>18. CASE CbReply(c)
    BY <2>1, <2>18 DEF CbReply, SendReq
  <2>19. CASE CbSetContext(c)
    BY <2>1, <2>19 DEF CbSetContext, SendReq
  <2>20. CASE CbInsert(c)
    <3>1. \A d \in Clients : scm[d] = "none" <=> scm'[d] = "none"
      BY <2>20, Holder DEF CbInsert
    <3>2. spc[c] # "idle" /\ \E pc \in {"drop_old", "unlock"} : spc' = [spc EXCEPT ![c] = pc]
      BY <2>20 DEF CbInsert
    <3>3. UNCHANGED cpc /\ ~SendReq(c)
      BY <2>20, Zenon DEF CbInsert, SendReq
    <3> QED
      BY <2>1, <3>1, <3>2, <3>3
  <2>21. CASE CbDropOld(c)
    BY <2>1, <2>21 DEF CbDropOld, SendReq
  <2>22. CASE CbUnlock(c)
    BY <2>1, <2>22 DEF CbUnlock, SendReq
  <2>23. CASE CbPost(c)
    BY <2>1, <2>23 DEF CbPost, CallbackEnds, SendReq
  <2>24. CASE CbSelfDrop(c)
    BY <2>1, <2>24 DEF CbSelfDrop, SendReq
  <2>25. CASE CbDreq(c)
    BY <2>1, <2>25 DEF CbDreq, SendReq
  <2>26. CASE CbDereg(c)
    BY <2>1, <2>26 DEF CbDereg, MapRemove, CallbackEnds, SendReq
  <2>27. CASE RecvRtu(c)
    BY <2>1, <2>27 DEF RecvRtu, SendReq
  <2>28. CASE RecvRejS(c)
    BY <2>1, <2>28 DEF RecvRejS, SendReq
  <2>29. CASE RepError(c)
    BY <2>1, <2>29 DEF RepError, SendReq
  <2>30. CASE RecvDreqS(c)
    BY <2>1, <2>30 DEF RecvDreqS, SendReq
  <2> QED
    BY <1>2, <2>2, <2>3, <2>4, <2>5, <2>6, <2>7, <2>8, <2>9, <2>10, <2>11, <2>12, <2>13, <2>14,
       <2>15, <2>16, <2>17, <2>18, <2>19, <2>20, <2>21, <2>22, <2>23, <2>24, <2>25, <2>26, <2>27,
       <2>28, <2>29, <2>30, SMTT(30)
    DEF ClientThread, ClientCallback, ServerCallback, CmEvent
<1> QED
    BY <1>1, <1>2 DEF Next

\* CbInsert takes the mutex when it is free, CbUnlock gives it back.
LEMMA MutexStep ==
    /\ TypeOK /\ ReqInv /\ MutexInv /\ CallbackInv /\ HeldInv /\ RegistryConsistent
    /\ [Next]_vars
    => MutexInv'
<1> SUFFICES ASSUME TypeOK, ReqInv, MutexInv, CallbackInv, HeldInv, RegistryConsistent
             PROVE  [Next]_vars => MutexInv'
    OBVIOUS
<1>1. CASE UNCHANGED vars
    BY <1>1 DEF MutexInv
<1>2. ASSUME NEW c \in Clients,
             ClientThread(c) \/ ClientCallback(c) \/ ServerCallback(c) \/ CmEvent(c)
      PROVE  MutexInv'
  <2>1. CASE UNCHANGED svars
    BY <2>1 DEF MutexInv
  <2>2. CASE CbCreate(c)
    <3>1. c \notin dropping
      BY <2>2 DEF MutexInv, CallbackInv, Building, CbCreate
    <3> QED
      BY <2>2, <3>1 DEF TypeOK, MutexInv, CbCreate
  <2>3. CASE CbInit(c) \/ CbRtr(c) \/ CbRts(c)
    BY <2>3, SMTT(30) DEF TypeOK, MutexInv, ReqInv, CbInit, CbRtr, CbRts, CbModify
  <2>4. CASE CbReply(c)
    BY <2>4 DEF TypeOK, MutexInv, ReqInv, CbReply
  <2>5. CASE CbSetContext(c)
    BY <2>5 DEF TypeOK, MutexInv, ReqInv, CbSetContext
  <2>6. CASE CbInsert(c)
    <3>1. dropping = {} /\ \A d \in Clients : spc[d] \notin {"drop_old", "unlock"}
      BY <2>6, FreeMutex DEF TypeOK, MutexInv, CbInsert
    <3>2. CASE skey[c] \in DOMAIN registered_rcs
      <4> DEFINE old == registered_rcs[skey[c]]
      <4>1. old \in Clients /\ old # c /\ skey[old] = skey[c]
        BY <2>6, <3>2, Holder DEF CbInsert
      <4> QED
        BY <2>6, <3>1, <3>2, <4>1 DEF TypeOK, MutexInv, CbInsert
    <3>3. CASE skey[c] \notin DOMAIN registered_rcs
      BY <2>6, <3>1, <3>3 DEF TypeOK, MutexInv, CbInsert
    <3> QED
      BY <3>2, <3>3
  <2>7. CASE CbDropOld(c)
    BY <2>7 DEF TypeOK, MutexInv, ReqInv, CbDropOld
  <2>8. CASE CbUnlock(c)
    BY <2>8 DEF TypeOK, MutexInv, ReqInv, CbUnlock
  <2>9. CASE CbPost(c)
    BY <2>9 DEF TypeOK, MutexInv, ReqInv, CbPost, CallbackEnds
  <2>10. CASE CbSelfDrop(c)
    BY <2>10 DEF TypeOK, MutexInv, ReqInv, CbSelfDrop
  <2>11. CASE CbDreq(c)
    BY <2>11 DEF TypeOK, MutexInv, ReqInv, CbDreq
  <2>12. CASE CbDereg(c)
    BY <2>12 DEF TypeOK, MutexInv, ReqInv, CbDereg, MapRemove, CallbackEnds
  <2>13. CASE RecvReq(c)
    BY <2>13 DEF TypeOK, MutexInv, ReqInv, ReqInFlight, RecvReq
  <2>14. CASE RecvRtu(c)
    BY <2>14 DEF TypeOK, MutexInv, ReqInv, RecvRtu
  <2>15. CASE RecvRejS(c)
    BY <2>15 DEF TypeOK, MutexInv, ReqInv, RecvRejS
  <2>16. CASE RepError(c)
    BY <2>16 DEF TypeOK, MutexInv, ReqInv, RepError
  <2>17. CASE RecvDreqS(c)
    BY <2>17 DEF TypeOK, MutexInv, ReqInv, RecvDreqS
  <2> QED
    BY <1>2, <2>1, <2>2, <2>4, <2>5, <2>6, <2>7, <2>8, <2>9, <2>10, <2>11, <2>12, <2>13, <2>14,
       <2>15, <2>16, <2>17, <2>3, ActiveStep
    DEF ClientThread, ClientCallback, ServerCallback, CmEvent
<1> QED
    BY <1>1, <1>2 DEF Next

\* CbInsert and CbDereg destroy the QP of what the registry holds: Holder says
\* that its callback is not between reply and insertion.
LEMMA CallbackStep ==
    TypeOK /\ ReqInv /\ CallbackInv /\ HeldInv /\ RegistryConsistent /\ [Next]_vars => CallbackInv'
<1> SUFFICES ASSUME TypeOK, ReqInv, CallbackInv, HeldInv, RegistryConsistent
             PROVE  [Next]_vars => CallbackInv'
    OBVIOUS
<1>1. CASE UNCHANGED vars
    BY <1>1 DEF CallbackInv, Building
<1>2. ASSUME NEW c \in Clients,
             ClientThread(c) \/ ClientCallback(c) \/ ServerCallback(c) \/ CmEvent(c)
      PROVE  CallbackInv'
  <2>1. CASE UNCHANGED svars
    BY <2>1 DEF CallbackInv, Building
  <2>2. CASE CbCreate(c)
    BY <2>2 DEF TypeOK, CallbackInv, Building, ReqInv, CbCreate
  <2>3. CASE CbInit(c) \/ CbRtr(c) \/ CbRts(c)
    <3>1. CASE CbInit(c)
      BY <3>1 DEF TypeOK, CallbackInv, Building, CbInit, CbModify, ModifyQp
    <3>2. CASE CbRtr(c)
      BY <3>2 DEF TypeOK, CallbackInv, Building, CbRtr, CbModify, ModifyQp
    <3>3. CASE CbRts(c)
      BY <3>3 DEF TypeOK, CallbackInv, Building, CbRts, CbModify, ModifyQp
    <3> QED
      BY <2>3, <3>1, <3>2, <3>3
  <2>4. CASE CbReply(c)
    BY <2>4 DEF TypeOK, CallbackInv, Building, ReqInv, CbReply
  <2>5. CASE CbSetContext(c)
    BY <2>5 DEF TypeOK, CallbackInv, Building, ReqInv, CbSetContext
  <2>6. CASE CbInsert(c)
    BY <2>6, Holder DEF TypeOK, CallbackInv, Building, CbInsert
  <2>7. CASE CbDropOld(c)
    BY <2>7 DEF TypeOK, CallbackInv, Building, ReqInv, CbDropOld
  <2>8. CASE CbUnlock(c)
    BY <2>8 DEF TypeOK, CallbackInv, Building, ReqInv, CbUnlock
  <2>9. CASE CbPost(c)
    BY <2>9 DEF TypeOK, CallbackInv, Building, ReqInv, CbPost, CallbackEnds
  <2>10. CASE CbSelfDrop(c)
    BY <2>10 DEF TypeOK, CallbackInv, Building, ReqInv, CbSelfDrop
  <2>11. CASE CbDreq(c)
    BY <2>11 DEF TypeOK, CallbackInv, Building, ReqInv, CbDreq
  <2>12. CASE CbDereg(c)
    BY <2>12, Holder DEF TypeOK, CallbackInv, Building, CbDereg, CallbackEnds
  <2>13. CASE RecvReq(c)
    BY <2>13 DEF TypeOK, CallbackInv, Building, ReqInv, ReqInFlight, RecvReq
  <2>14. CASE RecvRtu(c)
    BY <2>14 DEF TypeOK, CallbackInv, Building, ReqInv, RecvRtu
  <2>15. CASE RecvRejS(c)
    BY <2>15 DEF TypeOK, CallbackInv, Building, ReqInv, RecvRejS
  <2>16. CASE RepError(c)
    BY <2>16 DEF TypeOK, CallbackInv, Building, ReqInv, RepError
  <2>17. CASE RecvDreqS(c)
    BY <2>17 DEF TypeOK, CallbackInv, Building, ReqInv, RecvDreqS
  <2> QED
    BY <1>2, <2>1, <2>2, <2>4, <2>5, <2>6, <2>7, <2>8, <2>9, <2>10, <2>11, <2>12, <2>13, <2>14,
       <2>15, <2>16, <2>17, <2>3, ActiveStep
    DEF ClientThread, ClientCallback, ServerCallback, CmEvent
<1> QED
    BY <1>1, <1>2 DEF Next

\* The two actions that write the registry carry the argument: CbInsert makes
\* the replaced RC one that is being dropped, and CbDereg, which needs the mutex,
\* finds no drop under way and hence its own RC.
LEMMA HeldStep ==
    /\ TypeOK /\ ReqInv /\ MutexInv /\ CallbackInv /\ HeldInv /\ RegistryConsistent
    /\ [Next]_vars
    => (HeldInv /\ RegistryConsistent)'
<1> SUFFICES ASSUME TypeOK, ReqInv, MutexInv, CallbackInv, HeldInv, RegistryConsistent
             PROVE  [Next]_vars => (HeldInv /\ RegistryConsistent)'
    OBVIOUS
<1>1. CASE UNCHANGED vars
    BY <1>1 DEF HeldInv, Inserted, Held, RegistryConsistent
<1>2. ASSUME NEW c \in Clients,
             ClientThread(c) \/ ClientCallback(c) \/ ServerCallback(c) \/ CmEvent(c)
      PROVE  (HeldInv /\ RegistryConsistent)'
  <2>1. CASE UNCHANGED svars
    BY <2>1 DEF HeldInv, Inserted, Held, RegistryConsistent
  <2>2. CASE CbCreate(c)
    BY <2>2 DEF TypeOK, HeldInv, Inserted, Held, RegistryConsistent, ReqInv, CallbackInv,
       CbCreate, NextKey
  <2>3. CASE CbInit(c) \/ CbRtr(c) \/ CbRts(c)
    BY <2>3, SMTT(30) DEF TypeOK, HeldInv, Inserted, Held, RegistryConsistent, ReqInv, CallbackInv,
       CbInit, CbRtr, CbRts, CbModify
  <2>4. CASE CbReply(c)
    BY <2>4 DEF TypeOK, HeldInv, Inserted, Held, RegistryConsistent, ReqInv, CallbackInv, CbReply
  <2>5. CASE CbSetContext(c)
    BY <2>5 DEF TypeOK, HeldInv, Inserted, Held, RegistryConsistent, ReqInv, CallbackInv,
       CbSetContext
  <2>6. CASE CbInsert(c)
    <3> DEFINE old == registered_rcs[skey[c]]
    <3>1. dropping = {}
      BY <2>6, FreeMutex DEF CbInsert
    <3>2. \A d \in Clients : Held(d)' <=> IF skey[d] = skey[c] THEN d = c ELSE Held(d)
      BY <2>6 DEF TypeOK, Held, CbInsert, MapInsert
    <3>3. scm[c] \notin {"none", "destroyed"} /\ sqp[c] \in {"RTR", "RTS"}
      BY <2>6, <3>1 DEF TypeOK, HeldInv, Inserted, ReqInv, CallbackInv, CbInsert
    <3>4. CASE skey[c] \in DOMAIN registered_rcs
      <4>1. old \in Clients /\ old # c /\ Held(old)
        BY <2>6, <3>4, Holder DEF CbInsert
      <4>2. \A d \in Clients : Held(d) /\ skey[d] = skey[c] => d = old
        BY DEF Held
      <4>3. HeldInv'
        BY <2>6, <3>1, <3>2, <3>3, <3>4, <4>1, <4>2 DEF TypeOK, HeldInv, Inserted, CbInsert
      <4>4. RegistryConsistent'
        BY <2>6, <3>3, <3>4, <4>1 DEF TypeOK, RegistryConsistent, CbInsert, MapInsert
      <4> QED
        BY <4>3, <4>4
    <3>5. CASE skey[c] \notin DOMAIN registered_rcs
      <4>1. HeldInv'
        BY <2>6, <3>1, <3>2, <3>3, <3>5 DEF TypeOK, HeldInv, Inserted, Held, CbInsert
      <4>2. RegistryConsistent'
        BY <2>6, <3>3, <3>5 DEF TypeOK, RegistryConsistent, CbInsert, MapInsert
      <4> QED
        BY <4>1, <4>2
    <3> QED
      BY <3>4, <3>5
  <2>7. CASE CbDropOld(c)
    BY <2>7 DEF TypeOK, HeldInv, Inserted, Held, RegistryConsistent, ReqInv, CallbackInv, CbDropOld
  <2>8. CASE CbUnlock(c)
    BY <2>8 DEF TypeOK, HeldInv, Inserted, Held, RegistryConsistent, ReqInv, CallbackInv, CbUnlock
  <2>9. CASE CbPost(c)
    <3>1. \E pc \in {"dreq", "idle"} : spc' = [spc EXCEPT ![c] = pc]
      BY <2>9, Zenon DEF CbPost, CallbackEnds
    <3>2. UNCHANGED <<skey, scm, sqp, registered_rcs, dropping>> /\ spc[c] = "post"
      BY <2>9 DEF CbPost
    <3>3. \A d \in Clients : Held(d)' <=> Held(d)
      BY <3>2 DEF Held
    <3>4. HeldInv'
      BY <3>1, <3>2, <3>3 DEF TypeOK, HeldInv, Inserted
    <3> QED
      BY <3>2, <3>4 DEF RegistryConsistent
  <2>10. CASE CbSelfDrop(c)
    BY <2>10 DEF TypeOK, HeldInv, Inserted, Held, RegistryConsistent, ReqInv, CallbackInv,
       CbSelfDrop
  <2>11. CASE CbDreq(c)
    BY <2>11 DEF TypeOK, HeldInv, Inserted, Held, RegistryConsistent, ReqInv, CallbackInv, CbDreq
  <2>12. CASE CbDereg(c)
    <3>1. dropping = {}
      BY <2>12, FreeMutex DEF CbDereg
    <3>2. scm[c] # "destroyed"
      BY <2>12, <3>1 DEF HeldInv, Inserted, CbDereg
    <3>3. Held(c)
      BY <2>12, <3>2 DEF HeldInv, Inserted, CbDereg
    <3>4. scm[c] = "DREQ_RCVD" /\ pend[c] # TRUE
      BY <2>12, <3>2, Zenon DEF CallbackInv, CbDereg
    <3>5. spc' = [spc EXCEPT ![c] = "idle"]
      BY <2>12, <3>4, Zenon DEF TypeOK, CbDereg, CallbackEnds
    <3>6. /\ registered_rcs' = [x \in DOMAIN registered_rcs \ {skey[c]} |-> registered_rcs[x]]
          /\ sqp' = [sqp EXCEPT ![c] = "destroyed"]
      BY <2>12, <3>3 DEF CbDereg, MapRemove, Held
    <3>7. UNCHANGED <<skey, scm, dropping>>
      BY <2>12 DEF CbDereg
    <3>8. \A d \in Clients : Held(d)' <=> Held(d) /\ d # c
      BY <3>3, <3>6, <3>7 DEF TypeOK, Held
    <3>9. HeldInv'
      BY <3>1, <3>4, <3>5, <3>7, <3>8 DEF TypeOK, HeldInv, Inserted
    <3>10. RegistryConsistent'
      BY <3>3, <3>6, <3>7 DEF TypeOK, RegistryConsistent, Held
    <3> QED
      BY <3>9, <3>10
  <2>13. CASE RecvReq(c)
    BY <2>13 DEF TypeOK, HeldInv, Inserted, Held, RegistryConsistent, ReqInv, ReqInFlight, RecvReq
  <2>14. CASE RecvRtu(c)
    BY <2>14 DEF TypeOK, HeldInv, Inserted, Held, RegistryConsistent, ReqInv, CallbackInv, RecvRtu
  <2>15. CASE RecvRejS(c)
    BY <2>15 DEF TypeOK, HeldInv, Inserted, Held, RegistryConsistent, ReqInv, CallbackInv, RecvRejS
  <2>16. CASE RepError(c)
    BY <2>16 DEF TypeOK, HeldInv, Inserted, Held, RegistryConsistent, ReqInv, CallbackInv, RepError
  <2>17. CASE RecvDreqS(c)
    BY <2>17 DEF TypeOK, HeldInv, Inserted, Held, RegistryConsistent, ReqInv, CallbackInv, RecvDreqS
  <2> QED
    BY <1>2, <2>1, <2>2, <2>4, <2>5, <2>6, <2>7, <2>8, <2>9, <2>10, <2>11, <2>12, <2>13, <2>14,
       <2>15, <2>16, <2>17, <2>3, ActiveStep
    DEF ClientThread, ClientCallback, ServerCallback, CmEvent
<1> QED
    BY <1>1, <1>2 DEF Next

\* Only a client that has given up sends a REJ, and only that REJ takes the cm_id
\* out of REQ_RCVD while rc_conn_callback builds the RC.
LEMMA RetStep == TypeOK /\ ReqInv /\ CallbackInv /\ RetInv /\ [Next]_vars => RetInv'
<1> SUFFICES ASSUME TypeOK, ReqInv, CallbackInv, RetInv PROVE [Next]_vars => RetInv'
    OBVIOUS
<1>1. CASE UNCHANGED vars
    BY <1>1 DEF RetInv, RejInFlight, Building
<1>2. ASSUME NEW c \in Clients,
             ClientThread(c) \/ ClientCallback(c) \/ ServerCallback(c) \/ CmEvent(c)
      PROVE  RetInv'
  <2> USE DEF TypeOK, RetInv, Building
  <2>1. \A d \in Clients : RejInFlight(d)' => ret[d] = "err"
    <3> SUFFICES ASSUME NEW d \in Clients, RejInFlight(d)', ~RejInFlight(d)
                 PROVE  ret[d] = "err"
      OBVIOUS
    <3>1. c = d /\ DropCm(c)
      BY <1>2, NetSource, Zenon DEF RejInFlight
    <3>2. cpc[c] = "qpfreed" /\ ccm[c] \in {"REQ_SENT", "REP_RCVD"}
      BY <3>1, DestroyMsgsKind DEF DropCm, RejInFlight
    <3> QED
      BY <3>1, <3>2
  <2>2. CASE SendReq(c)
    BY <2>1, <2>2 DEF SendReq, ConnectFails
  <2>3. CASE WaitDone(c) \/ DropQp(c) \/ DropEnd(c)
    BY <2>1, <2>3 DEF WaitDone, DropQp, DropEnd
  <2>4. CASE WaitTimeout(c)
    BY <2>1, <2>4 DEF WaitTimeout, ConnectFails
  <2>5. CASE SendRtu(c)
    BY <2>1, <2>5 DEF SendRtu, ConnectFails
  <2>6. CASE DropCm(c)
    BY <2>1, <2>6 DEF DropCm
  <2>7. CASE ClientCallback(c)
    <3>1. UNCHANGED <<cpc, ret, ccm, scm, spc, net>>
      BY <2>7 DEF ClientCallback, ReplyInit, ReplyRtr, ReplyRts, ReplyModify, ReplyDone
    <3> QED
      BY <2>1, <3>1
  <2>8. CASE RecvRep(c) \/ RecvRejC(c) \/ RecvDreqC(c) \/ ReqError(c)
    BY <2>1, <2>8 DEF RecvRep, RecvRejC, RecvDreqC, ReqError
  <2>9. CASE CbCreate(c)
    BY <2>1, <2>9 DEF CbCreate
  <2>10. CASE CbInit(c) \/ CbRtr(c) \/ CbRts(c)
    BY <2>1, <2>10 DEF CallbackInv, CbInit, CbRtr, CbRts, CbModify, AttrStates
  <2>11. CASE CbReply(c)
    BY <2>1, <2>11 DEF CbReply
  <2>12. CASE CbInsert(c)
    <3>1. UNCHANGED <<cpc, ret, ccm>>
      BY <2>12 DEF CbInsert
    <3>2. \E pc \in {"drop_old", "unlock"} : spc' = [spc EXCEPT ![c] = pc]
      BY <2>12 DEF CbInsert
    <3>3. \A d \in Clients : scm'[d] = "IDLE" => scm[d] = "IDLE"
      BY <2>12 DEF CbInsert
    <3> QED
      BY <2>1, <3>1, <3>2, <3>3
  <2>13. CASE CbSetContext(c) \/ CbDropOld(c) \/ CbUnlock(c) \/ CbDreq(c)
    BY <2>1, <2>13 DEF CbSetContext, CbDropOld, CbUnlock, CbDreq
  <2>14. CASE CbPost(c) \/ CbDereg(c)
    BY <2>1, <2>14 DEF CbPost, CbDereg, CallbackEnds
  <2>15. CASE CbSelfDrop(c)
    BY <2>1, <2>15 DEF CbSelfDrop
  <2>16. CASE RecvReq(c) \/ RecvRtu(c)
    BY <2>1, <2>16 DEF RecvReq, RecvRtu
  <2>17. CASE RecvRejS(c) \/ RepError(c)
    <3>1. RecvRejS(c) => ret[c] = "err"
      BY DEF RecvRejS, RejInFlight
    <3> QED
      BY <2>1, <2>17, <3>1 DEF CallbackInv, RecvRejS, RepError
  <2>18. CASE RecvDreqS(c)
    BY <2>1, <2>18 DEF RecvDreqS
  <2> QED
    BY <1>2, <2>2, <2>3, <2>4, <2>5, <2>6, <2>7, <2>8, <2>9, <2>10, <2>11, <2>12, <2>13, <2>14,
       <2>15, <2>16, <2>17, <2>18
    DEF ClientThread, ServerCallback, CmEvent
<1> QED
    BY <1>1, <1>2 DEF Next

\* RepOut begins with the REP that connect_reply sends.
LEMMA RepSource ==
    ASSUME TypeOK, NEW c \in Clients, NEW d \in Clients,
           ClientThread(c) \/ ClientCallback(c) \/ ServerCallback(c) \/ CmEvent(c),
           RepOut(d)', ~RepOut(d)
    PROVE  c = d /\ CbReply(c) /\ scm[c] = "REQ_RCVD"
<1>1. RepInFlight(d)' /\ ~RepInFlight(d) => c = d /\ CbReply(c) /\ scm[c] = "REQ_RCVD"
  <2> SUFFICES ASSUME RepInFlight(d)', ~RepInFlight(d)
               PROVE  c = d /\ CbReply(c) /\ scm[c] = "REQ_RCVD"
    OBVIOUS
  <2>1. c = d /\ CbReply(c)
    BY NetSource, Zenon DEF RepInFlight
  <2> QED
    BY <2>1 DEF CbReply, RepInFlight
<1>2. CASE RecvRep(c)
  <2>1. RepInFlight(c)
    BY <1>2 DEF RecvRep, RepInFlight
  <2> QED
    BY <1>1, <1>2, <2>1 DEF TypeOK, RecvRep, RepOut
<1>3. CASE SendReq(c)
  BY <1>1, <1>3 DEF TypeOK, SendReq, ConnectFails, RepOut
<1>4. CASE WaitTimeout(c)
  BY <1>1, <1>4 DEF TypeOK, WaitTimeout, ConnectFails, RepOut
<1>5. CASE SendRtu(c)
  BY <1>1, <1>5 DEF TypeOK, SendRtu, ConnectFails, RepOut
<1>6. CASE DropCm(c)
  BY <1>1, <1>6 DEF TypeOK, DropCm, RepOut
<1>7. CASE RecvRejC(c) \/ RecvDreqC(c) \/ ReqError(c)
  BY <1>1, <1>7 DEF TypeOK, RecvRejC, RecvDreqC, ReqError, RepOut
<1>8. CASE UNCHANGED <<ccm, ret>>
  BY <1>1, <1>8 DEF RepOut
<1>9. WaitDone(c) \/ DropQp(c) \/ DropEnd(c) \/ ClientCallback(c) => UNCHANGED <<ccm, ret>>
  BY DEF WaitDone, DropQp, DropEnd, ClientCallback, ReplyInit, ReplyRtr, ReplyRts, ReplyModify,
         ReplyDone
<1>10. ServerCallback(c) \/ RecvReq(c) \/ RecvRtu(c) \/ RecvRejS(c) \/ RepError(c) \/ RecvDreqS(c)
        => UNCHANGED cvars
  BY PassiveStep
<1> QED
  BY <1>2, <1>3, <1>4, <1>5, <1>6, <1>7, <1>8, <1>9, <1>10 DEF ClientThread, CmEvent

\* The REP leaves at the end of the building, and what follows needs the REP.
LEMMA RepStep == TypeOK /\ ReqInv /\ RepInv /\ [Next]_vars => RepInv'
<1> SUFFICES ASSUME TypeOK, ReqInv, RepInv PROVE [Next]_vars => RepInv'
    OBVIOUS
<1>1. CASE UNCHANGED vars
    BY <1>1 DEF RepInv, RepOut, RepInFlight, Building
<1>2. ASSUME NEW c \in Clients,
             ClientThread(c) \/ ClientCallback(c) \/ ServerCallback(c) \/ CmEvent(c)
      PROVE  RepInv'
  <2>1. \A d \in Clients : RepOut(d)' =>
            RepOut(d) \/ (c = d /\ scm'[c] # "none" /\ ~Building(c)')
    <3> SUFFICES ASSUME NEW d \in Clients, RepOut(d)', ~RepOut(d)
                 PROVE  c = d /\ scm'[c] # "none" /\ ~Building(c)'
      OBVIOUS
    <3>1. c = d /\ CbReply(c)
      BY <1>2, RepSource
    <3> QED
      BY <3>1 DEF TypeOK, ReqInv, CbReply, Building
  <2>2. \A d \in Clients : (Building(d)' => Building(d) \/ scm[d] = "none")
                           /\ (scm'[d] = "none" => scm[d] = "none")
    <3> USE DEF TypeOK, Building
    <3>1. CASE UNCHANGED svars
      BY <3>1
    <3>2. CASE CbCreate(c)
      BY <3>2 DEF CbCreate
    <3>3. CASE CbInit(c) \/ CbRtr(c) \/ CbRts(c)
      BY <3>3 DEF CbInit, CbRtr, CbRts, CbModify
    <3>4. CASE CbReply(c)
      BY <3>4 DEF CbReply
    <3>5. CASE CbSetContext(c) \/ CbDropOld(c) \/ CbUnlock(c) \/ CbDreq(c)
      BY <3>5 DEF CbSetContext, CbDropOld, CbUnlock, CbDreq
    <3>6. CASE CbInsert(c)
      BY <3>6 DEF CbInsert
    <3>7. CASE CbPost(c) \/ CbDereg(c)
      BY <3>7 DEF CbPost, CbDereg, CallbackEnds
    <3>8. CASE CbSelfDrop(c)
      BY <3>8 DEF CbSelfDrop
    <3>9. CASE RecvReq(c)
      BY <3>9 DEF ReqInv, ReqInFlight, RecvReq
    <3>10. CASE RecvRtu(c) \/ RecvRejS(c) \/ RepError(c)
      BY <3>10 DEF RecvRtu, RecvRejS, RepError
    <3>11. CASE RecvDreqS(c)
      BY <3>11 DEF RecvDreqS
    <3> QED
      BY <1>2, <3>1, <3>2, <3>3, <3>4, <3>5, <3>6, <3>7, <3>8, <3>9, <3>10, <3>11, ActiveStep
      DEF ServerCallback, CmEvent
  <2> QED
    BY <2>1, <2>2 DEF RepInv
<1> QED
    BY <1>1, <1>2 DEF Next

\* While the REJ of the client stays away, the passive QP goes from RESET to RTS
\* before the REP leaves; afterwards it can only be destroyed.
LEMMA PassiveUpStep ==
    /\ TypeOK /\ ReqInv /\ CallbackInv /\ HeldInv /\ RegistryConsistent /\ RepInv /\ PassiveUpInv
    /\ [Next]_vars
    => PassiveUpInv'
<1> SUFFICES ASSUME TypeOK, ReqInv, CallbackInv, HeldInv, RegistryConsistent, RepInv, PassiveUpInv,
                    "server_qp" \notin CanFail
             PROVE  [Next]_vars => PassiveUpInv'
    BY DEF PassiveUpInv
<1>1. CASE UNCHANGED vars
    BY <1>1 DEF PassiveUpInv, RepOut, RepInFlight
<1>2. ASSUME NEW c \in Clients,
             ClientThread(c) \/ ClientCallback(c) \/ ServerCallback(c) \/ CmEvent(c)
      PROVE  PassiveUpInv'
  <2>1. \A d \in Clients : RepOut(d) => sqp[d] \in {"RTS", "destroyed"} /\ ~Building(d)
    BY DEF PassiveUpInv, RepInv
  <2>2. \A d \in Clients : RepOut(d)' =>
            RepOut(d) \/ (c = d /\ sqp'[c] = "RTS")
    <3> SUFFICES ASSUME NEW d \in Clients, RepOut(d)', ~RepOut(d)
                 PROVE  c = d /\ sqp'[c] = "RTS"
      OBVIOUS
    <3>1. c = d /\ CbReply(c) /\ scm[c] = "REQ_RCVD"
      BY <1>2, RepSource
    <3> QED
      BY <3>1 DEF PassiveUpInv, CbReply
  <2>3. \A d \in Clients : scm[d] = "REQ_RCVD" =>
            spc[d] # "reply_err" /\ (spc[d] = "reply" => sqp[d] = "RTS")
    BY DEF PassiveUpInv
  <2>4. ASSUME \A d \in Clients : RepOut(d) => sqp'[d] \in {"RTS", "destroyed"},
               \A d \in Clients : scm'[d] = "REQ_RCVD" =>
                   spc'[d] # "reply_err" /\ (spc'[d] = "reply" => sqp'[d] = "RTS")
        PROVE  PassiveUpInv'
    BY <2>2, <2>4 DEF PassiveUpInv
  <2> USE DEF TypeOK, Building
  <2>5. CASE UNCHANGED svars
    BY <2>1, <2>3, <2>4, <2>5
  <2>6. CASE CbCreate(c)
    BY <2>1, <2>3, <2>4, <2>6 DEF CbCreate
  <2>7. CASE CbInit(c)
    BY <2>1, <2>3, <2>4, <2>7 DEF CbInit, CbModify, ModifyQp, AttrStates
  <2>8. CASE CbRtr(c)
    BY <2>1, <2>3, <2>4, <2>8 DEF CbRtr, CbModify, ModifyQp, AttrStates
  <2>9. CASE CbRts(c)
    BY <2>1, <2>3, <2>4, <2>9 DEF CallbackInv, CbRts, CbModify, ModifyQp, AttrStates
  <2>10. CASE CbReply(c)
    BY <2>1, <2>3, <2>4, <2>10 DEF CbReply
  <2>11. CASE CbSetContext(c) \/ CbDropOld(c) \/ CbUnlock(c) \/ CbDreq(c)
    BY <2>1, <2>3, <2>4, <2>11 DEF CbSetContext, CbDropOld, CbUnlock, CbDreq
  <2>12. CASE CbInsert(c)
    BY <2>1, <2>3, <2>4, <2>12, Holder DEF CbInsert
  <2>13. CASE CbPost(c)
    BY <2>1, <2>3, <2>4, <2>13 DEF CbPost, CallbackEnds
  <2>14. CASE CbDereg(c)
    BY <2>1, <2>3, <2>4, <2>14, Holder, SMTT(30) DEF CbDereg, CallbackEnds
  <2>15. CASE CbSelfDrop(c)
    BY <2>1, <2>3, <2>4, <2>15 DEF CbSelfDrop
  <2>16. CASE RecvReq(c)
    BY <2>1, <2>3, <2>4, <2>16 DEF RecvReq
  <2>17. CASE RecvRtu(c) \/ RecvRejS(c) \/ RepError(c)
    BY <2>1, <2>3, <2>4, <2>17 DEF RecvRtu, RecvRejS, RepError
  <2>18. CASE RecvDreqS(c)
    BY <2>1, <2>3, <2>4, <2>18 DEF RecvDreqS
  <2> QED
    BY <1>2, <2>5, <2>6, <2>7, <2>8, <2>9, <2>10, <2>11, <2>12, <2>13, <2>14, <2>15, <2>16, <2>17,
       <2>18, ActiveStep
    DEF ServerCallback, CmEvent
<1> QED
    BY <1>1, <1>2 DEF Next

\* handle_reply takes the QP from RESET to RTS unless the cm_id leaves REP_RCVD, and
\* send_rtu needs REP_RCVD.
LEMMA ActiveUpStep == TypeOK /\ ClientInv /\ RetInv /\ ActiveUpInv /\ [Next]_vars => ActiveUpInv'
<1> SUFFICES ASSUME TypeOK, ClientInv, RetInv, ActiveUpInv, "client_qp" \notin CanFail
             PROVE  [Next]_vars => ActiveUpInv'
    BY DEF ActiveUpInv
<1>1. CASE UNCHANGED cvars
    BY <1>1 DEF ActiveUpInv
<1>2. ASSUME NEW c \in Clients,
             ClientThread(c) \/ ClientCallback(c) \/ ServerCallback(c) \/ CmEvent(c)
      PROVE  ActiveUpInv'
  <2> USE DEF TypeOK, ActiveUpInv
  <2>1. CASE SendReq(c)
    BY <2>1 DEF ClientInv, SendReq, ConnectFails
  <2>2. CASE WaitDone(c) \/ WaitTimeout(c)
    BY <2>2 DEF WaitDone, WaitTimeout, ConnectFails
  <2>3. CASE SendRtu(c)
    BY <2>3 DEF ClientInv, SendRtu, ConnectFails
  <2>4. CASE DropQp(c) \/ DropEnd(c)
    BY <2>4 DEF DropQp, DropEnd
  <2>5. CASE DropCm(c)
    BY <2>5 DEF DropCm
  <2>6. CASE ReplyInit(c)
    BY <2>6 DEF ClientInv, RetInv, ReplyInit, ReplyModify, ModifyQp, AttrStates
  <2>7. CASE ReplyRtr(c)
    BY <2>7 DEF ClientInv, RetInv, ReplyRtr, ReplyModify, ModifyQp, AttrStates
  <2>8. CASE ReplyRts(c)
    BY <2>8 DEF ClientInv, RetInv, ReplyRts, ReplyModify, ModifyQp, AttrStates
  <2>9. CASE ReplyDone(c)
    BY <2>9 DEF ReplyDone
  <2>10. CASE RecvRep(c)
    BY <2>10 DEF ClientInv, RecvRep
  <2>11. CASE RecvRejC(c) \/ RecvDreqC(c) \/ ReqError(c)
    BY <2>11 DEF RecvRejC, RecvDreqC, ReqError
  <2>12. ServerCallback(c) \/ RecvReq(c) \/ RecvRtu(c) \/ RecvRejS(c) \/ RepError(c) \/ RecvDreqS(c)
            => UNCHANGED cvars
    BY PassiveStep
  <2> QED
    BY <1>1, <1>2, <2>1, <2>2, <2>3, <2>4, <2>5, <2>6, <2>7, <2>8, <2>9, <2>10, <2>11, <2>12
    DEF ClientThread, ClientCallback, CmEvent
<1> QED
    BY <1>1, <1>2 DEF Next

\* At load time no connection exists and the registry is empty.
LEMMA InitInd == Init => IndInv
<1> SUFFICES ASSUME Init PROVE IndInv
    OBVIOUS
<1>1. TypeOK
    BY Zenon DEF Init, TypeOK
<1>2. ClientInv
    BY DEF Init, ClientInv
<1>3. ReqInv
    BY DEF Init, ReqInv, ReqInFlight
<1>4. MutexInv
    BY DEF Init, MutexInv
<1>5. CallbackInv
    BY DEF Init, CallbackInv, Building
<1>6. HeldInv /\ RegistryConsistent
    BY DEF Init, HeldInv, Inserted, Held, RegistryConsistent
<1>7. RetInv /\ RepInv
    BY DEF Init, RetInv, RepInv, RepOut, RepInFlight, RejInFlight, Building
<1>8. PassiveUpInv /\ ActiveUpInv
    BY DEF Init, PassiveUpInv, ActiveUpInv, RepOut, RepInFlight
<1> QED
    BY <1>1, <1>2, <1>3, <1>4, <1>5, <1>6, <1>7, <1>8 DEF IndInv

\* IndInv is inductive.
LEMMA StepInd == IndInv /\ [Next]_vars => IndInv'
BY TypeStep, ClientStep, ReqStep, MutexStep, CallbackStep, HeldStep, RetStep, RepStep, PassiveUpStep,
   ActiveUpStep DEF IndInv

\* IndInv holds in every reachable state.
LEMMA SpecInd == Spec => []IndInv
BY InitInd, StepInd, PTL DEF Spec

\* Every variable keeps its type, for any number of connections.
THEOREM TypeCorrect == Spec => []TypeOK
<1>1. IndInv => TypeOK
    BY DEF IndInv
<1> QED
    BY <1>1, SpecInd, PTL

\* Whatever get_trc can find in registered_rcs is a live RC of that key, under
\* every interleaving of REQ and DREQ callbacks and any reuse of keys.
THEOREM RegistryIsConsistent == Spec => []RegistryConsistent
<1>1. IndInv => RegistryConsistent
    BY DEF IndInv
<1> QED
    BY <1>1, SpecInd, PTL

\* The DREQ callback of RCtrl casts the right pointer, although the context is
\* set only after the REP has left.
THEOREM ContextIsItsOwn == Spec => []DreqSeesItsContext
<1>1. IndInv => DreqSeesItsContext
    BY DEF IndInv, CallbackInv, DreqSeesItsContext
<1> QED
    BY <1>1, SpecInd, PTL

\* Drop for RC never frees the memory its CM callback is using.
THEOREM NoFreeUnderCallback == Spec => []CallbackBeforeFree
<1>1. IndInv => CallbackBeforeFree
    BY DEF IndInv, ClientInv, CallbackBeforeFree
<1> QED
    BY <1>1, SpecInd, PTL

\* handle_reply meets a destroyed QP only after connect() has given up.
THEOREM LateReplyIsAfterError == Spec => []LateReplyOnlyAfterError
<1>1. IndInv => LateReplyOnlyAfterError
    BY DEF IndInv, ClientInv, TypeOK, LateReplyOnlyAfterError
<1> QED
    BY <1>1, SpecInd, PTL

\* rc_conn_callback posts receives on a destroyed QP only while the callback that
\* replaced its RC under the same key waits for it.
THEOREM PostMeetsReplacementOnly == Spec => []PostOnDeadQpIsReplaced
<1>1. IndInv => PostOnDeadQpIsReplaced
  <2> SUFFICES ASSUME IndInv, NEW c \in Clients, spc[c] = "post", sqp[c] = "destroyed"
               PROVE  /\ c \in dropping
                      /\ \E d \in Clients \ {c} : spc[d] = "drop_old" /\ skey[d] = skey[c]
    BY DEF PostOnDeadQpIsReplaced
  <2>1. ~Held(c)
    BY DEF IndInv, RegistryConsistent, Held
  <2>2. c \in dropping
    BY <2>1 DEF IndInv, HeldInv, Inserted
  <2>3. PICK d \in Clients : spc[d] = "drop_old"
    BY <2>2 DEF IndInv, MutexInv
  <2> QED
    BY <2>2, <2>3 DEF IndInv, MutexInv
<1> QED
    BY <1>1, SpecInd, PTL

\* An Ok from connect() means that both QPs came up, whatever REJs, timeouts and
\* failed sends the handshake met.
THEOREM OkConnectIsUp == Spec => []OkMeansBothUp
<1>1. IndInv => OkMeansBothUp
  <2> SUFFICES ASSUME IndInv, CanFail \cap {"client_qp", "server_qp"} = {}
               PROVE  \A c \in Clients : ret[c] = "ok" =>
                         cqp[c] \in {"RTS", "destroyed"} /\ sqp[c] \in {"RTS", "destroyed"}
    BY DEF OkMeansBothUp
  <2>1. "client_qp" \notin CanFail /\ "server_qp" \notin CanFail
    OBVIOUS
  <2> QED
    BY <2>1 DEF IndInv, PassiveUpInv, ActiveUpInv, RepOut
<1> QED
    BY <1>1, SpecInd, PTL

\* rc_conn_callback takes its Err branch only for a client that has given up.
THEOREM SelfDropIsAfterGiveUp == Spec => []SelfDropOnlyAfterGiveUp
<1>1. IndInv => SelfDropOnlyAfterGiveUp
    BY DEF IndInv, RetInv, SelfDropOnlyAfterGiveUp
<1> QED
    BY <1>1, SpecInd, PTL

\* dereg_rc takes a key, and yet removes the RC of the connection that closed:
\* of all the steps only CbDereg shrinks the registry, and HeldInv says whose RC
\* it finds.
THEOREM DeregIsExact == Spec => DreqRemovesOwnRc
<1> DEFINE Own == \A k \in DOMAIN registered_rcs :
                     k \notin DOMAIN registered_rcs' => spc[registered_rcs[k]] = "dereg"
<1>1. ASSUME IndInv, Next PROVE Own
  <2> PICK c \in Clients : ClientThread(c) \/ ClientCallback(c) \/ ServerCallback(c) \/ CmEvent(c)
    BY <1>1 DEF Next
  <2>1. CASE UNCHANGED registered_rcs
    BY <2>1
  <2>2. CASE CbInsert(c)
    BY <2>2 DEF CbInsert, MapInsert
  <2>3. CASE CbDereg(c)
    <3>1. dropping = {}
      BY <1>1, <2>3, FreeMutex DEF IndInv, CbDereg
    <3>2. Held(c)
      BY <1>1, <2>3, <3>1 DEF IndInv, HeldInv, Inserted, CbDereg
    <3> QED
      BY <2>3, <3>2 DEF Held, CbDereg, MapRemove
  <2>4. CASE CbCreate(c) \/ CbInit(c) \/ CbRtr(c) \/ CbRts(c) \/ CbReply(c) \/ CbSetContext(c)
             \/ CbDropOld(c) \/ CbUnlock(c) \/ CbPost(c) \/ CbSelfDrop(c) \/ CbDreq(c)
    BY <2>1, <2>4 DEF CbCreate, CbInit, CbRtr, CbRts, CbModify, CbReply, CbSetContext, CbDropOld,
       CbUnlock, CbPost, CbSelfDrop, CbDreq
  <2>5. CASE RecvReq(c) \/ RecvRtu(c) \/ RecvRejS(c) \/ RepError(c) \/ RecvDreqS(c)
    BY <2>1, <2>5 DEF RecvReq, RecvRtu, RecvRejS, RepError, RecvDreqS
  <2> QED
    BY <2>1, <2>2, <2>3, <2>4, <2>5, ActiveStep DEF ServerCallback, CmEvent
<1>2. IndInv /\ [Next]_vars => [Own]_vars
    BY <1>1
<1> QED
    BY <1>2, SpecInd, PTL DEF Spec, DreqRemovesOwnRc
=============================================================================
