----------------------------- MODULE MetaServer -----------------------------
(***************************************************************************)
(* The meta server of the meta_kv build and the nodes that use it.         *)
(*                                                                         *)
(* A node that loads the module calls the server over UD to register its   *)
(* DC endpoint (conn_meta), and to deregister it when it unloads (Drop for *)
(* Client).  The server polls its receive queue (RpcPoll, poll_all), runs  *)
(* the handler of each request (rpc/protocol.rs) and replies.  The handler *)
(* of a registration copies META_INFO into tables in registered memory,    *)
(* entry by entry; nodes read these tables with one-sided reads            *)
(* (query_dct_meta), while the server may be writing them.                 *)
(*                                                                         *)
(* UD is unreliable: a message may be lost.  One that is late is not told  *)
(* apart from one that waits in the receive queue, where nothing happens   *)
(* until the server polls.  The receive buffers are those of a RecvHelper  *)
(* of N entries, behind the ones RCtrl::create has posted on the same QP.  *)
(*                                                                         *)
(* Left out: other users of RCtrl 0's receive queue (a VQ bound to port 0),*)
(* the requests QueryDCMeta and Dummy, which no code under src/ sends, and *)
(* reads through the fallback address of a node whose registration was not *)
(* answered, and RpcPoll in two processes.                                 *)
(* An endpoint is <<its gid, the load of the module it belongs to>>.       *)
(***************************************************************************)
EXTENDS Naturals, FiniteSets, Sequences, SequencesExt

CONSTANTS Nodes, Server,
          NumTables,  \* GLOBAL_MEM.len()
          N,          \* RPC_BUFFER_N, the capacity of the server's RecvHelper
          Foreign,    \* receives RCtrl::create has posted on the UD before
          MaxLoads,   \* bound: how often each node loads the module
          Lookups,    \* bound: who looks up whom; lookups change nothing else
          None

ASSUME SizesAssumption ==
    /\ NumTables \in Nat \ {0} /\ N \in Nat \ {0}
    /\ Foreign \in Nat /\ MaxLoads \in [Nodes -> Nat]
    /\ Server \notin Nodes
    /\ Lookups \subseteq Nodes \X (Nodes \cup {Server})

Keys    == Nodes \cup {Server}
Tables  == 1 .. NumTables
Buffers == 0 .. N + Foreign - 1
Slots   == 1 .. Cardinality(Keys)

VARIABLES
    npc,     \* what the node is doing: "out", "reg", "up" or "dereg"
    inc,     \* how often the node has loaded the module
    kv_pa,   \* META_KV_PA: the table the node reads, or 0 (the fallback)
    inbox,   \* replies in the node's receive queue
    late,    \* history: some call has timed out
    overrun, \* history: some request was overwritten before it was read
    mem,     \* contents of the server's receive buffers
    rq,      \* buffers posted on the server's UD, in order
    cq,      \* buffers with a received message, in order
    cur_idx, \* RecvHelper.cur_idx
    spc,     \* the step poll_all is about to take
    batch,   \* the buffers of the completions poll_all has popped
    hdr,     \* poll_all's copy of the header: the request type and the reply endpoint
    ret,     \* what the reply will carry
    meta_info, \* META_INFO: gid -> endpoint
    order,   \* the order in which its keys are iterated
    w,       \* the table and the slot being written
    table,   \* the tables: len and, per slot, the endpoint in two words
    look     \* a lookup of m on the node n; one at a time: see Disturbed

nodeVars == <<npc, inc, kv_pa, inbox, late, overrun>>
recvVars == <<mem, rq, cq, cur_idx>>
pollVars == <<batch, hdr, ret, w>>
metaVars == <<meta_info, order>>
vars == <<nodeVars, recvVars, spc, pollVars, metaVars, table, look>>

Writing == {"gid", "point", "len"}
Zero == <<None, 0>>
First == [t |-> 1, i |-> 1]
NoHeader == [type |-> None, ep |-> Zero]
Blank == [type |-> None, ep |-> Zero, gid |-> None, point |-> Zero, port |-> 1]
NoLookup == [pc |-> "idle", n |-> None, m |-> None, cnt |-> 0, i |-> 0, res |-> Zero,
             known |-> Zero, raced |-> FALSE]

\* The receives on the server's UD before the first message.
Posted == [i \in 1 .. Foreign |-> N + i - 1] \o [i \in 1 .. N |-> i - 1]

\* The server has been through conn_meta itself: META_INFO has the endpoint it
\* got by SIDR, and the registration it sent to itself, on which its call has
\* timed out as nothing polled then, is in the receive queue or was lost.
Init ==
    /\ npc = [n \in Nodes |-> "out"]
    /\ inc = [n \in Nodes |-> 0]
    /\ kv_pa = [n \in Nodes |-> 0]
    /\ inbox = [n \in Nodes |-> << >>]
    /\ late = FALSE
    /\ overrun = FALSE
    /\ \/ /\ mem = [b \in Buffers |-> Blank]
          /\ rq = Posted
          /\ cq = << >>
       \/ \E port \in Tables :
             /\ mem = [[b \in Buffers |-> Blank] EXCEPT ![Head(Posted)] =
                          [type |-> "reg", ep |-> <<Server, 1>>, gid |-> Server,
                           point |-> <<Server, 1>>, port |-> port]]
             /\ rq = Tail(Posted)
             /\ cq = <<Head(Posted)>>
    /\ cur_idx = 0
    /\ spc = "idle"
    /\ batch = << >>
    /\ hdr = NoHeader
    /\ ret = 0
    /\ meta_info = [k \in {Server} |-> <<Server, 0>>]
    /\ order = <<Server>>
    /\ w = First
    /\ table = [t \in Tables |-> [len |-> 0, gid |-> [i \in Slots |-> None], point |-> [i \in Slots |-> Zero]]]
    /\ look = NoLookup

-----------------------------------------------------------------------------
(* The nodes: conn_meta, Drop for Client and RPCClient::call.              *)

\* The buffers with a request that the server has still to read.
Unread == ToSet(cq) \cup {batch[i] : i \in {j \in DOMAIN batch : j = 1 => spc \in {"header", "handle"}}}

\* A request is lost, dropped for want of a posted receive, or lands in the
\* first posted buffer.  The payload of a deregistration is only the gid: what
\* lies behind it in the buffer stays.
Send(type, n, port) ==
    \/ UNCHANGED <<mem, rq, cq, overrun>>
    \/ /\ rq # << >>
       /\ LET b == Head(rq) IN
          /\ mem' = [mem EXCEPT ![b] =
                [type |-> type, ep |-> <<n, inc'[n]>>, gid |-> n,
                 point |-> IF type = "reg" THEN <<n, inc'[n]>> ELSE @.point,
                 port  |-> IF type = "reg" THEN port ELSE @.port]]
          /\ cq' = Append(cq, b)
          /\ overrun' = (overrun \/ b \in Unread)
       /\ rq' = Tail(rq)

\* conn_meta, once the server was found: a new UD, the fallback address, and
\* the registration with a random port.
Load(n) ==
    /\ npc[n] = "out"
    /\ inc[n] < MaxLoads[n]
    /\ inc' = [inc EXCEPT ![n] = @ + 1]
    /\ npc' = [npc EXCEPT ![n] = "reg"]
    /\ kv_pa' = [kv_pa EXCEPT ![n] = 0]
    /\ inbox' = [inbox EXCEPT ![n] = << >>]
    /\ \E port \in Tables : Send("reg", n, port)
    /\ UNCHANGED <<late, cur_idx, spc, pollVars, metaVars, table, look>>

\* Drop for Client: the deregistration.  No file is open then.
Unload(n) ==
    /\ npc[n] = "up"
    /\ look.n # n
    /\ npc' = [npc EXCEPT ![n] = "dereg"]
    /\ UNCHANGED inc
    /\ Send("dereg", n, 1)
    /\ UNCHANGED <<kv_pa, inbox, late, cur_idx, spc, pollVars, metaVars, table, look>>

\* What the node does after its call, answered or not.
AfterCall(n) == npc' = [npc EXCEPT ![n] = IF @ = "reg" THEN "up" ELSE "out"]

\* call takes whatever is first in the receive queue for its reply.
CallReturns(n) ==
    /\ npc[n] \in {"reg", "dereg"}
    /\ inbox[n] # << >>
    /\ inbox' = [inbox EXCEPT ![n] = Tail(@)]
    /\ kv_pa' = IF npc[n] = "reg" THEN [kv_pa EXCEPT ![n] = Head(inbox[n])] ELSE kv_pa
    /\ AfterCall(n)
    /\ UNCHANGED <<inc, late, overrun, recvVars, spc, pollVars, metaVars, table, look>>

CallTimeout(n) ==
    /\ npc[n] \in {"reg", "dereg"}
    /\ inbox[n] = << >>
    /\ late' = TRUE
    /\ AfterCall(n)
    /\ UNCHANGED <<inc, kv_pa, inbox, overrun, recvVars, spc, pollVars, metaVars, table, look>>

-----------------------------------------------------------------------------
(* The server: RPCClient::poll_all with RecvHelper::post_recvs.            *)

\* The work requests post_recvs hands over: from cur_idx along the ring to the
\* one whose link freeze_at has cut.
Chain(k) ==
    LET tail == (cur_idx + k - 1) % N
        size == IF tail >= cur_idx THEN tail - cur_idx + 1 ELSE tail + N - cur_idx + 1 IN
    [i \in 1 .. size |-> (cur_idx + i - 1) % N]

\* Mutant: the index is not advanced.
NextIdxStuck(k) == cur_idx

\* Mutant: the index is not wrapped.
NextIdxRaw(k) == ((cur_idx + k - 1) % N) + 1

NextIdx(k) == (((cur_idx + k - 1) % N) + 1) % N

\* Up to N completions are popped, and as many receives posted, before the
\* requests are read.
Poll ==
    /\ spc = "idle"
    /\ \E k \in 1 .. N :
          /\ k <= Len(cq)
          /\ batch' = SubSeq(cq, 1, k)
          /\ cq' = SubSeq(cq, k + 1, Len(cq))
          /\ rq' = rq \o Chain(k)
          /\ cur_idx' = NextIdx(k)
    /\ spc' = "header"
    /\ UNCHANGED <<nodeVars, mem, hdr, ret, w, metaVars, table, look>>

ReadHeader ==
    /\ spc = "header"
    /\ LET m == mem[batch[1]] IN hdr' = [type |-> m.type, ep |-> m.ep]
    /\ spc' = "handle"
    /\ UNCHANGED <<nodeVars, recvVars, batch, ret, w, metaVars, table, look>>

\* The orders a HashMap with these keys may be iterated in.
Orders(K) == {s \in [1 .. Cardinality(K) -> K] : IsInjective(s)}

\* Mutant: an endpoint that is there is kept.
PutIfAbsent(gid, point) ==
    meta_info' = [k \in DOMAIN meta_info \cup {gid} |->
                     IF k \in DOMAIN meta_info THEN meta_info[k] ELSE point]

\* put_remote_dc_meta.
Put(gid, point) ==
    meta_info' = [k \in DOMAIN meta_info \cup {gid} |-> IF k = gid THEN point ELSE meta_info[k]]

\* Mutant: the number of entries is written before the entries.
HandleRegLenFirst ==
    /\ spc = "handle"
    /\ hdr.type = "reg"
    /\ LET m == mem[batch[1]] IN
       /\ Put(m.gid, m.point)
       /\ IF m.gid \in DOMAIN meta_info THEN UNCHANGED order
          ELSE order' \in Orders(DOMAIN meta_info \cup {m.gid})
       /\ ret' = m.port
    /\ table' = [t \in Tables |-> [table[t] EXCEPT !.len = Len(order')]]
    /\ w' = First
    /\ spc' = "gid"
    /\ UNCHANGED <<nodeVars, recvVars, batch, hdr, look>>

\* reg_dc_meta_handler, up to its loop over the tables.  The order of the keys
\* changes only with the set of keys.
HandleReg ==
    /\ spc = "handle"
    /\ hdr.type = "reg"
    /\ LET m == mem[batch[1]] IN
       /\ Put(m.gid, m.point)
       /\ IF m.gid \in DOMAIN meta_info THEN UNCHANGED order
          ELSE order' \in Orders(DOMAIN meta_info \cup {m.gid})
       /\ ret' = m.port
    /\ w' = First
    /\ spc' = "gid"
    /\ UNCHANGED <<nodeVars, recvVars, batch, hdr, table, look>>

\* A word of a table is written while a lookup runs.
Race == look' = [look EXCEPT !.raced = look.pc # "idle"]

\* memcpy of an entry, in two words: its gid, then the rest.
WriteGid ==
    /\ spc = "gid"
    /\ table' = [table EXCEPT ![w.t].gid[w.i] = meta_info[order[w.i]][1]]
    /\ spc' = "point"
    /\ Race
    /\ UNCHANGED <<nodeVars, recvVars, pollVars, metaVars>>

WritePoint ==
    /\ spc = "point"
    /\ table' = [table EXCEPT ![w.t].point[w.i] = meta_info[order[w.i]]]
    /\ IF w.i < Len(order) THEN w' = [w EXCEPT !.i = @ + 1] /\ spc' = "gid"
       ELSE spc' = "len" /\ UNCHANGED w
    /\ Race
    /\ UNCHANGED <<nodeVars, recvVars, batch, hdr, ret, metaVars>>

\* Mutant: the last entry is left out.
WriteLenShort ==
    /\ spc = "len"
    /\ table' = [table EXCEPT ![w.t].len = Len(order) - 1]
    /\ IF w.t < NumTables THEN w' = [t |-> w.t + 1, i |-> 1] /\ spc' = "gid"
       ELSE spc' = "reply" /\ UNCHANGED w
    /\ Race
    /\ UNCHANGED <<nodeVars, recvVars, batch, hdr, ret, metaVars>>

\* The number of entries comes last; then the next table.
WriteLen ==
    /\ spc = "len"
    /\ table' = [table EXCEPT ![w.t].len = Len(order)]
    /\ IF w.t < NumTables THEN w' = [t |-> w.t + 1, i |-> 1] /\ spc' = "gid"
       ELSE spc' = "reply" /\ UNCHANGED w
    /\ Race
    /\ UNCHANGED <<nodeVars, recvVars, batch, hdr, ret, metaVars>>

\* dereg_dc_meta_handler: only META_INFO changes, and 0 is the reply.
HandleDereg ==
    /\ spc = "handle"
    /\ hdr.type = "dereg"
    /\ LET g == mem[batch[1]].gid IN
       /\ meta_info' = [k \in DOMAIN meta_info \ {g} |-> meta_info[k]]
       /\ order' = SelectSeq(order, LAMBDA k : k # g)
    /\ ret' = 0
    /\ spc' = "reply"
    /\ UNCHANGED <<nodeVars, recvVars, batch, hdr, w, table, look>>

\* The reply goes to the endpoint in the header; it may be lost, is lost if
\* that UD is gone, and the server does not wait for one to itself.
Reply ==
    /\ spc = "reply"
    /\ LET n == hdr.ep[1] IN
       \/ UNCHANGED inbox
       \/ /\ n \in Nodes
          /\ npc[n] # "out" /\ inc[n] = hdr.ep[2]
          /\ inbox' = [inbox EXCEPT ![n] = Append(@, ret)]
    /\ batch' = Tail(batch)
    /\ hdr' = NoHeader /\ ret' = 0 /\ w' = First
    /\ spc' = IF Len(batch) = 1 THEN "idle" ELSE "header"
    /\ UNCHANGED <<npc, inc, kv_pa, late, overrun, recvVars, metaVars, table, look>>

-----------------------------------------------------------------------------
(* query_dct_meta on a node: one read of the count and one of the entries, *)
(* into a buffer of the node, where the first entry with the gid is taken. *)
(* A read that has landed is what the table was, word by word, at some time*)
(* while it was under way; the words behind the entry that is taken do not *)
(* matter, so that reading an entry and comparing it are one step here.    *)

\* The node is in use and its registration was answered.
Answered(n) == npc[n] = "up" /\ kv_pa[n] # 0

\* The count's read is posted.  known is history: the endpoint of the target,
\* if its registration has been answered; and so is raced: the server was
\* writing the tables at some time during the lookup.
Lookup(n) ==
    /\ npc[n] = "up"
    /\ kv_pa[n] \in Tables
    /\ look.pc = "idle"
    /\ \E m \in Keys \ {n} :
          /\ <<n, m>> \in Lookups
          /\ look' = [NoLookup EXCEPT
                !.pc = "count", !.n = n, !.m = m,
                !.known = IF m \in Nodes /\ Answered(m) THEN <<m, inc[m]>> ELSE Zero,
                !.raced = spc \in Writing]
    /\ UNCHANGED <<nodeVars, recvVars, spc, pollVars, metaVars, table>>

\* The count has landed and the wait took its completion.
ReadCount ==
    /\ look.pc = "count"
    /\ look' = [look EXCEPT !.pc = "scan", !.cnt = table[kv_pa[look.n]].len, !.i = 1]
    /\ UNCHANGED <<nodeVars, recvVars, spc, pollVars, metaVars, table>>

\* The result of neither post nor wait is looked at, and the DC, its completion
\* queue and the buffer belong to all VQs of the RCtrl.  If a post fails, if a
\* wait times out or takes the completion of another request, or if another VQ
\* of the node reads the table meanwhile, then the buffer holds something else
\* than this lookup's reads, and the code does not determine what it returns:
\* the lookup is not followed further.
Disturbed ==
    /\ look.pc \in {"count", "scan", "point"}
    /\ look' = NoLookup
    /\ UNCHANGED <<nodeVars, recvVars, spc, pollVars, metaVars, table>>

\* Mutant: the last entry is not looked at.
MoreShort(l) == l.i < l.cnt

More(l) == l.i <= l.cnt

ScanGid ==
    /\ look.pc = "scan"
    /\ look' = IF ~More(look) THEN [look EXCEPT !.pc = "end"]
               ELSE IF table[kv_pa[look.n]].gid[look.i] = look.m THEN [look EXCEPT !.pc = "point"]
               ELSE [look EXCEPT !.i = @ + 1]
    /\ UNCHANGED <<nodeVars, recvVars, spc, pollVars, metaVars, table>>

ScanPoint ==
    /\ look.pc = "point"
    /\ look' = [look EXCEPT !.pc = "end", !.res = table[kv_pa[look.n]].point[look.i]]
    /\ UNCHANGED <<nodeVars, recvVars, spc, pollVars, metaVars, table>>

LookupEnd ==
    /\ look.pc = "end"
    /\ look' = NoLookup
    /\ UNCHANGED <<nodeVars, recvVars, spc, pollVars, metaVars, table>>

Next ==
    \/ \E n \in Nodes :
          \/ Load(n) \/ Unload(n) \/ CallReturns(n) \/ CallTimeout(n)
          \/ Lookup(n)
    \/ ReadCount \/ ScanGid \/ ScanPoint \/ Disturbed \/ LookupEnd
    \/ Poll \/ ReadHeader \/ HandleReg \/ HandleDereg
    \/ WriteGid \/ WritePoint \/ WriteLen \/ Reply

Spec == Init /\ [][Next]_vars

-----------------------------------------------------------------------------
(* Properties.                                                             *)

TypeOK ==
    /\ npc \in [Nodes -> {"out", "reg", "up", "dereg"}]
    /\ \A n \in Nodes : inc[n] \in 0 .. MaxLoads[n]
    /\ kv_pa \in [Nodes -> {0} \cup Tables]
    /\ \A n \in Nodes : inbox[n] \in Seq(0 .. NumTables)
    /\ rq \in Seq(Buffers) /\ cq \in Seq(Buffers)
    /\ cur_idx \in 0 .. N - 1
    /\ spc \in {"idle", "header", "handle", "gid", "point", "len", "reply"}
    /\ DOMAIN meta_info \subseteq Keys
    /\ order \in Orders(DOMAIN meta_info)

\* poll_all posts its receive buffers again before it reads the requests in
\* them, and posts some of them twice, in place of the receives it found on
\* the UD.  Even so a request is overwritten before it is read only if there
\* are more callers than buffers, or a caller did not wait for its reply.
RequestReadIntact ==
    overrun => late \/ Cardinality(Nodes) > N

\* A node that got the answer to its registration and has not unloaded is in
\* META_INFO with the endpoint it has now, whatever was lost, timed out or
\* delayed: no request of an earlier load of the module undoes it.
AnsweredIsRegistered ==
    ~overrun => \A n \in Nodes : Answered(n) =>
        n \in DOMAIN meta_info /\ meta_info[n] = <<n, inc[n]>>

\* Outside the handler of a registration every table lists every registered
\* node with its current endpoint, although deregistrations do not rewrite
\* the tables and registrations reorder them.
TablesCoverRegistry ==
    ~overrun /\ spc \notin Writing =>
        \A t \in Tables : \A k \in DOMAIN meta_info \ {Server} :
            \E i \in 1 .. table[t].len : table[t].gid[i] = k /\ table[t].point[i] = meta_info[k]

\* A lookup, even one that races with the server, finds in what its own reads
\* brought only slots that were written: the count is written after the
\* entries, and read before them.
LookupReadsWritten ==
    \A i \in 1 .. look.cnt :
        table[kv_pa[look.n]].gid[i] # None /\ table[kv_pa[look.n]].point[i] # Zero

\* A lookup whose waits took its own completions, and during which the server
\* does not write the tables, finds a node whose registration was answered
\* before, with its current endpoint, whichever table it reads and however
\* often that node was unloaded and loaded again; and it finds no endpoint that
\* its node never had.
QuietLookupIsRight ==
    ~overrun /\ look.pc = "end" /\ ~look.raced /\ look.m # Server =>
        /\ look.known # Zero => look.res = look.known
        /\ look.res # Zero => look.res \in {look.m} \X (1 .. inc[look.m])
=============================================================================
