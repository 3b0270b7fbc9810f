---------------------------- MODULE MCMetaServer ----------------------------
(* Instances of MetaServer for TLC.                                        *)
EXTENDS MetaServer

CONSTANTS n1, n2, srv

TwoNodes == {n1, n2}

\* n1 stays or goes; n2, which it looks up, is loaded a second time.
SecondReloads == (n1 :> 1) @@ (n2 :> 2)
FirstLooksUpSecond == {<<n1, n2>>}

\* Nothing is claimed of what follows a request that was overwritten unread.
Intact == ~overrun

\* The state without what is never read again: buffers without an unread
\* request, what a deregistration leaves of the payload behind it (unless the
\* header of a registration was read from that buffer), the reply queue and
\* META_KV_PA of a node that is not loaded, and which table a node that looks
\* nothing up was given.
Lookers == {l[1] : l \in Lookups}
Table(n, port) == IF n \in Lookers \/ port = 0 THEN port ELSE 1

LiveBuffer(b) ==
    LET handled == spc = "handle" /\ b = batch[1]
        m == mem[b] IN
    IF b \notin Unread THEN Blank
    ELSE IF m.type = "dereg" /\ ~handled THEN [m EXCEPT !.point = Zero, !.port = 1]
    ELSE [m EXCEPT !.port = IF handled THEN Table(hdr.ep[1], @) ELSE Table(m.ep[1], @)]

LiveView ==
    <<npc, inc, late, overrun, [b \in Buffers |-> LiveBuffer(b)], rq, cq, cur_idx, spc,
      batch, hdr, Table(hdr.ep[1], ret), w, metaVars, table, look,
      [n \in Nodes |-> IF npc[n] = "out" THEN <<>>
                       ELSE <<[i \in DOMAIN inbox[n] |-> Table(n, inbox[n][i])],
                              Table(n, kv_pa[n])>>]>>
=============================================================================
