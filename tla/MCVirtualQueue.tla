--------------------------- MODULE MCVirtualQueue ---------------------------
(* Instances of VirtualQueue for TLC.                                      *)
EXTENDS VirtualQueue, TLC

Symmetry == Permutations(VQs)

\* What the next steps and the properties of vq_dct depend on.  goal and got are
\* never read, and nothing of a closed VQ is; of a Push only what is still to be
\* posted or waited for (the reply is overwritten by a batch); of dst only the
\* address; of bind_port and remote_endpoint only whether there is one;
\* local_connect_port only chooses between replies that are not ok.
PushView(v) ==
    CASE pc[v] # "push" -> <<>>
      [] pc[v] = "push" /\ op[v].left > 0 -> <<op[v]>>
      [] OTHER -> <<op[v].pop /\ reply[v] = "ok">>

VqView(v) ==
    IF pc[v] = "closed" THEN <<>>
    ELSE <<IF dst[v] = None THEN None ELSE dst[v][1], bind_port[v] = None, local_dc[v],
           virtual_queue[v], remote_endpoint[v] = None, PushView(v),
           dct_meta_cache[v], path_rec_cache[v], rc_connect_param[v]>>

DcView == <<pc, [v \in VQs |-> VqView(v)], thr, dc_cq, rc_cq, owed>>
=============================================================================
