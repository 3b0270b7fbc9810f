------------------------------ MODULE MCRcConn ------------------------------
(* Instances of RcConn for TLC.                                            *)
EXTENDS RcConn, TLC

CONSTANTS c1, c2

TwoClients == {c1, c2}

\* Clients that name the same key, as a reconnecting client does.
SameVids == (c1 :> 1) @@ (c2 :> 1)
\* Clients that ask for a fresh key.
FreshVids == (c1 :> 0) @@ (c2 :> 0)

Symmetric == Permutations(TwoClients)
=============================================================================
