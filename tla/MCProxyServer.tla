---------------------------- MODULE MCProxyServer ----------------------------
(* Two threads, of one process or of two; one statement, or two that share *)
(* a key.  Two handles are as many as two threads ever have open: a third  *)
(* would be missing in AllocMySQL, and the request would not end.          *)
EXTENDS ProxyServer, TLC

CONSTANTS p1, p2, t1, t2, q1, q2, k1, k2, c1, c2

MCThreads == {t1, t2}
OneProcOf == [t \in MCThreads |-> p1]
TwoProcOf == t1 :> p1 @@ t2 :> p2
MCConns == {c1, c2}
OneKeyOf == q1 :> k1
CutKeyOf == q1 :> k1 @@ q2 :> k1
=============================================================================
