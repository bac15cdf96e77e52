------------------------------ MODULE MCRouter ------------------------------
(* A small instance of Router for TLC: two requests at a time.              *)
EXTENDS Router, TLC

CONSTANTS a1, a2, p1, p2, k1, k2

MCInitial == <<a1, a2>>

Asks(k, r, x, prefer) == [key |-> k, route |-> r, excluded |-> x, prefer |-> prefer]

\* Two requests of one session along a route, the second on its failover; two
\* sessions that avoid each other's account, one with and one without a route;
\* and requests without a session.
MCWorkloads ==
    {[asks |-> (p1 :> Asks(k1, <<a2, a1>>, {}, FALSE)) @@ (p2 :> Asks(k1, <<a2, a1>>, {a1}, FALSE)),
      picks |-> 3],
     [asks |-> (p1 :> Asks(k1, <<>>, {}, TRUE)) @@ (p2 :> Asks(k2, <<a1, a2>>, {}, TRUE)), picks |-> 2],
     [asks |-> (p1 :> Asks(NoSticky, <<>>, {a2}, FALSE)) @@ (p2 :> Asks(NoSticky, <<a1, a2>>, {}, FALSE)),
      picks |-> 3]}
=============================================================================
