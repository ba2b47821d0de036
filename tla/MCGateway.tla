------------------------------ MODULE MCGateway ------------------------------
(***************************************************************************)
(* Values for the constants of Gateway.                                    *)
(***************************************************************************)
EXTENDS Gateway, TLC

CONSTANTS r1, r2, r3

Two   == {r1, r2}
Three == {r1, r2, r3}

Bare     == [cached |-> TRUE, query |-> Absent, authorization |-> Absent, accept |-> Absent]
Query    == [Bare EXCEPT !.query = "?job=node"]
Uncached == [Bare EXCEPT !.cached = FALSE]
AnyQuery == {Bare, Query}
AllAsks  == {Bare, Query, Uncached}

SomeResults == {Metrics, Status(404)}
MetricsOnly == {Metrics}
=============================================================================
