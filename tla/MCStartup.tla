------------------------------ MODULE MCStartup ------------------------------
(***************************************************************************)
(* Values for the constants of Startup.                                    *)
(***************************************************************************)
EXTENDS Startup

CONSTANTS s1, s2, telemetry, c1, c2

AllServers == {s1, s2, telemetry}
TlsServers == {s1}
OneAddress == {s1, s2}
TwoConns   == {c1, c2}
=============================================================================
