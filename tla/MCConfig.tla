------------------------------ MODULE MCConfig ------------------------------
(***************************************************************************)
(* Values for the constants of Config.                                     *)
(***************************************************************************)
EXTENDS Config

CONSTANTS a1, a2

TwoAddrs == {a1, a2}
TwoPaths == {"/one", "/two"}
TwoCerts == {"c1", "c2"}
TwoKeys  == {"k1", "k2"}

Plain  == [scheme |-> "http", addr |-> a1, port |-> "user", auth |-> FALSE,
           query |-> FALSE, fragment |-> FALSE, path |-> "/one", cert |-> None,
           key |-> None, headerTimeout |-> None, requestTimeout |-> None]
Target == [scheme |-> "http", auth |-> FALSE, fragment |-> FALSE]
Proxy(l, c) == [listenOn |-> l, connectTo |-> c, regexes |-> TRUE]

\* Every way to write one listener, and every way to write one backend.
AnyListener == {[Plain EXCEPT !.scheme = s, !.addr = a, !.port = p, !.auth = u,
                              !.query = q, !.fragment = f, !.cert = c, !.key = k] :
                   s \in {"http", "https", "other"}, a \in {a1, None},
                   p \in {"missing", "privileged", "user"},
                   u \in BOOLEAN, q \in BOOLEAN, f \in BOOLEAN,
                   c \in {"c1", None, "unreadable", "unusable"},
                   k \in {"k1", None, "unreadable", "unusable"}}
AnyBackend == {[Target EXCEPT !.scheme = s, !.auth = u, !.fragment = f] :
                   s \in {"http", "https", "other"}, u \in BOOLEAN, f \in BOOLEAN}
FilesOfOne ==
    {[proxies |-> <<Proxy(l, Target)>>, metrics |-> None] : l \in AnyListener} \union
    {[proxies |-> <<Proxy(Plain, c)>>, metrics |-> None] : c \in AnyBackend} \union
    {[proxies |-> <<[Proxy(l, c) EXCEPT !.regexes = FALSE]>>, metrics |-> None] :
        l \in {Plain, [Plain EXCEPT !.query = TRUE]},
        c \in {Target, [Target EXCEPT !.auth = TRUE]}} \union
    {[proxies |-> <<Proxy(Plain, Target)>>, metrics |-> l] : l \in AnyListener}

\* Up to three sound proxies, and telemetry, that may be in each other's way.
Secure(a, p, c, k) == [Plain EXCEPT !.scheme = "https", !.addr = a, !.path = p,
                                    !.cert = c, !.key = k]
SoundListeners ==
    {[Plain EXCEPT !.addr = a, !.path = p] : a \in TwoAddrs, p \in TwoPaths} \union
    {Secure(a, p, x[1], x[2]) : a \in TwoAddrs, p \in TwoPaths,
                                x \in {<<"c1", "k1">>, <<"c1", "k2">>, <<"c2", "k1">>}}
Telemetry == {None, Plain, [Plain EXCEPT !.addr = a2, !.path = "/two"]}
FilesOfMany ==
    {[proxies |-> [i \in 1..n |-> Proxy(ls[i], Target)], metrics |-> m] :
        n \in 0..3, ls \in [1..3 -> SoundListeners], m \in Telemetry}

AnyFile == FilesOfOne \union FilesOfMany

\* Two proxies on one address: the first asks for 5 seconds, the other does not
\* say (as in example-config.yaml).
OwnTimeouts ==
    {[proxies |-> <<Proxy([Plain EXCEPT !.requestTimeout = 5], Target),
                    Proxy([Plain EXCEPT !.path = "/two"], Target)>>,
      metrics |-> None]}
=============================================================================
