------------------------------- MODULE Config -------------------------------
(***************************************************************************)
(* How a configuration file becomes the servers to start                   *)
(* (src/src/config.rs).                                                    *)
(*                                                                         *)
(* The entries of the file are parsed one after the other, then checked    *)
(* for conflicts one after the other, and then grouped by the address they *)
(* listen on.  A proxy of the file is the entry it was written as; its     *)
(* target (connect_to, label_filters, cache_duration) is its number.       *)
(***************************************************************************)
EXTENDS Integers, Sequences, FiniteSetsExt

CONSTANTS
    Files,      \* the configurations to consider
    Addrs,      \* host and port, once resolved
    Paths,      \* HTTP paths
    Certs,      \* certificate chains
    PrivateKeys,
    None        \* absent

\* What a file may say of a listener and of a backend.  A certificate or key
\* file is absent, not to be read, or read but without what is needed (no
\* certificate; not exactly one key); timeouts are in seconds.
Listeners ==
    [scheme : {"http", "https", "other"}, addr : Addrs \union {None},
     port : {"missing", "privileged", "user"}, auth : BOOLEAN, query : BOOLEAN,
     fragment : BOOLEAN, path : Paths,
     cert : Certs \union {None, "unreadable", "unusable"},
     key : PrivateKeys \union {None, "unreadable", "unusable"},
     headerTimeout : Nat \union {None}, requestTimeout : Nat \union {None}]
Backends ==
    [scheme : {"http", "https", "other"}, auth : BOOLEAN, fragment : BOOLEAN]
Entries == [listenOn : Listeners, connectTo : Backends,
            regexes : BOOLEAN]     \* whether the regexes of label_filters compile

ASSUME FilesAssumption ==
    \A f \in Files : /\ f.proxies \in Seq(Entries)
                     /\ f.metrics \in Listeners \union {None}

\* What an entry may be refused for.
ErrorKinds == {"SSLOptionsNotAllowed", "CertificateFileRequired", "KeyFileRequired",
               "CertificateFileReadError", "KeyFileReadError", "InvalidURL",
               "PortOutOfBounds", "PortMissing", "QueryStringUnsupported", "RegexError"}

\* No error, no file and a file without what is needed are no error and no file.
ASSUME NoneAssumption ==
    /\ None \notin ErrorKinds
    /\ {None, "unreadable", "unusable"} \intersect (Certs \union PrivateKeys) = {}
    /\ None \notin {"unreadable", "unusable"}

VARIABLES
    file,       \* the configuration; it never changes
    pc,         \* which loop is running, or what came of the file
    next,       \* the proxy the loop is at
    error,      \* what the file is refused for
    specs,      \* the listeners parsed so far
    byHandler,  \* by_host_port_handler: the proxy listening there
    byHostPort, \* by_host_port: the first proxy on an address
    servers     \* the servers by address

vars == <<file, pc, next, error, specs, byHandler, byHostPort, servers>>

-----------------------------------------------------------------------------
(***************************************************************************)
(* Listeners and backends.                                                 *)
(***************************************************************************)
\* Variant: the last check that was made decides.
LastError(checks) ==
    IF checks # << >> /\ checks[Len(checks)].fails THEN checks[Len(checks)].error
    ELSE None

\* The error of the first check that fails, if one does.
FirstError(checks) ==
    LET failed == {i \in 1..Len(checks) : checks[i].fails}
    IN  IF failed = {} THEN None ELSE checks[Min(failed)].error

Check(fails, error_) == [fails |-> fails, error |-> error_]

\* Protocol::try_from
ProtocolError(l) ==
    CASE l.scheme = "http" ->
            FirstError(<<Check(l.cert # None \/ l.key # None, "SSLOptionsNotAllowed")>>)
      [] l.scheme = "https" ->
            FirstError(<<Check(l.cert = None, "CertificateFileRequired"),
                         Check(l.key = None, "KeyFileRequired"),
                         Check(l.cert = "unreadable", "CertificateFileReadError"),
                         Check(l.key = "unreadable", "KeyFileReadError"),
                         Check(l.cert = "unusable", "CertificateFileReadError"),
                         Check(l.key = "unusable", "KeyFileReadError")>>)
      [] OTHER -> "InvalidURL"

Protocol(l) == IF l.scheme = "http" THEN [kind |-> "http"]
               ELSE [kind |-> "https", cert |-> l.cert, key |-> l.key]

\* ListenerSpec::try_from
ListenerError(l) ==
    FirstError(<<Check(l.port = "privileged", "PortOutOfBounds"),
                 Check(l.port = "missing", "PortMissing"),
                 Check(l.addr = None, "InvalidURL"),
                 Check(l.auth, "InvalidURL"),
                 Check(l.query, "QueryStringUnsupported"),
                 Check(l.fragment, "InvalidURL"),
                 Check(ProtocolError(l) # None, ProtocolError(l))>>)

Or(value, default) == IF value = None THEN default ELSE value

DefaultTimeout        == 30
DefaultHeaderTimeout  == 5
DefaultRequestTimeout == DefaultTimeout + 5

ListenerSpec(l) == [addr |-> l.addr, path |-> l.path, protocol |-> Protocol(l),
             headerTimeout |-> Or(l.headerTimeout, DefaultHeaderTimeout),
             requestTimeout |-> Or(l.requestTimeout, DefaultRequestTimeout)]

\* ConnectTo::deserialize
BackendError(c) ==
    FirstError(<<Check(c.auth \/ c.fragment \/ c.scheme = "other", "InvalidURL")>>)

-----------------------------------------------------------------------------
proxies == file.proxies

TypeOK ==
    /\ file.proxies \in Seq(Entries) /\ file.metrics \in Listeners \union {None}
    /\ pc \in {"parsing", "checking", "grouping", "ready", "refused"}
    /\ next \in 1..Len(proxies) + 1
    /\ Len(specs) <= Len(proxies)
    /\ \A at \in DOMAIN byHandler : at \in Addrs \X Paths /\ byHandler[at] \in 1..Len(specs)
    /\ \A a \in DOMAIN byHostPort : a \in Addrs /\ byHostPort[a] \in 1..Len(specs)
    /\ \A a \in DOMAIN servers : \A p \in DOMAIN servers[a].handlers :
          a \in Addrs /\ p \in Paths /\ servers[a].handlers[p] \in 1..Len(specs)

Init ==
    /\ file \in Files
    /\ pc = "parsing"
    /\ next = 1
    /\ error = None
    /\ specs = << >>
    /\ byHandler = << >>
    /\ byHostPort = << >>
    /\ servers = << >>

\* The file is refused, for what it says of some of its proxies.
Refuse(kind, of) ==
    /\ pc' = "refused"
    /\ error' = [kind |-> kind, of |-> of]
    /\ UNCHANGED <<file, next, specs, byHandler, byHostPort, servers>>

\* The loop has seen every proxy: the next one starts over.
Proceed(to) ==
    /\ next > Len(proxies)
    /\ pc' = to
    /\ next' = 1
    /\ UNCHANGED <<file, error, specs, byHandler, byHostPort, servers>>

(***************************************************************************)
(* serde_yaml::from_reader                                                 *)
(***************************************************************************)
\* The fields of an entry, in the order of the file; the one of example-config.yaml.
EntryError(e) == FirstError(<<Check(ListenerError(e.listenOn) # None,
                                    ListenerError(e.listenOn)),
                              Check(BackendError(e.connectTo) # None,
                                    BackendError(e.connectTo)),
                              Check(~e.regexes, "RegexError")>>)

ParseProxy ==
    /\ pc = "parsing"
    /\ next <= Len(proxies)
    /\ LET e == proxies[next] IN
          IF EntryError(e) # None
            THEN Refuse(EntryError(e), {next})
            ELSE /\ specs' = Append(specs, ListenerSpec(e.listenOn))
                 /\ next' = next + 1
                 /\ UNCHANGED <<file, pc, error, byHandler, byHostPort, servers>>

ParseMetrics ==
    /\ pc = "parsing"
    /\ next > Len(proxies)
    /\ IF file.metrics # None /\ ListenerError(file.metrics) # None
         THEN Refuse(ListenerError(file.metrics), {})
         ELSE Proceed("checking")

(***************************************************************************)
(* Config::try_from                                                        *)
(***************************************************************************)
\* Variant: the parts of the key are swapped.
HandlerHostPort(l) == <<l.path, l.addr>>

\* Where a proxy listens.
HostPortHandler(l) == <<l.addr, l.path>>

\* The map f with the value v under the key k.
Put(f, k, v) == [x \in DOMAIN f \union {k} |-> IF x = k THEN v ELSE f[x]]

\* Variant: only the scheme is compared.
SameScheme(l, m) == l.protocol.kind = m.protocol.kind

\* Two proxies on one address speak the same protocol, with one certificate.
SameProtocol(l, m) == l.protocol = m.protocol

CheckProxy ==
    /\ pc = "checking"
    /\ next <= Len(proxies)
    /\ LET l == specs[next] IN
          IF HostPortHandler(l) \in DOMAIN byHandler
            THEN Refuse("SameHandler", {byHandler[HostPortHandler(l)], next})
          ELSE IF /\ l.addr \in DOMAIN byHostPort
                  /\ ~SameProtocol(l, specs[byHostPort[l.addr]])
            THEN Refuse("OtherProtocol", {byHostPort[l.addr], next})
          ELSE   /\ byHandler' = Put(byHandler, HostPortHandler(l), next)
                 /\ byHostPort' = IF l.addr \in DOMAIN byHostPort THEN byHostPort
                                  ELSE Put(byHostPort, l.addr, next)
                 /\ next' = next + 1
                 /\ UNCHANGED <<file, pc, error, specs, servers>>

\* The telemetry listener may not share an address with a proxy.
TelemetryConflicts == file.metrics # None /\ file.metrics.addr \in DOMAIN byHostPort

CheckTelemetry ==
    /\ pc = "checking"
    /\ next > Len(proxies)
    /\ IF TelemetryConflicts
         THEN Refuse("SameAddress", {byHostPort[file.metrics.addr]})
         ELSE Proceed("grouping")

(***************************************************************************)
(* Vec<HttpProxy>::from(Config)                                            *)
(***************************************************************************)
\* The first proxy on an address brings the listener; the others add their
\* handler, unless there is one already.
GroupProxy ==
    /\ pc = "grouping"
    /\ next <= Len(proxies)
    /\ LET l   == specs[next]
           new == Put(<< >>, l.path, next)
       IN  servers' =
             IF l.addr \notin DOMAIN servers
               THEN Put(servers, l.addr, [listenOn |-> l, handlers |-> new])
             ELSE IF l.path \in DOMAIN servers[l.addr].handlers
               THEN servers
             ELSE [servers EXCEPT ![l.addr].handlers = Put(@, l.path, next)]
    /\ next' = next + 1
    /\ UNCHANGED <<file, pc, error, specs, byHandler, byHostPort>>

Grouped == pc = "grouping" /\ Proceed("ready")

AtRest == pc \in {"ready", "refused"} /\ UNCHANGED vars

Next ==
    \/ ParseProxy
    \/ ParseMetrics
    \/ CheckProxy
    \/ CheckTelemetry
    \/ GroupProxy
    \/ Grouped
    \/ AtRest

Spec == Init /\ [][Next]_vars
-----------------------------------------------------------------------------
(***************************************************************************)
(* What comes of a file.                                                   *)
(***************************************************************************)

\* Every proxy of an accepted file has its target behind its own path, on a
\* server that speaks the scheme it asked for with its own certificate and key,
\* although the server is set up from the first proxy on the address alone.
ServedAsAsked ==
    pc = "ready" =>
        \A i \in 1..Len(proxies) : LET l == proxies[i].listenOn IN
            /\ l.addr \in DOMAIN servers
            /\ l.path \in DOMAIN servers[l.addr].handlers
            /\ servers[l.addr].handlers[l.path] = i
            /\ servers[l.addr].listenOn.protocol =
                  IF l.scheme = "http" THEN [kind |-> "http"]
                  ELSE [kind |-> "https", cert |-> l.cert, key |-> l.key]

\* What is asked of a listener, a backend and an entry: by the README, and by the
\* code alone that the port is not privileged.
Sound(l) ==
    /\ l.port = "user" /\ l.addr # None
    /\ ~l.auth /\ ~l.query /\ ~l.fragment
    /\ \/ l.scheme = "http" /\ l.cert = None /\ l.key = None
       \/ l.scheme = "https" /\ l.cert \in Certs /\ l.key \in PrivateKeys
SoundBackend(c) == c.scheme \in {"http", "https"} /\ ~c.auth /\ ~c.fragment
SoundEntry(e) == Sound(e.listenOn) /\ SoundBackend(e.connectTo) /\ e.regexes

\* Two listeners one process cannot serve together.
Clash(l, m) ==
    /\ l.addr = m.addr
    /\ \/ l.path = m.path
       \/ l.scheme # m.scheme
       \/ l.scheme = "https" /\ (l.cert # m.cert \/ l.key # m.key)

\* A file is refused if and only if one of its entries is unsound or two of them
\* clash, whichever two and whatever stands between them (the code compares a proxy
\* with the first one on its address only).
RefusedForCause ==
    pc \in {"ready", "refused"} =>
        (pc = "refused" <=>
            \/ \E i \in 1..Len(proxies) : ~SoundEntry(proxies[i])
            \/ \E i, j \in 1..Len(proxies) :
                  i < j /\ Clash(proxies[i].listenOn, proxies[j].listenOn)
            \/ /\ file.metrics # None
               /\ \/ ~Sound(file.metrics)
                  \/ \E i \in 1..Len(proxies) :
                        proxies[i].listenOn.addr = file.metrics.addr)

(***************************************************************************)
(* What the README says of the timeouts and is not so.                     *)
(***************************************************************************)

\* "request_response_timeout specifies how long the whole request may take": a
\* request to a proxy is given the time its own listen_on says.
TimeoutsAsAsked ==
    pc = "ready" =>
        \A i \in 1..Len(specs) :
            servers[specs[i].addr].listenOn.requestTimeout = specs[i].requestTimeout
=============================================================================
