---------------------------- MODULE ConfigProofs ----------------------------
(***************************************************************************)
(* Proofs about Config, for files with any number of proxies.              *)
(***************************************************************************)
EXTENDS Config, SequenceTheorems, Induction

-----------------------------------------------------------------------------
(***************************************************************************)
(* The checks of one entry.                                                *)
(***************************************************************************)
Checks == [fails : BOOLEAN, error : ErrorKinds \union {None}]

LEMMA MinFound ==
    ASSUME NEW S \in SUBSET Nat, S # {}
    PROVE  Min(S) \in S /\ \A n \in S : Min(S) <= n
  BY LeastElement, Zenon DEF Min

\* A sequence of checks has an error if and only if one of them fails.
LEMMA FirstErrorFound ==
    ASSUME NEW checks \in Seq(Checks),
           \A i \in 1..Len(checks) : checks[i].fails => checks[i].error # None
    PROVE  /\ FirstError(checks) \in ErrorKinds \union {None}
           /\ FirstError(checks) = None <=> \A i \in 1..Len(checks) : ~checks[i].fails
<1> DEFINE failed == {i \in 1..Len(checks) : checks[i].fails}
<1>1. CASE failed = {}
  BY <1>1 DEF FirstError
<1>2. CASE failed # {}
  <2>1. failed \in SUBSET Nat
    OBVIOUS
  <2>2. Min(failed) \in failed
    <3> HIDE DEF failed
    <3>1. QED
      BY <1>2, <2>1, MinFound
  <2>3. FirstError(checks) = checks[Min(failed)].error
    BY <1>2 DEF FirstError
  <2>4. checks[Min(failed)] \in Checks
    BY <2>2, ElementOfSeq
  <2>5. QED
    BY <2>2, <2>3, <2>4 DEF Checks
<1>3. QED
  BY <1>1, <1>2

LEMMA BackendErrors ==
    ASSUME NEW c \in Backends
    PROVE  /\ BackendError(c) \in ErrorKinds \union {None}
           /\ BackendError(c) = None <=> SoundBackend(c)
<1> DEFINE checks == <<Check(c.auth \/ c.fragment \/ c.scheme = "other", "InvalidURL")>>
<1>1. checks \in Seq(Checks) /\ Len(checks) = 1
  BY DEF Check, Checks, ErrorKinds
<1>2. /\ checks[1].fails <=> c.auth \/ c.fragment \/ c.scheme = "other"
      /\ checks[1].error # None
  BY NoneAssumption DEF Check, ErrorKinds
<1>3. BackendError(c) = FirstError(checks)
  BY DEF BackendError
<1> HIDE DEF checks
<1>4. /\ FirstError(checks) \in ErrorKinds \union {None}
      /\ FirstError(checks) = None <=> \A i \in 1..Len(checks) : ~checks[i].fails
  <2>1. \A i \in 1..Len(checks) : checks[i].error # None
    BY <1>1, <1>2
  <2>2. QED
    BY <1>1, <2>1, FirstErrorFound
<1>5. (\A i \in 1..Len(checks) : ~checks[i].fails) <=> ~checks[1].fails
  BY <1>1
<1>6. QED
  BY <1>2, <1>3, <1>4, <1>5 DEF SoundBackend, Backends

LEMMA ProtocolErrors ==
    ASSUME NEW l \in Listeners
    PROVE  /\ ProtocolError(l) \in ErrorKinds \union {None}
           /\ ProtocolError(l) = None <=>
                 \/ l.scheme = "http" /\ l.cert = None /\ l.key = None
                 \/ l.scheme = "https" /\ l.cert \in Certs /\ l.key \in PrivateKeys
<1>1. CASE l.scheme = "http"
  <2> DEFINE checks == <<Check(l.cert # None \/ l.key # None, "SSLOptionsNotAllowed")>>
  <2>1. checks \in Seq(Checks) /\ Len(checks) = 1
    BY DEF Check, Checks, ErrorKinds
  <2>2. /\ checks[1].fails <=> l.cert # None \/ l.key # None
        /\ checks[1].error # None
    BY NoneAssumption DEF Check, ErrorKinds
  <2>3. ProtocolError(l) = FirstError(checks)
    BY <1>1 DEF ProtocolError
  <2> HIDE DEF checks
  <2>4. /\ FirstError(checks) \in ErrorKinds \union {None}
        /\ FirstError(checks) = None <=> \A i \in 1..Len(checks) : ~checks[i].fails
    BY <2>1, <2>2, FirstErrorFound
  <2>5. (\A i \in 1..Len(checks) : ~checks[i].fails) <=> ~checks[1].fails
    BY <2>1
  <2>6. QED
    BY <1>1, <2>2, <2>3, <2>4, <2>5
<1>2. CASE l.scheme = "https"
  <2> DEFINE checks == <<Check(l.cert = None, "CertificateFileRequired"),
                         Check(l.key = None, "KeyFileRequired"),
                         Check(l.cert = "unreadable", "CertificateFileReadError"),
                         Check(l.key = "unreadable", "KeyFileReadError"),
                         Check(l.cert = "unusable", "CertificateFileReadError"),
                         Check(l.key = "unusable", "KeyFileReadError")>>
  <2>1. checks \in Seq(Checks) /\ Len(checks) = 6
    BY DEF Check, Checks, ErrorKinds
  <2>2. /\ checks[1].fails <=> l.cert = None
        /\ checks[2].fails <=> l.key = None
        /\ checks[3].fails <=> l.cert = "unreadable"
        /\ checks[4].fails <=> l.key = "unreadable"
        /\ checks[5].fails <=> l.cert = "unusable"
        /\ checks[6].fails <=> l.key = "unusable"
    BY DEF Check
  <2>3. /\ checks[1].error # None /\ checks[2].error # None /\ checks[3].error # None
        /\ checks[4].error # None /\ checks[5].error # None /\ checks[6].error # None
    BY NoneAssumption DEF Check, ErrorKinds
  <2>4. ProtocolError(l) = FirstError(checks)
    BY <1>2 DEF ProtocolError
  <2> HIDE DEF checks
  <2>5. \A i \in 1..Len(checks) : i \in {1, 2, 3, 4, 5, 6}
    BY <2>1
  <2>6. /\ FirstError(checks) \in ErrorKinds \union {None}
        /\ FirstError(checks) = None <=> \A i \in 1..Len(checks) : ~checks[i].fails
    <3>1. \A i \in 1..Len(checks) : checks[i].error # None
      BY <2>3, <2>5
    <3>2. QED
      BY <2>1, <3>1, FirstErrorFound
  <2>7. (\A i \in 1..Len(checks) : ~checks[i].fails) <=>
           /\ ~checks[1].fails /\ ~checks[2].fails /\ ~checks[3].fails
           /\ ~checks[4].fails /\ ~checks[5].fails /\ ~checks[6].fails
    BY <2>1, <2>5
  <2>8. (\A i \in 1..Len(checks) : ~checks[i].fails) <=> l.cert \in Certs /\ l.key \in PrivateKeys
    BY <2>2, <2>7, NoneAssumption DEF Listeners
  <2>9. QED
    BY <1>2, <2>4, <2>6, <2>8
<1>3. CASE l.scheme = "other"
  BY <1>3, NoneAssumption DEF ProtocolError, ErrorKinds
<1>4. QED
  BY <1>1, <1>2, <1>3 DEF Listeners

LEMMA ListenerErrors ==
    ASSUME NEW l \in Listeners
    PROVE  /\ ListenerError(l) \in ErrorKinds \union {None}
           /\ ListenerError(l) = None <=> Sound(l)
<1> DEFINE checks == <<Check(l.port = "privileged", "PortOutOfBounds"),
                       Check(l.port = "missing", "PortMissing"),
                       Check(l.addr = None, "InvalidURL"),
                       Check(l.auth, "InvalidURL"),
                       Check(l.query, "QueryStringUnsupported"),
                       Check(l.fragment, "InvalidURL"),
                       Check(ProtocolError(l) # None, ProtocolError(l))>>
<1>1. checks \in Seq(Checks) /\ Len(checks) = 7
  BY ProtocolErrors DEF Check, Checks, ErrorKinds, Listeners
<1>2. /\ checks[1].fails <=> l.port = "privileged"
      /\ checks[2].fails <=> l.port = "missing"
      /\ checks[3].fails <=> l.addr = None
      /\ checks[4].fails <=> l.auth
      /\ checks[5].fails <=> l.query
      /\ checks[6].fails <=> l.fragment
      /\ checks[7].fails <=> ProtocolError(l) # None
  BY DEF Check
<1>3. /\ checks[1].error # None /\ checks[2].error # None /\ checks[3].error # None
      /\ checks[4].error # None /\ checks[5].error # None /\ checks[6].error # None
      /\ checks[7].error = ProtocolError(l)
  BY NoneAssumption DEF Check, ErrorKinds
<1>4. ListenerError(l) = FirstError(checks)
  BY DEF ListenerError
<1> HIDE DEF checks
<1>5. \A i \in 1..Len(checks) : i \in {1, 2, 3, 4, 5, 6, 7}
  BY <1>1
<1>6. /\ FirstError(checks) \in ErrorKinds \union {None}
      /\ FirstError(checks) = None <=> \A i \in 1..Len(checks) : ~checks[i].fails
  <2>1. \A i \in 1..Len(checks) : checks[i].fails => checks[i].error # None
    BY <1>2, <1>3, <1>5
  <2>2. QED
    BY <1>1, <2>1, FirstErrorFound
<1>7. (\A i \in 1..Len(checks) : ~checks[i].fails) <=>
         /\ ~checks[1].fails /\ ~checks[2].fails /\ ~checks[3].fails /\ ~checks[4].fails
         /\ ~checks[5].fails /\ ~checks[6].fails /\ ~checks[7].fails
  BY <1>1, <1>5
<1>8. (\A i \in 1..Len(checks) : ~checks[i].fails) <=> Sound(l)
  BY <1>2, <1>7, ProtocolErrors DEF Sound, Listeners
<1>9. QED
  BY <1>4, <1>6, <1>8

LEMMA EntryErrors ==
    ASSUME NEW e \in Entries
    PROVE  EntryError(e) = None <=> SoundEntry(e)
<1> DEFINE checks == <<Check(ListenerError(e.listenOn) # None, ListenerError(e.listenOn)),
                       Check(BackendError(e.connectTo) # None, BackendError(e.connectTo)),
                       Check(~e.regexes, "RegexError")>>
<1>1. /\ ListenerError(e.listenOn) \in ErrorKinds \union {None}
      /\ BackendError(e.connectTo) \in ErrorKinds \union {None}
      /\ ListenerError(e.listenOn) = None <=> Sound(e.listenOn)
      /\ BackendError(e.connectTo) = None <=> SoundBackend(e.connectTo)
  BY ListenerErrors, BackendErrors DEF Entries
<1>2. checks \in Seq(Checks) /\ Len(checks) = 3
  <2>1. e.regexes \in BOOLEAN
    BY DEF Entries
  <2>2. QED
    BY <1>1, <2>1 DEF Check, Checks, ErrorKinds
<1>3. /\ checks[1].fails <=> ListenerError(e.listenOn) # None
      /\ checks[2].fails <=> BackendError(e.connectTo) # None
      /\ checks[3].fails <=> ~e.regexes
      /\ checks[1].error = ListenerError(e.listenOn)
      /\ checks[2].error = BackendError(e.connectTo)
      /\ checks[3].error # None
  BY NoneAssumption DEF Check, ErrorKinds
<1>4. EntryError(e) = FirstError(checks)
  BY DEF EntryError
<1> HIDE DEF checks
<1>5. \A i \in 1..Len(checks) : i \in {1, 2, 3}
  BY <1>2
<1>6. FirstError(checks) = None <=> \A i \in 1..Len(checks) : ~checks[i].fails
  <2>1. \A i \in 1..Len(checks) : checks[i].fails => checks[i].error # None
    BY <1>3, <1>5
  <2>2. QED
    BY <1>2, <2>1, FirstErrorFound
<1>7. (\A i \in 1..Len(checks) : ~checks[i].fails) <=>
         ~checks[1].fails /\ ~checks[2].fails /\ ~checks[3].fails
  BY <1>2, <1>5
<1>8. QED
  BY <1>1, <1>3, <1>4, <1>6, <1>7 DEF SoundEntry

-----------------------------------------------------------------------------
(***************************************************************************)
(* The inductive invariant, loop by loop.                                  *)
(***************************************************************************)
Loops == {"parsing", "checking", "grouping", "ready"}

\* The listeners parsed so far are those of the first proxies, which are sound.
SpecsInv ==
    /\ specs \in Seq({ListenerSpec(l) : l \in Listeners})
    /\ \A i \in 1..Len(specs) : /\ specs[i] = ListenerSpec(proxies[i].listenOn)
                                /\ SoundEntry(proxies[i])
    /\ pc = "parsing" => Len(specs) = next - 1
    /\ pc \in {"checking", "grouping", "ready"} =>
          /\ Len(specs) = Len(proxies)
          /\ file.metrics # None => Sound(file.metrics)

\* The proxies that the second loop has found free of conflicts: each has its own
\* place in byHandler, and speaks like the first one on its address.
Checked == CASE pc = "checking" -> 1..next - 1
             [] pc \in {"grouping", "ready"} -> 1..Len(proxies)
             [] OTHER -> {}
CheckedInv ==
    pc \in Loops =>
        /\ DOMAIN byHandler = {HostPortHandler(specs[i]) : i \in Checked}
        /\ \A i \in Checked : byHandler[HostPortHandler(specs[i])] = i
        /\ DOMAIN byHostPort = {specs[i].addr : i \in Checked}
        /\ \A a \in DOMAIN byHostPort :
              byHostPort[a] \in Checked /\ specs[byHostPort[a]].addr = a
        /\ \A i \in Checked : specs[i].protocol = specs[byHostPort[specs[i].addr]].protocol
        /\ pc \in {"grouping", "ready"} => ~TelemetryConflicts

\* The proxies that the third loop has put behind their paths.
Placed == CASE pc = "grouping" -> 1..next - 1
            [] pc = "ready" -> 1..Len(proxies)
            [] OTHER -> {}
GroupInv ==
    pc \in Loops =>
        /\ DOMAIN servers = {specs[i].addr : i \in Placed}
        /\ \A a \in DOMAIN servers :
              /\ servers[a] = [listenOn |-> servers[a].listenOn,
                               handlers |-> servers[a].handlers]
              /\ \E i \in Placed : servers[a].listenOn = specs[i] /\ specs[i].addr = a
              /\ \A p \in DOMAIN servers[a].handlers :
                    \E i \in Placed : specs[i].addr = a /\ specs[i].path = p
        /\ \A i \in Placed : /\ specs[i].path \in DOMAIN servers[specs[i].addr].handlers
                             /\ servers[specs[i].addr].handlers[specs[i].path] = i

IInv == TypeOK /\ SpecsInv /\ CheckedInv /\ GroupInv /\ RefusedForCause

LEMMA FileFacts ==
    ASSUME TypeOK
    PROVE  /\ Len(proxies) \in Nat
           /\ \A i \in 1..Len(proxies) : /\ proxies[i] \in Entries
                                         /\ proxies[i].listenOn \in Listeners
                                         /\ proxies[i].connectTo \in Backends
           /\ file.metrics \in Listeners \union {None}
           /\ next \in Nat
<1>1. proxies \in Seq(Entries) /\ file.metrics \in Listeners \union {None}
  BY DEF TypeOK, proxies
<1>2. Len(proxies) \in Nat /\ \A i \in 1..Len(proxies) : proxies[i] \in Entries
  BY <1>1, LenProperties, ElementOfSeq
<1>3. QED
  BY <1>1, <1>2 DEF TypeOK, Entries

LEMMA SpecFacts ==
    ASSUME TypeOK, SpecsInv
    PROVE  /\ Len(specs) \in Nat /\ Len(specs) <= Len(proxies)
           /\ \A i \in 1..Len(specs) : /\ specs[i].addr = proxies[i].listenOn.addr
                                       /\ specs[i].path = proxies[i].listenOn.path
                                       /\ specs[i].protocol = Protocol(proxies[i].listenOn)
                                       /\ specs[i].addr \in Addrs
                                       /\ specs[i].path \in Paths
<1>1. Len(specs) \in Nat /\ Len(specs) <= Len(proxies)
  BY LenProperties DEF SpecsInv, TypeOK
<1>2. ASSUME NEW i \in 1..Len(specs)
      PROVE  /\ specs[i].addr = proxies[i].listenOn.addr
             /\ specs[i].path = proxies[i].listenOn.path
             /\ specs[i].protocol = Protocol(proxies[i].listenOn)
             /\ specs[i].addr \in Addrs
             /\ specs[i].path \in Paths
  <2>1. i \in 1..Len(proxies)
    BY <1>1, FileFacts
  <2>2. /\ proxies[i].listenOn.addr \in Addrs \union {None}
        /\ proxies[i].listenOn.path \in Paths
    BY <2>1, FileFacts DEF Listeners
  <2>3. specs[i] = ListenerSpec(proxies[i].listenOn) /\ proxies[i].listenOn.addr # None
    BY DEF SpecsInv, SoundEntry, Sound
  <2>4. QED
    BY <2>2, <2>3 DEF ListenerSpec
<1>3. QED
  BY <1>1, <1>2

\* Two sound listeners speak one protocol if they do not differ in scheme or files.
LEMMA Protocols ==
    ASSUME NEW l \in Listeners, NEW m \in Listeners, Sound(l), Sound(m)
    PROVE  Protocol(l) = Protocol(m) <=>
              /\ l.scheme = m.scheme
              /\ l.scheme = "https" => l.cert = m.cert /\ l.key = m.key
<1>1. l.scheme \in {"http", "https"} /\ m.scheme \in {"http", "https"}
  BY DEF Sound
<1>2. CASE l.scheme = "http" /\ m.scheme = "http"
  BY <1>2 DEF Protocol
<1>3. CASE l.scheme = "https" /\ m.scheme = "https"
  <2>1. /\ Protocol(l) = [kind |-> "https", cert |-> l.cert, key |-> l.key]
        /\ Protocol(m) = [kind |-> "https", cert |-> m.cert, key |-> m.key]
    BY <1>3 DEF Protocol
  <2>2. QED
    BY <1>3, <2>1
<1>4. CASE l.scheme # m.scheme
  <2>1. Protocol(l).kind = l.scheme /\ Protocol(m).kind = m.scheme
    BY <1>1 DEF Protocol
  <2>2. QED
    BY <1>4, <2>1
<1>5. QED
  BY <1>1, <1>2, <1>3, <1>4

LEMMA InitHolds == Init => IInv
<1> SUFFICES ASSUME Init PROVE IInv
  OBVIOUS
<1>1. proxies \in Seq(Entries) /\ file.metrics \in Listeners \union {None}
  BY FilesAssumption DEF Init, proxies
<1>2. Len(proxies) \in Nat
  BY <1>1, LenProperties
<1>3. TypeOK
  BY <1>1, <1>2 DEF Init, TypeOK, proxies
<1>4. QED
  BY <1>3 DEF Init, IInv, SpecsInv, CheckedInv, GroupInv, RefusedForCause, Checked, Placed

\* A file is refused with its cause at hand.
Cause ==
    \/ \E i \in 1..Len(proxies) : ~SoundEntry(proxies[i])
    \/ \E i, j \in 1..Len(proxies) :
          i < j /\ Clash(proxies[i].listenOn, proxies[j].listenOn)
    \/ /\ file.metrics # None
       /\ \/ ~Sound(file.metrics)
          \/ \E i \in 1..Len(proxies) : proxies[i].listenOn.addr = file.metrics.addr

LEMMA RefusalHolds ==
    ASSUME IInv, Cause, NEW kind, NEW of, Refuse(kind, of)
    PROVE  IInv'
<1>1. pc' = "refused" /\ UNCHANGED <<file, next, specs, byHandler, byHostPort, servers>>
  BY DEF Refuse
<1>2. TypeOK' /\ SpecsInv'
  BY <1>1 DEF IInv, TypeOK, SpecsInv, proxies
<1>3. RefusedForCause'
  BY <1>1 DEF RefusedForCause, Cause, proxies
<1>4. QED
  BY <1>1, <1>2, <1>3 DEF IInv, CheckedInv, GroupInv, Loops

LEMMA ParseProxyHolds == IInv /\ ParseProxy => IInv'
<1> SUFFICES ASSUME IInv, ParseProxy PROVE IInv'
  OBVIOUS
<1> USE DEF IInv
<1> DEFINE e == proxies[next]
<1>1. /\ next \in 1..Len(proxies) /\ pc = "parsing" /\ Len(specs) = next - 1
      /\ e \in Entries
      /\ EntryError(e) = None <=> SoundEntry(e)
  BY FileFacts, EntryErrors DEF ParseProxy, TypeOK, SpecsInv
<1>2. CASE EntryError(e) # None
  <2>1. Cause
    BY <1>1, <1>2 DEF Cause
  <2>2. QED
    BY <1>2, <2>1, RefusalHolds DEF ParseProxy
<1>3. CASE EntryError(e) = None
  <2>1. /\ specs' = Append(specs, ListenerSpec(e.listenOn)) /\ next' = next + 1
        /\ UNCHANGED <<file, pc, error, byHandler, byHostPort, servers>>
    BY <1>3 DEF ParseProxy
  <2>2. /\ specs' \in Seq({ListenerSpec(l) : l \in Listeners})
        /\ Len(specs') = next
        /\ \A i \in 1..Len(specs) : specs'[i] = specs[i]
        /\ specs'[next] = ListenerSpec(e.listenOn)
    BY <1>1, <2>1, AppendProperties, FileFacts DEF SpecsInv
  <2>3. TypeOK'
    BY <1>1, <2>1, <2>2, FileFacts DEF TypeOK, proxies
  <2>4. SpecsInv'
    BY <1>1, <1>3, <2>1, <2>2, FileFacts DEF SpecsInv, proxies
  <2>5. CheckedInv' /\ GroupInv' /\ RefusedForCause'
    BY <1>1, <2>1 DEF CheckedInv, GroupInv, RefusedForCause, Loops, Checked, Placed
  <2>6. QED
    BY <2>3, <2>4, <2>5
<1>4. QED
  BY <1>2, <1>3

LEMMA ParseMetricsHolds == IInv /\ ParseMetrics => IInv'
<1> SUFFICES ASSUME IInv, ParseMetrics PROVE IInv'
  OBVIOUS
<1> USE DEF IInv
<1>1. /\ next > Len(proxies) /\ pc = "parsing" /\ Len(specs) = next - 1
      /\ next = Len(proxies) + 1
      /\ file.metrics # None =>
            (ListenerError(file.metrics) = None <=> Sound(file.metrics))
  BY FileFacts, ListenerErrors DEF ParseMetrics, SpecsInv, TypeOK
<1>2. CASE file.metrics # None /\ ListenerError(file.metrics) # None
  <2>1. Cause
    BY <1>1, <1>2 DEF Cause
  <2>2. QED
    BY <1>2, <2>1, RefusalHolds DEF ParseMetrics
<1>3. CASE ~(file.metrics # None /\ ListenerError(file.metrics) # None)
  <2>1. /\ pc' = "checking" /\ next' = 1
        /\ UNCHANGED <<file, error, specs, byHandler, byHostPort, servers>>
    BY <1>3 DEF ParseMetrics, Proceed
  <2>2. TypeOK'
    BY <1>1, <2>1, FileFacts DEF TypeOK, proxies
  <2>3. SpecsInv'
    BY <1>1, <1>3, <2>1, FileFacts DEF SpecsInv, proxies
  <2>4. Checked = {} /\ Checked' = {} /\ Placed = {} /\ Placed' = {}
    BY <1>1, <2>1 DEF Checked, Placed
  <2>5. CheckedInv' /\ GroupInv' /\ RefusedForCause'
    BY <1>1, <2>1, <2>4 DEF CheckedInv, GroupInv, RefusedForCause, Loops
  <2>6. QED
    BY <2>2, <2>3, <2>5
<1>4. QED
  BY <1>2, <1>3

\* Two proxies that share a place, or an address and not the protocol, clash.
LEMMA ClashesFound ==
    ASSUME TypeOK, SpecsInv,
           NEW i \in 1..Len(specs), NEW j \in 1..Len(specs), specs[i].addr = specs[j].addr
    PROVE  Clash(proxies[i].listenOn, proxies[j].listenOn) <=>
              (specs[i].path = specs[j].path \/ specs[i].protocol # specs[j].protocol)
<1>1. /\ proxies[i].listenOn \in Listeners /\ Sound(proxies[i].listenOn)
      /\ proxies[j].listenOn \in Listeners /\ Sound(proxies[j].listenOn)
  BY FileFacts, SpecFacts DEF SpecsInv, SoundEntry
<1>2. QED
  BY <1>1, SpecFacts, Protocols DEF Clash

LEMMA CheckProxyHolds == IInv /\ CheckProxy => IInv'
<1> SUFFICES ASSUME IInv, CheckProxy PROVE IInv'
  OBVIOUS
<1> USE DEF IInv
<1> DEFINE l == specs[next]
<1>1. /\ pc = "checking" /\ next \in 1..Len(proxies) /\ Len(specs) = Len(proxies)
      /\ Checked = 1..next - 1
  BY FileFacts DEF CheckProxy, TypeOK, SpecsInv, Checked
<1>2. /\ l.addr \in Addrs /\ l.path \in Paths
      /\ DOMAIN byHandler = {HostPortHandler(specs[i]) : i \in Checked}
      /\ \A i \in Checked : byHandler[HostPortHandler(specs[i])] = i
      /\ DOMAIN byHostPort = {specs[i].addr : i \in Checked}
      /\ \A a \in DOMAIN byHostPort : byHostPort[a] \in Checked /\ specs[byHostPort[a]].addr = a
  BY <1>1, SpecFacts DEF CheckedInv, Loops
<1>3. ASSUME NEW i \in Checked, l.addr = specs[i].addr,
             l.path = specs[i].path \/ l.protocol # specs[i].protocol
      PROVE  Cause
  <2>1. i \in 1..Len(specs) /\ next \in 1..Len(specs) /\ i < next
    BY <1>1, FileFacts
  <2>2. Clash(proxies[i].listenOn, proxies[next].listenOn)
    BY <1>3, <2>1, ClashesFound
  <2>3. QED
    BY <1>1, <2>1, <2>2 DEF Cause
<1>4. CASE HostPortHandler(l) \in DOMAIN byHandler
  <2>1. \E i \in Checked : l.addr = specs[i].addr /\ l.path = specs[i].path
    BY <1>2, <1>4 DEF HostPortHandler
  <2>2. Cause
    BY <1>3, <2>1
  <2>3. QED
    BY <1>4, <2>2, RefusalHolds DEF CheckProxy
<1>5. CASE /\ HostPortHandler(l) \notin DOMAIN byHandler
           /\ l.addr \in DOMAIN byHostPort
           /\ ~SameProtocol(l, specs[byHostPort[l.addr]])
  <2>1. Cause
    BY <1>2, <1>3, <1>5 DEF SameProtocol
  <2>2. QED
    BY <1>5, <2>1, RefusalHolds DEF CheckProxy
<1>6. CASE /\ HostPortHandler(l) \notin DOMAIN byHandler
           /\ ~(l.addr \in DOMAIN byHostPort /\ ~SameProtocol(l, specs[byHostPort[l.addr]]))
  <2>1. /\ byHandler' = Put(byHandler, HostPortHandler(l), next)
        /\ byHostPort' = IF l.addr \in DOMAIN byHostPort THEN byHostPort
                         ELSE Put(byHostPort, l.addr, next)
        /\ next' = next + 1
        /\ UNCHANGED <<file, pc, error, specs, servers>>
    BY <1>6 DEF CheckProxy
  <2>2. Checked' = Checked \union {next} /\ Placed = {} /\ Placed' = {}
    BY <1>1, <2>1, FileFacts DEF Checked, Placed
  <2>3. /\ DOMAIN byHandler' = DOMAIN byHandler \union {HostPortHandler(l)}
        /\ byHandler'[HostPortHandler(l)] = next
        /\ \A x \in DOMAIN byHandler : byHandler'[x] = byHandler[x]
    BY <1>6, <2>1 DEF Put
  <2>4. /\ DOMAIN byHostPort' = DOMAIN byHostPort \union {l.addr}
        /\ \A a \in DOMAIN byHostPort : byHostPort'[a] = byHostPort[a]
        /\ l.addr \notin DOMAIN byHostPort => byHostPort'[l.addr] = next
    BY <2>1 DEF Put
  <2>5. TypeOK'
    <3>1. HostPortHandler(l) \in Addrs \X Paths /\ next \in 1..Len(specs)
      BY <1>1, <1>2 DEF HostPortHandler
    <3>2. next' \in 1..Len(proxies) + 1
      BY <1>1, <2>1, FileFacts
    <3>3. \A at \in DOMAIN byHandler' : at \in Addrs \X Paths /\ byHandler'[at] \in 1..Len(specs)
      BY <2>3, <3>1 DEF TypeOK
    <3>4. \A a \in DOMAIN byHostPort' : a \in Addrs /\ byHostPort'[a] \in 1..Len(specs)
      BY <1>2, <2>4, <3>1 DEF TypeOK
    <3>5. QED
      BY <2>1, <3>2, <3>3, <3>4 DEF TypeOK, proxies
  <2>6. SpecsInv'
    BY <1>1, <2>1 DEF SpecsInv, proxies
  <2>7. CheckedInv'
    <3>1. DOMAIN byHandler' = {HostPortHandler(specs'[i]) : i \in Checked'}
      BY <1>2, <2>1, <2>2, <2>3
    <3>2. \A i \in Checked' : byHandler'[HostPortHandler(specs[i])] = i
      BY <1>2, <2>2, <2>3
    <3>3. DOMAIN byHostPort' = {specs'[i].addr : i \in Checked'}
      BY <1>2, <2>1, <2>2, <2>4
    <3>4. \A a \in DOMAIN byHostPort' : byHostPort'[a] \in Checked' /\ specs[byHostPort'[a]].addr = a
      BY <1>2, <2>2, <2>4
    <3>5. ASSUME NEW i \in Checked'
          PROVE  specs[i].protocol = specs[byHostPort'[specs[i].addr]].protocol
      <4>1. CASE i \in Checked
        BY <1>1, <1>2, <2>4, <4>1 DEF CheckedInv, Loops
      <4>2. CASE i = next /\ l.addr \in DOMAIN byHostPort
        BY <1>6, <2>4, <4>2 DEF SameProtocol
      <4>3. CASE i = next /\ l.addr \notin DOMAIN byHostPort
        BY <2>4, <4>3
      <4>4. QED
        BY <2>2, <4>1, <4>2, <4>3
    <3>6. QED
      BY <1>1, <2>1, <3>1, <3>2, <3>3, <3>4, <3>5 DEF CheckedInv, HostPortHandler
  <2>8. GroupInv' /\ RefusedForCause'
    BY <1>1, <2>1, <2>2 DEF GroupInv, RefusedForCause, Loops
  <2>9. QED
    BY <2>5, <2>6, <2>7, <2>8
<1>7. QED
  BY <1>4, <1>5, <1>6

LEMMA CheckTelemetryHolds == IInv /\ CheckTelemetry => IInv'
<1> SUFFICES ASSUME IInv, CheckTelemetry PROVE IInv'
  OBVIOUS
<1> USE DEF IInv
<1>1. /\ pc = "checking" /\ next = Len(proxies) + 1 /\ Len(specs) = Len(proxies)
      /\ Checked = 1..Len(proxies)
  BY FileFacts DEF CheckTelemetry, TypeOK, SpecsInv, Checked
<1>2. CASE TelemetryConflicts
  <2>1. PICK i \in Checked : specs[i].addr = file.metrics.addr
    BY <1>1, <1>2 DEF TelemetryConflicts, CheckedInv, Loops
  <2>2. Cause
    BY <1>1, <1>2, <2>1, SpecFacts DEF TelemetryConflicts, Cause
  <2>3. QED
    BY <1>2, <2>2, RefusalHolds DEF CheckTelemetry
<1>3. CASE ~TelemetryConflicts
  <2>1. /\ pc' = "grouping" /\ next' = 1
        /\ UNCHANGED <<file, error, specs, byHandler, byHostPort, servers>>
    BY <1>3 DEF CheckTelemetry, Proceed
  <2>2. Checked' = Checked /\ Placed = {} /\ Placed' = {}
    BY <1>1, <2>1 DEF Checked, Placed, proxies
  <2>3. TypeOK' /\ SpecsInv'
    BY <1>1, <2>1, FileFacts DEF TypeOK, SpecsInv, proxies
  <2>4. CheckedInv'
    BY <1>1, <1>3, <2>1, <2>2 DEF CheckedInv, Loops, TelemetryConflicts
  <2>5. GroupInv' /\ RefusedForCause'
    BY <1>1, <2>1, <2>2 DEF GroupInv, RefusedForCause, Loops
  <2>6. QED
    BY <2>3, <2>4, <2>5
<1>4. QED
  BY <1>2, <1>3

LEMMA GroupProxyHolds == IInv /\ GroupProxy => IInv'
<1> SUFFICES ASSUME IInv, GroupProxy PROVE IInv'
  OBVIOUS
<1> USE DEF IInv
<1> DEFINE l   == specs[next]
           new == Put(<< >>, l.path, next)
           old == servers[l.addr]
           Kept(a) ==
              /\ servers[a] = [listenOn |-> servers[a].listenOn,
                               handlers |-> servers[a].handlers]
              /\ \E i \in Placed : servers[a].listenOn = specs[i] /\ specs[i].addr = a
              /\ \A p \in DOMAIN servers[a].handlers :
                    \E i \in Placed : specs[i].addr = a /\ specs[i].path = p
<1>1. /\ pc = "grouping" /\ next \in 1..Len(proxies) /\ Len(specs) = Len(proxies)
      /\ Checked = 1..Len(proxies) /\ Placed = 1..next - 1
      /\ next' = next + 1
      /\ UNCHANGED <<file, pc, error, specs, byHandler, byHostPort>>
  BY FileFacts DEF GroupProxy, TypeOK, SpecsInv, Checked, Placed
<1>2. /\ Placed' = Placed \union {next} /\ Checked' = Checked
  BY <1>1, FileFacts DEF Checked, Placed, proxies
<1>3. /\ l.addr \in Addrs /\ l.path \in Paths /\ next \in 1..Len(specs)
      /\ \A i \in Placed : i \in 1..Len(specs) /\ i # next
      /\ DOMAIN servers = {specs[i].addr : i \in Placed}
      /\ \A a \in DOMAIN servers : Kept(a)
      /\ \A i \in Placed : /\ specs[i].path \in DOMAIN servers[specs[i].addr].handlers
                           /\ servers[specs[i].addr].handlers[specs[i].path] = i
  BY <1>1, SpecFacts, FileFacts DEF GroupInv, Loops
<1>4. \A i \in Placed : specs[i].addr # l.addr \/ specs[i].path # l.path
  <2>1. SUFFICES ASSUME NEW i \in Placed, specs[i].addr = l.addr, specs[i].path = l.path
                 PROVE  FALSE
    OBVIOUS
  <2>2. HostPortHandler(specs[i]) = HostPortHandler(l)
    BY <2>1 DEF HostPortHandler
  <2>3. i \in Checked /\ next \in Checked
    BY <1>1, FileFacts
  <2>4. \A j \in Checked : byHandler[HostPortHandler(specs[j])] = j
    BY <1>1 DEF CheckedInv, Loops
  <2>5. i = next
    <3> HIDE DEF IInv
    <3>1. byHandler[HostPortHandler(specs[i])] = i /\ byHandler[HostPortHandler(l)] = next
      BY <2>3, <2>4
    <3>2. QED
      BY <2>2, <3>1
  <2>6. QED
    BY <1>3, <2>5
<1> HIDE DEF l, Kept
<1>5. /\ DOMAIN new = {l.path} /\ new[l.path] = next
  BY DEF Put
<1>6. /\ DOMAIN servers' = DOMAIN servers \union {l.addr}
      /\ \A a \in DOMAIN servers : a # l.addr => servers'[a] = servers[a]
      /\ servers'[l.addr] = [listenOn |-> servers'[l.addr].listenOn,
                             handlers |-> servers'[l.addr].handlers]
      /\ \E i \in Placed' : servers'[l.addr].listenOn = specs[i] /\ specs[i].addr = l.addr
      /\ DOMAIN servers'[l.addr].handlers
           = {l.path} \union (IF l.addr \in DOMAIN servers THEN DOMAIN old.handlers ELSE {})
      /\ servers'[l.addr].handlers[l.path] = next
      /\ l.addr \in DOMAIN servers =>
            \A p \in DOMAIN old.handlers : servers'[l.addr].handlers[p] = old.handlers[p]
  <2>1. CASE l.addr \notin DOMAIN servers
    <3>1. servers' = Put(servers, l.addr, [listenOn |-> l, handlers |-> new])
      BY <2>1 DEF GroupProxy, l
    <3>2. servers'[l.addr] = [listenOn |-> l, handlers |-> new]
      BY <3>1 DEF Put
    <3>3. servers'[l.addr].listenOn = l /\ servers'[l.addr].handlers = new
      BY <3>2
    <3>4. /\ DOMAIN servers' = DOMAIN servers \union {l.addr}
          /\ \A a \in DOMAIN servers : a # l.addr => servers'[a] = servers[a]
      BY <3>1 DEF Put
    <3> HIDE DEF new
    <3>5. \E i \in Placed' : servers'[l.addr].listenOn = specs[i] /\ specs[i].addr = l.addr
      <4>1. next \in Placed' /\ l = specs[next]
        BY <1>2 DEF l
      <4>2. QED
        BY <3>3, <4>1
    <3>6. /\ DOMAIN servers'[l.addr].handlers = {l.path}
          /\ servers'[l.addr].handlers[l.path] = next
      BY <1>5, <3>3
    <3>7. QED
      BY <2>1, <3>2, <3>3, <3>4, <3>5, <3>6
  <2>2. CASE l.addr \in DOMAIN servers
    <3>1. l.path \notin DOMAIN old.handlers
      <4>1. \A p \in DOMAIN old.handlers :
               \E i \in Placed : specs[i].addr = l.addr /\ specs[i].path = p
        BY <1>3, <2>2 DEF Kept
      <4>2. QED
        BY <1>4, <4>1
    <3>2. servers' = [servers EXCEPT ![l.addr].handlers = Put(@, l.path, next)]
      BY <2>2, <3>1 DEF GroupProxy, l
    <3>3. /\ DOMAIN servers' = DOMAIN servers
          /\ \A a \in DOMAIN servers : a # l.addr => servers'[a] = servers[a]
          /\ servers'[l.addr] = [old EXCEPT !.handlers = Put(old.handlers, l.path, next)]
      BY <2>2, <3>2
    <3>4. old = [listenOn |-> old.listenOn, handlers |-> old.handlers]
      BY <1>3, <2>2 DEF Kept
    <3>5. servers'[l.addr] = [listenOn |-> old.listenOn,
                              handlers |-> Put(old.handlers, l.path, next)]
      BY <3>3, <3>4
    <3>6. /\ servers'[l.addr].listenOn = old.listenOn
          /\ servers'[l.addr].handlers = Put(old.handlers, l.path, next)
      BY <3>5
    <3>7. /\ DOMAIN Put(old.handlers, l.path, next) = DOMAIN old.handlers \union {l.path}
          /\ Put(old.handlers, l.path, next)[l.path] = next
          /\ \A p \in DOMAIN old.handlers : p # l.path =>
                Put(old.handlers, l.path, next)[p] = old.handlers[p]
      BY DEF Put
    <3>8. \E i \in Placed' : old.listenOn = specs[i] /\ specs[i].addr = l.addr
      <4>1. PICK i \in Placed : old.listenOn = specs[i] /\ specs[i].addr = l.addr
        BY <1>3, <2>2 DEF Kept
      <4>2. QED
        BY <1>2, <4>1
    <3> HIDE DEF old
    <3>9. QED
      BY <2>2, <3>1, <3>3, <3>5, <3>6, <3>7, <3>8
  <2>3. QED
    BY <2>1, <2>2
<1>7. TypeOK'
  <2>1. next' \in 1..Len(proxies) + 1
    BY <1>1, FileFacts
  <2>2. ASSUME NEW a \in DOMAIN servers', NEW p \in DOMAIN servers'[a].handlers
        PROVE  a \in Addrs /\ p \in Paths /\ servers'[a].handlers[p] \in 1..Len(specs)
    <3>1. \A b \in DOMAIN servers : \A q \in DOMAIN servers[b].handlers :
             b \in Addrs /\ q \in Paths /\ servers[b].handlers[q] \in 1..Len(specs)
      BY DEF TypeOK
    <3>2. CASE a # l.addr
      BY <1>6, <2>2, <3>1, <3>2
    <3>3. CASE a = l.addr /\ p = l.path
      BY <1>3, <1>6, <3>3
    <3>4. CASE a = l.addr /\ p # l.path
      BY <1>6, <2>2, <3>1, <3>4
    <3>5. QED
      BY <3>2, <3>3, <3>4
  <2>3. QED
    BY <1>1, <2>1, <2>2 DEF TypeOK, proxies
<1>8. GroupInv'
  <2>1. DOMAIN servers' = {specs'[i].addr : i \in Placed'}
    BY <1>1, <1>2, <1>3, <1>6 DEF l
  <2>2. ASSUME NEW a \in DOMAIN servers'
        PROVE  /\ servers'[a] = [listenOn |-> servers'[a].listenOn,
                                 handlers |-> servers'[a].handlers]
               /\ \E i \in Placed' : servers'[a].listenOn = specs'[i] /\ specs'[i].addr = a
               /\ \A p \in DOMAIN servers'[a].handlers :
                     \E i \in Placed' : specs'[i].addr = a /\ specs'[i].path = p
    <3>1. CASE a = l.addr
      <4>1. \A p \in DOMAIN servers'[a].handlers :
                     \E i \in Placed' : specs[i].addr = a /\ specs[i].path = p
        <5>1. ASSUME NEW p \in DOMAIN servers'[a].handlers, p # l.path
              PROVE  \E i \in Placed' : specs[i].addr = a /\ specs[i].path = p
          <6>1. l.addr \in DOMAIN servers /\ p \in DOMAIN old.handlers
            BY <1>6, <3>1, <5>1
          <6>2. \A q \in DOMAIN old.handlers :
                   \E i \in Placed : specs[i].addr = l.addr /\ specs[i].path = q
            BY <1>3, <6>1 DEF Kept
          <6>3. QED
            BY <1>2, <3>1, <6>1, <6>2
        <5>2. next \in Placed' /\ specs[next].addr = a /\ specs[next].path = l.path
          BY <1>2, <3>1 DEF l
        <5>3. QED
          BY <5>1, <5>2
      <4>2. QED
        BY <1>1, <1>6, <3>1, <4>1
    <3>2. CASE a # l.addr
      <4>1. a \in DOMAIN servers /\ servers'[a] = servers[a]
        BY <1>6, <2>2, <3>2
      <4>2. Kept(a)
        BY <1>3, <4>1
      <4>3. QED
        BY <1>1, <1>2, <4>1, <4>2 DEF Kept
    <3>3. QED
      BY <3>1, <3>2
  <2>3. ASSUME NEW i \in Placed'
        PROVE  /\ specs'[i].path \in DOMAIN servers'[specs'[i].addr].handlers
               /\ servers'[specs'[i].addr].handlers[specs'[i].path] = i
    <3>1. CASE i = next
      BY <1>1, <1>6, <3>1 DEF l
    <3>2. CASE i \in Placed /\ specs[i].addr = l.addr
      BY <1>1, <1>3, <1>4, <1>6, <3>2
    <3>3. CASE i \in Placed /\ specs[i].addr # l.addr
      <4>1. specs[i].addr \in DOMAIN servers /\ specs'[i] = specs[i]
        BY <1>1, <1>3, <3>3
      <4>2. servers'[specs[i].addr] = servers[specs[i].addr]
        BY <1>6, <3>3, <4>1
      <4>3. QED
        BY <1>3, <3>3, <4>1, <4>2
    <3>4. QED
      BY <1>2, <3>1, <3>2, <3>3
  <2>4. QED
    BY <2>1, <2>2, <2>3 DEF GroupInv
<1>9. SpecsInv' /\ CheckedInv' /\ RefusedForCause'
  BY <1>1, <1>2 DEF SpecsInv, CheckedInv, TelemetryConflicts, HostPortHandler,
                    RefusedForCause, Loops, proxies
<1>10. QED
  BY <1>7, <1>8, <1>9

LEMMA GroupedHolds == IInv /\ Grouped => IInv'
<1> SUFFICES ASSUME IInv, Grouped PROVE IInv'
  OBVIOUS
<1> USE DEF IInv
<1>1. /\ pc = "grouping" /\ next = Len(proxies) + 1 /\ Len(specs) = Len(proxies)
      /\ pc' = "ready" /\ next' = 1
      /\ UNCHANGED <<file, error, specs, byHandler, byHostPort, servers>>
  BY FileFacts DEF Grouped, Proceed, TypeOK, SpecsInv
<1>2. /\ Checked = 1..Len(proxies) /\ Placed = 1..Len(proxies)
      /\ Checked' = Checked /\ Placed' = Placed
  BY <1>1, FileFacts DEF Checked, Placed, proxies
<1>3. TypeOK' /\ SpecsInv'
  BY <1>1, FileFacts DEF TypeOK, SpecsInv, proxies
<1>4. CheckedInv'
  BY <1>1, <1>2 DEF CheckedInv, Loops, TelemetryConflicts, HostPortHandler
<1>5. GroupInv'
  BY <1>1, <1>2 DEF GroupInv, Loops
<1>6. ~Cause
  <2>1. \A i \in 1..Len(proxies) : SoundEntry(proxies[i])
    BY <1>1 DEF SpecsInv
  <2>2. ASSUME NEW i \in 1..Len(proxies), NEW j \in 1..Len(proxies), i < j,
               Clash(proxies[i].listenOn, proxies[j].listenOn)
        PROVE  FALSE
    <3>1. specs[i].addr = specs[j].addr
      BY <1>1, <2>2, SpecFacts DEF Clash
    <3>2. specs[i].path = specs[j].path \/ specs[i].protocol # specs[j].protocol
      BY <1>1, <2>2, <3>1, ClashesFound
    <3>3. HostPortHandler(specs[i]) # HostPortHandler(specs[j])
      BY <1>1, <1>2, <2>2 DEF CheckedInv, Loops
    <3>4. specs[i].protocol = specs[j].protocol
      BY SMTT(30), <1>1, <1>2, <3>1 DEF CheckedInv, Loops
    <3>5. QED
      BY <3>1, <3>2, <3>3, <3>4 DEF HostPortHandler
  <2>3. ASSUME file.metrics # None
        PROVE  /\ Sound(file.metrics)
               /\ \A i \in 1..Len(proxies) : proxies[i].listenOn.addr # file.metrics.addr
    BY <1>1, <1>2, <2>3, SpecFacts DEF SpecsInv, CheckedInv, Loops, TelemetryConflicts
  <2>4. QED
    BY <2>1, <2>2, <2>3 DEF Cause
<1>7. RefusedForCause'
  BY <1>1, <1>6 DEF RefusedForCause, Cause, proxies
<1>8. QED
  BY <1>3, <1>4, <1>5, <1>7

-----------------------------------------------------------------------------
\* The three loops keep the inductive invariant.
THEOREM Invariance == Spec => []IInv
<1>1. IInv /\ [Next]_vars => IInv'
  <2>1. ASSUME IInv, UNCHANGED vars PROVE IInv'
    BY <2>1 DEF vars, IInv, TypeOK, SpecsInv, CheckedInv, GroupInv, RefusedForCause,
                Checked, Placed, TelemetryConflicts, HostPortHandler, proxies
  <2>2. QED
    BY <2>1, ParseProxyHolds, ParseMetricsHolds, CheckProxyHolds, CheckTelemetryHolds,
       GroupProxyHolds, GroupedHolds DEF Next, AtRest
<1>2. QED
  BY <1>1, InitHolds, PTL DEF Spec

\* The loops of config.rs stay within the proxies of the file, and what they build
\* refers to proxies that were parsed.
THEOREM TypeCorrect == Spec => []TypeOK
<1>1. IInv => TypeOK
  BY DEF IInv
<1>2. QED
  BY <1>1, Invariance, PTL

\* Config::try_from: a file is refused if and only if there is cause, although each
\* proxy is compared only with the first one on its address.
THEOREM RefusalsHaveCause == Spec => []RefusedForCause
<1>1. IInv => RefusedForCause
  BY DEF IInv
<1>2. QED
  BY <1>1, Invariance, PTL

\* Vec<HttpProxy>::from(Config): every proxy is found on its own address and path, on a
\* server of its own scheme and certificate.
THEOREM ProxiesAreServed == Spec => []ServedAsAsked
<1>1. ASSUME IInv, pc = "ready", NEW i \in 1..Len(proxies)
      PROVE  LET l == proxies[i].listenOn IN
             /\ l.addr \in DOMAIN servers
             /\ l.path \in DOMAIN servers[l.addr].handlers
             /\ servers[l.addr].handlers[l.path] = i
             /\ servers[l.addr].listenOn.protocol =
                   IF l.scheme = "http" THEN [kind |-> "http"]
                   ELSE [kind |-> "https", cert |-> l.cert, key |-> l.key]
  <2>1. /\ Len(specs) = Len(proxies) /\ Placed = 1..Len(proxies) /\ Checked = 1..Len(proxies)
        /\ specs[i].addr = proxies[i].listenOn.addr /\ specs[i].path = proxies[i].listenOn.path
        /\ specs[i].protocol = Protocol(proxies[i].listenOn)
    BY <1>1, SpecFacts DEF IInv, SpecsInv, Placed, Checked
  <2> DEFINE a == specs[i].addr
             p == specs[i].path
  <2>2. i \in Placed /\ a \in DOMAIN servers
    BY <1>1, <2>1 DEF IInv, GroupInv, Loops
  <2>3. p \in DOMAIN servers[a].handlers /\ servers[a].handlers[p] = i
    BY <1>1, <2>2 DEF IInv, GroupInv, Loops
  <2>4. PICK j \in Placed : servers[a].listenOn = specs[j] /\ specs[j].addr = a
    BY <1>1, <2>2 DEF IInv, GroupInv, Loops
  <2>5. specs[j].protocol = specs[i].protocol
    <3>1. pc \in Loops /\ i \in Checked /\ j \in Checked
      BY <1>1, <2>1 DEF Loops
    <3>2. \A k \in Checked : specs[k].protocol = specs[byHostPort[specs[k].addr]].protocol
      BY <1>1, <3>1 DEF IInv, CheckedInv
    <3>3. specs[i].protocol = specs[byHostPort[specs[i].addr]].protocol
      BY <3>1, <3>2, Zenon
    <3>4. specs[j].protocol = specs[byHostPort[specs[j].addr]].protocol
      BY <3>1, <3>2, Zenon
    <3>5. QED
      BY <2>4, <3>3, <3>4, Zenon
  <2>6. servers[a].listenOn.protocol = Protocol(proxies[i].listenOn)
    BY <2>1, <2>4, <2>5
  <2>7. QED
    BY <2>1, <2>2, <2>3, <2>6 DEF Protocol
<1>2. IInv => ServedAsAsked
  BY <1>1 DEF ServedAsAsked
<1>3. QED
  BY <1>2, Invariance, PTL
=============================================================================
