----------------------------- MODULE Exposition -----------------------------
(***************************************************************************)
(* How the handler of a path puts its response together                    *)
(* (src/src/proxy.rs, MetricsProxier::handle with the functions it calls): *)
(* the headers of the backend are relayed one after the other, its samples *)
(* go through the filters, and those that are kept are rendered in the     *)
(* order of their metrics, each metric with its HELP and TYPE.             *)
(*                                                                         *)
(* What the filters say of a sample is SampleFilter's matter and any       *)
(* verdict here.  A line of the page is a sample, or the HELP and TYPE of  *)
(* a metric, which are written together; their wording is left out.        *)
(***************************************************************************)
EXTENDS Naturals, SequencesExt

CONSTANTS
    Metrics,      \* the names of the metrics, as numbers in their order
    Headers,      \* the headers: names with values
    HopByHop,     \* the header names of HOPBYHOP
    Stripped,     \* those of STRIP_FROM_RESPONSE
    ContentType,  \* the name of the header of the proxy's own texts
    PlainText,    \* and its value
    Data,         \* what the backend sent, as it is
    OwnText,      \* what the proxy says in its own words
    Responses,    \* what the backend may answer
    NoResponse    \* it did not, or with what is no metrics

\* headers are as they came, with names repeated at will; a sample is its metric
\* and whether the filters will keep it; docs are the metrics that have a HELP.
Response(r) ==
    /\ r.ok \in BOOLEAN   \* the status is 200
    /\ r.headers \in Seq(Headers)
    /\ r.samples \in Seq([metric : Metrics, keep : BOOLEAN])
    /\ r.docs \subseteq Metrics

ASSUME ConstantsAssumption ==
    /\ Metrics \subseteq Nat
    /\ \A h \in Headers : DOMAIN h = {"name", "value"}
    /\ \A r \in Responses : Response(r)
    /\ NoResponse \notin Responses

VARIABLES
    phase,     \* which loop handle is in
    response,  \* what the backend answered
    at,        \* the header, or the sample, that is next
    headers,   \* the headers for the client, so far
    kept,      \* the samples that are kept and not rendered yet
    help,      \* the HELP texts that go with them and are not written yet
    page       \* the lines for the client, so far

vars == <<phase, response, at, headers, kept, help, page>>

\* Lines are told apart by the sample's place in what the backend sent; 0 is no sample.
Line(m, nr) == [metric |-> m, nr |-> nr]
Lines       == [metric : Metrics, nr : Nat]

TypeOK ==
    /\ phase \in {"fetching", "relaying", "filtering", "rendering", "done"}
    /\ response \in Responses \union {NoResponse}
    /\ at \in Nat
    /\ \A h, g \in headers : h.name = g.name => h = g
    /\ kept \in Seq(Lines)
    /\ response # NoResponse => help \subseteq response.docs
    /\ page \in {Data, OwnText} \/ page \in Seq(Lines)

Init ==
    /\ phase = "fetching"
    /\ response = NoResponse
    /\ at = 1
    /\ headers = {}
    /\ kept = << >>
    /\ help = {}
    /\ page = << >>

-----------------------------------------------------------------------------
Answers(r) ==
    /\ phase = "fetching"
    /\ response' = r
    /\ phase' = "relaying"
    /\ UNCHANGED <<at, headers, kept, help, page>>

fallback_headers == {[name |-> ContentType, value |-> PlainText]}

\* The fetch, or the parser, has failed: the proxy says so in its own words.
Fails ==
    /\ phase = "fetching"
    /\ headers' = fallback_headers
    /\ page' = OwnText
    /\ phase' = "done"
    /\ UNCHANGED <<response, at, kept, help>>

(***************************************************************************)
(* safely_clone_response_headers.  An iterator over a HeaderMap names the  *)
(* first value of each name, and gives the others without the name.        *)
(***************************************************************************)
\* Variant: every value comes with its name.
NamedEach(i) == i \in DOMAIN response.headers

Named(i) ==
    /\ i \in DOMAIN response.headers
    /\ \A j \in 1 .. i - 1 : response.headers[j].name # response.headers[i].name

Relayed(h) == h.name \notin HopByHop \union Stripped

\* headers.insert, which replaces.
Insert(h) == {g \in headers : g.name # h.name} \union {h}

RelayHeader ==
    /\ phase = "relaying"
    /\ at <= Len(response.headers)
    /\ LET h == response.headers[at]
       IN  headers' = IF Named(at) /\ Relayed(h) THEN Insert(h) ELSE headers
    /\ at' = at + 1
    /\ UNCHANGED <<phase, response, kept, help, page>>

\* A response other than 200 is passed on as it is, unfiltered.
HeadersDone ==
    /\ phase = "relaying"
    /\ at > Len(response.headers)
    /\ at' = 1
    /\ IF response.ok THEN phase' = "filtering" /\ page' = page
                      ELSE phase' = "done" /\ page' = Data
    /\ UNCHANGED <<response, headers, kept, help>>

(***************************************************************************)
(* apply_filters, as far as the order of the samples and their HELP texts  *)
(* are concerned.                                                          *)
(***************************************************************************)
\* Variant: that the backend sent no HELP is not considered.
WithDocAnyway(m) == help \union {m}

\* docs gets the HELP of a metric, if there is one, with its first sample kept.
WithDoc(m) == help \union ({m} \intersect response.docs)

FilterSample ==
    /\ phase = "filtering"
    /\ at <= Len(response.samples)
    /\ LET s == response.samples[at]
       IN  IF s.keep
             THEN /\ kept' = Append(kept, Line(s.metric, at))
                  /\ help' = WithDoc(s.metric)
             ELSE UNCHANGED <<kept, help>>
    /\ at' = at + 1
    /\ UNCHANGED <<phase, response, headers, page>>

FilteringDone ==
    /\ phase = "filtering"
    /\ at > Len(response.samples)
    /\ phase' = "rendering"
    /\ UNCHANGED <<response, at, headers, kept, help, page>>

(***************************************************************************)
(* render_scrape_data.                                                     *)
(***************************************************************************)
\* Variant: a sort that is not stable.
ComesFirstOrLast(i) ==
    \A j \in DOMAIN kept : \/ kept[i].metric < kept[j].metric
                           \/ kept[i].metric = kept[j].metric /\ i >= j

\* sorted_by, which is stable, compares the names of the metrics.
ComesFirst(i) ==
    \A j \in DOMAIN kept : \/ kept[i].metric < kept[j].metric
                           \/ kept[i].metric = kept[j].metric /\ i <= j

\* Variant: the HELP is looked up and not taken.
TakeHelpNot(m) == help

\* help.remove
TakeHelp(m) == help \ {m}

RenderSample ==
    /\ phase = "rendering"
    /\ \E i \in DOMAIN kept :
        /\ ComesFirst(i)
        /\ LET m == kept[i].metric
           IN  /\ page' = page \o (IF m \in help THEN <<Line(m, 0)>> ELSE << >>) \o <<kept[i]>>
               /\ help' = TakeHelp(m)
        /\ kept' = RemoveAt(kept, i)
    /\ UNCHANGED <<phase, response, at, headers>>

RenderingDone ==
    /\ phase = "rendering"
    /\ kept = << >>
    /\ phase' = "done"
    /\ UNCHANGED <<response, at, headers, kept, help, page>>

Next ==
    \/ \E r \in Responses : Answers(r)
    \/ Fails
    \/ RelayHeader
    \/ HeadersDone
    \/ FilterSample
    \/ FilteringDone
    \/ RenderSample
    \/ RenderingDone
    \/ phase = "done" /\ UNCHANGED vars

Spec == Init /\ [][Next]_vars
-----------------------------------------------------------------------------
Rendered == phase = "done" /\ response # NoResponse /\ response.ok

\* Prometheus takes the lines of a metric as one group, with its HELP and TYPE once
\* and first: so they stand in what is served, in whatever order the backend sent
\* the samples, and a metric that the backend documents comes with its documentation.
\* (The tests of proxy.rs sort the lines before they compare.)
PageIsWellFormed ==
    Rendered =>
        /\ \A i, j \in DOMAIN page :
             i < j /\ page[i].metric = page[j].metric =>
                /\ page[j].nr # 0
                /\ \A k \in i .. j : page[k].metric = page[i].metric
        /\ \A i \in DOMAIN page : page[i].metric \in response.docs
                                    <=> Line(page[i].metric, 0) \in {page[k] : k \in DOMAIN page}

\* What the filters keep is served, each sample once, and nothing of what they drop; and
\* the samples of a metric stay in the order in which the parser gave them (which need not
\* be that of the backend's text: it puts the lines of a histogram into one sample).
EachInItsOrder ==
    Rendered =>
        /\ {page[i] : i \in {k \in DOMAIN page : page[k].nr # 0}}
             = {Line(response.samples[nr].metric, nr) :
                  nr \in {k \in DOMAIN response.samples : response.samples[k].keep}}
        /\ \A i, j \in DOMAIN page :
             i < j /\ page[i].metric = page[j].metric /\ page[j].nr # 0
               => page[i].nr < page[j].nr

\* "Headers that must not be relayed" (proxy.rs:20) are not, of all the others the
\* client gets the first value that the backend gave, and what the proxy says in its
\* own words comes without any header of the backend.
FirstValuesAreRelayed ==
    phase = "done" =>
        IF response = NoResponse
          THEN headers = {[name |-> ContentType, value |-> PlainText]}
          ELSE headers = {h \in {response.headers[i] : i \in DOMAIN response.headers} :
                            /\ h.name \notin HopByHop \union Stripped
                            /\ \E i \in DOMAIN response.headers :
                                /\ response.headers[i] = h
                                /\ \A j \in 1 .. i - 1 : response.headers[j].name # h.name}
=============================================================================
