--------------------------- MODULE ExpositionProofs --------------------------
(***************************************************************************)
(* The page is well formed and comes with the right headers, for any       *)
(* metrics, headers and responses of the backend, of any length.           *)
(***************************************************************************)
EXTENDS Exposition, SequenceTheorems, TLAPS

\* What handle has at hand in each of its loops.
StageInv ==
    /\ phase = "fetching" => response = NoResponse
    /\ phase \in {"relaying", "filtering", "rendering"} =>
         response \in Responses /\ page \in Seq(Lines)
    /\ phase \in {"filtering", "rendering"} => response.ok
    /\ phase \in {"fetching", "relaying"} => kept = << >> /\ help = {}
    /\ phase \in {"fetching", "relaying", "filtering"} => page = << >>
    /\ phase = "fetching" => at = 1 /\ headers = {}
    /\ phase = "relaying" => at \in 1 .. Len(response.headers) + 1
    /\ phase = "filtering" => at \in 1 .. Len(response.samples) + 1
    /\ Rendered => page \in Seq(Lines) /\ kept = << >>

\* The first values among the first n headers, as far as they are to be relayed.
FirstValues(n) ==
    {response.headers[i] : i \in {k \in 1 .. n : Named(k) /\ Relayed(response.headers[k])}}

HeaderInv ==
    /\ phase = "relaying" => headers = FirstValues(at - 1)
    /\ phase \in {"filtering", "rendering", "done"} /\ response # NoResponse =>
         headers = FirstValues(Len(response.headers))
    /\ phase = "done" /\ response = NoResponse => headers = fallback_headers

IInv == TypeOK /\ StageInv /\ HeaderInv

LEMMA InitHolds == Init => IInv
  BY ConstantsAssumption DEF Init, IInv, TypeOK, StageInv, HeaderInv, Rendered

LEMMA ResponseType ==
    ASSUME response \in Responses
    PROVE  /\ response # NoResponse
           /\ response.headers \in Seq(Headers)
           /\ response.samples \in Seq([metric : Metrics, keep : BOOLEAN])
           /\ response.docs \subseteq Metrics
           /\ response.ok \in BOOLEAN
  BY ConstantsAssumption DEF Response

\* A sequence without its i-th element.
LEMMA Removal ==
    ASSUME NEW S, NEW s \in Seq(S), NEW i \in DOMAIN s
    PROVE  /\ RemoveAt(s, i) \in Seq(S)
           /\ Len(RemoveAt(s, i)) = Len(s) - 1
           /\ \A j \in 1 .. Len(s) - 1 : RemoveAt(s, i)[j] = IF j < i THEN s[j] ELSE s[j + 1]
<1>1. i \in 1 .. Len(s) /\ Len(s) \in Nat
  OBVIOUS
<1> DEFINE front == SubSeq(s, 1, i - 1)
           back  == SubSeq(s, i + 1, Len(s))
<1>2. front \in Seq(S) /\ Len(front) = i - 1 /\ \A j \in 1 .. i - 1 : front[j] = s[j]
  BY <1>1, SubSeqProperties
<1>3. /\ back \in Seq(S) /\ Len(back) = Len(s) - i
      /\ \A j \in 1 .. Len(s) - i : back[j] = s[i + j]
  BY <1>1, SubSeqProperties
<1>4. RemoveAt(s, i) = front \o back
  BY DEF RemoveAt
<1> HIDE DEF front, back
<1> DEFINE t == front \o back
<1>5. /\ t \in Seq(S)
      /\ Len(t) = Len(front) + Len(back)
      /\ \A j \in 1 .. Len(front) + Len(back) :
           t[j] = IF j <= Len(front) THEN front[j] ELSE back[j - Len(front)]
  BY <1>2, <1>3, ConcatProperties
<1> HIDE DEF t
<1>6. Len(t) = Len(s) - 1
  BY <1>1, <1>2, <1>3, <1>5
<1>7. ASSUME NEW j \in 1 .. Len(s) - 1
      PROVE  t[j] = IF j < i THEN s[j] ELSE s[j + 1]
  <2>1. t[j] = IF j <= i - 1 THEN front[j] ELSE back[j - (i - 1)]
    <3>1. j \in 1 .. Len(front) + Len(back)
      BY <1>1, <1>2, <1>3
    <3>2. t[j] = IF j <= Len(front) THEN front[j] ELSE back[j - Len(front)]
      BY <1>5, <3>1
    <3>3. QED
      BY <1>2, <3>2
  <2>2. CASE j < i
    <3>1. j \in 1 .. i - 1 /\ j <= i - 1
      BY <1>1, <2>2
    <3>2. QED
      BY <1>2, <2>1, <2>2, <3>1
  <2>3. CASE j >= i
    <3>1. j - (i - 1) \in 1 .. Len(s) - i /\ i + (j - (i - 1)) = j + 1
      BY <1>1, <2>3
    <3>2. QED
      BY <1>1, <1>3, <2>1, <2>3, <3>1
  <2>4. QED
    BY <1>1, <2>2, <2>3
<1>8. RemoveAt(s, i) = t
  BY <1>4 DEF t
<1>9. QED
  BY <1>5, <1>6, <1>7, <1>8

\* A header that is the first of its name is added, and nothing else is lost.
LEMMA RelayPreserves ==
    ASSUME IInv, RelayHeader
    PROVE  IInv'
<1> USE DEF RelayHeader
<1>1. response \in Responses /\ at \in 1 .. Len(response.headers)
  BY ResponseType DEF IInv, StageInv
<1>2. response.headers \in Seq(Headers) /\ response # NoResponse
  BY <1>1, ResponseType
<1> DEFINE h == response.headers[at]
<1>3. headers = FirstValues(at - 1)
  BY DEF IInv, HeaderInv
<1>4. FirstValues(at) = IF Named(at) /\ Relayed(h) THEN headers \union {h} ELSE headers
  BY <1>1, <1>2, <1>3 DEF FirstValues
<1>5. Named(at) => Insert(h) = headers \union {h}
  <2>1. \A g \in headers : Named(at) => g.name # h.name
    BY <1>1, <1>2, <1>3 DEF FirstValues, Named
  <2>2. QED
    BY <2>1 DEF Insert
<1>6. headers' = FirstValues(at)
  BY <1>4, <1>5
<1>7. FirstValues(at)' = FirstValues(at') /\ at' - 1 = at
  BY <1>1 DEF FirstValues, Named, Relayed
<1>8. HeaderInv'
  BY <1>6, <1>7, <1>1 DEF HeaderInv, FirstValues, Named, Relayed
<1>9. TypeOK'
  BY <1>1 DEF IInv, TypeOK, Insert
<1>10. StageInv'
  BY <1>1, <1>2 DEF IInv, StageInv, Rendered
<1>11. QED
  BY <1>8, <1>9, <1>10 DEF IInv

\* The steps that leave the headers alone.
LEMMA HeadersStay ==
    ASSUME IInv, phase \in {"filtering", "rendering"}, phase' \in {"filtering", "rendering", "done"},
           UNCHANGED <<response, headers>>
    PROVE  HeaderInv'
<1>1. response \in Responses /\ response # NoResponse
  BY ResponseType DEF IInv, StageInv
<1>2. QED
  BY <1>1 DEF IInv, HeaderInv, FirstValues, Named, Relayed

LEMMA FilterPreserves ==
    ASSUME IInv, FilterSample
    PROVE  IInv'
<1> USE DEF FilterSample
<1>1. /\ response \in Responses /\ at \in 1 .. Len(response.samples)
      /\ response.samples \in Seq([metric : Metrics, keep : BOOLEAN])
  BY ResponseType DEF IInv, StageInv
<1> DEFINE s == response.samples[at]
<1>2. s \in [metric : Metrics, keep : BOOLEAN]
  BY <1>1, ElementOfSeq
<1>3. Line(s.metric, at) \in Lines
  BY <1>1, <1>2 DEF Line, Lines
<1>4. kept' \in Seq(Lines)
  <2>1. kept \in Seq(Lines) /\ kept' \in {kept, Append(kept, Line(s.metric, at))}
    BY DEF IInv, TypeOK
  <2>2. \A l \in Lines : Append(kept, l) \in Seq(Lines)
    BY <2>1, AppendProperties
  <2>3. QED
    BY <1>3, <2>1, <2>2
<1>5. help' \subseteq response.docs
  BY <1>1, ResponseType DEF IInv, TypeOK, WithDoc
<1>6. TypeOK'
  BY <1>1, <1>4, <1>5 DEF IInv, TypeOK
<1>7. StageInv'
  BY <1>1 DEF IInv, StageInv, Rendered
<1>8. HeaderInv'
  BY HeadersStay
<1>9. QED
  BY <1>6, <1>7, <1>8 DEF IInv

LEMMA RenderPreserves ==
    ASSUME IInv, RenderSample
    PROVE  IInv'
<1> USE DEF RenderSample
<1>1. PICK i \in DOMAIN kept :
        /\ page' = page \o (IF kept[i].metric \in help THEN <<Line(kept[i].metric, 0)>> ELSE << >>)
                        \o <<kept[i]>>
        /\ help' = TakeHelp(kept[i].metric)
        /\ kept' = RemoveAt(kept, i)
  OBVIOUS
<1>2. kept \in Seq(Lines) /\ page \in Seq(Lines) /\ response \in Responses
  BY DEF IInv, TypeOK, StageInv
<1>3. kept[i] \in Lines /\ Line(kept[i].metric, 0) \in Lines
  <2>1. kept[i] \in Lines
    BY <1>2, ElementOfSeq
  <2>2. QED
    BY <2>1 DEF Line, Lines
<1>4. page' \in Seq(Lines)
  BY <1>1, <1>2, <1>3, ConcatProperties, EmptySeq
<1>5. kept' \in Seq(Lines)
  BY <1>1, <1>2, Removal
<1>6. TypeOK'
  BY <1>1, <1>4, <1>5 DEF IInv, TypeOK, TakeHelp
<1>7. StageInv'
  BY <1>4 DEF IInv, StageInv, Rendered
<1>8. HeaderInv'
  BY HeadersStay
<1>9. QED
  BY <1>6, <1>7, <1>8 DEF IInv

LEMMA NextPreserves == IInv /\ [Next]_vars => IInv'
<1> SUFFICES ASSUME IInv, [Next]_vars
             PROVE  IInv'
  OBVIOUS
<1>1. CASE UNCHANGED vars
  BY <1>1 DEF vars, IInv, TypeOK, StageInv, HeaderInv, FirstValues, Named, Relayed, Rendered
<1>2. ASSUME NEW r \in Responses, Answers(r)
      PROVE  IInv'
  <2>1. r # NoResponse /\ Len(r.headers) \in Nat
    BY ConstantsAssumption DEF Response
  <2>2. TypeOK' /\ StageInv'
    BY <1>2, <2>1, EmptySeq DEF Answers, IInv, TypeOK, StageInv, Rendered
  <2>3. HeaderInv'
    BY <1>2 DEF Answers, IInv, StageInv, HeaderInv, FirstValues
  <2>4. QED
    BY <2>2, <2>3 DEF IInv
<1>3. CASE Fails
  BY <1>3 DEF Fails, IInv, TypeOK, StageInv, HeaderInv, Rendered, fallback_headers
<1>4. CASE HeadersDone
  <2>1. /\ response \in Responses /\ response # NoResponse
        /\ response.headers \in Seq(Headers) /\ Len(response.samples) \in Nat
        /\ response.ok \in BOOLEAN
    BY <1>4, ResponseType DEF HeadersDone, IInv, StageInv
  <2>2. at - 1 = Len(response.headers)
    BY <1>4, <2>1 DEF HeadersDone, IInv, StageInv
  <2>3. headers = FirstValues(Len(response.headers))
    BY <1>4, <2>2 DEF HeadersDone, IInv, HeaderInv
  <2>4. HeaderInv'
    BY <1>4, <2>1, <2>3 DEF HeadersDone, HeaderInv, FirstValues, Named, Relayed
  <2>5. TypeOK' /\ StageInv'
    <3>1. CASE response.ok
      BY <1>4, <2>1, <3>1 DEF HeadersDone, IInv, TypeOK, StageInv, Rendered
    <3>2. CASE ~response.ok
      BY <1>4, <2>1, <3>2 DEF HeadersDone, IInv, TypeOK, StageInv, Rendered
    <3>3. QED
      BY <3>1, <3>2
  <2>6. QED
    BY <2>4, <2>5 DEF IInv
<1>5. CASE FilteringDone
  <2>1. TypeOK' /\ StageInv'
    BY <1>5 DEF FilteringDone, IInv, TypeOK, StageInv, Rendered
  <2>2. QED
    BY <1>5, <2>1, HeadersStay DEF FilteringDone, IInv
<1>6. CASE RenderingDone
  <2>1. TypeOK' /\ StageInv'
    BY <1>6 DEF RenderingDone, IInv, TypeOK, StageInv, Rendered
  <2>2. QED
    BY <1>6, <2>1, HeadersStay DEF RenderingDone, IInv
<1>7. QED
  BY <1>1, <1>2, <1>3, <1>4, <1>5, <1>6, RelayPreserves, FilterPreserves, RenderPreserves DEF Next

-----------------------------------------------------------------------------
\* The loops of handle (proxy.rs), one after the other, keep the inductive invariant.
THEOREM Invariance == Spec => []IInv
  BY InitHolds, NextPreserves, PTL DEF Spec

\* The loops stay within their data, no header has two values, and no documentation
\* is made up.
THEOREM TypeCorrect == Spec => []TypeOK
<1>1. IInv => TypeOK
  BY DEF IInv
<1>2. QED
  BY <1>1, Invariance, PTL

\* Whatever headers the backend sends, and however often each (proxy.rs,
\* safely_clone_response_headers): the client gets the first value of each that may
\* be relayed, and no others.
THEOREM HeadersAreRelayed == Spec => []FirstValuesAreRelayed
<1>1. IInv => FirstValuesAreRelayed
  <2> SUFFICES ASSUME IInv, phase = "done"
               PROVE  FirstValuesAreRelayed
    BY DEF FirstValuesAreRelayed
  <2>1. CASE response = NoResponse
    BY <2>1 DEF IInv, HeaderInv, FirstValuesAreRelayed, fallback_headers
  <2>2. CASE response # NoResponse
    <3>1. response.headers \in Seq(Headers)
      BY <2>2, ResponseType DEF IInv, TypeOK
    <3>2. headers = FirstValues(Len(response.headers))
      BY <2>2 DEF IInv, HeaderInv
    <3>3. QED
      BY <2>2, <3>1, <3>2 DEF FirstValuesAreRelayed, FirstValues, Named, Relayed
  <2>3. QED
    BY <2>1, <2>2
<1>2. QED
  BY <1>1, Invariance, PTL
-----------------------------------------------------------------------------
(***************************************************************************)
(* The page.  That its metrics stand in groups follows from their order,   *)
(* and that the HELP of each is there, once and first, from where it still *)
(* is while the page is being written.                                     *)
(***************************************************************************)
Written == {page[k] : k \in DOMAIN page}

DocumentedInv ==
    \A i \in DOMAIN kept :
        /\ kept[i].nr # 0
        /\ kept[i].metric \in response.docs =>
             kept[i].metric \in help \/ Line(kept[i].metric, 0) \in Written

OrderedInv ==
    /\ \A i, j \in DOMAIN page : i <= j => page[i].metric <= page[j].metric
    /\ \A i, j \in DOMAIN page : i < j /\ page[i].metric = page[j].metric => page[j].nr # 0
    /\ \A i \in DOMAIN page : page[i].nr = 0 => page[i].metric \in response.docs
    /\ \A i \in DOMAIN page : page[i].metric \in response.docs =>
                                Line(page[i].metric, 0) \in Written

NextInv ==
    \A i \in DOMAIN page : /\ page[i].metric \notin help
                           /\ \A j \in DOMAIN kept : page[i].metric <= kept[j].metric

PageInv ==
    /\ phase \in {"filtering", "rendering"} => DocumentedInv
    /\ phase = "rendering" \/ Rendered => OrderedInv
    /\ phase = "rendering" => NextInv

\* A sample that passes the filters comes with its HELP.
LEMMA FilterKeepsPage ==
    ASSUME IInv, PageInv, FilterSample
    PROVE  PageInv'
<1> USE DEF FilterSample
<1>1. /\ response \in Responses /\ at \in 1 .. Len(response.samples)
      /\ kept \in Seq(Lines) /\ page = << >>
  BY ResponseType DEF IInv, TypeOK, StageInv
<1> DEFINE s == response.samples[at]
           l == Line(s.metric, at)
<1>2. CASE s.keep
  <2>1. /\ \A i \in DOMAIN kept' : (i \in DOMAIN kept /\ kept'[i] = kept[i]) \/ kept'[i] = l
        /\ help' = help \union ({s.metric} \intersect response.docs)
    <3>1. kept' = Append(kept, l) /\ help' = WithDoc(s.metric)
      BY <1>2
    <3> HIDE DEF l
    <3>2. QED
      BY <1>1, <3>1 DEF WithDoc
  <2>2. l.metric = s.metric /\ l.nr = at /\ at # 0
    BY <1>1 DEF Line
  <2> HIDE DEF l
  <2>3. DocumentedInv'
    BY <2>1, <2>2 DEF PageInv, DocumentedInv, Written, Line
  <2>4. QED
    BY <2>3 DEF PageInv, Rendered
<1>3. CASE ~s.keep
  BY <1>3 DEF PageInv, DocumentedInv, Written, Rendered
<1>4. QED
  BY <1>2, <1>3

LEMMA LineTypes ==
    ASSUME NEW s \in Seq(Lines)
    PROVE  /\ Len(s) \in Nat /\ DOMAIN s = 1 .. Len(s)
           /\ \A i \in DOMAIN s : s[i] \in Lines /\ s[i].metric \in Nat
<1>1. Len(s) \in Nat /\ DOMAIN s = 1 .. Len(s) /\ \A i \in DOMAIN s : s[i] \in Lines
  BY LenProperties, ElementOfSeq
<1>2. \A l \in Lines : l.metric \in Nat
  BY ConstantsAssumption DEF Lines
<1>3. QED
  BY <1>1, <1>2

LEMMA TwoMore ==
    ASSUME NEW S, NEW p \in Seq(S), NEW d \in S, NEW k \in S,
           NEW s, s = p \o <<d>> \o <<k>>
    PROVE  /\ s \in Seq(S) /\ Len(s) = Len(p) + 2
           /\ \A i \in 1 .. Len(p) : s[i] = p[i]
           /\ s[Len(p) + 1] = d /\ s[Len(p) + 2] = k
<1> DEFINE q == Append(p, d)
           t == Append(q, k)
<1>1. /\ q \in Seq(S) /\ Len(q) = Len(p) + 1
      /\ \A i \in 1 .. Len(p) : q[i] = p[i]
      /\ q[Len(p) + 1] = d
  BY AppendProperties
<1>2. q = p \o <<d>>
  BY AppendIsConcat
<1> HIDE DEF q
<1>3. /\ t \in Seq(S) /\ Len(t) = Len(q) + 1
      /\ \A i \in 1 .. Len(q) : t[i] = q[i]
      /\ t[Len(q) + 1] = k
  BY <1>1, AppendProperties
<1>4. s = t
  BY <1>1, <1>2, AppendIsConcat
<1> HIDE DEF t
<1>5. Len(p) \in Nat
  BY LenProperties
<1>6. Len(p) + 1 \in 1 .. Len(q) /\ Len(q) + 1 = Len(p) + 2
  BY <1>1, <1>5
<1>7. \A i \in 1 .. Len(p) : t[i] = p[i]
  <2> SUFFICES ASSUME NEW i \in 1 .. Len(p)
               PROVE  t[i] = p[i]
    OBVIOUS
  <2>1. i \in 1 .. Len(q)
    BY <1>1, <1>5
  <2>2. QED
    BY <1>1, <1>3, <2>1
<1>8. t[Len(p) + 1] = d /\ t[Len(p) + 2] = k
  BY <1>1, <1>3, <1>6
<1>9. QED
  BY <1>3, <1>4, <1>6, <1>7, <1>8

\* What is rendered is the HELP, if it has not been, and the sample.
LEMMA RenderedLines ==
    ASSUME IInv, NEW k \in Lines, NEW d \in Lines, NEW documented \in BOOLEAN,
           page \in Seq(Lines),
           page' = page \o (IF documented THEN <<d>> ELSE << >>) \o <<k>>
    PROVE  /\ \A i \in DOMAIN page : i \in DOMAIN page' /\ page'[i] = page[i]
           /\ \A i \in DOMAIN page' \ DOMAIN page :
                /\ \A j \in DOMAIN page : j < i
                /\ \/ page'[i] = k /\ i = Len(page')
                   \/ documented /\ page'[i] = d /\ i = Len(page) + 1
           /\ documented => d \in Written' /\ Len(page') = Len(page) + 2
           /\ Len(page') \in DOMAIN page' /\ page'[Len(page')] = k
           /\ page' \in Seq(Lines)
<1>1. CASE documented
  <2>1. page' = page \o <<d>> \o <<k>>
    BY <1>1
  <2>2. /\ page' \in Seq(Lines) /\ Len(page') = Len(page) + 2
        /\ \A i \in 1 .. Len(page) : page'[i] = page[i]
        /\ page'[Len(page) + 1] = d /\ page'[Len(page) + 2] = k
    <3>1. ASSUME NEW s, s = page \o <<d>> \o <<k>>
          PROVE  /\ s \in Seq(Lines) /\ Len(s) = Len(page) + 2
                 /\ \A i \in 1 .. Len(page) : s[i] = page[i]
                 /\ s[Len(page) + 1] = d /\ s[Len(page) + 2] = k
      BY <3>1, TwoMore
    <3>2. QED
      BY <2>1, <3>1, Zenon
  <2>3. DOMAIN page = 1 .. Len(page) /\ DOMAIN page' = 1 .. Len(page') /\ Len(page) \in Nat
    BY <2>2, LineTypes
  <2>4. /\ \A i \in DOMAIN page : i \in DOMAIN page' /\ page'[i] = page[i]
        /\ Len(page) + 1 \in DOMAIN page' /\ Len(page') \in DOMAIN page'
    BY <2>2, <2>3
  <2>5. \A i \in DOMAIN page' \ DOMAIN page :
          i \in {Len(page) + 1, Len(page) + 2} /\ \A j \in DOMAIN page : j < i
    BY <2>2, <2>3
  <2>6. d \in Written'
    BY <2>2, <2>4 DEF Written
  <2>7. QED
    BY <1>1, <2>2, <2>4, <2>5, <2>6
<1>2. CASE ~documented
  <2>1. page' = Append(page, k)
    BY <1>2
  <2>2. QED
    BY <1>2, <2>1
<1>3. QED
  BY <1>1, <1>2

LEMMA RenderKeepsPage ==
    ASSUME IInv, PageInv, RenderSample
    PROVE  PageInv'
<1> USE DEF RenderSample
<1>1. PICK n \in DOMAIN kept :
        /\ ComesFirst(n)
        /\ page' = page \o (IF kept[n].metric \in help THEN <<Line(kept[n].metric, 0)>> ELSE << >>)
                        \o <<kept[n]>>
        /\ help' = TakeHelp(kept[n].metric)
        /\ kept' = RemoveAt(kept, n)
  OBVIOUS
<1>2. kept \in Seq(Lines) /\ page \in Seq(Lines) /\ response \in Responses /\ response # NoResponse
  BY ResponseType DEF IInv, TypeOK, StageInv
<1> DEFINE k == kept[n]
           m == kept[n].metric
           d == Line(m, 0)
<1>3. k \in Lines
  BY <1>2, ElementOfSeq
<1>4. m \in Nat /\ d \in Lines /\ d.metric = m /\ d.nr = 0
  BY <1>3, ConstantsAssumption DEF Line, Lines
<1>5. k.nr # 0 /\ (m \in response.docs => m \in help \/ d \in Written)
  BY DEF PageInv, DocumentedInv
<1>6. help \subseteq response.docs
  BY <1>2 DEF IInv, TypeOK
<1>7. \A i \in DOMAIN kept : kept[i] \in Lines /\ m <= kept[i].metric
  <2>1. \A i \in DOMAIN kept : kept[i] \in Lines /\ kept[i].metric \in Nat
    BY <1>2, LineTypes
  <2>2. \A i \in DOMAIN kept : m < kept[i].metric \/ m = kept[i].metric
    BY <1>1 DEF ComesFirst
  <2>3. QED
    BY <1>4, <2>1, <2>2
<1>8. /\ \A i \in DOMAIN page : i \in DOMAIN page' /\ page'[i] = page[i]
      /\ \A i \in DOMAIN page' \ DOMAIN page :
           /\ \A j \in DOMAIN page : j < i
           /\ \/ page'[i] = k /\ i = Len(page')
              \/ m \in help /\ page'[i] = d /\ i = Len(page) + 1
      /\ m \in help => d \in Written' /\ Len(page') = Len(page) + 2
      /\ Len(page') \in DOMAIN page' /\ page'[Len(page')] = k
      /\ page' \in Seq(Lines)
  BY ZenonT(30), <1>1, <1>2, <1>3, <1>4, RenderedLines
<1>9. \A j \in DOMAIN kept' : \E i \in DOMAIN kept : kept'[j] = kept[i]
  <2>1. /\ kept' \in Seq(Lines) /\ Len(kept') = Len(kept) - 1
        /\ \A j \in 1 .. Len(kept) - 1 : kept'[j] = IF j < n THEN kept[j] ELSE kept[j + 1]
    BY <1>1, <1>2, Removal
  <2>2. Len(kept) \in Nat /\ DOMAIN kept = 1 .. Len(kept) /\ DOMAIN kept' = 1 .. Len(kept) - 1
    BY <1>2, <2>1, LineTypes
  <2>3. \A j \in DOMAIN kept' : j \in DOMAIN kept /\ j + 1 \in DOMAIN kept
    BY <2>2
  <2>4. QED
    BY <2>1, <2>2, <2>3
<1>10. Written \subseteq Written'
  BY <1>8 DEF Written
<1>11. help' = help \ {m}
  BY <1>1 DEF TakeHelp
<1>12. OrderedInv /\ NextInv /\ DocumentedInv
  BY DEF PageInv
<1>13. \A i \in DOMAIN page : page[i] \in Lines /\ page[i].metric \in Nat
  BY <1>2, LineTypes
<1> HIDE DEF k, m, d
<1>14. DocumentedInv'
  <2> SUFFICES ASSUME NEW j \in DOMAIN kept'
               PROVE  /\ kept'[j].nr # 0
                      /\ kept'[j].metric \in response.docs =>
                           kept'[j].metric \in help' \/ Line(kept'[j].metric, 0) \in Written'
    BY DEF DocumentedInv
  <2>1. PICK i \in DOMAIN kept : kept'[j] = kept[i]
    BY <1>9
  <2>2. CASE kept[i].metric = m
    BY <1>4, <1>5, <1>8, <1>10, <1>12, <2>1, <2>2 DEF DocumentedInv, d
  <2>3. CASE kept[i].metric # m
    BY <1>10, <1>11, <1>12, <2>1, <2>3 DEF DocumentedInv
  <2>4. QED
    BY <2>2, <2>3
<1>15. \A i \in DOMAIN page' : i \in DOMAIN page \/ page'[i].metric = m
  BY <1>4, <1>8 DEF k, m
<1>16. \A i \in DOMAIN page : page[i].metric <= m
  BY <1>12 DEF NextInv, m
<1>17. OrderedInv'
  <2>1. ASSUME NEW i \in DOMAIN page', NEW j \in DOMAIN page', i <= j
        PROVE  page'[i].metric <= page'[j].metric
    <3>1. CASE j \in DOMAIN page
      <4>1. i \in DOMAIN page
        BY <1>2, <1>8, <2>1, <3>1, LineTypes
      <4>2. QED
        BY <1>8, <1>12, <2>1, <3>1, <4>1 DEF OrderedInv
    <3>2. CASE j \notin DOMAIN page
      BY <1>4, <1>8, <1>15, <1>16, <3>2
    <3>3. QED
      BY <3>1, <3>2
  <2>2. ASSUME NEW i \in DOMAIN page', NEW j \in DOMAIN page', i < j,
               page'[i].metric = page'[j].metric
        PROVE  page'[j].nr # 0
    <3>1. CASE j \in DOMAIN page
      BY <1>2, <1>8, <1>12, <2>2, <3>1 DEF OrderedInv
    <3>2. CASE j \notin DOMAIN page /\ page'[j] = k
      BY <1>5, <3>2
    <3>3. CASE j \notin DOMAIN page /\ m \in help /\ page'[j] = d /\ j = Len(page) + 1
      <4>1. i \in DOMAIN page
        BY <1>2, <1>8, <2>2, <3>3
      <4>2. page[i].metric = m
        BY <1>4, <1>8, <2>2, <3>3, <4>1
      <4>3. QED
        BY <1>12, <3>3, <4>1, <4>2 DEF NextInv
    <3>4. QED
      BY <1>8, <3>1, <3>2, <3>3
  <2>3. \A i \in DOMAIN page' : page'[i].nr = 0 => page'[i].metric \in response.docs
    BY <1>4, <1>5, <1>6, <1>8, <1>12 DEF OrderedInv
  <2>4. \A i \in DOMAIN page' : page'[i].metric \in response.docs =>
                                  Line(page'[i].metric, 0) \in Written'
    BY <1>5, <1>8, <1>10, <1>12, <1>15 DEF OrderedInv, d
  <2>5. QED
    BY <2>1, <2>2, <2>3, <2>4 DEF OrderedInv
<1>18. NextInv'
  BY <1>4, <1>7, <1>8, <1>9, <1>11, <1>12, <1>15, <1>16 DEF NextInv
<1>19. QED
  BY <1>14, <1>17, <1>18 DEF PageInv, Rendered

LEMMA PageStays == IInv /\ PageInv /\ [Next]_vars => PageInv'
<1> SUFFICES ASSUME IInv, PageInv, [Next]_vars
             PROVE  PageInv'
  OBVIOUS
<1> USE DEF PageInv, DocumentedInv, OrderedInv, NextInv, Written, Rendered
<1>1. CASE UNCHANGED vars
  BY <1>1 DEF vars
<1>2. ASSUME NEW r \in Responses, Answers(r)
      PROVE  PageInv'
  BY <1>2 DEF Answers
<1>3. CASE Fails
  BY <1>3 DEF Fails, IInv, StageInv
<1>4. CASE RelayHeader
  BY <1>4 DEF RelayHeader
<1>5. CASE HeadersDone
  BY <1>5, ResponseType DEF HeadersDone, IInv, StageInv
<1>6. CASE FilteringDone
  BY <1>6 DEF FilteringDone, IInv, StageInv
<1>7. CASE RenderingDone
  BY <1>7 DEF RenderingDone
<1>8. QED
  BY <1>1, <1>2, <1>3, <1>4, <1>5, <1>6, <1>7, FilterKeepsPage, RenderKeepsPage DEF Next

\* Whatever the backend sends and the filters keep (proxy.rs, apply_filters and
\* render_scrape_data): each metric is one group of lines, and its HELP and TYPE
\* stand at the head of it, once, if the backend documents it.
THEOREM PagesAreWellFormed == Spec => []PageIsWellFormed
<1>1. Init => PageInv
  BY DEF Init, PageInv, Rendered
<1>2. IInv /\ PageInv => PageIsWellFormed
  <2> SUFFICES ASSUME IInv, PageInv, Rendered
               PROVE  PageIsWellFormed
    BY DEF PageIsWellFormed
  <2>1. page \in Seq(Lines) /\ OrderedInv
    BY DEF IInv, StageInv, PageInv
  <2>2. \A i \in DOMAIN page : page[i] \in Lines /\ page[i].metric \in Nat
    BY <2>1, LineTypes
  <2>3. ASSUME NEW i \in DOMAIN page, NEW j \in DOMAIN page, i < j,
               page[i].metric = page[j].metric, NEW k \in i .. j
        PROVE  page[k].metric = page[i].metric
    <3>1. k \in DOMAIN page /\ i <= k /\ k <= j
      BY <2>1, <2>3
    <3>2. page[i].metric <= page[k].metric /\ page[k].metric <= page[j].metric
      BY <2>1, <2>3, <3>1 DEF OrderedInv
    <3>3. QED
      BY <2>2, <2>3, <3>1, <3>2
  <2>4. \A i \in DOMAIN page : page[i].metric \in response.docs
                                 <=> Line(page[i].metric, 0) \in Written
    <3>1. ASSUME NEW i \in DOMAIN page, Line(page[i].metric, 0) \in Written
          PROVE  page[i].metric \in response.docs
      <4>1. PICK k \in DOMAIN page : page[k] = Line(page[i].metric, 0)
        BY <3>1 DEF Written
      <4>2. QED
        BY <2>1, <4>1 DEF OrderedInv, Line
    <3>2. QED
      BY <2>1, <3>1 DEF OrderedInv
  <2>5. QED
    BY <2>1, <2>3, <2>4 DEF PageIsWellFormed, OrderedInv, Written
<1>3. QED
  BY <1>1, <1>2, Invariance, PageStays, PTL DEF Spec

-----------------------------------------------------------------------------
(***************************************************************************)
(* The samples.  What is kept and what is rendered make up what is due,    *)
(* and what is still kept comes after what is rendered of the same metric. *)
(***************************************************************************)
\* The samples to keep among the first n of the backend.
Due(n) == {Line(response.samples[nr].metric, nr) :
             nr \in {k \in 1 .. n : response.samples[k].keep}}

KeptLines   == {kept[i] : i \in DOMAIN kept}
SampleLines == {page[i] : i \in {k \in DOMAIN page : page[k].nr # 0}}

CompleteInv ==
    /\ phase = "filtering" => KeptLines = Due(at - 1)
    /\ phase = "rendering" \/ Rendered =>
         SampleLines \union KeptLines = Due(Len(response.samples))

KeptInOrder == \A i, j \in DOMAIN kept : i < j => kept[i].nr < kept[j].nr
PageBeforeKept == \A i \in DOMAIN page, j \in DOMAIN kept :
                     page[i].metric = kept[j].metric => page[i].nr < kept[j].nr
PageInOrder == \A i, j \in DOMAIN page :
                  i < j /\ page[i].metric = page[j].metric /\ page[j].nr # 0
                    => page[i].nr < page[j].nr

SamplesInv ==
    /\ CompleteInv
    /\ phase \in {"filtering", "rendering"} => KeptInOrder
    /\ phase = "rendering" => PageBeforeKept
    /\ phase = "rendering" \/ Rendered => PageInOrder

LEMMA FilterKeepsSamples ==
    ASSUME IInv, SamplesInv, FilterSample
    PROVE  SamplesInv'
<1> USE DEF FilterSample
<1>1. /\ response \in Responses /\ at \in 1 .. Len(response.samples)
      /\ kept \in Seq(Lines) /\ Len(response.samples) \in Nat
  BY ResponseType DEF IInv, TypeOK, StageInv
<1> DEFINE s == response.samples[at]
           l == Line(s.metric, at)
<1>2. KeptLines = Due(at - 1) /\ KeptInOrder
  BY DEF SamplesInv, CompleteInv
<1>3. /\ Due(at - 1)' = Due(at) /\ response' = response
      /\ ~Rendered' /\ phase' = "filtering"
  <2>1. at' - 1 = at
    BY <1>1
  <2>2. QED
    BY <2>1 DEF Due, Rendered
<1>4. Due(at) = IF s.keep THEN Due(at - 1) \union {l} ELSE Due(at - 1)
  <2>1. \A k : k \in 1 .. at <=> k \in 1 .. at - 1 \/ k = at
    BY <1>1
  <2>2. QED
    BY <2>1 DEF Due
<1>5. CASE s.keep
  <2> DEFINE K == Append(kept, l)
  <2>1. kept' = K
    BY <1>5
  <2>2. l.nr = at /\ l \in Lines
    <3>1. s \in [metric : Metrics, keep : BOOLEAN]
      BY <1>1, ResponseType, ElementOfSeq
    <3>2. QED
      BY <1>1, <3>1 DEF Line, Lines
  <2>3. \A i \in DOMAIN kept : kept[i].nr < at
    <3>1. \A k \in KeptLines : k.nr \in 1 .. at - 1
      BY <1>2 DEF Due, Line
    <3>2. QED
      BY <1>1, <3>1 DEF KeptLines
  <2> HIDE DEF l
  <2>4. /\ Len(kept) \in Nat /\ DOMAIN kept = 1 .. Len(kept)
        /\ DOMAIN K = 1 .. Len(kept) + 1
        /\ \A i \in 1 .. Len(kept) : K[i] = kept[i]
        /\ K[Len(kept) + 1] = l
    BY <1>1, <2>2, AppendProperties, LineTypes
  <2> HIDE DEF K
  <2>5. KeptLines' = KeptLines \union {l}
    BY <2>1, <2>4 DEF KeptLines
  <2>6. KeptInOrder'
    <3> SUFFICES ASSUME NEW i \in DOMAIN K, NEW j \in DOMAIN K, i < j
                 PROVE  K[i].nr < K[j].nr
      BY <2>1 DEF KeptInOrder
    <3>1. i \in DOMAIN kept /\ K[i] = kept[i]
      BY <2>4
    <3>2. CASE j \in DOMAIN kept
      BY <1>2, <2>4, <3>1, <3>2 DEF KeptInOrder
    <3>3. CASE j = Len(kept) + 1
      BY <2>2, <2>3, <2>4, <3>1, <3>3
    <3>4. QED
      BY <2>4, <3>2, <3>3
  <2>7. KeptLines' = Due(at - 1)'
    BY <1>2, <1>3, <1>4, <1>5, <2>5 DEF l
  <2>8. QED
    BY <1>3, <2>6, <2>7 DEF SamplesInv, CompleteInv
<1>6. CASE ~s.keep
  <2>1. kept' = kept
    BY <1>6
  <2>2. KeptLines' = Due(at - 1)'
    BY <1>2, <1>3, <1>4, <1>6, <2>1 DEF KeptLines
  <2>3. QED
    BY <1>2, <1>3, <2>1, <2>2 DEF SamplesInv, CompleteInv, KeptInOrder
<1>7. QED
  BY <1>5, <1>6

LEMMA RenderKeepsSamples ==
    ASSUME IInv, PageInv, SamplesInv, RenderSample
    PROVE  SamplesInv'
<1> USE DEF RenderSample
<1>1. PICK n \in DOMAIN kept :
        /\ ComesFirst(n)
        /\ page' = page \o (IF kept[n].metric \in help THEN <<Line(kept[n].metric, 0)>> ELSE << >>)
                        \o <<kept[n]>>
        /\ kept' = RemoveAt(kept, n)
  OBVIOUS
<1>2. kept \in Seq(Lines) /\ page \in Seq(Lines)
  BY DEF IInv, TypeOK, StageInv
<1> DEFINE k == kept[n]
           m == kept[n].metric
           d == Line(m, 0)
<1>3. \A i \in DOMAIN kept : kept[i] \in Lines /\ kept[i].nr \in Nat /\ kept[i].nr # 0
                             /\ kept[i].metric \in Nat
  <2>1. \A i \in DOMAIN kept : kept[i] \in Lines /\ kept[i].metric \in Nat
    BY <1>2, LineTypes
  <2>2. QED
    BY <2>1 DEF Lines, PageInv, DocumentedInv
<1>4. k \in Lines /\ d \in Lines /\ d.metric = m /\ d.nr = 0
  <2>1. k \in Lines
    BY <1>3
  <2>2. QED
    BY <2>1 DEF Line, Lines
<1>5. /\ \A i \in DOMAIN page : i \in DOMAIN page' /\ page'[i] = page[i]
      /\ \A i \in DOMAIN page' \ DOMAIN page :
           /\ \A j \in DOMAIN page : j < i
           /\ \/ page'[i] = k /\ i = Len(page')
              \/ m \in help /\ page'[i] = d /\ i = Len(page) + 1
      /\ m \in help => Len(page') = Len(page) + 2
      /\ Len(page') \in DOMAIN page' /\ page'[Len(page')] = k
      /\ page' \in Seq(Lines)
  BY <1>1, <1>2, <1>4, RenderedLines
<1> DEFINE place(j) == IF j < n THEN j ELSE j + 1
<1>6. /\ \A j \in DOMAIN kept' : /\ place(j) \in DOMAIN kept /\ place(j) # n
                                 /\ kept'[j] = kept[place(j)]
      /\ \A i \in DOMAIN kept : i # n => \E j \in DOMAIN kept' : place(j) = i
      /\ \A i, j \in DOMAIN kept' : i < j => place(i) < place(j)
  <2>1. /\ kept' \in Seq(Lines) /\ Len(kept') = Len(kept) - 1
        /\ \A j \in 1 .. Len(kept) - 1 : kept'[j] = IF j < n THEN kept[j] ELSE kept[j + 1]
    BY <1>1, <1>2, Removal
  <2>2. Len(kept) \in Nat /\ DOMAIN kept = 1 .. Len(kept) /\ DOMAIN kept' = 1 .. Len(kept) - 1
    BY <1>2, <2>1, LineTypes
  <2>3. ASSUME NEW i \in DOMAIN kept, i # n
        PROVE  \E j \in DOMAIN kept' : place(j) = i
    <3>1. CASE i < n
      BY <2>2, <3>1
    <3>2. CASE i > n
      <4>1. i - 1 \in DOMAIN kept' /\ place(i - 1) = i
        BY <2>2, <3>2
      <4>2. QED
        BY <4>1
    <3>3. QED
      BY <2>2, <2>3, <3>1, <3>2
  <2>4. QED
    BY SMTT(30), <2>1, <2>2, <2>3
<1>7. /\ CompleteInv /\ KeptInOrder /\ PageBeforeKept /\ PageInOrder
      /\ phase' = "rendering" /\ response' = response /\ phase = "rendering"
  BY DEF SamplesInv
<1>8. \A i \in DOMAIN page : page[i].nr \in Nat
  BY <1>2, LineTypes DEF Lines
<1>9. \A j \in DOMAIN kept : kept[j].metric = m /\ j # n => n < j /\ kept[n].nr < kept[j].nr
  <2>1. DOMAIN kept \subseteq Nat
    BY <1>2, LineTypes
  <2>2. QED
    BY SMTT(30), <1>1, <1>3, <1>7, <2>1 DEF ComesFirst, KeptInOrder
<1>10. \A i \in DOMAIN page' : i \in DOMAIN page \/ page'[i] = k \/ page'[i] = d
  BY <1>5
<1>11. k.metric = m /\ k.nr \in Nat /\ k.nr # 0
  BY <1>3
<1>12. KeptLines \subseteq KeptLines' \union {k} /\ KeptLines' \union {k} \subseteq KeptLines
  BY <1>6 DEF KeptLines
<1> HIDE DEF k, m, d, place
<1>13. SampleLines' = SampleLines \union {k}
  BY ZenonT(30), <1>4, <1>5, <1>10, <1>11 DEF SampleLines
<1>14. CompleteInv'
  BY <1>7, <1>12, <1>13 DEF CompleteInv, Due
<1>15. KeptInOrder'
  BY <1>6, <1>7 DEF KeptInOrder
<1>16. PageBeforeKept'
  <2> SUFFICES ASSUME NEW i \in DOMAIN page', NEW j \in DOMAIN kept',
                      page'[i].metric = kept'[j].metric
               PROVE  page'[i].nr < kept'[j].nr
    BY DEF PageBeforeKept
  <2>1. PICK h \in DOMAIN kept : h # n /\ kept'[j] = kept[h]
    BY <1>6
  <2>2. CASE i \in DOMAIN page
    BY <1>5, <1>7, <2>1, <2>2 DEF PageBeforeKept
  <2>3. CASE page'[i] = d
    BY <1>3, <1>4, <2>1, <2>3
  <2>4. CASE page'[i] = k
    BY <1>9, <1>11, <2>1, <2>4 DEF k
  <2>5. QED
    BY <1>10, <2>2, <2>3, <2>4
<1>17. PageInOrder'
  <2> SUFFICES ASSUME NEW i \in DOMAIN page', NEW j \in DOMAIN page', i < j,
                      page'[i].metric = page'[j].metric, page'[j].nr # 0
               PROVE  page'[i].nr < page'[j].nr
    BY DEF PageInOrder
  <2>1. CASE j \in DOMAIN page
    <3>1. i \in DOMAIN page
      BY <1>2, <1>5, <2>1, LineTypes
    <3>2. QED
      BY <1>5, <1>7, <2>1, <3>1 DEF PageInOrder
  <2>2. CASE j \notin DOMAIN page
    <3>1. page'[j] = k /\ j = Len(page')
      BY <1>4, <1>5, <2>2
    <3>2. CASE i \in DOMAIN page
      BY <1>5, <1>7, <1>11, <3>1, <3>2 DEF PageBeforeKept, k, m
    <3>3. CASE i \notin DOMAIN page
      <4>1. page'[i] = d
        BY <1>5, <3>1, <3>3, LineTypes
      <4>2. QED
        BY <1>4, <1>11, <3>1, <4>1
    <3>4. QED
      BY <3>2, <3>3
  <2>3. QED
    BY <2>1, <2>2
<1>18. QED
  BY <1>7, <1>14, <1>15, <1>16, <1>17 DEF SamplesInv

LEMMA SamplesStay == IInv /\ PageInv /\ SamplesInv /\ [Next]_vars => SamplesInv'
<1> SUFFICES ASSUME IInv, PageInv, SamplesInv, [Next]_vars
             PROVE  SamplesInv'
  OBVIOUS
<1> USE DEF SamplesInv, CompleteInv
<1>1. ASSUME UNCHANGED <<response, kept, page>>
      PROVE  /\ SampleLines' = SampleLines /\ KeptLines' = KeptLines
             /\ \A n : Due(n)' = Due(n)
             /\ KeptInOrder' <=> KeptInOrder
             /\ PageBeforeKept' <=> PageBeforeKept
             /\ PageInOrder' <=> PageInOrder
  BY <1>1 DEF SampleLines, KeptLines, Due, KeptInOrder, PageBeforeKept, PageInOrder
<1>2. CASE UNCHANGED vars
  <2>1. UNCHANGED <<phase, response, at, kept, page>>
    BY <1>2 DEF vars
  <2>2. Due(at - 1)' = Due(at - 1) /\ (Rendered' <=> Rendered)
        /\ Due(Len(response.samples))' = Due(Len(response.samples))
    BY <2>1 DEF Due, Rendered
  <2>3. QED
    BY <1>1, <2>1, <2>2
<1>3. ASSUME NEW r \in Responses, Answers(r)
      PROVE  SamplesInv'
  BY <1>3 DEF Answers, Rendered
<1>4. CASE Fails
  BY <1>4 DEF Fails, Rendered, IInv, StageInv
<1>5. CASE RelayHeader
  BY <1>5 DEF RelayHeader, Rendered
<1>6. CASE HeadersDone
  <2>1. /\ response \in Responses /\ kept = << >> /\ page = << >>
        /\ UNCHANGED <<response, kept>>
        /\ \/ phase' = "filtering" /\ at' = 1 /\ page' = page
           \/ phase' = "done" /\ ~response.ok
    BY <1>6 DEF HeadersDone, IInv, StageInv
  <2>2. CASE phase' = "filtering"
    <3>1. Due(at - 1)' = {} /\ KeptLines' = {} /\ KeptInOrder' /\ ~Rendered'
      BY <2>1, <2>2 DEF Due, KeptLines, KeptInOrder, Rendered
    <3>2. QED
      BY <2>2, <3>1
  <2>3. CASE phase' = "done"
    BY <2>1, <2>3 DEF Rendered
  <2>4. QED
    BY <2>1, <2>2, <2>3
<1>7. CASE FilteringDone
  <2>1. /\ at - 1 = Len(response.samples) /\ page = << >> /\ phase = "filtering"
        /\ UNCHANGED <<response, at, kept, page>> /\ phase' = "rendering"
    BY <1>7, ResponseType DEF FilteringDone, IInv, StageInv
  <2>2. SampleLines = {} /\ PageBeforeKept /\ PageInOrder
    BY <2>1 DEF SampleLines, PageBeforeKept, PageInOrder
  <2>3. Due(Len(response.samples))' = Due(at - 1)
    BY <2>1 DEF Due
  <2>4. QED
    BY <1>1, <2>1, <2>2, <2>3
<1>8. CASE RenderingDone
  <2>1. Due(Len(response.samples))' = Due(Len(response.samples))
    BY <1>8 DEF RenderingDone, Due
  <2>2. UNCHANGED <<response, kept, page>> /\ phase = "rendering" /\ phase' = "done"
    BY <1>8 DEF RenderingDone
  <2>3. QED
    BY <1>1, <2>1, <2>2
<1>9. QED
  BY <1>2, <1>3, <1>4, <1>5, <1>6, <1>7, <1>8, FilterKeepsSamples, RenderKeepsSamples DEF Next

\* Whatever the backend sends and the filters keep (proxy.rs, apply_filters and
\* render_scrape_data): the page has the samples that are kept and no others, and those
\* of a metric in the order the parser gave them in, although the metrics are sorted.
THEOREM SamplesKeepTheirOrder == Spec => []EachInItsOrder
<1>1. Init => SamplesInv
  BY DEF Init, SamplesInv, CompleteInv, Rendered
<1>2. IInv /\ SamplesInv => EachInItsOrder
  <2> SUFFICES ASSUME IInv, SamplesInv, Rendered
               PROVE  EachInItsOrder
    BY DEF EachInItsOrder
  <2>1. kept = << >> /\ DOMAIN response.samples = 1 .. Len(response.samples)
    <3>1. kept = << >> /\ response \in Responses
      BY DEF Rendered, IInv, TypeOK, StageInv
    <3>2. response.samples \in Seq([metric : Metrics, keep : BOOLEAN])
      BY <3>1, ResponseType
    <3>3. QED
      BY <3>1, <3>2, LenProperties
  <2>2. SampleLines = Due(Len(response.samples)) /\ PageInOrder
    <3>1. KeptLines = {}
      BY <2>1 DEF KeptLines
    <3>2. QED
      BY <3>1 DEF SamplesInv, CompleteInv
  <2>3. QED
    BY <2>1, <2>2 DEF EachInItsOrder, SampleLines, Due, PageInOrder
<1>3. IInv /\ PageInv /\ SamplesInv /\ [Next]_vars => SamplesInv'
  BY SamplesStay
<1>4. Init => PageInv
  BY DEF Init, PageInv, Rendered
<1>5. QED
  BY <1>1, <1>2, <1>3, <1>4, Invariance, PageStays, PTL DEF Spec
=============================================================================
