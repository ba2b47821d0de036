----------------------------- MODULE MCExposition ----------------------------
(***************************************************************************)
(* Values for the constants of Exposition.                                 *)
(***************************************************************************)
EXTENDS Exposition

Names       == {"content-type", "content-length", "connection", "vary"}
Values      == {"v1", "v2"}
Three       == 1..3

AllHeaders  == [name : Names, value : Values]

HeaderLists == UNION {[1..n -> AllHeaders] : n \in 0..2}
                 \union {<<[name |-> "vary", value |-> "v1"],
                           [name |-> "content-type", value |-> "v1"],
                           [name |-> "vary", value |-> "v2"]>>}
OneHeader   == {<<[name |-> "content-type", value |-> "v1"]>>}
SampleLists(n) == UNION {[1..k -> [metric : Metrics, keep : BOOLEAN]] : k \in 0..n}

MCResponses ==
    [ok : {TRUE}, headers : OneHeader, samples : SampleLists(3), docs : SUBSET Metrics]
      \union [ok : {TRUE}, headers : OneHeader, docs : {{1, 2}},
              samples : [1..5 -> [metric : {1, 2}, keep : {TRUE}]]]
      \union [ok : BOOLEAN, headers : HeaderLists, samples : SampleLists(1), docs : {{}}]
=============================================================================
