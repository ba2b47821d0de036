SPECIFICATION Spec
CONSTANTS
    Metrics <- Three
    Headers <- AllHeaders
    HopByHop = {"keep-alive", "transfer-encoding", "te", "connection", "trailer", "upgrade", "proxy-authorization", "proxy-authenticate"}
    Stripped = {"content-length"}
    ContentType = "content-type"
    PlainText = "text/plain"
    Data = Data
    OwnText = OwnText
    Responses <- MCResponses
    NoResponse = NoResponse
INVARIANTS
    TypeOK
    PageIsWellFormed
    EachInItsOrder
    FirstValuesAreRelayed
