------------------------------ MODULE Routing ------------------------------
(***************************************************************************)
(* HTTPRequestHandlerFactory: which handler a request URI gets.  A URI is  *)
(* a sequence of pieces: the characters "/", "." and "?", the fixed paths, *)
(* "hex" for hexadecimal digits, "json" and other names.                   *)
(***************************************************************************)
EXTENDS StringUtils

Endpoints == {"api/v1/pull", "api/v1/remove-by-attributes", "api/v1/jobs.json",
              "api/v1/layers.json", "api/v1/status.json"}

getJobPath == "api/v1/job/"

Resources == {"index.html"}

\* Mutant of normalizeUri: only the leading slash is cut off.
normalizeUriSlash(uri) ==
    LET P == {n \in DOMAIN uri : uri[n] = "?"}
    IN  SubSeq(uri, 2, IF P = {} THEN Len(uri) ELSE Min(P) - 1)

\* Leading dots and slashes and the parameters are cut off.
normalizeUri(uri) ==
    LET start == FirstNotOf(uri, {".", "/"})
        params == {n \in DOMAIN uri : uri[n] = "?"}
    IN  SubSeq(uri, IF start = npos THEN 2 ELSE start,
               IF params = {} THEN Len(uri) ELSE Min(params) - 1)

\* The rest of the path of a job is its id and ".json".  If nothing follows
\* the id, compare(npos, ...) throws std::out_of_range.
JobRequest(endpoint) ==
    LET rest == Tail(endpoint)
        end == FirstNotOf(rest, {"hex"})
    IN  IF end = npos THEN "out_of_range"
        ELSE IF SubSeq(rest, end, Len(rest)) = <<".", "json">> /\ end # 1
        THEN "job" ELSE "none"

StaticResource(endpoint) ==
    IF endpoint = <<>> THEN "index.html"
    ELSE IF Len(endpoint) = 1 /\ Head(endpoint) \in Resources THEN Head(endpoint)
    ELSE "not_found"

createRequestHandler(uri) ==
    LET endpoint == normalizeUri(uri)
    IN  IF Len(endpoint) = 1 /\ Head(endpoint) \in Endpoints THEN Head(endpoint)
        ELSE IF endpoint # <<>> /\ Head(endpoint) = getJobPath /\ JobRequest(endpoint) # "none"
        THEN JobRequest(endpoint)
        ELSE StaticResource(endpoint)

=============================================================================
