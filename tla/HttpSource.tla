----------------------------- MODULE HttpSource -----------------------------
(***************************************************************************)
(* The calls on an HTTP source without two-step auth                       *)
(* (datasources/http_api.py): execute() sends one request for a configured *)
(* resource, schema_info() samples the resources that declare no columns   *)
(* one after the other, health_check() probes the base URL.  They share    *)
(* one client, which disconnect() may close while they wait.               *)
(*                                                                         *)
(* The server is external: it may answer with any status, with or without  *)
(* a content-length, with JSON or not, too much of it or too late.         *)
(***************************************************************************)
EXTENDS Integers, Sequences, SequencesExt, FiniteSets, FiniteSetsExt

CONSTANTS
    Calls,     \* calls on the source; each is made once
    Resources, \* [[sources.resources]]: a sequence of records
    Params,    \* the sets of params a request may have
    Statuses,  \* HTTP statuses the server may answer with
    MaxBytes,  \* max_response_bytes
    RowsAsked    \* max_rows of a request, or the source's

NoName == "every resource"

HttpAssumption ==
    /\ Resources \in Seq(ToSet(Resources))
    /\ \A k \in DOMAIN Resources :
         /\ Resources[k].method \in {"GET", "POST", "PUT", "PATCH", "DELETE"}
         /\ Resources[k].declared \in BOOLEAN \* it lists its columns
         /\ IsFiniteSet(Resources[k].tokens)   \* of its body template
         /\ Resources[k].name # NoName
    /\ MaxBytes \in Nat \ {0} /\ RowsAsked \in Nat \ {0}
    /\ Statuses \subseteq 200 .. 599

Names == {Resources[k].name : k \in DOMAIN Resources}

\* What comes of a request.  length is the content-length, 0 for none; rows is
\* the number of rows found in the body, NotJson for a body that is not JSON.
NotJson  == -1
Failures == {"timeout", "refused", "broken"}
Response ==
    {r \in [status : Statuses, length : 0 .. MaxBytes + 1, size : 1 .. MaxBytes + 1,
            rows : NotJson .. RowsAsked + 1] : r.length \in {0, r.size}}
Failure  == [failure : Failures]

VARIABLES
    client,  \* self._client: open, closing (aclose has begun) or none
    pc,      \* per call: idle, execute, schema, health (they wait) or answered
    todo,    \* per call of schema_info: resources it has still to describe
    entries, \* per call of schema_info: the resources described so far
    answer,  \* per call: what it returned or raised
    got,     \* history: per call, the last response
    asked    \* history: per call of schema_info, the resources it was asked for

call == <<pc, todo, entries, answer, got, asked>>
vars == <<client, call>>

NoAnswer   == [code |-> "none", rows |-> 0]
NoResponse == [failure |-> "none"]

\* connect() has been called: a source is in the registry only after that.
Init ==
    /\ client = "open"
    /\ pc = [c \in Calls |-> "idle"]
    /\ todo = [c \in Calls |-> <<>>] /\ entries = [c \in Calls |-> <<>>]
    /\ answer = [c \in Calls |-> NoAnswer]
    /\ got = [c \in Calls |-> NoResponse]
    /\ asked = [c \in Calls |-> <<>>]

Answer(c, code, rows) ==
    /\ pc' = [pc EXCEPT ![c] = "answered"]
    /\ answer' = [answer EXCEPT ![c] = [code |-> code, rows |-> rows]]

Raise(c, code) == Answer(c, code, 0)

\* An open client takes the request; a closed one raises RuntimeError, and None
\* has no such method: neither is a DataSourceError.
Request(c, kind) ==
    IF client = "open" THEN pc' = [pc EXCEPT ![c] = kind] /\ UNCHANGED answer ELSE Raise(c, "raw")

-----------------------------------------------------------------------------
(* execute()                                                               *)

Find(name) == Resources[Min({k \in DOMAIN Resources : Resources[k].name = name})]

\* _render_body_template: every token of the template needs a param.
Unbound(r, params) == r.method \in {"POST", "PUT", "PATCH"} /\ ~(r.tokens \subseteq params)

Execute(c, name, params) ==
    /\ pc[c] = "idle"
    /\ \/ client = "none" /\ Raise(c, "NOT_CONNECTED")
       \/ client # "none" /\ name \notin Names /\ Raise(c, "RESOURCE_NOT_FOUND")
       \/ /\ client # "none" /\ name \in Names
          /\ LET r == Find(name) IN
             CASE r.method = "DELETE" -> Raise(c, "UNSUPPORTED_METHOD")
               [] Unbound(r, params)  -> Raise(c, "INVALID_BINDING")
               [] OTHER               -> Request(c, "execute")
    /\ UNCHANGED <<client, todo, entries, got, asked>>

\* raise_for_status() and _STATUS_CODE_MAP
StatusCode(status) ==
    CASE status = 401 -> "AUTH_FAILED"
      [] status \in 400 .. 499 \ {401} -> "HTTP_CLIENT_ERROR"
      [] OTHER -> "HTTP_SERVER_ERROR"

FailureCode(f) ==
    CASE f = "timeout" -> "TIMEOUT" [] f = "refused" -> "CONNECTION_FAILED" [] OTHER -> "raw"

Success(r) == r.status \in 200 .. 299

\* Seeded fault: only the announced length is compared with the limit.
TooLargeAsAnnounced(r) == FALSE

\* The body is measured as well.
TooLarge(r) == r.size > MaxBytes

\* Header, status, JSON, body, rows: in this order.
Executed(c, r) ==
    /\ pc[c] = "execute"
    /\ got' = [got EXCEPT ![c] = r]
    /\ CASE r \in Failure -> Raise(c, FailureCode(r.failure))
         [] r \notin Failure /\ r.length > MaxBytes -> Raise(c, "RESPONSE_TOO_LARGE")
         [] r \notin Failure /\ r.length <= MaxBytes /\ ~Success(r) -> Raise(c, StatusCode(r.status))
         [] r \notin Failure /\ r.length <= MaxBytes /\ Success(r) ->
              IF r.rows = NotJson THEN Raise(c, "raw")
              ELSE IF TooLarge(r) THEN Raise(c, "RESPONSE_TOO_LARGE")
              ELSE Answer(c, "ok", Min({r.rows, RowsAsked}))
    /\ UNCHANGED <<client, todo, entries, asked>>

-----------------------------------------------------------------------------
(* schema_info()                                                           *)

\* How many of the first resources declare their columns.
Declared(list) ==
    Min({k \in 0 .. Len(list) : k = Len(list) \/ ~list[k + 1].declared})

\* Declared resources are described without a request; then the next is sampled,
\* or the schema is returned.
Proceed(c, list, done) ==
    LET n == Declared(list)
        so == done \o [k \in 1 .. n |-> [name |-> list[k].name, how |-> "declared"]]
    IN  /\ entries' = [entries EXCEPT ![c] = so]
        /\ todo' = [todo EXCEPT ![c] = SubSeq(list, n + 1, Len(list))]
        /\ IF n = Len(list) THEN Answer(c, "ok", 0) ELSE Request(c, "schema")

\* The resources of a name, in their order; the k-th of them has k such up to it.
Named(name) ==
    LET those == {k \in DOMAIN Resources : Resources[k].name = name}
    IN  [k \in 1 .. Cardinality(those) |->
           Resources[CHOOSE m \in those : Cardinality({n \in those : n <= m}) = k]]

Targets(name) == IF name = NoName THEN Resources ELSE Named(name)

SchemaInfo(c, name) ==
    /\ pc[c] = "idle"
    /\ LET targets == Targets(name) IN
       \/ client = "none" /\ Raise(c, "NOT_CONNECTED") /\ UNCHANGED <<todo, entries, asked>>
       \/ /\ client # "none" /\ name # NoName /\ targets = <<>>
          /\ Raise(c, "RESOURCE_NOT_FOUND") /\ UNCHANGED <<todo, entries, asked>>
       \/ /\ client # "none" /\ (name = NoName \/ targets # <<>>)
          /\ asked' = [asked EXCEPT ![c] = targets]
          /\ Proceed(c, targets, <<>>)
    /\ UNCHANGED <<client, got>>

\* Seeded fault: a resource that cannot be sampled is left out.
DescribeSkips(done, r, how) ==
    IF how = "sampled" THEN Append(done, [name |-> r.name, how |-> how]) ELSE done

Describe(done, r, how) == Append(done, [name |-> r.name, how |-> how])

\* An error status gives a column named error; a timeout or a refused connection
\* none; a broken connection or a body that is not JSON is not caught.
Sampled(c, r) ==
    LET how == CASE r \in Failure -> "empty" [] r \notin Failure /\ ~Success(r) -> "error" [] OTHER -> "sampled"
        raw == IF r \in Failure THEN r.failure = "broken" ELSE Success(r) /\ r.rows = NotJson
    IN  /\ pc[c] = "schema"
        /\ got' = [got EXCEPT ![c] = r]
        /\ IF raw THEN Raise(c, "raw") /\ UNCHANGED <<todo, entries>>
           ELSE Proceed(c, Tail(todo[c]), Describe(entries[c], Head(todo[c]), how))
        /\ UNCHANGED <<client, asked>>

-----------------------------------------------------------------------------
(* health_check(), list_resources() and disconnect()                       *)

HealthCheck(c) ==
    /\ pc[c] = "idle"
    /\ IF client = "open" THEN pc' = [pc EXCEPT ![c] = "health"] /\ UNCHANGED answer
       ELSE Answer(c, "unhealthy", 0)
    /\ UNCHANGED <<client, todo, entries, got, asked>>

Checked(c, r) ==
    /\ pc[c] = "health"
    /\ got' = [got EXCEPT ![c] = r]
    /\ Answer(c, IF r \notin Failure /\ r.status < 400 THEN "healthy" ELSE "unhealthy", 0)
    /\ UNCHANGED <<client, todo, entries, asked>>

\* list_resources() reads the configuration, connected or not.
ListResources(c) ==
    /\ pc[c] = "idle"
    /\ Answer(c, "ok", Len(Resources))
    /\ UNCHANGED <<client, todo, entries, got, asked>>

Disconnect == client = "open" /\ client' = "closing" /\ UNCHANGED call
Disconnected == client = "closing" /\ client' = "none" /\ UNCHANGED call

Settled(c, r) == Executed(c, r) \/ Sampled(c, r) \/ Checked(c, r)

Next ==
    \/ \E c \in Calls :
         \/ \E name \in Names \cup {"unknown"}, p \in Params : Execute(c, name, p)
         \/ \E name \in Names \cup {"unknown", NoName} : SchemaInfo(c, name)
         \/ HealthCheck(c) \/ ListResources(c)
         \/ \E r \in Response \cup Failure : Settled(c, r)
    \/ Disconnect \/ Disconnected

Spec == Init /\ [][Next]_vars

-----------------------------------------------------------------------------
(* Properties                                                              *)

Codes == {"none", "ok", "raw", "NOT_CONNECTED", "RESOURCE_NOT_FOUND", "UNSUPPORTED_METHOD",
          "INVALID_BINDING", "TIMEOUT", "CONNECTION_FAILED", "RESPONSE_TOO_LARGE", "AUTH_FAILED",
          "HTTP_CLIENT_ERROR", "HTTP_SERVER_ERROR", "healthy", "unhealthy"}

TypeOK ==
    /\ client \in {"open", "closing", "none"}
    /\ pc \in [Calls -> {"idle", "execute", "schema", "health", "answered"}]
    /\ \A c \in Calls : answer[c].code \in Codes
    /\ \A c \in Calls : (pc[c] = "answered") <=> (answer[c].code # "none")
    /\ \A c \in Calls : pc[c] = "schema" => todo[c] # <<>> /\ ~Head(todo[c]).declared
    /\ \A c \in Calls : Len(todo[c]) + Len(entries[c]) = Len(asked[c]) \/ pc[c] = "answered"
    /\ \A c \in Calls : got[c] \in Response \cup Failure \cup {NoResponse}

\* The rows of an answer never come from an error response or from a body over
\* the limit, announced or not, and are never more than the request's max_rows
\* (http_api.py:388-454).
AnswerWithinLimits ==
    \A c \in Calls : answer[c].code = "ok" /\ got[c] \notin Failure \cup {NoResponse} /\ asked[c] = <<>> =>
        got[c].size <= MaxBytes /\ Success(got[c]) /\ answer[c].rows <= RowsAsked

\* A schema has an entry for every resource it was asked for, in their order,
\* declared ones as declared, whichever of the others could not be sampled
\* (http_api.py:602-675).
EveryResourceDescribed ==
    \A c \in Calls : answer[c].code = "ok" /\ asked[c] # <<>> =>
        /\ Len(entries[c]) = Len(asked[c])
        /\ \A k \in DOMAIN asked[c] :
             /\ entries[c][k].name = asked[c][k].name
             /\ asked[c][k].declared <=> (entries[c][k].how = "declared")

-----------------------------------------------------------------------------
(* Departures: what a document says and the code does not keep.  No run checks *)
(* them; TLC refutes each in the instance of this module's run.                *)

\* openspec/specs/http-api-datasource.md:167, "Errors are structured JSON, never
\* raw tracebacks", and the docstring's list of codes (http_api.py:329-334).
ErrorsAreCoded == \A c \in Calls : asked[c] = <<>> => answer[c].code # "raw"

\* http_api.py:665-666, "Swallow — do not fail the whole introspection because
\* of one misbehaving endpoint": while the source is connected, a schema is
\* returned.
SamplingSurvives == \A c \in Calls : client = "open" /\ asked[c] # <<>> => answer[c].code # "raw"
=============================================================================
