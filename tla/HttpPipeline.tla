----------------------------- MODULE HttpPipeline -----------------------------
(***************************************************************************)
(* One HTTP request through the middleware create_app stacks, from outside *)
(* in: Starlette's ServerErrorMiddleware, CorrelationIdMiddleware,         *)
(* AccessLogMiddleware, Starlette's ExceptionMiddleware, and the endpoint. *)
(* A response goes out through the layers around whoever sends it; an      *)
(* exception goes up through them until one handles it.                    *)
(*                                                                         *)
(* An exception is the name of its class.  A response is its status, the   *)
(* correlation id in its body and the one in its header.                   *)
(*                                                                         *)
(* Mut_X is X with a plausible bug; nothing uses it.                       *)
(***************************************************************************)
EXTENDS Naturals, Sequences

CONSTANTS
  Classes,  \* the exception classes an endpoint raises
  Mro,      \* for each, its method resolution order
  Configs   \* the applications and routes considered

BuiltIn == {"HTTPException", "RequestValidationError"}
Renderers == {"problem", "extracting", "custom"}
Statuses == {200, 400, 404, 409, 410, 418, 422, 500}

\* `mappers' are the classes given to register_error_mapper, `table' is the
\* status of each class in the ExceptionMappingTable, `own' says which
\* correlation ids an application's ErrorMapping sets itself, in its headers or
\* extensions.  `health' and what follows belong to the route: its prefix, and
\* its transport policy's renderer and validation status.
IsConfig(c) ==
  /\ {c.access_log, c.log_health, c.health, c.fallback} \subseteq BOOLEAN
  /\ c.renderer \in Renderers /\ c.policy_renderer \in Renderers \cup {"none"}
  /\ c.validation_status \in {400, 422}
  /\ c.mappers \cup DOMAIN c.table \subseteq (Classes \ {"CancelledError"}) \cup {"Exception"}
  /\ c.own \subseteq {"header", "body"}
  /\ \A e \in DOMAIN c.table : c.table[e] \in Statuses
  /\ ~("Exception" \in DOMAIN c.table /\ c.fallback)

\* Only an Exception is mapped, and ExceptionMappingTable refuses a fallback
\* that Exception makes unreachable.
ASSUME ConfigsAssumption == \A c \in Configs : IsConfig(c)
ASSUME ClassesAssumption ==
  /\ BuiltIn \cup {"CancelledError", "RuntimeError"} \subseteq Classes
  /\ Classes \cap {"none", "ClientDisconnect"} = {}
  /\ Mro \in [Classes -> Seq(Classes \cup {"Exception", "BaseException"})]
  /\ \A e \in Classes : Mro[e] # <<>> /\ Mro[e][1] = e

VARIABLES
  config,       \* the application and the route, fixed
  pc,           \* who is at work
  id,           \* request.state.correlation_id
  exc,          \* the exception going up, or "none"
  response,     \* the response being sent
  sent,         \* what the client has got of a response
  status_code,  \* AccessLogMiddleware's local
  logged,       \* its other local
  entries       \* the http_access records written

vars == <<config, pc, id, exc, response, sent, status_code, logged, entries>>

Ids == {"client", "fresh", "other", "none"}
NoResponse == [status |-> 0, body |-> "none", header |-> "none"]
Response == [status : Statuses \cup {0}, body : Ids, header : Ids]
Sent == [status : Statuses \cup {0}, body : Ids, header : Ids, complete : BOOLEAN,
         by : {"nobody", "stack", "server"}]
Entry == [status : Statuses, failed : BOOLEAN]

\* Every variable has its type.
TypeOK ==
  /\ config \in Configs
  /\ pc \in {"received", "endpoint", "handler", "send", "after", "unwind",
             "server_error", "done"}
  /\ id \in Ids
  /\ exc \in Classes \cup {"none", "ClientDisconnect"}
  /\ response \in Response
  /\ sent \in Sent /\ (sent.status = 0 <=> sent.by = "nobody")
  /\ status_code \in Statuses /\ logged \in BOOLEAN
  /\ entries \in Seq(Entry)

Init ==
  /\ config \in Configs
  /\ pc = "received" /\ id = "none" /\ exc = "none"
  /\ response = NoResponse
  /\ sent = [status |-> 0, body |-> "none", header |-> "none", complete |-> FALSE,
             by |-> "nobody"]
  /\ status_code = 500 /\ logged = FALSE /\ entries = <<>>

-----------------------------------------------------------------------------
\* The first class of an exception's MRO among the keys.
Found(e, keys) == \E i \in DOMAIN Mro[e] : Mro[e][i] \in keys
First(e, keys) ==
  Mro[e][CHOOSE i \in DOMAIN Mro[e] :
           Mro[e][i] \in keys /\ \A j \in 1 .. i - 1 : Mro[e][j] \notin keys]

\* ExceptionMiddleware's; the handler of Exception is ServerErrorMiddleware's.
Handlers == (BuiltIn \cup config.mappers) \ {"Exception"}

\* _route_policy's renderer before the application's.
Renderer == IF config.policy_renderer # "none" THEN config.policy_renderer ELSE config.renderer

\* _render_error: the default renderer puts the request's id into the body and
\* the header, one made with an extractor the extractor's, which is another;
\* "custom" is an application's renderer that knows nothing of ids.
\* What the mapping sets itself (own) stays.
Rendered(status, own) ==
  LET Of(part) == CASE Renderer = "custom" -> "none"
                    [] Renderer # "custom" /\ part \in own -> "other"
                    [] Renderer = "extracting" /\ part \notin own -> "other"
                    [] Renderer = "problem" /\ part \notin own -> id
  IN  [status |-> status, body |-> Of("body"), header |-> Of("header")]

\* without the early return
Mut_WriteLog(failed) ==
  IF ~config.access_log THEN UNCHANGED <<logged, entries>>
  ELSE /\ logged' = TRUE
       /\ entries' = IF config.health /\ ~config.log_health THEN entries
                     ELSE Append(entries, [status |-> status_code, failed |-> failed])
\* write_log, once; without access logging the middleware is not there
WriteLog(failed) ==
  IF logged \/ ~config.access_log THEN UNCHANGED <<logged, entries>>
  ELSE /\ logged' = TRUE
       /\ entries' = IF config.health /\ ~config.log_health THEN entries
                     ELSE Append(entries, [status |-> status_code, failed |-> failed])

-----------------------------------------------------------------------------
\* CorrelationIdMiddleware accepts the client's id or makes one.
Receive ==
  /\ pc = "received"
  /\ id' \in {"client", "fresh"} /\ pc' = "endpoint"
  /\ UNCHANGED <<config, exc, response, sent, status_code, logged, entries>>

\* The endpoint returns a response: it is sent through the whole stack.
EndpointReturns ==
  /\ pc = "endpoint"
  /\ \E s \in {200, 404}, h \in {"none", "other"} :
       response' = [status |-> s, body |-> "none", header |-> h]
  /\ pc' = "send"
  /\ UNCHANGED <<config, id, exc, sent, status_code, logged, entries>>

\* An exception in the endpoint, while a body is produced, or in a background
\* task.  ExceptionMiddleware has a handler for it, which can only answer when
\* nothing has been sent, or lets it up.
Raises(e) ==
  /\ pc \in {"endpoint", "after"} \/ (pc = "send" /\ sent.status # 0)
  /\ IF Found(e, Handlers)
     THEN IF sent.status = 0 THEN pc' = "handler" /\ exc' = e
          ELSE pc' = "unwind" /\ exc' = "RuntimeError"
     ELSE pc' = "unwind" /\ exc' = e
  /\ UNCHANGED <<config, id, response, sent, status_code, logged, entries>>

\* The handler of the exception's class renders what its mapper says, or the
\* HTTPException's status and headers, or the validation status.  A mapper,
\* renderer or extractor of the application may itself raise (something no
\* handler is registered for) or be cancelled.
Handle ==
  /\ pc = "handler"
  /\ \/ /\ response' =
             CASE First(exc, Handlers) \in config.mappers -> Rendered(409, config.own)
               [] First(exc, Handlers) \in {"HTTPException"} \ config.mappers ->
                    Rendered(404, config.own \ {"body"})
               [] First(exc, Handlers) \in {"RequestValidationError"} \ config.mappers ->
                    Rendered(config.validation_status, {})
        /\ pc' = "send" /\ exc' = "none"
     \/ /\ First(exc, Handlers) \in config.mappers \/ Renderer # "problem"
        /\ pc' = "unwind" /\ exc' \in {"RuntimeError", "CancelledError"}
        /\ UNCHANGED response
  /\ UNCHANGED <<config, id, sent, status_code, logged, entries>>

\* as setdefault would
Mut_Stamp(header) == IF header = "none" THEN id ELSE header
\* the middleware sets the header, whatever the response says
Stamp(header) == id

\* without nonlocal
Mut_StatusSeen == status_code
StatusSeen == response.status

\* http.response.start on its way out: noted by the access log, stamped, and
\* awaited by the server's send, where the request may be cancelled.
SendStart ==
  /\ pc = "send" /\ sent.status = 0
  /\ status_code' = StatusSeen
  /\ \/ /\ sent' = [status |-> response.status, body |-> response.body,
                    header |-> Stamp(response.header), complete |-> FALSE, by |-> "stack"]
        /\ UNCHANGED <<pc, exc>>
     \/ /\ pc' = "unwind" /\ exc' = "CancelledError"
        /\ UNCHANGED sent
  /\ UNCHANGED <<config, id, response, logged, entries>>

\* after any body message
Mut_LogsBody(more) == TRUE
LogsBody(more) == ~more

\* http.response.body: the access log writes its record after the last one.
SendBody(more) ==
  /\ pc = "send" /\ sent.status # 0
  /\ pc' = IF more THEN "send" ELSE "after"
  /\ sent' = [sent EXCEPT !.complete = ~more]
  /\ UNCHANGED <<config, id, exc, response, status_code>>
  /\ IF LogsBody(more) THEN WriteLog(FALSE) ELSE UNCHANGED <<logged, entries>>

\* The client goes away in the middle: depending on the server's protocol
\* version StreamingResponse raises, or ends without a last body.
Disconnect ==
  /\ pc = "send" /\ sent.status # 0
  /\ \/ pc' = "unwind" /\ exc' = "ClientDisconnect"
     \/ pc' = "after" /\ UNCHANGED exc
  /\ UNCHANGED <<config, id, response, sent, status_code, logged, entries>>

\* Background work is over.
Finish ==
  /\ pc = "after" /\ pc' = "done"
  /\ UNCHANGED <<config, id, exc, response, sent, status_code, logged, entries>>

\* The exception, a cancellation too, passes AccessLogMiddleware and comes to
\* ServerErrorMiddleware, which answers an Exception when nothing has been sent.
Unwind ==
  /\ pc = "unwind"
  /\ UNCHANGED <<config, id, exc, response, sent, status_code>>
  /\ WriteLog(TRUE)
  /\ pc' = IF exc = "CancelledError" \/ sent.status # 0 THEN "done" ELSE "server_error"

\* The status _unhandled_exception_handler gives an exception: that of the
\* table's mapping, or of its fallback, or 500.  A mapper registered for
\* Exception has taken the handler's place.  (The mutant forgets that resolve
\* may return None.)
Mut_Mapped(e) ==
  LET keys == DOMAIN config.table
  IN  CASE Found(e, keys) -> config.table[First(e, keys)]
        [] ~Found(e, keys) -> IF config.fallback THEN 418 ELSE 0
Mapped(e) ==
  LET keys == DOMAIN config.table
  IN  CASE "Exception" \in config.mappers -> 409
        [] "Exception" \notin config.mappers /\ Found(e, keys) -> config.table[First(e, keys)]
        [] "Exception" \notin config.mappers /\ ~Found(e, keys) ->
             IF config.fallback THEN 418 ELSE 500

\* It is an application's mapping, and not the plain 500.
IsMapped(e) ==
  "Exception" \in config.mappers \/ Found(e, DOMAIN config.table) \/ config.fallback

\* The response of ServerErrorMiddleware passes no other middleware.  A mapper,
\* mapping callable, renderer or extractor may raise, and then there is none.
ServerError ==
  /\ pc = "server_error"
  /\ pc' = "done"
  /\ \/ LET r == Rendered(Mapped(exc), IF IsMapped(exc) THEN config.own ELSE {})
        IN  /\ response' = r
            /\ sent' = [status |-> r.status, body |-> r.body, header |-> r.header,
                        complete |-> TRUE, by |-> "server"]
     \/ /\ IsMapped(exc) \/ Renderer # "problem"
        /\ UNCHANGED <<response, sent>>
  /\ UNCHANGED <<config, id, exc, status_code, logged, entries>>

Done == pc = "done" /\ UNCHANGED vars

Next ==
  \/ Receive
  \/ EndpointReturns
  \/ \E e \in Classes : Raises(e)
  \/ Handle
  \/ SendStart
  \/ \E more \in BOOLEAN : SendBody(more)
  \/ Disconnect
  \/ Finish
  \/ Unwind
  \/ ServerError
  \/ Done

Spec == Init /\ [][Next]_vars

-----------------------------------------------------------------------------
(* What the middleware guarantees.                                         *)

Loggable == config.access_log /\ (config.health => config.log_health)

\* A request that was answered in full, or ended in an exception, has one
\* record: also when it is cancelled, when a background task fails after the
\* record was written, or when nothing was ever sent (SRS-OBS-002, -004).
LoggedOnce ==
  pc = "done" =>
    IF Loggable
    THEN /\ Len(entries) <= 1
         /\ sent.complete \/ exc # "none" => Len(entries) = 1
    ELSE entries = <<>>

\* A record without failure is of a response whose last body was sent, with
\* the status the client got.
SuccessIsComplete ==
  \A i \in DOMAIN entries :
    ~entries[i].failed => sent.complete /\ entries[i].status = sent.status

\* The answer of ServerErrorMiddleware has the id its renderer or mapping gives
\* it: nothing stamps it on its way out.
Unstamped ==
  sent.by = "server" /\ (Renderer # "problem" \/ (IsMapped(exc) /\ "header" \in config.own))

\* What the client gets has the request's correlation id in its header exactly
\* unless it is such an answer, contrary to SRS-HTTP-001 and SRS-OBS-006: from
\* whichever layer and handler it comes, after whatever has failed before.
\* And where the renderer is the default one and no mapping sets an id of its
\* own, the body has no other id than the request's.
Correlated ==
  sent.status # 0 =>
    /\ sent.header = id <=> ~Unstamped
    /\ Renderer = "problem" /\ "body" \notin config.own => sent.body \in {"none", id}

\* Of the classes in the mapping table an exception belongs to, one that is a
\* subclass of all the others decides, and a fallback only when there is none.
MostSpecificMapping ==
  sent.by = "server" /\ "Exception" \notin config.mappers =>
    LET own == {c \in DOMAIN config.table : \E i \in DOMAIN Mro[exc] : Mro[exc][i] = c}
        below(c, d) == \E i, j \in DOMAIN Mro[exc] : Mro[exc][i] = c /\ Mro[exc][j] = d /\ i <= j
    IN  IF own = {} THEN sent.status \in {418, 500}
        ELSE \E c \in own : sent.status = config.table[c] /\ \A d \in own : below(c, d)

\* A failed response that was under way when its exception came up is logged
\* with the status the client has seen.
FailureKeepsStatus ==
  pc = "done" /\ entries # <<>> /\ sent.status # 0 /\ ~sent.complete =>
    entries[1].status = sent.status

-----------------------------------------------------------------------------
\* What the documents say and the code does not do.  SRS-ERR-011: a renderer of
\* create_error_renderer gives the body and the header the same correlation id.
BodyMatchesHeader ==
  Renderer # "custom" /\ config.own = {} /\ sent.body # "none" => sent.body = sent.header
=============================================================================
