------------------------- MODULE HttpPipeline_proofs -------------------------
(***************************************************************************)
(* What one request gets and logs, for every class hierarchy and every      *)
(* combination of applications and routes.                                  *)
(***************************************************************************)
EXTENDS HttpPipeline, SequenceTheorems, SequenceLemmas, TLAPS

-----------------------------------------------------------------------------
(* The mapping table.                                                       *)

\* Of the positions of an MRO that are mapped there is a first one.
LEMMA FirstPosition ==
  ASSUME NEW e \in Classes, NEW keys, Found(e, keys)
  PROVE  \E i \in DOMAIN Mro[e] :
           Mro[e][i] \in keys /\ \A j \in 1 .. i - 1 : Mro[e][j] \notin keys
<1> DEFINE T == {i \in DOMAIN Mro[e] : Mro[e][i] \in keys}
<1>1. Mro[e] \in Seq(Classes \cup {"Exception", "BaseException"})
  BY ClassesAssumption
<1>2. DOMAIN Mro[e] = 1 .. Len(Mro[e]) /\ Len(Mro[e]) \in Nat
  BY <1>1
<1>3. T \subseteq Nat /\ T # {}
  BY <1>2 DEF Found
<1> HIDE DEF T
<1>4. PICK i \in T : \A j \in T : i <= j
  BY <1>3, FirstOf
<1>5. \A j \in T : ~(j < i)
  BY <1>3, <1>4
<1>6. i \in DOMAIN Mro[e] /\ Mro[e][i] \in keys
  BY <1>4 DEF T
<1>7. ASSUME NEW j \in 1 .. i - 1 PROVE Mro[e][j] \notin keys
  BY <1>2, <1>5, <1>6, <1>7 DEF T
<1> QED
  BY <1>6, <1>7

\* First picks a mapped class, and no mapped class comes before it.
LEMMA FirstFound ==
  ASSUME NEW e \in Classes, NEW keys, Found(e, keys)
  PROVE  \E i \in DOMAIN Mro[e] :
           /\ First(e, keys) = Mro[e][i] /\ First(e, keys) \in keys
           /\ \A j \in 1 .. i - 1 : Mro[e][j] \notin keys
<1> DEFINE Is(i) == Mro[e][i] \in keys /\ \A j \in 1 .. i - 1 : Mro[e][j] \notin keys
           p == CHOOSE i \in DOMAIN Mro[e] : Is(i)
<1>1. \E i \in DOMAIN Mro[e] : Is(i)
  BY FirstPosition
<1>2. First(e, keys) = Mro[e][p]
  BY DEF First
<1> HIDE DEF Is
<1>3. p \in DOMAIN Mro[e] /\ Is(p)
  BY <1>1
<1> HIDE DEF p
<1> QED
  BY <1>2, <1>3 DEF Is

\* A mapping, the fallback or the plain answer is a status of HTTP.
LEMMA MappedType ==
  ASSUME NEW e \in Classes, config \in Configs
  PROVE  Mapped(e) \in Statuses
<1>1. IsConfig(config)
  BY ConfigsAssumption
<1>2. ASSUME Found(e, DOMAIN config.table)
      PROVE  config.table[First(e, DOMAIN config.table)] \in Statuses
  BY <1>1, <1>2, FirstFound DEF IsConfig
<1> QED
  BY <1>2 DEF Mapped, Statuses

-----------------------------------------------------------------------------
(* What is rendered.                                                        *)

\* A rendered response has a body and a header that name an id or none, with
\* the default renderer the request's unless the mapping has its own.
LEMMA RenderedIds ==
  ASSUME NEW status \in Statuses, NEW own, id \in Ids, config \in Configs
  PROVE  /\ Rendered(status, own) \in Response
         /\ Rendered(status, own).status = status
         /\ Renderer = "problem" /\ "body" \notin own => Rendered(status, own).body = id
         /\ IF Renderer = "problem" /\ "header" \notin own
            THEN Rendered(status, own).header = id
            ELSE Rendered(status, own).header \in {"none", "other"}
<1>1. Renderer \in Renderers
  BY ConfigsAssumption DEF IsConfig, Renderer
<1> QED
  BY <1>1 DEF Rendered, Response, Renderers, Ids

-----------------------------------------------------------------------------
(* The inductive invariant.                                                 *)

\* What is under way, by who is at work.
PhaseInv ==
  /\ pc # "received" => id \in {"client", "fresh"}
  /\ pc \in {"received", "endpoint", "handler"} => sent.by = "nobody"
  /\ pc \in {"received", "endpoint", "handler", "send"} => ~logged /\ ~sent.complete
  /\ pc \in {"received", "endpoint", "send", "after"} => exc = "none"
  /\ pc \in {"handler", "unwind", "server_error"} => exc # "none"
  /\ pc = "send" => response.status # 0
  /\ pc = "after" => sent.by = "stack"
  /\ pc = "handler" => exc \in Classes /\ Found(exc, Handlers)
  /\ pc = "server_error" => sent.by = "nobody"
  /\ exc = "ClientDisconnect" => sent.by = "stack"
  /\ sent.by = "nobody" => ~sent.complete /\ sent.body = "none"
  /\ sent.by = "server" =>
       /\ pc = "done" /\ exc \in Classes /\ sent.complete
       /\ sent.status = Mapped(exc)

\* The record is written when the response is complete or has failed.
LogInv ==
  /\ ~logged => entries = <<>>
  /\ logged => config.access_log /\ (entries # <<>> <=> Loggable)
  /\ Len(entries) <= 1
  /\ config.access_log /\ sent.complete => logged
  /\ config.access_log /\ pc \in {"server_error", "done"} /\ exc # "none" => logged

\* The access log's status is that of the response under way.
StatusInv ==
  sent.by = "stack" =>
    /\ status_code = sent.status
    /\ \A i \in DOMAIN entries : entries[i].status = sent.status

\* A response rendered by the default renderer has the request's id.
BodyInv ==
  pc = "send" /\ Renderer = "problem" /\ "body" \notin config.own =>
    response.body \in {"none", id}

IInv ==
  /\ TypeOK /\ PhaseInv /\ LogInv /\ StatusInv /\ BodyInv
  /\ SuccessIsComplete /\ Correlated

\* An application that has not yet received the request.
LEMMA InitInv == Init => IInv
<1> SUFFICES ASSUME Init PROVE IInv
  OBVIOUS
<1> USE DEF Init
<1>1. TypeOK
  <2>1. logged \in BOOLEAN
    OBVIOUS
  <2>5. entries \in Seq(Entry)
    BY EmptySeq
  <2>2. response \in Response
    BY DEF NoResponse, Response, Ids
  <2>3. sent \in Sent /\ sent.status = 0 /\ sent.by = "nobody"
    BY DEF Sent, Ids
  <2>4. status_code \in Statuses /\ id \in Ids
    BY DEF Statuses, Ids
  <2> QED
    BY <2>1, <2>2, <2>3, <2>4, <2>5 DEF TypeOK
<1>2. PhaseInv /\ LogInv /\ StatusInv /\ BodyInv
  BY DEF PhaseInv, LogInv, StatusInv, BodyInv
<1>3. SuccessIsComplete /\ Correlated
  BY DEF SuccessIsComplete, Correlated
<1> QED
  BY <1>1, <1>2, <1>3 DEF IInv

-----------------------------------------------------------------------------
(* The record.                                                              *)

\* write_log keeps the type of what it writes.
LEMMA WriteLogType ==
  ASSUME TypeOK, NEW failed \in BOOLEAN, WriteLog(failed)
  PROVE  logged' \in BOOLEAN /\ entries' \in Seq(Entry)
<1>1. [status |-> status_code, failed |-> failed] \in Entry
  BY DEF TypeOK, Entry
<1>2. logged' \in BOOLEAN
  BY DEF TypeOK, WriteLog
<1>3. entries' \in {entries, Append(entries, [status |-> status_code, failed |-> failed])}
  BY DEF WriteLog
<1>4. entries \in Seq(Entry)
  BY DEF TypeOK
<1> QED
  BY <1>1, <1>2, <1>3, <1>4, AppendProperties

\* After write_log there is a record if there should be one; it is the old one,
\* or has the status seen.
LEMMA WriteLogRecord ==
  ASSUME TypeOK, LogInv, NEW failed \in BOOLEAN, WriteLog(failed), config' = config
  PROVE  /\ config.access_log => logged'
         /\ logged' => config.access_log /\ (entries' # <<>> <=> Loggable)
         /\ ~logged' => entries' = <<>>
         /\ Len(entries') <= 1
         /\ \/ logged' = logged /\ entries' = entries
            \/ entries' = <<>>
            \/ ~logged /\ entries' = <<[status |-> status_code, failed |-> failed]>>
<1>1. CASE logged \/ ~config.access_log
  BY <1>1 DEF WriteLog, LogInv
<1>2. CASE ~logged /\ config.access_log
  <2>1. entries = <<>>
    BY <1>2 DEF LogInv
  <2>2. CASE config.health /\ ~config.log_health
    BY <1>2, <2>1, <2>2 DEF WriteLog, Loggable
  <2>3. CASE ~(config.health /\ ~config.log_health)
    <3>1. entries' = <<[status |-> status_code, failed |-> failed]>>
      BY <1>2, <2>1, <2>3 DEF WriteLog
    <3>2. logged' = TRUE /\ Loggable
      BY <1>2, <2>3 DEF WriteLog, Loggable
    <3>3. entries' # <<>> /\ Len(entries') <= 1
      BY <3>1
    <3> QED
      BY <1>2, <3>1, <3>2, <3>3
  <2> QED
    BY <2>2, <2>3
<1> QED
  BY <1>1, <1>2

-----------------------------------------------------------------------------
(* One lemma per step.                                                      *)

\* An exception that comes up or is handled changes nothing of what was sent
\* through the stack.
LEMMA StackSent ==
  ASSUME Correlated, sent.by # "server", UNCHANGED <<config, id, sent>>
  PROVE  Correlated'
BY DEF Correlated, Unstamped, Renderer

\* A request gets its id before anything else.
LEMMA ReceiveInv == IInv /\ Receive => IInv'
<1> SUFFICES ASSUME IInv, Receive PROVE IInv'
  OBVIOUS
<1> USE DEF IInv, Receive
<1>1. TypeOK'
  BY DEF TypeOK, Ids
<1>2. PhaseInv' /\ LogInv' /\ StatusInv' /\ BodyInv'
  BY DEF PhaseInv, LogInv, StatusInv, BodyInv, Loggable, Mapped
<1>3. SuccessIsComplete' /\ Correlated'
  BY DEF TypeOK, PhaseInv, SuccessIsComplete, Correlated, Unstamped
<1> QED
  BY <1>1, <1>2, <1>3

\* The endpoint's response is on its way.
LEMMA EndpointReturnsInv == IInv /\ EndpointReturns => IInv'
<1> SUFFICES ASSUME IInv, EndpointReturns PROVE IInv'
  OBVIOUS
<1> USE DEF IInv, EndpointReturns
<1>1. TypeOK'
  BY DEF TypeOK, Response, Statuses, Ids
<1>2. PhaseInv' /\ LogInv' /\ StatusInv' /\ BodyInv'
  BY DEF PhaseInv, LogInv, StatusInv, BodyInv, Loggable, Mapped
<1>3. SuccessIsComplete' /\ Correlated'
  BY DEF SuccessIsComplete, Correlated, Unstamped, IsMapped, Renderer
<1> QED
  BY <1>1, <1>2, <1>3

\* An exception changes only who is at work.
LEMMA RaisesInv == ASSUME IInv, NEW e \in Classes, Raises(e) PROVE IInv'
<1> USE DEF IInv, Raises
<1>1. TypeOK'
  BY ClassesAssumption DEF TypeOK
<1>2. PhaseInv'
  <2>1. sent.by = "nobody" <=> sent.status = 0
    BY DEF TypeOK
  <2>2. sent.by # "server"
    BY DEF PhaseInv
  <2>3. CASE Found(e, Handlers) /\ sent.status = 0
    BY <2>1, <2>2, <2>3, ClassesAssumption DEF PhaseInv, Handlers
  <2>4. CASE ~(Found(e, Handlers) /\ sent.status = 0)
    BY <2>1, <2>2, <2>4, ClassesAssumption DEF PhaseInv
  <2> QED
    BY <2>3, <2>4
<1>3. LogInv' /\ StatusInv' /\ BodyInv'
  BY DEF PhaseInv, LogInv, StatusInv, BodyInv, Loggable
<1>4. SuccessIsComplete' /\ Correlated'
  BY StackSent DEF PhaseInv, SuccessIsComplete
<1> QED
  BY <1>1, <1>2, <1>3, <1>4

\* A handler renders the request's id, or fails.
LEMMA HandleInv == IInv /\ Handle => IInv'
<1> SUFFICES ASSUME IInv, Handle PROVE IInv'
  OBVIOUS
<1> USE DEF IInv, Handle
<1>1. First(exc, Handlers) \in BuiltIn \cup config.mappers
  BY FirstFound DEF PhaseInv, Handlers
<1>2. config.validation_status \in Statuses /\ 409 \in Statuses /\ 404 \in Statuses
  BY ConfigsAssumption DEF TypeOK, IsConfig, Statuses
<1>3. CASE pc' = "send"
  <2>1. PICK status \in Statuses, own \in {config.own, config.own \ {"body"}, {}} :
          response' = Rendered(status, own)
    BY <1>1, <1>2, <1>3 DEF BuiltIn
  <2>2. /\ response' \in Response /\ response'.status = status
        /\ Renderer = "problem" /\ "body" \notin config.own => response'.body = id
    BY <2>1, RenderedIds DEF TypeOK
  <2>3. status # 0
    BY DEF Statuses
  <2>4. TypeOK'
    BY <1>3, <2>2 DEF TypeOK
  <2>5. PhaseInv' /\ LogInv' /\ StatusInv'
    BY <1>3, <2>2, <2>3 DEF PhaseInv, LogInv, StatusInv, Loggable, Mapped
  <2>6. BodyInv'
    BY <2>2 DEF BodyInv, Renderer
  <2>7. SuccessIsComplete' /\ Correlated'
    BY StackSent DEF PhaseInv, SuccessIsComplete
  <2> QED
    BY <2>4, <2>5, <2>6, <2>7
<1>4. CASE pc' = "unwind"
  <2>1. TypeOK'
    BY <1>4, ClassesAssumption DEF TypeOK
  <2>2. PhaseInv' /\ LogInv' /\ StatusInv' /\ BodyInv'
    BY <1>4 DEF PhaseInv, LogInv, StatusInv, BodyInv, Loggable, Mapped
  <2>3. SuccessIsComplete' /\ Correlated'
    BY StackSent DEF PhaseInv, SuccessIsComplete
  <2> QED
    BY <2>1, <2>2, <2>3
<1> QED
  BY <1>3, <1>4

\* The start of a response is noted and stamped.
LEMMA SendStartInv == IInv /\ SendStart => IInv'
<1> SUFFICES ASSUME IInv, SendStart PROVE IInv'
  OBVIOUS
<1> USE DEF IInv, SendStart, StatusSeen, Stamp
<1>1. TypeOK'
  <2>1. response.status \in Statuses /\ response.body \in Ids /\ response.status # 0
    BY DEF TypeOK, PhaseInv, Response
  <2>2. sent' \in Sent /\ (sent'.status = 0 <=> sent'.by = "nobody")
    <3>1. CASE sent' = sent
      BY <3>1 DEF TypeOK
    <3>2. CASE sent' = [status |-> response.status, body |-> response.body, header |-> id,
                        complete |-> FALSE, by |-> "stack"]
      BY <2>1, <3>2 DEF TypeOK, Sent
    <3> QED
      BY <3>1, <3>2
  <2>3. exc' \in Classes \cup {"none", "ClientDisconnect"}
    BY ClassesAssumption DEF TypeOK
  <2> QED
    BY <2>1, <2>2, <2>3 DEF TypeOK
<1>2. PhaseInv' /\ LogInv' /\ StatusInv' /\ BodyInv'
  BY DEF TypeOK, PhaseInv, LogInv, StatusInv, BodyInv, Loggable, Mapped, Sent, Renderer
<1>3. SuccessIsComplete' /\ Correlated'
  BY DEF TypeOK, PhaseInv, LogInv, BodyInv, SuccessIsComplete, Correlated, Unstamped, IsMapped, Renderer, Sent
<1> QED
  BY <1>1, <1>2, <1>3

\* A part of the body is sent; after the last one there is a record.
LEMMA SendBodyInv == ASSUME IInv, NEW more \in BOOLEAN, SendBody(more) PROVE IInv'
<1> USE DEF IInv, SendBody, LogsBody
<1>1. sent.by = "stack" /\ ~logged /\ entries = <<>> /\ exc = "none"
  BY DEF TypeOK, PhaseInv, LogInv, Sent
<1>2. /\ sent' \in Sent /\ sent'.complete = ~more
      /\ sent'.by = "stack" /\ sent'.status = sent.status /\ sent'.body = sent.body
      /\ sent'.header = sent.header
  BY <1>1 DEF TypeOK, Sent
<1>3. CASE more
  <2>1. TypeOK'
    BY <1>1, <1>2, <1>3 DEF TypeOK
  <2>2. PhaseInv' /\ LogInv' /\ StatusInv' /\ BodyInv'
    BY <1>1, <1>2, <1>3 DEF PhaseInv, LogInv, StatusInv, BodyInv, Loggable, Renderer
  <2>3. SuccessIsComplete' /\ Correlated'
    BY <1>1, <1>2, <1>3 DEF SuccessIsComplete, Correlated, Unstamped, IsMapped, Renderer
  <2> QED
    BY <2>1, <2>2, <2>3
<1>4. CASE ~more
  <2>1. WriteLog(FALSE)
    BY <1>4
  <2>2. TypeOK'
    BY <1>1, <1>2, <1>4, <2>1, WriteLogType DEF TypeOK
  <2>3. /\ config.access_log => logged'
        /\ logged' => config.access_log /\ (entries' # <<>> <=> Loggable)
        /\ ~logged' => entries' = <<>>
        /\ Len(entries') <= 1
        /\ entries' \in {<<>>, <<[status |-> status_code, failed |-> FALSE]>>}
    BY <1>1, <2>1, WriteLogRecord
  <2>4. PhaseInv' /\ BodyInv'
    BY <1>1, <1>2, <1>4 DEF PhaseInv, BodyInv
  <2>5. LogInv'
    BY <2>3 DEF LogInv, Loggable
  <2>6. \A i \in DOMAIN entries' : entries'[i].status = sent.status
    BY <1>1, <2>3 DEF StatusInv
  <2>7. StatusInv'
    BY <1>1, <1>2, <2>6 DEF StatusInv
  <2>8. SuccessIsComplete'
    BY <1>2, <1>4, <2>6 DEF SuccessIsComplete
  <2>9. Correlated'
    BY <1>1, <1>2 DEF Correlated, Unstamped, IsMapped, Renderer
  <2> QED
    BY <2>2, <2>4, <2>5, <2>7, <2>8, <2>9
<1> QED
  BY <1>3, <1>4

\* A client that goes away ends the sending.
LEMMA DisconnectInv == IInv /\ Disconnect => IInv'
<1> SUFFICES ASSUME IInv, Disconnect PROVE IInv'
  OBVIOUS
<1> USE DEF IInv, Disconnect
<1>1. TypeOK'
  BY DEF TypeOK
<1>2. PhaseInv' /\ LogInv' /\ StatusInv' /\ BodyInv'
  BY DEF TypeOK, PhaseInv, LogInv, StatusInv, BodyInv, Loggable, Mapped, Sent
<1>3. SuccessIsComplete' /\ Correlated'
  BY StackSent DEF PhaseInv, SuccessIsComplete
<1> QED
  BY <1>1, <1>2, <1>3

\* The request is over.
LEMMA FinishInv == IInv /\ Finish => IInv'
<1> SUFFICES ASSUME IInv, Finish PROVE IInv'
  OBVIOUS
<1> USE DEF IInv, Finish
<1>1. TypeOK'
  BY DEF TypeOK
<1>2. PhaseInv' /\ LogInv' /\ StatusInv' /\ BodyInv'
  BY DEF TypeOK, PhaseInv, LogInv, StatusInv, BodyInv, Loggable, Mapped, Sent
<1>3. SuccessIsComplete' /\ Correlated'
  BY DEF SuccessIsComplete, Correlated, Unstamped, IsMapped, Renderer
<1> QED
  BY <1>1, <1>2, <1>3

\* An exception on its way out leaves a record of what was sent.
LEMMA UnwindInv == IInv /\ Unwind => IInv'
<1> SUFFICES ASSUME IInv, Unwind PROVE IInv'
  OBVIOUS
<1> USE DEF IInv, Unwind
<1>1. TypeOK'
  BY WriteLogType DEF TypeOK
<1>2. /\ config.access_log => logged'
      /\ logged' => config.access_log /\ (entries' # <<>> <=> Loggable)
      /\ ~logged' => entries' = <<>>
      /\ Len(entries') <= 1
      /\ entries' \in {entries, <<>>, <<[status |-> status_code, failed |-> TRUE]>>}
  BY WriteLogRecord
<1>3. PhaseInv' /\ BodyInv'
  BY DEF TypeOK, PhaseInv, BodyInv, Mapped, Sent
<1>4. LogInv'
  BY <1>2 DEF LogInv, Loggable
<1>5. StatusInv' /\ SuccessIsComplete'
  BY <1>2 DEF StatusInv, SuccessIsComplete
<1>6. Correlated'
  BY DEF Correlated, Unstamped, IsMapped, Renderer
<1> QED
  BY <1>1, <1>3, <1>4, <1>5, <1>6

\* The last resort answers with the mapping and the request's id.
LEMMA ServerErrorInv == IInv /\ ServerError => IInv'
<1> SUFFICES ASSUME IInv, ServerError PROVE IInv'
  OBVIOUS
<1> DEFINE own == IF IsMapped(exc) THEN config.own ELSE {}
           r == Rendered(Mapped(exc), own)
<1> USE DEF IInv, ServerError
<1>1. exc \in Classes
  BY DEF TypeOK, PhaseInv
<1>2. Mapped(exc) \in Statuses
  BY <1>1, MappedType DEF TypeOK
<1>3. /\ r \in Response /\ r.status = Mapped(exc)
      /\ Renderer = "problem" /\ "body" \notin own => r.body = id
      /\ IF Renderer = "problem" /\ "header" \notin own THEN r.header = id
         ELSE r.header \in {"none", "other"}
  BY <1>2, RenderedIds DEF TypeOK
<1>4. \A i \in DOMAIN entries : entries[i].failed
  BY DEF SuccessIsComplete, PhaseInv
<1> HIDE DEF r
<1>5. CASE UNCHANGED <<response, sent>>
  <2>1. TypeOK'
    BY <1>5 DEF TypeOK
  <2>2. PhaseInv' /\ LogInv' /\ StatusInv' /\ BodyInv'
    BY <1>5 DEF TypeOK, PhaseInv, LogInv, StatusInv, BodyInv, Loggable, Mapped
  <2>3. SuccessIsComplete' /\ Correlated'
    BY <1>5 DEF SuccessIsComplete, Correlated, Unstamped, IsMapped, Renderer
  <2> QED
    BY <2>1, <2>2, <2>3
<1>6. CASE sent' = [status |-> r.status, body |-> r.body, header |-> r.header,
                    complete |-> TRUE, by |-> "server"] /\ response' = r
  <2>1. TypeOK'
    BY <1>2, <1>3, <1>6 DEF TypeOK, Response, Sent, Statuses
  <2>2. PhaseInv' /\ LogInv' /\ StatusInv' /\ BodyInv'
    BY <1>1, <1>3, <1>6 DEF TypeOK, PhaseInv, LogInv, StatusInv, BodyInv, Loggable, Mapped
  <2>3. SuccessIsComplete'
    BY <1>4, <1>6 DEF SuccessIsComplete
  <2>4. Correlated'
    <3>1. Renderer' = Renderer /\ IsMapped(exc)' = IsMapped(exc)
      BY DEF Renderer, IsMapped
    <3>2. id \notin {"none", "other"}
      BY DEF PhaseInv
    <3>3. Unstamped' <=> ~(Renderer = "problem" /\ "header" \notin own)
      BY <1>6, <3>1 DEF Unstamped
    <3> QED
      BY <1>3, <1>6, <3>1, <3>2, <3>3 DEF Correlated
  <2> QED
    BY <2>1, <2>2, <2>3, <2>4
<1> QED
  BY <1>5, <1>6 DEF r

\* Nothing changes.
LEMMA StutterInv == IInv /\ UNCHANGED vars => IInv'
<1> SUFFICES ASSUME IInv, UNCHANGED vars PROVE IInv'
  OBVIOUS
<1> USE DEF IInv, vars
<1>1. TypeOK'
  BY DEF TypeOK
<1>2. PhaseInv' /\ LogInv' /\ StatusInv' /\ BodyInv'
  BY DEF PhaseInv, LogInv, StatusInv, BodyInv, Loggable, Mapped, Handlers, Renderer
<1>3. SuccessIsComplete' /\ Correlated'
  BY DEF SuccessIsComplete, Correlated, Unstamped, IsMapped, Renderer
<1> QED
  BY <1>1, <1>2, <1>3

\* Every request keeps the invariant, whatever the classes, the applications
\* and the routes.
THEOREM Invariance == Spec => []IInv
<1>1. Init => IInv
  BY InitInv
<1>2. IInv /\ [Next]_vars => IInv'
  BY ReceiveInv, EndpointReturnsInv, RaisesInv, HandleInv, SendStartInv, SendBodyInv,
     DisconnectInv, FinishInv, UnwindInv, ServerErrorInv, StutterInv DEF Next, Done
<1> QED
  BY <1>1, <1>2, PTL DEF Spec

\* Every variable has its type.
THEOREM TypeCorrect == Spec => []TypeOK
<1>1. IInv => TypeOK
  BY DEF IInv
<1> QED
  BY <1>1, Invariance, PTL

\* A completed or failed request has one record.
THEOREM LogsOnce == Spec => []LoggedOnce
<1>1. IInv => LoggedOnce
  <2> SUFFICES ASSUME IInv, pc = "done" PROVE LoggedOnce
    BY DEF LoggedOnce
  <2>1. entries \in Seq(Entry) /\ Len(entries) <= 1
    BY DEF IInv, TypeOK, LogInv
  <2>2. ASSUME entries # <<>> PROVE Len(entries) = 1
    <3> DEFINE n == Len(entries)
    <3>1. n \in Nat \ {0}
      BY <2>1, <2>2, EmptySeq
    <3>2. n <= 1
      BY <2>1
    <3> HIDE DEF n
    <3>3. n = 1
      BY <3>1, <3>2
    <3> QED
      BY <3>3 DEF n
  <2>3. CASE Loggable
    BY <2>1, <2>2, <2>3 DEF IInv, LogInv, LoggedOnce, Loggable
  <2>4. CASE ~Loggable
    BY <2>4 DEF IInv, LogInv, LoggedOnce, TypeOK
  <2> QED
    BY <2>3, <2>4
<1> QED
  BY <1>1, Invariance, PTL

\* A record of success is of a complete response and has its status.
THEOREM SuccessesAreComplete == Spec => []SuccessIsComplete
<1>1. IInv => SuccessIsComplete
  BY DEF IInv
<1> QED
  BY <1>1, Invariance, PTL

\* What is sent has the request's correlation id, and the one kind of answer that
\* has not, never has.
THEOREM CarriesTheId == Spec => []Correlated
<1>1. IInv => Correlated
  BY DEF IInv
<1> QED
  BY <1>1, Invariance, PTL

\* A response cut short is logged with the status it was sent with.
THEOREM KeepsSentStatus == Spec => []FailureKeepsStatus
<1>1. IInv => FailureKeepsStatus
  <2> SUFFICES ASSUME IInv, entries # <<>>, sent.status # 0, ~sent.complete
               PROVE  entries[1].status = sent.status
    BY DEF FailureKeepsStatus
  <2>1. sent.by = "stack"
    BY DEF IInv, TypeOK, PhaseInv, Sent
  <2>2. 1 \in DOMAIN entries
    BY DEF IInv, TypeOK
  <2> QED
    BY <2>1, <2>2 DEF IInv, StatusInv
<1> QED
  BY <1>1, Invariance, PTL

\* The most specific mapping of an exception's classes decides.
THEOREM PicksMostSpecific == Spec => []MostSpecificMapping
<1>1. IInv => MostSpecificMapping
  <2> DEFINE keys == DOMAIN config.table
             own == {c \in keys : \E i \in DOMAIN Mro[exc] : Mro[exc][i] = c}
  <2> SUFFICES ASSUME IInv, sent.by = "server", "Exception" \notin config.mappers
               PROVE  IF own = {} THEN sent.status \in {418, 500}
                      ELSE \E c \in own :
                             /\ sent.status = config.table[c]
                             /\ \A d \in own : \E i, j \in DOMAIN Mro[exc] :
                                  Mro[exc][i] = c /\ Mro[exc][j] = d /\ i <= j
    BY DEF MostSpecificMapping
  <2>1. exc \in Classes /\ sent.status = Mapped(exc)
    BY DEF IInv, PhaseInv
  <2>2. DOMAIN Mro[exc] = 1 .. Len(Mro[exc]) /\ Len(Mro[exc]) \in Nat
    BY <2>1, ClassesAssumption
  <2>3. CASE ~Found(exc, keys)
    BY <2>1, <2>3 DEF Found, Mapped
  <2>4. CASE Found(exc, keys)
    <3>1. PICK i \in DOMAIN Mro[exc] :
            /\ First(exc, keys) = Mro[exc][i] /\ First(exc, keys) \in keys
            /\ \A j \in 1 .. i - 1 : Mro[exc][j] \notin keys
      BY <2>1, <2>4, FirstFound
    <3>2. Mro[exc][i] \in own /\ sent.status = config.table[Mro[exc][i]]
      BY <2>1, <2>4, <3>1 DEF Mapped
    <3>3. \A j \in DOMAIN Mro[exc] : Mro[exc][j] \in keys => i <= j
      BY <2>2, <3>1
    <3> QED
      BY <3>2, <3>3
  <2> QED
    BY <2>3, <2>4
<1> QED
  BY <1>1, Invariance, PTL
=============================================================================
