---------------------------- MODULE HttpApiProofs ----------------------------
(***************************************************************************)
(* Proofs about HttpApi, for any requests, threads, checks and changes of  *)
(* what the checks find.                                                   *)
(***************************************************************************)
EXTENDS HttpApi, TLAPS

USE DEF At, Places

Inside == {"auth", "service", "validate", "call", "work"}

LEMMA ChecksAreListed == Len(Checks) \in Nat /\ DOMAIN Checks = 1..Len(Checks)
BY HttpAssumption

LEMMA RegisteredStatus ==
  /\ "REQUEST_INVALID" \in DOMAIN Registered /\ Registered["REQUEST_INVALID"] = 422
  /\ "INTERNAL_ERROR" \in DOMAIN Registered /\ Registered["INTERNAL_ERROR"] = 500
  /\ "UNAUTHORIZED" \in DOMAIN Registered /\ Registered["UNAUTHORIZED"] = 401
  /\ "DEPENDENCY_UNAVAILABLE" \in DOMAIN Registered /\ Registered["DEPENDENCY_UNAVAILABLE"] = 503
  /\ "RESOURCE_NOT_FOUND" \in DOMAIN Registered
  /\ \A c \in DOMAIN Registered : Registered[c] \in Nat
BY DEF Registered

-----------------------------------------------------------------------------
LEMMA IdsTyped ==
  ASSUME TypeOK, NEW r \in Requests
  PROVE  Own(r) \in AnyIds /\ ctx[r] \in AnyIds /\ NoIds(r) \in AnyIds
BY DEF TypeOK, Own, Ids, NoIds, AnyIds, IdKinds, Kinds

\* Every way to an answer, and the steps from one place to another, are typed.
LEMMA EnvelopeTyped ==
  ASSUME TypeOK, NEW r \in Requests, NEW status \in Nat, NEW code \in Codes,
         NEW data \in {"none", "ok", "degraded", "failed"}, NEW ids \in AnyIds,
         Envelope(r, status, code, data, ids)
  PROVE  answer' \in [Requests -> Answers]
BY IdsTyped DEF TypeOK, Envelope, Answers

LEMMA ErrorTyped ==
  ASSUME TypeOK, NEW r \in Requests, NEW status \in Nat, NEW code \in Codes,
         Error(r, status, code)
  PROVE  answer' \in [Requests -> Answers]
BY IdsTyped, EnvelopeTyped DEF Error

LEMMA SuccessTyped ==
  ASSUME TypeOK, NEW r \in Requests, NEW data \in {"none", "ok", "degraded"}, Success(r, data)
  PROVE  answer' \in [Requests -> Answers]
<1>1. "OK" \in Codes /\ SuccessStatus(op[r]) \in Nat
  BY DEF Codes, SuccessStatus
<1>2. QED BY <1>1, IdsTyped, EnvelopeTyped DEF Success

LEMMA UnhandledTyped ==
  ASSUME TypeOK, NEW r \in Requests, Unhandled(r)
  PROVE  answer' \in [Requests -> Answers]
<1>1. "INTERNAL_ERROR" \in Codes /\ Registered["INTERNAL_ERROR"] \in Nat
  BY RegisteredStatus DEF Codes
<1>2. QED BY <1>1, IdsTyped DEF TypeOK, Unhandled, Answers

LEMMA AppErrorTyped ==
  ASSUME TypeOK, NEW r \in Requests, NEW code, AppError(r, code)
  PROVE  answer' \in [Requests -> Answers]
BY RegisteredStatus, ErrorTyped, UnhandledTyped DEF AppError, Codes

LEMMA HttpErrorTyped ==
  ASSUME TypeOK, NEW r \in Requests, NEW status \in {404, 405}, HttpError(r, status)
  PROVE  answer' \in [Requests -> Answers]
<1>1. "RESOURCE_NOT_FOUND" \in Codes /\ "REQUEST_INVALID" \in Codes
  BY RegisteredStatus DEF Codes
<1>2. QED BY <1>1, ErrorTyped DEF HttpError

LEMMA ValidationErrorTyped ==
  ASSUME TypeOK, NEW r \in Requests, ValidationError(r)
  PROVE  answer' \in [Requests -> Answers]
<1>1. "REQUEST_INVALID" \in Codes /\ Registered["REQUEST_INVALID"] \in Nat
  BY RegisteredStatus DEF Codes
<1>2. QED BY <1>1, ErrorTyped DEF ValidationError

LEMMA ReceiveTyped ==
  ASSUME TypeOK, NEW r \in Requests, Receive(r)
  PROVE  TypeOK'
<1>1. PICK o \in Asks[r], req \in Kinds, trace \in Kinds : Receive(r)!(o, req, trace)
  BY DEF Receive
<1>2. o \in Routes \cup {"none"}
  BY AsksAssumption
<1>3. op' \in [Requests -> Routes \cup {"none"}] /\ sent' \in [Requests -> [req : Kinds, trace : Kinds]]
  BY <1>1, <1>2 DEF TypeOK
<1>4. Own(r)' \in AnyIds /\ NoIds(r) \in AnyIds
  BY <1>3 DEF Own, Ids, NoIds, AnyIds, IdKinds, Kinds
<1>5. ctx' \in [Requests -> AnyIds]
  BY <1>1, <1>4 DEF TypeOK, SetContext
<1>6. "REQUEST_INVALID" \in Codes /\ Registered["REQUEST_INVALID"] \in Nat
  BY RegisteredStatus DEF Codes
<1>7. answer' \in [Requests -> Answers]
  <2>1. CASE "bad" \in {req, trace}
    <3> DEFINE new == [code |-> "REQUEST_INVALID", status |-> Registered["REQUEST_INVALID"],
                       data |-> "none", body |-> Own(r)', head |-> NoIds(r)]
    <3>1. new \in Answers
      BY <1>4, <1>6 DEF Answers
    <3>2. answer' = [answer EXCEPT ![r] = new]
      BY <1>1, <2>1
    <3> HIDE DEF new
    <3>3. QED BY <3>1, <3>2 DEF TypeOK
  <2>2. CASE "bad" \notin {req, trace}
    BY <1>1, <2>2 DEF TypeOK
  <2>3. QED BY <2>1, <2>2
<1>8. seen' \in [Requests -> [DOMAIN Checks -> SUBSET Health]]
  BY <1>1 DEF TypeOK
<1>9. pc' \in [Requests -> Places]
  BY <1>1 DEF TypeOK
<1>10. UNCHANGED <<held, at, bad, health, flips>>
  BY <1>1 DEF outside
<1>11. QED BY <1>3, <1>5, <1>7, <1>8, <1>9, <1>10 DEF TypeOK

\* A request goes on to another place, or its answer is made.
Replies(r) ==
  \/ \E loc \in Inside \cup {"checks"} : Goto(r, loc)
  \/ \E data \in {"none", "ok", "degraded"} : Success(r, data)
  \/ \E status \in {404, 405} : HttpError(r, status)
  \/ ValidationError(r) \/ Unhandled(r) \/ (\E code : AppError(r, code))
  \/ Envelope(r, Registered["DEPENDENCY_UNAVAILABLE"], "DEPENDENCY_UNAVAILABLE", "failed", ctx[r])

LEMMA RepliesTyped ==
  ASSUME TypeOK, NEW r \in Requests, Replies(r)
  PROVE  /\ pc' \in [Requests -> Places]
         /\ UNCHANGED <<op, sent>> /\ answer' \in [Requests -> Answers]
<1> USE DEF TypeOK, Inside
<1>1. CASE \E loc \in Inside \cup {"checks"} : Goto(r, loc)
  BY <1>1 DEF Goto
<1>2. CASE \E data \in {"none", "ok", "degraded"} : Success(r, data)
  <2>1. answer' \in [Requests -> Answers]
    BY <1>2, SuccessTyped
  <2>2. pc' = [pc EXCEPT ![r] = "respond"] /\ UNCHANGED <<op, sent>>
    BY <1>2 DEF Success, Envelope
  <2>3. QED BY <2>1, <2>2
<1>3. CASE \E status \in {404, 405} : HttpError(r, status)
  <2>1. answer' \in [Requests -> Answers]
    BY <1>3, HttpErrorTyped
  <2>2. pc' = [pc EXCEPT ![r] = "respond"] /\ UNCHANGED <<op, sent>>
    BY <1>3 DEF HttpError, Error, Envelope
  <2>3. QED BY <2>1, <2>2
<1>4. CASE ValidationError(r)
  BY <1>4, ValidationErrorTyped DEF ValidationError, Error, Envelope
<1>5. CASE Unhandled(r)
  BY <1>5, UnhandledTyped DEF Unhandled
<1>6. CASE \E code : AppError(r, code)
  BY <1>6, AppErrorTyped DEF AppError, Error, Envelope, Unhandled
<1>7. CASE Envelope(r, Registered["DEPENDENCY_UNAVAILABLE"], "DEPENDENCY_UNAVAILABLE", "failed", ctx[r])
  <2>1. "DEPENDENCY_UNAVAILABLE" \in Codes /\ Registered["DEPENDENCY_UNAVAILABLE"] \in Nat
    BY RegisteredStatus DEF Codes
  <2>2. answer' \in [Requests -> Answers]
    BY <1>7, <2>1, IdsTyped, EnvelopeTyped
  <2>3. QED BY <1>7, <2>2 DEF Envelope
<1>8. QED BY <1>1, <1>2, <1>3, <1>4, <1>5, <1>6, <1>7 DEF Replies

\* Every step but Receive, RunCheck, Respond and Flip is one of these.
LEMMA Reply ==
  ASSUME NEW r \in Requests,
         Route(r) \/ Validate(r) \/ Ready(r) \/ Authenticate(r) \/ GetService(r) \/ Call(r) \/ Work(r)
  PROVE  /\ Replies(r) /\ pc[r] \in Inside \cup {"route", "checks"}
         /\ held' \in {held, held \cup {r}, held \ {r}} /\ UNCHANGED <<ctx, checks, outside>>
<1> USE DEF Replies, Inside
<1>1. CASE Route(r)
  BY <1>1 DEF Route
<1>2. CASE Validate(r)
  BY <1>2 DEF Validate
<1>3. CASE Ready(r)
  BY <1>3 DEF Ready
<1>4. CASE Authenticate(r)
  BY <1>4 DEF Authenticate
<1>5. CASE GetService(r)
  BY <1>5 DEF GetService
<1>6. CASE Call(r)
  BY <1>6 DEF Call
<1>7. CASE Work(r)
  BY <1>7 DEF Work
<1>8. QED BY <1>1, <1>2, <1>3, <1>4, <1>5, <1>6, <1>7

LEMMA RunCheckTyped ==
  ASSUME TypeOK, NEW r \in Requests, RunCheck(r)
  PROVE  TypeOK'
<1>1. at' \in [Requests -> 1..Len(Checks) + 1] /\ bad' \in [Requests -> SUBSET DOMAIN Checks]
  BY ChecksAreListed DEF TypeOK, RunCheck
<1>2. UNCHANGED <<request, ctx, held, seen, outside>>
  BY DEF RunCheck
<1>3. QED BY <1>1, <1>2 DEF TypeOK, request, outside

LEMMA RespondTyped ==
  ASSUME TypeOK, NEW r \in Requests, Respond(r)
  PROVE  TypeOK'
<1>1. answer' \in [Requests -> Answers]
  BY IdsTyped DEF TypeOK, Respond, Answers
<1>2. QED BY <1>1 DEF TypeOK, Respond, checks, outside

LEMMA FlipTyped ==
  ASSUME TypeOK, Flip
  PROVE  TypeOK'
<1>1. health' \in [DOMAIN Checks -> Health] /\ flips' \in 0..MaxFlips
  BY HttpAssumption DEF TypeOK, Flip
<1>2. seen' \in [Requests -> [DOMAIN Checks -> SUBSET Health]]
  BY DEF TypeOK, Flip
<1>3. QED BY <1>1, <1>2 DEF TypeOK, Flip, request

LEMMA TypedStep ==
  ASSUME TypeOK, [Next]_vars
  PROVE  TypeOK'
<1>1. CASE UNCHANGED vars
  BY <1>1 DEF TypeOK, vars, request, checks, outside
<1>2. ASSUME NEW r \in Requests,
             Route(r) \/ Validate(r) \/ Ready(r) \/ Authenticate(r) \/ GetService(r) \/ Call(r) \/ Work(r)
      PROVE  TypeOK'
  BY <1>2, Reply, RepliesTyped DEF TypeOK, checks, outside
<1>3. QED
  BY <1>1, <1>2, ReceiveTyped, RunCheckTyped, RespondTyped, FlipTyped DEF Next, Loop

LEMMA InitTyped == Init => TypeOK
<1> SUFFICES ASSUME Init PROVE TypeOK
  OBVIOUS
<1> USE DEF Init
<1>1. \A r \in Requests : NoIds(r) \in AnyIds
  BY DEF NoIds, Ids, AnyIds, IdKinds, Kinds
<1>2. ctx \in [Requests -> AnyIds]
  BY <1>1
<1>3. answer \in [Requests -> Answers]
  BY <1>1 DEF NoAnswer, Answers, Codes
<1>4. at \in [Requests -> 1..Len(Checks) + 1]
  BY ChecksAreListed
<1>5. health \in [DOMAIN Checks -> Health]
  BY DEF Health
<1>6. flips \in 0..MaxFlips
  BY HttpAssumption
<1>7. sent \in [Requests -> [req : Kinds, trace : Kinds]]
  BY DEF Kinds
<1>8. QED BY <1>2, <1>3, <1>4, <1>5, <1>6, <1>7 DEF TypeOK

(* Every reachable state is typed: no handler makes an answer of another     *)
(* shape, whatever it raises.                                                *)
THEOREM TypeCorrect == Spec => []TypeOK
BY InitTyped, TypedStep, PTL DEF Spec

-----------------------------------------------------------------------------
(* The context variables hold the request's own ids from the middleware on,  *)
(* so that it does not matter whether an answer takes them from there or     *)
(* from request.state.                                                       *)
OwnInvariant ==
  \A r \in Requests :
    /\ pc[r] # "client" => ctx[r] = Own(r)
    /\ pc[r] \in {"respond", "answered"} => answer[r].body = Own(r)
    /\ pc[r] = "answered" => answer[r].head = answer[r].body \/ answer[r].code = "INTERNAL_ERROR"

\* Replies, told by what becomes of the answer.
LEMMA ReplyBody ==
  ASSUME TypeOK, NEW r \in Requests, Replies(r), ctx[r] = Own(r)
  PROVE  /\ \/ pc'[r] \in Inside \cup {"checks"}
            \/ pc'[r] = "respond" /\ answer'[r].body = Own(r)
            \/ pc'[r] = "answered" /\ answer'[r].body = Own(r) /\ answer'[r].code = "INTERNAL_ERROR"
         /\ \A q \in Requests \ {r} : pc'[q] = pc[q] /\ answer'[q] = answer[q]
         /\ UNCHANGED sent
<1> USE DEF Envelope, Error
<1>1. pc \in [Requests -> Places] /\ answer \in [Requests -> Answers]
  BY DEF TypeOK
<1>2. CASE \E loc \in Inside \cup {"checks"} : Goto(r, loc)
  BY <1>1, <1>2 DEF Goto
<1>3. CASE Unhandled(r)
  BY <1>1, <1>3 DEF Unhandled
<1>4. ASSUME NEW status, NEW code, NEW data, NEW ids, Envelope(r, status, code, data, ids), ids = Own(r)
      PROVE  /\ pc'[r] = "respond" /\ answer'[r].body = Own(r)
             /\ \A q \in Requests \ {r} : pc'[q] = pc[q] /\ answer'[q] = answer[q]
             /\ UNCHANGED sent
  BY <1>1, <1>4
<1> HIDE DEF Envelope
<1>5. CASE \E code : AppError(r, code)
  BY <1>3, <1>4, <1>5 DEF AppError
<1>6. CASE \E data \in {"none", "ok", "degraded"} : Success(r, data)
  BY <1>4, <1>6 DEF Success
<1>7. CASE \E status \in {404, 405} : HttpError(r, status)
  BY <1>4, <1>7 DEF HttpError
<1>8. CASE ValidationError(r)
  BY <1>4, <1>8 DEF ValidationError
<1>9. CASE Envelope(r, Registered["DEPENDENCY_UNAVAILABLE"], "DEPENDENCY_UNAVAILABLE", "failed", ctx[r])
  BY <1>4, <1>9
<1>10. QED BY <1>2, <1>3, <1>5, <1>6, <1>7, <1>8, <1>9 DEF Replies

LEMMA OwnStep ==
  ASSUME TypeOK, OwnInvariant, [Next]_vars
  PROVE  OwnInvariant'
<1>1. CASE UNCHANGED <<pc, sent, ctx, answer>>
  BY <1>1 DEF OwnInvariant, Own, Ids
<1>2. ASSUME NEW r \in Requests, Receive(r) PROVE OwnInvariant'
  <2>1. PICK o \in Asks[r], req \in Kinds, trace \in Kinds : Receive(r)!(o, req, trace)
    BY <1>2 DEF Receive
  <2>2. ctx'[r] = Own(r)' /\ pc'[r] \in {"respond", "route"}
    BY <2>1 DEF TypeOK, SetContext
  <2>3. pc'[r] = "respond" => answer'[r].body = Own(r)'
    BY <2>1 DEF TypeOK
  <2>4. ASSUME NEW q \in Requests \ {r}
        PROVE  pc'[q] = pc[q] /\ answer'[q] = answer[q] /\ ctx'[q] = ctx[q] /\ sent'[q] = sent[q]
    BY <2>1 DEF TypeOK, SetContext
  <2>5. QED BY <2>2, <2>3, <2>4 DEF OwnInvariant, Own, Ids
<1>3. ASSUME NEW r \in Requests,
             Route(r) \/ Validate(r) \/ Ready(r) \/ Authenticate(r) \/ GetService(r) \/ Call(r) \/ Work(r)
      PROVE  OwnInvariant'
  <2>1. Replies(r) /\ pc[r] \in Inside \cup {"route", "checks"} /\ UNCHANGED ctx
    BY <1>3, Reply
  <2>2. ctx[r] = Own(r)
    BY <2>1 DEF OwnInvariant, Inside
  <2>3. \A q \in Requests : Own(q)' = Own(q)
    BY <2>1, <2>2, ReplyBody DEF Own, Ids
  <2>4. QED BY <2>1, <2>2, <2>3, ReplyBody DEF OwnInvariant, Inside
<1>4. ASSUME NEW r \in Requests, RunCheck(r) PROVE OwnInvariant'
  BY <1>1, <1>4 DEF RunCheck, request
<1>5. ASSUME NEW r \in Requests, Respond(r) PROVE OwnInvariant'
  <2>1. answer'[r].head = Own(r) /\ answer'[r].body = answer[r].body
    BY <1>5 DEF Respond, TypeOK, Answers
  <2>2. \A q \in Requests : Own(q)' = Own(q)
    BY <1>5 DEF Respond, Own, Ids
  <2>3. \A q \in Requests \ {r} : pc'[q] = pc[q] /\ answer'[q] = answer[q]
    BY <1>5 DEF Respond, TypeOK
  <2>4. QED BY <1>5, <2>1, <2>2, <2>3 DEF OwnInvariant, Respond
<1>6. CASE Flip
  BY <1>1, <1>6 DEF Flip, request
<1>7. QED
  BY <1>1, <1>2, <1>3, <1>4, <1>5, <1>6 DEF Next, Loop, vars, request

(* An answer names its own request, however requests interleave: the ids of  *)
(* an answer are those of OwnInvariant, and Respond puts them in the headers. *)
THEOREM IdsAreOwn == Spec => []AnswersAreOwn
<1>1. Init => OwnInvariant
  BY DEF Init, OwnInvariant
<1>2. TypeOK /\ OwnInvariant => AnswersAreOwn
  <2> SUFFICES ASSUME TypeOK, OwnInvariant, NEW r \in Requests, Answered(r)
               PROVE  /\ IsOwn(answer[r].body, r)
                      /\ answer[r].head = answer[r].body \/ answer[r].code = "INTERNAL_ERROR"
    BY DEF AnswersAreOwn
  <2>1. sent[r] \in [req : Kinds, trace : Kinds]
    BY DEF TypeOK
  <2>2. sent[r].req = "bad" /\ sent[r].trace = "bad" => sent[r] = [req |-> "bad", trace |-> "bad"]
    BY <2>1
  <2>3. IsOwn(Own(r), r)
    BY <2>1, <2>2 DEF IsOwn, Own, Ids, Kinds
  <2>4. QED BY <2>3 DEF OwnInvariant, Answered
<1>3. QED BY <1>1, <1>2, InitTyped, TypedStep, OwnStep, PTL DEF Spec

-----------------------------------------------------------------------------
(* The tables: what is raised is declared.                                   *)

LEMMA CodeMayBeAnswered ==
  ASSUME NEW o, NEW c, c \in ErrorCodes(o)
  PROVE  MayAnswer(o, Registered[c], c)
BY DEF MayAnswer, Responses

LEMMA CommonAnswers ==
  ASSUME NEW o
  PROVE  /\ MayAnswer(o, SuccessStatus(o), "OK")
         /\ MayAnswer(o, Registered["REQUEST_INVALID"], "REQUEST_INVALID")
         /\ MayAnswer(o, Registered["INTERNAL_ERROR"], "INTERNAL_ERROR")
         /\ o \notin Probes => MayAnswer(o, Registered["UNAUTHORIZED"], "UNAUTHORIZED")
<1>1. MayAnswer(o, SuccessStatus(o), "OK")
  BY DEF MayAnswer, Responses
<1>2. {"REQUEST_INVALID", "INTERNAL_ERROR"} \subseteq ErrorCodes(o)
  BY DEF ErrorCodes
<1>3. o \notin Probes => "UNAUTHORIZED" \in ErrorCodes(o)
  BY DEF ErrorCodes
<1>4. QED BY <1>1, <1>2, <1>3, CodeMayBeAnswered

LEMMA ReadyAnswers == MayAnswer("ready", Registered["DEPENDENCY_UNAVAILABLE"], "DEPENDENCY_UNAVAILABLE")
<1>1. "DEPENDENCY_UNAVAILABLE" \in ErrorCodes("ready")
  BY DEF ErrorCodes, Probes, ProbeErrors
<1>2. QED BY <1>1, CodeMayBeAnswered

LEMMA Tables ==
  /\ DOMAIN VersionRaises \cup DOMAIN RuntimeRaises = DOMAIN SelectErrors
  /\ DOMAIN ModelRaises \cup DOMAIN ServiceRaises = DOMAIN ServeErrors
  /\ DOMAIN VersionRaises \cap DOMAIN RuntimeRaises = {}
  /\ DOMAIN SelectErrors \cap DOMAIN ServeErrors = {}
  /\ DOMAIN ModelRaises \cap DOMAIN ServiceRaises = {}
  /\ ComfyOps \cap (Probes \cup ItemOps) = {} /\ Probes \cap ItemOps = {}
<1>1. DOMAIN VersionRaises \cup DOMAIN RuntimeRaises = DOMAIN SelectErrors
  BY DEF VersionRaises, RuntimeRaises, SelectErrors
<1>2. DOMAIN ModelRaises \cup DOMAIN ServiceRaises = DOMAIN ServeErrors
  BY DEF ModelRaises, ServiceRaises, ServeErrors
<1>3. DOMAIN VersionRaises \cap DOMAIN RuntimeRaises = {}
  BY DEF VersionRaises, RuntimeRaises
<1>4. DOMAIN SelectErrors \cap DOMAIN ServeErrors = {}
  BY DEF SelectErrors, ServeErrors
<1>5. DOMAIN ModelRaises \cap DOMAIN ServiceRaises = {}
  BY DEF ModelRaises, ServiceRaises
<1>6. ComfyOps \cap (Probes \cup ItemOps) = {} /\ Probes \cap ItemOps = {}
  BY DEF ComfyOps, SelectErrors, ServeErrors, Probes, ProbeErrors, ItemOps, ItemErrors
<1>7. QED BY <1>1, <1>2, <1>3, <1>4, <1>5, <1>6

LEMMA ItemTables ==
  ASSUME NEW o \in ItemOps, NEW c \in Raises(o)
  PROVE  c \in ErrorCodes(o)
<1>1. o \notin Probes /\ Raises(o) = ItemRaises[o]
  BY Tables DEF Raises, ComfyOps
<1>2. ItemRaises[o] = ItemErrors[o]
  BY DEF ItemOps, ItemErrors, ItemRaises
<1>3. QED BY <1>1, <1>2 DEF ErrorCodes

LEMMA VersionTables ==
  ASSUME NEW o \in DOMAIN VersionRaises, NEW c \in VersionRaises[o], c \in DOMAIN Registered
  PROVE  c \in {"REQUEST_INVALID"} \cup SelectErrors[o] \/ <<o, c>> \in Undeclared
BY DEF VersionRaises, SelectErrors, Registered, Undeclared

LEMMA RuntimeTables ==
  ASSUME NEW o \in DOMAIN RuntimeRaises, NEW c \in RuntimeRaises[o]
  PROVE  c \in {"REQUEST_INVALID"} \cup SelectErrors[o] \/ <<o, c>> \in Undeclared
BY DEF RuntimeRaises, SelectErrors, Undeclared

LEMMA ServeTables ==
  ASSUME NEW o \in DOMAIN ModelRaises \cup DOMAIN ServiceRaises,
         NEW c \in IF o \in DOMAIN ModelRaises THEN ModelRaises[o] ELSE ServiceRaises[o]
  PROVE  c \in {"REQUEST_INVALID"} \cup ServeErrors[o] \/ <<o, c>> \in Undeclared
BY DEF ModelRaises, ServiceRaises, ServeErrors, Undeclared

LEMMA RaisedMayBeAnswered ==
  ASSUME NEW o \in ItemOps \cup ComfyOps, NEW c \in Raises(o), c \in DOMAIN Registered
  PROVE  MayAnswer(o, Registered[c], c)
<1>1. CASE o \in ItemOps
  BY <1>1, ItemTables, CodeMayBeAnswered
<1>2. CASE o \in DOMAIN VersionRaises \cup DOMAIN RuntimeRaises
  <2>1. ErrorCodes(o) = {"REQUEST_INVALID", "INTERNAL_ERROR"} \cup SelectErrors[o] \cup {"UNAUTHORIZED"}
    BY <1>2, Tables DEF ErrorCodes, ComfyOps
  <2>2. o \in DOMAIN VersionRaises => Raises(o) = VersionRaises[o]
    BY <1>2, Tables DEF Raises, ComfyOps
  <2>3. o \in DOMAIN RuntimeRaises => Raises(o) = RuntimeRaises[o]
    BY <1>2, Tables DEF Raises, ComfyOps
  <2>4. c \in ErrorCodes(o) \/ <<o, c>> \in Undeclared
    BY <1>2, <2>1, <2>2, <2>3, VersionTables, RuntimeTables
  <2>5. QED BY <2>4, CodeMayBeAnswered DEF MayAnswer
<1>3. CASE o \in DOMAIN ServeErrors
  <2>1. ErrorCodes(o) = {"REQUEST_INVALID", "INTERNAL_ERROR"} \cup ServeErrors[o] \cup {"UNAUTHORIZED"}
    BY <1>3, Tables DEF ErrorCodes, ComfyOps
  <2>2. Raises(o) = IF o \in DOMAIN ModelRaises THEN ModelRaises[o] ELSE ServiceRaises[o]
    BY <1>3, Tables DEF Raises, ComfyOps
  <2>3. c \in ErrorCodes(o) \/ <<o, c>> \in Undeclared
    BY <1>3, <2>1, <2>2, Tables, ServeTables
  <2>4. QED BY <2>3, CodeMayBeAnswered DEF MayAnswer
<1>4. QED BY <1>1, <1>2, <1>3, Tables DEF ComfyOps

(* Only an operation that the registry knows, and not a probe, gets past     *)
(* routing, and the readiness checks are run for ready alone.                *)
ContractInvariant ==
  \A r \in Requests :
    /\ pc[r] \in Inside => op[r] \in ItemOps \cup ComfyOps
    /\ pc[r] = "checks" => op[r] = "ready"
    /\ pc[r] \in {"respond", "answered"} /\ op[r] # "none" => MayAnswer(op[r], answer[r].status, answer[r].code)

\* What a step of one request may do for ContractInvariant to hold after it.
InContract(r) ==
  /\ \/ pc'[r] \in Inside /\ op[r] \in ItemOps \cup ComfyOps
     \/ pc'[r] = "checks" /\ op[r] = "ready"
     \/ pc'[r] \in {"respond", "answered"} /\ (op[r] # "none" => MayAnswer(op[r], answer'[r].status, answer'[r].code))
  /\ \A q \in Requests \ {r} : pc'[q] = pc[q] /\ answer'[q] = answer[q]
  /\ UNCHANGED op

LEMMA InContractStep ==
  ASSUME ContractInvariant, NEW r \in Requests, InContract(r)
  PROVE  ContractInvariant'
BY DEF ContractInvariant, InContract, Inside

LEMMA GotoInContract ==
  ASSUME TypeOK, NEW r \in Requests, NEW loc, Goto(r, loc),
         \/ loc \in Inside /\ op[r] \in ItemOps \cup ComfyOps
         \/ loc = "checks" /\ op[r] = "ready"
  PROVE  InContract(r)
BY DEF TypeOK, Goto, InContract

LEMMA EnvelopeInContract ==
  ASSUME TypeOK, NEW r \in Requests, NEW status, NEW code, NEW data, NEW ids, Envelope(r, status, code, data, ids),
         op[r] = "none" \/ MayAnswer(op[r], status, code)
  PROVE  InContract(r)
<1>1. answer'[r].status = status /\ answer'[r].code = code
  BY DEF TypeOK, Envelope
<1>2. QED BY <1>1 DEF TypeOK, Envelope, InContract

LEMMA AppErrorInContract ==
  ASSUME TypeOK, NEW r \in Requests, NEW code, AppError(r, code),
         code \in DOMAIN Registered => MayAnswer(op[r], Registered[code], code)
  PROVE  InContract(r)
<1>1. CASE code \in DOMAIN Registered
  BY <1>1, EnvelopeInContract DEF AppError, Error
<1>2. CASE code \notin DOMAIN Registered
  <2>1. Unhandled(r)
    BY <1>2 DEF AppError
  <2>2. answer'[r].status = Registered["INTERNAL_ERROR"] /\ answer'[r].code = "INTERNAL_ERROR"
    BY <2>1 DEF TypeOK, Unhandled
  <2>3. QED BY <2>1, <2>2, CommonAnswers DEF TypeOK, Unhandled, InContract
<1>3. QED BY <1>1, <1>2

LEMMA ContractStep ==
  ASSUME TypeOK, ContractInvariant, [Next]_vars
  PROVE  ContractInvariant'
<1> USE DEF ContractInvariant, Inside
<1>1. CASE UNCHANGED <<pc, op, answer>>
  BY <1>1
<1>2. ASSUME NEW r \in Requests, Receive(r) PROVE ContractInvariant'
  <2>1. PICK o \in Asks[r], req \in Kinds, trace \in Kinds : Receive(r)!(o, req, trace)
    BY <1>2 DEF Receive
  <2>2. pc'[r] = "route" \/ (pc'[r] = "respond" /\ MayAnswer(op'[r], answer'[r].status, answer'[r].code))
    <3>1. CASE "bad" \in {req, trace}
      <4>1. pc'[r] = "respond" /\ answer'[r].status = Registered["REQUEST_INVALID"]
            /\ answer'[r].code = "REQUEST_INVALID"
        BY <2>1, <3>1 DEF TypeOK
      <4>2. QED BY <4>1, CommonAnswers
    <3>2. CASE "bad" \notin {req, trace}
      BY <2>1, <3>2 DEF TypeOK
    <3>3. QED BY <3>1, <3>2
  <2>3. \A q \in Requests \ {r} : pc'[q] = pc[q] /\ answer'[q] = answer[q] /\ op'[q] = op[q]
    BY <2>1 DEF TypeOK
  <2>4. QED BY <2>2, <2>3
<1>3. ASSUME NEW r \in Requests, Route(r) PROVE InContract(r)
  <2>1. CASE op[r] = "none" /\ \E status \in {404, 405} : HttpError(r, status)
    BY <2>1, EnvelopeInContract DEF HttpError, Error
  <2>2. CASE op[r] = "health" /\ Success(r, "ok")
    BY <2>2, EnvelopeInContract, CommonAnswers DEF Success
  <2>3. CASE op[r] = "ready" /\ Goto(r, "checks")
    BY <2>3, GotoInContract
  <2>4. CASE op[r] \in HasBody /\ ValidationError(r)
    BY <2>4, EnvelopeInContract, CommonAnswers DEF ValidationError, Error
  <2>5. CASE op[r] \in ItemOps \cup ComfyOps /\ Goto(r, "auth")
    BY <2>5, GotoInContract
  <2>6. QED BY <1>3, <2>1, <2>2, <2>3, <2>4, <2>5 DEF Route
<1>4. ASSUME NEW r \in Requests, Authenticate(r) PROVE InContract(r)
  <2>1. op[r] \in ItemOps \cup ComfyOps /\ op[r] \notin Probes
    BY <1>4, Tables DEF Authenticate
  <2>2. CASE AppError(r, "UNAUTHORIZED")
    BY <2>1, <2>2, AppErrorInContract, CommonAnswers
  <2>3. CASE Goto(r, IF op[r] \in ItemOps THEN "service" ELSE "validate")
    BY <2>1, <2>3, GotoInContract
  <2>4. QED BY <1>4, <2>2, <2>3 DEF Authenticate
<1>5. ASSUME NEW r \in Requests, GetService(r) \/ Call(r) PROVE InContract(r)
  BY <1>5, GotoInContract DEF GetService, Call
<1>6. ASSUME NEW r \in Requests, Validate(r) PROVE InContract(r)
  <2>1. CASE ValidationError(r)
    BY <2>1, EnvelopeInContract, CommonAnswers DEF ValidationError, Error
  <2>2. CASE Goto(r, IF op[r] \in ItemOps THEN "work" ELSE "call")
    BY <1>6, <2>2, GotoInContract DEF Validate
  <2>3. QED BY <1>6, <2>1, <2>2 DEF Validate
<1>7. ASSUME NEW r \in Requests, Work(r) PROVE InContract(r)
  <2>1. CASE Success(r, "none")
    BY <2>1, EnvelopeInContract, CommonAnswers DEF Success
  <2>2. ASSUME NEW code \in Raises(op[r]), AppError(r, code) PROVE InContract(r)
    BY <1>7, <2>2, AppErrorInContract, RaisedMayBeAnswered DEF Work
  <2>3. CASE Unhandled(r)
    <3>1. answer'[r].status = Registered["INTERNAL_ERROR"] /\ answer'[r].code = "INTERNAL_ERROR"
      BY <2>3 DEF TypeOK, Unhandled
    <3>2. QED BY <2>3, <3>1, CommonAnswers DEF TypeOK, Unhandled, InContract
  <2>4. QED BY <1>7, <2>1, <2>2, <2>3 DEF Work
<1>8. ASSUME NEW r \in Requests, Ready(r) PROVE InContract(r)
  <2>1. op[r] = "ready"
    BY <1>8 DEF Ready
  <2>2. QED BY <1>8, <2>1, EnvelopeInContract, CommonAnswers, ReadyAnswers DEF Ready, Success
<1>9. ASSUME NEW r \in Requests, Respond(r) PROVE InContract(r)
  <2>1. answer'[r].status = answer[r].status /\ answer'[r].code = answer[r].code
    BY <1>9 DEF Respond, TypeOK, Answers
  <2>2. QED BY <1>9, <2>1 DEF Respond, TypeOK, InContract
<1>10. ASSUME (\E r \in Requests : RunCheck(r)) \/ Flip PROVE ContractInvariant'
  BY <1>1, <1>10 DEF RunCheck, Flip, request
<1>11. CASE UNCHANGED vars
  BY <1>1, <1>11 DEF vars, request
<1> HIDE DEF ContractInvariant
<1>12. QED
  BY <1>2, <1>3, <1>4, <1>5, <1>6, <1>7, <1>8, <1>9, <1>10, <1>11, InContractStep DEF Next, Loop

(* An operation answers only what it declares, and six codes that TLC found  *)
(* and Undeclared names, whichever handler, dependency or exception handler  *)
(* made the answer: the tables, and the places where an error can arise.     *)
THEOREM ContractIsKept == Spec => []AnswersFollowContract
<1>1. Init => ContractInvariant
  BY DEF Init, ContractInvariant, Inside
<1>2. ContractInvariant => AnswersFollowContract
  BY DEF ContractInvariant, AnswersFollowContract, Answered
<1>3. QED BY <1>1, <1>2, InitTyped, TypedStep, ContractStep, PTL DEF Spec

-----------------------------------------------------------------------------
(* What a readiness request has learnt so far could be found since it came:  *)
(* a check it has passed could pass and one it holds against a dependency    *)
(* could fail.  What the checks would find now is among what has been.       *)
CheckAt(r) ==
  /\ pc[r] \in {"client", "route"} => at[r] = 1 /\ bad[r] = {}
  /\ Waiting(r) => \A i \in DOMAIN Checks : health[i] \in seen[r][i]
  /\ pc[r] = "checks" =>
       \A i \in DOMAIN Checks : /\ i \in bad[r] => CouldFail(r, i)
                                /\ i < at[r] /\ i \notin bad[r] => CouldPass(r, i)
  /\ pc[r] \in {"respond", "answered"} /\ op[r] = "ready" => ReadyTold(r)

CheckInvariant == \A r \in Requests : CheckAt(r)

LEMMA OthersKeepChecks ==
  ASSUME NEW q \in Requests, CheckAt(q), pc'[q] = pc[q], op'[q] = op[q], at'[q] = at[q], bad'[q] = bad[q],
         answer'[q] = answer[q], seen'[q] = seen[q], health' = health
  PROVE  CheckAt(q)'
BY DEF CheckAt, Waiting, CouldPass, CouldFail, ReadyTold

LEMMA FlipKeepsChecks ==
  ASSUME TypeOK, CheckInvariant, Flip, NEW r \in Requests
  PROVE  CheckAt(r)'
<1>1. PICK i \in DOMAIN Checks, h \in Health : Flip!(i, h)
  BY DEF Flip
<1>2. UNCHANGED <<pc, op, sent, answer, ctx, held, at, bad>>
  BY <1>1 DEF request
<1>3. health' = [health EXCEPT ![i] = h]
  BY <1>1
<1>4. CheckAt(r)
  BY DEF CheckInvariant
<1>5. CASE ~Waiting(r)
  <2>1. seen'[r] = seen[r] /\ ~Waiting(r)'
    BY <1>1, <1>2, <1>5 DEF TypeOK, Waiting
  <2>2. QED BY <1>2, <1>4, <2>1 DEF CheckAt, CouldPass, CouldFail, ReadyTold
<1>6. CASE Waiting(r)
  <2>1. seen'[r] = [seen[r] EXCEPT ![i] = @ \cup {h}]
    BY <1>1, <1>6 DEF TypeOK
  <2>2. \A j \in DOMAIN Checks : seen[r][j] \subseteq seen'[r][j] /\ health'[j] \in {health[j]} \cup seen'[r][j]
    BY <1>3, <2>1 DEF TypeOK
  <2>3. \A j \in DOMAIN Checks : health'[j] \in seen'[r][j]
    BY <1>4, <1>6, <2>2 DEF CheckAt
  <2>4. \A j \in DOMAIN Checks : (CouldPass(r, j) => CouldPass(r, j)') /\ (CouldFail(r, j) => CouldFail(r, j)')
    BY <2>2 DEF CouldPass, CouldFail
  <2>5. pc[r] \notin {"respond", "answered"}
    BY <1>6 DEF Waiting
  <2>6. QED BY <1>2, <1>4, <2>3, <2>4, <2>5 DEF CheckAt
<1>7. QED BY <1>5, <1>6

LEMMA ReceiveKeepsChecks ==
  ASSUME TypeOK, NEW r \in Requests, CheckAt(r), Receive(r)
  PROVE  CheckAt(r)'
<1>1. PICK o \in Asks[r], req \in Kinds, trace \in Kinds : Receive(r)!(o, req, trace)
  BY DEF Receive
<1>2. at'[r] = 1 /\ bad'[r] = {} /\ UNCHANGED health
  BY <1>1 DEF CheckAt, outside
<1>3. op'[r] = o /\ (o = "ready" => \A i \in DOMAIN Checks : seen'[r][i] = {health[i]})
  BY <1>1 DEF TypeOK
<1>4. CASE "bad" \in {req, trace}
  <2>1. pc'[r] = "respond" /\ answer'[r].data = "none" /\ answer'[r].code = "REQUEST_INVALID"
    BY <1>1, <1>4 DEF TypeOK
  <2>2. QED BY <2>1 DEF CheckAt, ReadyTold, Waiting
<1>5. CASE "bad" \notin {req, trace}
  <2>1. pc'[r] = "route"
    BY <1>1, <1>5 DEF TypeOK
  <2>2. QED BY <1>2, <1>3, <2>1 DEF CheckAt, Waiting
<1>6. QED BY <1>4, <1>5

LEMMA RunCheckKeepsChecks ==
  ASSUME TypeOK, NEW r \in Requests, CheckAt(r), op[r] = "ready", RunCheck(r)
  PROVE  CheckAt(r)'
<1> DEFINE i == at[r]
<1>1. i \in DOMAIN Checks /\ health[i] \in seen[r][i] /\ at'[r] = i + 1 /\ pc[r] = "checks"
  BY ChecksAreListed DEF RunCheck, CheckAt, Waiting, TypeOK
<1>2. bad'[r] = IF health[i] = "ok" THEN bad[r] ELSE bad[r] \cup {i}
  BY DEF RunCheck, TypeOK
<1>3. UNCHANGED <<pc, op, answer, seen, health>>
  BY DEF RunCheck, request, outside
<1>4. health[i] = "ok" => CouldPass(r, i)
  BY <1>1 DEF CouldPass
<1>5. health[i] # "ok" => CouldFail(r, i)
  BY <1>1 DEF CouldFail
<1>6. \A j \in DOMAIN Checks : j < at'[r] => j < at[r] \/ j = i
  BY <1>1, ChecksAreListed DEF TypeOK
<1>7. \A j \in DOMAIN Checks : /\ j \in bad'[r] => CouldFail(r, j)
                               /\ j < at'[r] /\ j \notin bad'[r] => CouldPass(r, j)
  BY <1>1, <1>2, <1>4, <1>5, <1>6 DEF CheckAt
<1>8. \A j \in DOMAIN Checks : (CouldPass(r, j)' <=> CouldPass(r, j)) /\ (CouldFail(r, j)' <=> CouldFail(r, j))
  BY <1>3 DEF CouldPass, CouldFail
<1>9. QED BY <1>1, <1>3, <1>7, <1>8 DEF CheckAt, Waiting

LEMMA ReadyTells ==
  ASSUME TypeOK, NEW r \in Requests, CheckAt(r), Ready(r)
  PROVE  CheckAt(r)'
<1>1. pc[r] = "checks" /\ UNCHANGED <<at, bad, seen, health>>
  BY DEF Ready, checks, outside
<1>2. \A i \in DOMAIN Checks : /\ i \in bad[r] => CouldFail(r, i)
                               /\ i \notin bad[r] => CouldPass(r, i)
  BY <1>1, ChecksAreListed DEF CheckAt, Ready, TypeOK
<1>3. \A i \in DOMAIN Checks : (CouldPass(r, i)' <=> CouldPass(r, i)) /\ (CouldFail(r, i)' <=> CouldFail(r, i))
  BY <1>1 DEF CouldPass, CouldFail
<1>4. bad[r] \subseteq DOMAIN Checks
  BY DEF TypeOK
<1>5. pc'[r] = "respond"
  BY DEF Ready, Success, Envelope, TypeOK
<1>6. CASE \E i \in bad[r] : IsRequired(i)
  <2>1. answer'[r].data = "failed"
    BY <1>6 DEF Ready, Envelope, TypeOK
  <2>2. \E i \in DOMAIN Checks : IsRequired(i) /\ CouldFail(r, i)'
    BY <1>2, <1>3, <1>4, <1>6
  <2>3. ReadyTold(r)'
    BY <2>1, <2>2 DEF ReadyTold, IsRequired
  <2>4. QED BY <1>5, <2>3 DEF CheckAt, Waiting
<1>7. CASE ~\E i \in bad[r] : IsRequired(i)
  <2>1. answer'[r].data = IF bad[r] = {} THEN "ok" ELSE "degraded"
    BY <1>7 DEF Ready, Success, Envelope, TypeOK
  <2>2. bad[r] = {} => \A i \in DOMAIN Checks : CouldPass(r, i)'
    BY <1>2, <1>3
  <2>3. \A i \in DOMAIN Checks : IsRequired(i) => CouldPass(r, i)'
    BY <1>2, <1>3, <1>7
  <2>4. bad[r] # {} => \E i \in DOMAIN Checks : ~IsRequired(i) /\ CouldFail(r, i)'
    BY <1>2, <1>3, <1>4, <1>7
  <2>5. ReadyTold(r)'
    BY <2>1, <2>2, <2>3, <2>4 DEF ReadyTold, IsRequired
  <2>6. QED BY <1>5, <2>5 DEF CheckAt, Waiting
<1>8. QED BY <1>6, <1>7

\* Only Route touches a readiness request before the checks.
LEMMA RouteKeepsChecks ==
  ASSUME TypeOK, NEW r \in Requests, CheckAt(r), Route(r)
  PROVE  CheckAt(r)'
<1>1. pc[r] = "route" /\ at[r] = 1 /\ bad[r] = {} /\ UNCHANGED <<op, at, bad, seen, health>>
  BY DEF Route, CheckAt, checks, outside, Goto, HttpError, Error, ValidationError, Success, Envelope
<1>2. CASE op[r] = "ready"
  <2>1. op[r] \notin HasBody /\ op[r] \notin ItemOps \cup ComfyOps
    BY <1>2, Tables DEF HasBody, Probes, ProbeErrors
  <2>2. pc'[r] = "checks"
    BY <1>2, <2>1 DEF Route, Goto, TypeOK
  <2>3. QED BY <1>1, <1>2, <2>2, ChecksAreListed DEF CheckAt, Waiting
<1>3. CASE op[r] # "ready"
  <2>1. pc'[r] \in Inside \cup {"respond"}
    BY <1>3 DEF Route, Goto, HttpError, Error, ValidationError, Success, Envelope, TypeOK, Inside
  <2>2. QED BY <1>1, <1>3, <2>1 DEF CheckAt, Waiting, Inside
<1>4. QED BY <1>2, <1>3

LEMMA HandlersKeepChecks ==
  ASSUME TypeOK, OwnInvariant, ContractInvariant, NEW r \in Requests, CheckAt(r),
         Validate(r) \/ Authenticate(r) \/ GetService(r) \/ Call(r) \/ Work(r)
  PROVE  CheckAt(r)'
<1>1. pc[r] \in Inside
  BY DEF Validate, Authenticate, GetService, Call, Work, Inside
<1>2. op[r] # "ready" /\ ctx[r] = Own(r)
  BY <1>1, Tables DEF ContractInvariant, OwnInvariant, Inside, Probes, ProbeErrors
<1>3. pc'[r] \in Inside \cup {"respond", "answered"}
  BY <1>1, <1>2 DEF Validate, Authenticate, GetService, Call, Work, Goto, AppError, Unhandled, Error,
     ValidationError, Success, Envelope, TypeOK, Inside
<1>4. UNCHANGED op
  BY DEF Validate, Authenticate, GetService, Call, Work, Goto, AppError, Unhandled, Error, ValidationError,
     Success, Envelope
<1>5. QED BY <1>2, <1>3, <1>4 DEF CheckAt, Waiting, Inside

LEMMA RespondKeepsChecks ==
  ASSUME TypeOK, NEW r \in Requests, CheckAt(r), Respond(r)
  PROVE  CheckAt(r)'
<1>1. answer'[r].data = answer[r].data /\ answer'[r].code = answer[r].code
  BY DEF Respond, TypeOK, Answers
<1>2. pc[r] = "respond" /\ pc'[r] = "answered" /\ UNCHANGED <<op, seen, health>>
  BY DEF Respond, TypeOK, checks, outside
<1>3. QED BY <1>1, <1>2 DEF CheckAt, Waiting, ReadyTold, CouldPass, CouldFail

LEMMA OthersAreKept ==
  ASSUME TypeOK, OwnInvariant, NEW r \in Requests,
         Receive(r) \/ Loop(r) \/ Authenticate(r) \/ GetService(r) \/ Call(r) \/ Work(r),
         NEW q \in Requests \ {r}
  PROVE  /\ pc'[q] = pc[q] /\ op'[q] = op[q] /\ at'[q] = at[q] /\ bad'[q] = bad[q]
         /\ answer'[q] = answer[q] /\ seen'[q] = seen[q] /\ UNCHANGED health
<1>1. CASE Receive(r)
  BY <1>1 DEF Receive, TypeOK, outside
<1>2. CASE Respond(r)
  BY <1>2 DEF Respond, TypeOK, checks, outside
<1>3. CASE RunCheck(r)
  BY <1>3 DEF RunCheck, TypeOK, request, outside
<1>4. CASE Route(r) \/ Validate(r) \/ Ready(r) \/ Authenticate(r) \/ GetService(r) \/ Call(r) \/ Work(r)
  <2>1. Replies(r) /\ pc[r] \in Inside \cup {"route", "checks"} /\ UNCHANGED <<checks, outside>>
    BY <1>4, Reply
  <2>2. UNCHANGED op
    BY <2>1, RepliesTyped
  <2>3. ctx[r] = Own(r)
    BY <2>1 DEF OwnInvariant, Inside
  <2>4. QED BY <2>1, <2>2, <2>3, ReplyBody DEF checks, outside
<1>5. QED BY <1>1, <1>2, <1>3, <1>4 DEF Loop

LEMMA CheckStep ==
  ASSUME TypeOK, OwnInvariant, ContractInvariant, CheckInvariant, [Next]_vars
  PROVE  CheckInvariant'
<1>1. CASE UNCHANGED vars
  BY <1>1 DEF CheckInvariant, CheckAt, Waiting, ReadyTold, CouldPass, CouldFail, vars, request, checks, outside
<1>2. CASE Flip
  BY <1>2, FlipKeepsChecks DEF CheckInvariant
<1>3. ASSUME NEW r \in Requests,
             Receive(r) \/ Loop(r) \/ Authenticate(r) \/ GetService(r) \/ Call(r) \/ Work(r)
      PROVE  CheckInvariant'
  <2>1. CheckAt(r)
    BY DEF CheckInvariant
  <2>2. CheckAt(r)'
    <3>1. RunCheck(r) => op[r] = "ready"
      BY DEF RunCheck, ContractInvariant
    <3>2. QED
      BY <1>3, <2>1, <3>1, ReceiveKeepsChecks, RouteKeepsChecks, HandlersKeepChecks, RunCheckKeepsChecks, ReadyTells,
         RespondKeepsChecks DEF Loop
  <2>3. \A q \in Requests \ {r} : CheckAt(q)'
    BY <1>3, OthersAreKept, OthersKeepChecks DEF CheckInvariant
  <2>4. QED BY <2>2, <2>3 DEF CheckInvariant
<1>4. QED BY <1>1, <1>2, <1>3 DEF Next

(* What GET /ready tells is true of the time the request was there, for any  *)
(* list of checks and however often what they look at has changed.           *)
THEOREM ReadyTellsTruth == Spec => []ReadyIsTrue
<1> DEFINE Inv == TypeOK /\ OwnInvariant /\ ContractInvariant /\ CheckInvariant
<1>1. Init => Inv
  BY InitTyped, Tables DEF Init, OwnInvariant, ContractInvariant, CheckInvariant, CheckAt, Waiting, Inside
<1>2. Inv /\ [Next]_vars => Inv'
  BY TypedStep, OwnStep, ContractStep, CheckStep
<1>3. Inv => ReadyIsTrue
  BY DEF CheckInvariant, CheckAt, ReadyIsTrue, Answered
<1> HIDE DEF Inv
<1>4. QED BY <1>1, <1>2, <1>3, PTL DEF Spec

=============================================================================
