------------------------------- MODULE HttpApi -------------------------------
(***************************************************************************)
(* The HTTP layer of one API process that serves: what becomes of a        *)
(* request between its arrival and its answer.  Everything runs on one     *)
(* event loop, but for the sync dependencies and the sync handlers of      *)
(* routes/comfy.py, which wait for one of a fixed number of threads.       *)
(*                                                                         *)
(* What a handler does is in the other modules; here it ends in one of the *)
(* ways its code has: an answer, an AppError, or any other exception.      *)
(***************************************************************************)
EXTENDS FiniteSets, Naturals, Sequences

CONSTANTS
  Requests,  \* one each of a connection or of several
  Asks,      \* what each may ask for; "none" is no route, or no such method
  Threads,   \* the size of anyio's thread pool
  Checks,    \* the names in the health registry, in the order of registration
  Required,  \* those of them that are required
  MaxFlips   \* bound on changes of what the checks look at

ASSUME HttpAssumption ==
  /\ Threads \in Nat \ {0} /\ MaxFlips \in Nat
  /\ Checks \in Seq({Checks[i] : i \in DOMAIN Checks})

-----------------------------------------------------------------------------
(* The error registry and the operation registry.                           *)

Registered ==
  [REQUEST_INVALID |-> 422, UNAUTHORIZED |-> 401, FORBIDDEN |-> 403, RESOURCE_NOT_FOUND |-> 404,
   RESOURCE_CONFLICT |-> 409, DEPENDENCY_UNAVAILABLE |-> 503, INTERNAL_ERROR |-> 500,
   ITEM_NOT_FOUND |-> 404, ITEM_NAME_CONFLICT |-> 409, ITEM_VERSION_CONFLICT |-> 409]

ProbeErrors == [health |-> {}, ready |-> {"DEPENDENCY_UNAVAILABLE"}]

ItemErrors ==
  [create_item |-> {"ITEM_NAME_CONFLICT"}, get_item |-> {"ITEM_NOT_FOUND"}, list_items |-> {"REQUEST_INVALID"},
   update_item |-> {"ITEM_NOT_FOUND", "ITEM_NAME_CONFLICT", "ITEM_VERSION_CONFLICT"},
   delete_item |-> {"ITEM_NOT_FOUND", "ITEM_VERSION_CONFLICT"}]

\* comfy_workspace_init to comfy_runtimes_current.
SelectErrors ==
  [comfy_workspace_init |-> {"RESOURCE_CONFLICT"},
   comfy_versions_list |-> {}, comfy_versions_current |-> {}, comfy_runtimes_list |-> {}, comfy_runtimes_current |-> {},
   comfy_versions_fetch |-> {"DEPENDENCY_UNAVAILABLE", "RESOURCE_CONFLICT"},
   comfy_versions_use |-> {"RESOURCE_NOT_FOUND", "RESOURCE_CONFLICT"},
   comfy_runtimes_import |-> {"DEPENDENCY_UNAVAILABLE", "RESOURCE_NOT_FOUND", "RESOURCE_CONFLICT"},
   comfy_runtimes_use |-> {"RESOURCE_NOT_FOUND", "RESOURCE_CONFLICT"}]

\* comfy_models_list to comfy_service_logs.
ServeErrors ==
  [comfy_models_list |-> {}, comfy_models_link |-> {"RESOURCE_NOT_FOUND", "RESOURCE_CONFLICT"},
   comfy_models_download |-> {"DEPENDENCY_UNAVAILABLE"},
   comfy_service_start |-> {"RESOURCE_NOT_FOUND", "RESOURCE_CONFLICT", "DEPENDENCY_UNAVAILABLE"},
   comfy_service_stop |-> {"DEPENDENCY_UNAVAILABLE"}, comfy_service_status |-> {},
   comfy_service_logs |-> {"REQUEST_INVALID"}]

Probes   == DOMAIN ProbeErrors
ItemOps  == DOMAIN ItemErrors
ComfyOps == DOMAIN SelectErrors \cup DOMAIN ServeErrors
Routes   == Probes \cup ItemOps \cup ComfyOps

ASSUME AsksAssumption == Asks \in [Requests -> SUBSET (Routes \cup {"none"})]

ErrorCodes(o) ==
  {"REQUEST_INVALID", "INTERNAL_ERROR"}
    \cup (IF o \in Probes THEN ProbeErrors[o] ELSE IF o \in ItemOps THEN ItemErrors[o]
          ELSE IF o \in DOMAIN SelectErrors THEN SelectErrors[o] ELSE ServeErrors[o])
    \cup (IF o \in Probes THEN {} ELSE {"UNAUTHORIZED"})

SuccessStatus(o) == IF o = "create_item" THEN 201 ELSE 200

\* What the API document says an operation answers, a status and a code each.
Responses(o) == {<<SuccessStatus(o), "OK">>} \cup {<<Registered[c], c>> : c \in ErrorCodes(o)}

-----------------------------------------------------------------------------
(* What the handlers raise, followed through every call they make.          *)

ItemRaises ==
  [create_item |-> {"ITEM_NAME_CONFLICT"}, get_item |-> {"ITEM_NOT_FOUND"}, list_items |-> {"REQUEST_INVALID"},
   update_item |-> {"ITEM_NOT_FOUND", "ITEM_NAME_CONFLICT", "ITEM_VERSION_CONFLICT"},
   delete_item |-> {"ITEM_NOT_FOUND", "ITEM_VERSION_CONFLICT"}]

VersionRaises ==
  [comfy_workspace_init |-> {}, comfy_versions_list |-> {}, comfy_versions_current |-> {},
   comfy_versions_fetch |-> {"REQUEST_INVALID", "RESOURCE_CONFLICT", "DEPENDENCY_UNAVAILABLE", "CONFIG_INVALID"},
   comfy_versions_use |-> {"RESOURCE_NOT_FOUND", "RESOURCE_CONFLICT", "DEPENDENCY_UNAVAILABLE"}]

RuntimeRaises ==
  [comfy_runtimes_list |-> {"RESOURCE_CONFLICT"}, comfy_runtimes_current |-> {"RESOURCE_CONFLICT"},
   comfy_runtimes_import |-> {"REQUEST_INVALID", "RESOURCE_NOT_FOUND", "RESOURCE_CONFLICT", "DEPENDENCY_UNAVAILABLE"},
   comfy_runtimes_use |-> {"REQUEST_INVALID", "RESOURCE_NOT_FOUND", "RESOURCE_CONFLICT"}]

ModelRaises ==
  [comfy_models_list |-> {}, comfy_models_link |-> {"RESOURCE_NOT_FOUND", "RESOURCE_CONFLICT"},
   comfy_models_download |-> {"DEPENDENCY_UNAVAILABLE", "REQUEST_INVALID", "RESOURCE_CONFLICT"}]

ServiceRaises ==
  [comfy_service_start |-> {"RESOURCE_NOT_FOUND", "RESOURCE_CONFLICT", "DEPENDENCY_UNAVAILABLE"},
   comfy_service_stop |-> {"RESOURCE_CONFLICT", "DEPENDENCY_UNAVAILABLE"},
   comfy_service_status |-> {"RESOURCE_CONFLICT"}, comfy_service_logs |-> {}]

Raises(o) ==
  CASE o \in ItemOps -> ItemRaises[o] [] o \in DOMAIN VersionRaises -> VersionRaises[o]
    [] o \in DOMAIN RuntimeRaises -> RuntimeRaises[o] [] o \in DOMAIN ModelRaises -> ModelRaises[o]
    [] o \in DOMAIN ServiceRaises -> ServiceRaises[o]

HasBody  == {"create_item", "update_item", "delete_item", "comfy_versions_fetch", "comfy_versions_use",
             "comfy_runtimes_import", "comfy_runtimes_use", "comfy_models_download"}
HasQuery == {"list_items", "comfy_service_logs"}

-----------------------------------------------------------------------------
VARIABLES
  pc, op,     \* where each request is, and what it asks for
  sent,       \* the ids in its headers: none, a valid one, or a bad one
  ctx,        \* the context variables of its task
  held,       \* the requests whose handler has a thread
  at, bad,    \* a readiness request: its next check, and the checks that failed
  answer,
  health,     \* what each check would find now
  seen,       \* history: what a check could have found since the request came
  flips

request == <<pc, op, sent, answer>>
checks  == <<at, bad, seen>>
outside == <<health, flips>>
vars    == <<request, ctx, held, checks, outside>>

Kinds  == {"none", "valid", "bad"}
Health == {"ok", "failed", "silent"} \* silent: no answer within the timeout

\* An id, by where it is from: the header of a request, or new_context_id.
Ids(r, req, trace) == [req |-> <<req, r>>, trace |-> <<trace, r>>]
NoIds(r) == Ids(r, "none", "none")

\* request.state: a bad request id is replaced, else a bad trace id.
Own(r) ==
  Ids(r, IF sent[r].req = "valid" THEN "valid" ELSE "new",
         IF sent[r].trace = "valid" \/ (sent[r].trace = "bad" /\ sent[r].req = "bad") THEN sent[r].trace ELSE "new")

NoAnswer(r) == [code |-> "none", status |-> 0, data |-> "none", body |-> NoIds(r), head |-> NoIds(r)]

Init ==
  /\ pc = [r \in Requests |-> "client"] /\ op = [r \in Requests |-> "none"]
  /\ sent = [r \in Requests |-> [req |-> "none", trace |-> "none"]]
  /\ ctx = [r \in Requests |-> NoIds(r)] /\ held = {}
  /\ at = [r \in Requests |-> 1] /\ bad = [r \in Requests |-> {}]
  /\ seen = [r \in Requests |-> [i \in DOMAIN Checks |-> {}]]
  /\ answer = [r \in Requests |-> NoAnswer(r)]
  /\ health = [i \in DOMAIN Checks |-> "ok"] /\ flips = 0

At(r, loc) == pc[r] = loc
Goto(r, loc) == pc' = [pc EXCEPT ![r] = loc] /\ UNCHANGED <<op, sent, answer>>

\* An envelope on its way to the middleware.
Envelope(r, status, code, data, ids) ==
  /\ pc' = [pc EXCEPT ![r] = "respond"]
  /\ answer' = [answer EXCEPT ![r] = [code |-> code, status |-> status, data |-> data, body |-> ids, head |-> NoIds(r)]]
  /\ UNCHANGED <<op, sent>>

Success(r, data)         == Envelope(r, SuccessStatus(op[r]), "OK", data, ctx[r])
Error(r, status, code)   == Envelope(r, status, code, "none", Own(r))
ValidationError(r)       == Error(r, Registered["REQUEST_INVALID"], "REQUEST_INVALID")
HttpError(r, status)     == Error(r, status, IF status = 404 THEN "RESOURCE_NOT_FOUND" ELSE "REQUEST_INVALID")

\* Outside the middleware, so that no id comes into the headers.
Unhandled(r) ==
  /\ pc' = [pc EXCEPT ![r] = "answered"]
  /\ answer' = [answer EXCEPT ![r] = [code |-> "INTERNAL_ERROR", status |-> Registered["INTERNAL_ERROR"],
                                      data |-> "none", body |-> Own(r), head |-> NoIds(r)]]
  /\ UNCHANGED <<op, sent>>

\* A code that nobody registered makes the handler of the error raise itself.
AppError(r, code) ==
  IF code \in DOMAIN Registered THEN Error(r, Registered[code], code) ELSE Unhandled(r)

-----------------------------------------------------------------------------
\* Mutant: the ids of the last request are those of all.
SetContextOfAll(r, ids) == ctx' = [q \in Requests |-> ids]

SetContext(r, ids) == ctx' = [ctx EXCEPT ![r] = ids]

\* RequestContextMiddleware, up to call_next.
Receive(r) == \E o \in Asks[r], req \in Kinds, trace \in Kinds :
  /\ At(r, "client")
  /\ op' = [op EXCEPT ![r] = o] /\ sent' = [sent EXCEPT ![r] = [req |-> req, trace |-> trace]]
  /\ SetContext(r, Own(r)')
  /\ IF "bad" \in {req, trace}
     THEN /\ pc' = [pc EXCEPT ![r] = "respond"]
          /\ answer' = [answer EXCEPT ![r] = [code |-> "REQUEST_INVALID", status |-> Registered["REQUEST_INVALID"],
                                              data |-> "none", body |-> Own(r)', head |-> NoIds(r)]]
     ELSE pc' = [pc EXCEPT ![r] = "route"] /\ UNCHANGED answer
  /\ seen' = [seen EXCEPT ![r] = [i \in DOMAIN Checks |-> IF o = "ready" THEN {health[i]} ELSE {}]]
  /\ UNCHANGED <<held, at, bad, outside>>

\* A body is read, and must be JSON, before any dependency is looked at.
Route(r) ==
  /\ At(r, "route")
  /\ \/ op[r] = "none" /\ \E status \in {404, 405} : HttpError(r, status)
     \/ op[r] = "health" /\ Success(r, "ok")
     \/ op[r] = "ready" /\ Goto(r, "checks")
     \/ op[r] \in HasBody /\ ValidationError(r)
     \/ op[r] \in ItemOps \cup ComfyOps /\ Goto(r, "auth")
  /\ UNCHANGED <<ctx, held, checks, outside>>

ThreadFree == Cardinality(held) < Threads

\* Mutant: wrong credentials are a matter of permission.
AuthenticateForbids(r) ==
  /\ At(r, "auth") /\ ThreadFree
  /\ AppError(r, "FORBIDDEN") \/ Goto(r, IF op[r] \in ItemOps THEN "service" ELSE "validate")
  /\ UNCHANGED <<ctx, held, checks, outside>>

\* get_current_principal, in a thread for as long as it takes.
Authenticate(r) ==
  /\ At(r, "auth") /\ ThreadFree
  /\ AppError(r, "UNAUTHORIZED") \/ Goto(r, IF op[r] \in ItemOps THEN "service" ELSE "validate")
  /\ UNCHANGED <<ctx, held, checks, outside>>

\* get_item_service, another sync dependency.
GetService(r) ==
  /\ At(r, "service") /\ ThreadFree /\ Goto(r, "validate")
  /\ UNCHANGED <<ctx, held, checks, outside>>

Validate(r) ==
  /\ At(r, "validate")
  /\ \/ op[r] \in HasBody \cup HasQuery /\ ValidationError(r)
     \/ Goto(r, IF op[r] \in ItemOps THEN "work" ELSE "call")
  /\ UNCHANGED <<ctx, held, checks, outside>>

\* A sync handler gets its thread.
Call(r) ==
  /\ At(r, "call") /\ ThreadFree /\ Goto(r, "work") /\ held' = held \cup {r}
  /\ UNCHANGED <<ctx, checks, outside>>

\* The handler ends, if it ever does.
Work(r) ==
  /\ At(r, "work")
  /\ Success(r, "none") \/ (\E code \in Raises(op[r]) : AppError(r, code)) \/ Unhandled(r)
  /\ held' = held \ {r}
  /\ UNCHANGED <<ctx, checks, outside>>

-----------------------------------------------------------------------------
(* run_health_checks, one check after the other.                            *)

\* Mutant: a later check makes up for an earlier one.
RunLastCheck(r) ==
  /\ At(r, "checks") /\ at[r] <= Len(Checks)
  /\ at' = [at EXCEPT ![r] = @ + 1]
  /\ bad' = [bad EXCEPT ![r] = IF health[at[r]] = "ok" THEN {} ELSE {at[r]}]
  /\ UNCHANGED <<request, ctx, held, seen, outside>>

\* Mutant: no timeout.
RunCheckForever(r) ==
  /\ At(r, "checks") /\ at[r] <= Len(Checks) /\ health[at[r]] # "silent"
  /\ at' = [at EXCEPT ![r] = @ + 1]
  /\ bad' = [bad EXCEPT ![r] = IF health[at[r]] = "ok" THEN @ ELSE @ \cup {at[r]}]
  /\ UNCHANGED <<request, ctx, held, seen, outside>>

RunCheck(r) ==
  /\ At(r, "checks") /\ at[r] <= Len(Checks)
  /\ at' = [at EXCEPT ![r] = @ + 1]
  /\ bad' = [bad EXCEPT ![r] = IF health[at[r]] = "ok" THEN @ ELSE @ \cup {at[r]}]
  /\ UNCHANGED <<request, ctx, held, seen, outside>>

IsRequired(i) == Checks[i] \in Required

Ready(r) ==
  /\ At(r, "checks") /\ at[r] > Len(Checks)
  /\ IF \E i \in bad[r] : IsRequired(i)
     THEN Envelope(r, Registered["DEPENDENCY_UNAVAILABLE"], "DEPENDENCY_UNAVAILABLE", "failed", ctx[r])
     ELSE Success(r, IF bad[r] = {} THEN "ok" ELSE "degraded")
  /\ UNCHANGED <<ctx, held, checks, outside>>

\* RequestContextMiddleware, after call_next.
Respond(r) ==
  /\ At(r, "respond") /\ pc' = [pc EXCEPT ![r] = "answered"]
  /\ answer' = [answer EXCEPT ![r].head = Own(r)]
  /\ UNCHANGED <<op, sent, ctx, held, checks, outside>>

Waiting(r) == pc[r] \in {"route", "checks"} /\ op[r] = "ready"

\* A dependency comes, goes, or falls silent.
Flip == \E i \in DOMAIN Checks, h \in Health :
  /\ h # health[i] /\ flips < MaxFlips /\ flips' = flips + 1
  /\ health' = [health EXCEPT ![i] = h]
  /\ seen' = [r \in Requests |-> IF Waiting(r) THEN [seen[r] EXCEPT ![i] = @ \cup {h}] ELSE seen[r]]
  /\ UNCHANGED <<request, ctx, held, at, bad>>

-----------------------------------------------------------------------------
Loop(r) == Route(r) \/ Validate(r) \/ RunCheck(r) \/ Ready(r) \/ Respond(r)

Next ==
  \/ \E r \in Requests : Receive(r) \/ Loop(r) \/ Authenticate(r) \/ GetService(r) \/ Call(r) \/ Work(r)
  \/ Flip

Spec == Init /\ [][Next]_vars

\* The event loop goes on, and a check comes to its end or its timeout.  No
\* handler is known to end, nor does a thread come free.
FairSpec == Spec /\ \A r \in Requests : WF_vars(Loop(r))

-----------------------------------------------------------------------------
Places   == {"client", "route", "auth", "service", "validate", "call", "work", "checks", "respond", "answered"}
IdKinds  == Kinds \cup {"new"}
AnyIds   == [req : IdKinds \X Requests, trace : IdKinds \X Requests]
Codes    == DOMAIN Registered \cup {"none", "OK"}
Answers  == [code : Codes, status : Nat, data : {"none", "ok", "degraded", "failed"}, body : AnyIds, head : AnyIds]

TypeOK ==
  /\ pc \in [Requests -> Places]
  /\ op \in [Requests -> Routes \cup {"none"}] /\ sent \in [Requests -> [req : Kinds, trace : Kinds]]
  /\ ctx \in [Requests -> AnyIds] /\ held \subseteq Requests
  /\ at \in [Requests -> 1..Len(Checks) + 1] /\ bad \in [Requests -> SUBSET DOMAIN Checks]
  /\ answer \in [Requests -> Answers]
  /\ health \in [DOMAIN Checks -> Health] /\ seen \in [Requests -> [DOMAIN Checks -> SUBSET Health]]
  /\ flips \in 0..MaxFlips

Answered(r) == pc[r] = "answered"

\* By the ids its client gave, or by new ones for bad or missing ones; not if both are bad.
IsOwn(ids, r) ==
  /\ ids.req = <<IF sent[r].req = "valid" THEN "valid" ELSE "new", r>>
  /\ \/ ids.trace = <<IF sent[r].trace = "valid" THEN "valid" ELSE "new", r>>
     \/ sent[r] = [req |-> "bad", trace |-> "bad"]

(* set_request_context, request.state: however requests interleave on the     *)
(* loop and in the threads, an answer names its own request, in the body and, *)
(* unless it is a 500, in the headers.                                        *)
AnswersAreOwn ==
  \A r \in Requests : Answered(r) =>
    /\ IsOwn(answer[r].body, r)
    /\ answer[r].head = answer[r].body \/ answer[r].code = "INTERNAL_ERROR"

\* What the code answers beyond what its registration, and the API document, say.
Undeclared ==
  {<<"comfy_versions_use", "DEPENDENCY_UNAVAILABLE">>, <<"comfy_models_download", "RESOURCE_CONFLICT">>,
   <<"comfy_service_stop", "RESOURCE_CONFLICT">>, <<"comfy_service_status", "RESOURCE_CONFLICT">>,
   <<"comfy_runtimes_list", "RESOURCE_CONFLICT">>, <<"comfy_runtimes_current", "RESOURCE_CONFLICT">>}

MayAnswer(o, status, code) == <<status, code>> \in Responses(o) \/ <<o, code>> \in Undeclared

(* operations.py, error_registry.py and the raises of every handler: an       *)
(* answer has a status and a code that its operation declares, whichever of   *)
(* the four exception handlers made it, but for the six of Undeclared.        *)
AnswersFollowContract ==
  \A r \in Requests : Answered(r) /\ op[r] # "none" => MayAnswer(op[r], answer[r].status, answer[r].code)

CouldPass(r, i) == "ok" \in seen[r][i]
CouldFail(r, i) == seen[r][i] \ {"ok"} # {}

ReadyTold(r) ==
  /\ answer[r].data = "ok" => \A i \in DOMAIN Checks : CouldPass(r, i)
  /\ answer[r].data = "degraded" =>
       /\ \A i \in DOMAIN Checks : IsRequired(i) => CouldPass(r, i)
       /\ \E i \in DOMAIN Checks : ~IsRequired(i) /\ CouldFail(r, i)
  /\ answer[r].data = "failed" => \E i \in DOMAIN Checks : IsRequired(i) /\ CouldFail(r, i)
  /\ answer[r].data = "none" => answer[r].code = "REQUEST_INVALID"

(* run_health_checks: "ok" says that each check could pass at some time since *)
(* the request came, though not that all could at once; 503 that a required   *)
(* one could not, "degraded" that only others could not.                      *)
ReadyIsTrue == \A r \in Requests : Answered(r) /\ op[r] = "ready" => ReadyTold(r)

(* GET /health and GET /ready are answered although every thread is held by a *)
(* handler that never ends and a dependency never answers.                    *)
ProbesAnswered == \A r \in Requests : op[r] \in Probes /\ pc[r] # "client" ~> pc[r] = "answered"
=============================================================================
