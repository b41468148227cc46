------------------------------ MODULE Lifecycle ------------------------------
(***************************************************************************)
(* The lifespan of an API process: its providers (postgres, redis, object  *)
(* storage, http client) are started in order and shut down in reverse,    *)
(* also when one of them cannot start.  uvicorn runs it around the socket: *)
(* it binds when all have started, and unbinds before it shuts them down.  *)
(***************************************************************************)
EXTENDS Naturals, FiniteSets, SequencesExt

CONSTANTS
  Pids,
  Order,     \* the providers in the order of their registration
  MaxFaults  \* bound on provider errors and crashes

ASSUME LifecycleAssumption ==
  MaxFaults \in Nat /\ Order \in Seq(Range(Order)) /\ IsInjective(Order)

VARIABLES
  phase,   \* each process: no API ("free", "foreign"), or how far its lifespan has come
  started, \* LifecycleProviderRegistry._started
  term,    \* the processes that have been sent SIGTERM
  port,    \* who listens on API_PORT
  faults

CONSTANTS NoPid, Other \* nobody, and somebody who is none of Pids

app == <<phase, started, term, port, faults>>

Phases == {"free", "foreign", "starting", "failing", "ready", "serving", "stopping", "ended"}

AppInit ==
  /\ phase = [p \in Pids |-> "free"] /\ started = [p \in Pids |-> <<>>]
  /\ term = {} /\ port = NoPid /\ faults = 0

Alive(p) == phase[p] \notin {"free", "foreign"}

Enter(p, from, to) == phase[p] = from /\ phase' = [phase EXCEPT ![p] = to]

Fault == faults < MaxFaults /\ faults' = faults + 1

\* A provider starts and is remembered; then its health check is registered.
StartProvider(p) ==
  /\ phase[p] = "starting" /\ Len(started[p]) < Len(Order)
  /\ \/ /\ started' = [started EXCEPT ![p] = Append(@, Order[Len(@) + 1])]
        /\ UNCHANGED <<phase, faults>>
     \/ Fault /\ Enter(p, "starting", "failing") /\ UNCHANGED started
  /\ UNCHANGED <<term, port>>

AllStarted(p) ==
  /\ Len(started[p]) = Len(Order) /\ Enter(p, "starting", "ready")
  /\ UNCHANGED <<started, term, port, faults>>

\* Mutant: the shutdown ends with the first provider that raises.
ShutdownStopsAtError(p) ==
  /\ phase[p] \in {"failing", "stopping"} /\ started[p] # <<>>
  /\ started' = [started EXCEPT ![p] = Front(@)]
  /\ \/ UNCHANGED <<phase, faults>>
     \/ Fault /\ phase' = [phase EXCEPT ![p] = "ended"]
  /\ UNCHANGED <<term, port>>

\* Popped before it is shut down; what it raises is collected.
ShutdownProvider(p) ==
  /\ phase[p] \in {"failing", "stopping"} /\ started[p] # <<>>
  /\ started' = [started EXCEPT ![p] = Front(@)]
  /\ (Fault \/ UNCHANGED faults)
  /\ UNCHANGED <<phase, term, port>>

AllShutDown(p) ==
  /\ phase[p] \in {"failing", "stopping"} /\ started[p] = <<>>
  /\ phase' = [phase EXCEPT ![p] = "ended"]
  /\ UNCHANGED <<started, term, port, faults>>

-----------------------------------------------------------------------------
(* uvicorn, the kernel and other processes.                                 *)

Bind(p) ==
  /\ p \notin term
  /\ \/ port = NoPid /\ Enter(p, "ready", "serving") /\ port' = p
     \/ port # NoPid /\ Enter(p, "ready", "stopping") /\ UNCHANGED port
  /\ UNCHANGED <<started, term, faults>>

Unbind(p) ==
  /\ p \in term /\ Enter(p, "serving", "stopping") /\ port' = NoPid
  /\ UNCHANGED <<started, term, faults>>

\* The process is gone: at the end of its lifespan, by a signal before it
\* serves (uvicorn then skips the shutdown), or by a crash.
Gone(p) ==
  /\ Alive(p)
  /\ \/ phase[p] = "ended" /\ UNCHANGED faults
     \/ phase[p] = "ready" /\ p \in term /\ UNCHANGED faults
     \/ Fault
  /\ phase' = [phase EXCEPT ![p] = "free"] /\ started' = [started EXCEPT ![p] = <<>>]
  /\ term' = term \ {p} /\ port' = IF port = p THEN NoPid ELSE port

\* A foreign process gets the pid, or loses it.
Recycle(p) ==
  /\ Enter(p, "free", "foreign") \/ Enter(p, "foreign", "free")
  /\ UNCHANGED <<started, term, port, faults>>

Lifespan(p) == StartProvider(p) \/ AllStarted(p) \/ ShutdownProvider(p) \/ AllShutDown(p)
Process(p)  == Bind(p) \/ Unbind(p) \/ Gone(p) \/ Recycle(p)

-----------------------------------------------------------------------------
(* LifecycleProviderRegistry: whichever provider fails to start or to stop, *)
(* those that run are always the first of the order, and a process that     *)
(* reaches the end of its lifespan has shut down every one of them.         *)
ProvidersUnwind ==
  \A p \in Pids : IsPrefix(started[p], Order) /\ (phase[p] = "ended" => started[p] = <<>>)
=============================================================================
