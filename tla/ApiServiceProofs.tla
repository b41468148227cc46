--------------------------- MODULE ApiServiceProofs ---------------------------
(***************************************************************************)
(* Proofs about ApiService, for any commands, pids and providers, and any  *)
(* number of faults and interrupts.                                        *)
(***************************************************************************)
EXTENDS ApiService, SequenceTheorems, TLAPS

USE DEF At, Alive, Phases

-----------------------------------------------------------------------------
(* The invariants.                                                          *)

\* What the phases of a process say about its providers and about the port.
LifespanInvariant ==
  /\ ProvidersUnwind
  /\ \A p \in Pids : phase[p] \in {"ready", "serving"} => started[p] = Order
  /\ \A p \in Pids : port = p => phase[p] = "serving"
  /\ ~intruded => port # Other

\* Commands come one by one.
OneAtATime == \A c, d \in Commands : ~At(c, "idle") /\ ~At(d, "idle") => c = d

NoApi == \A p \in Pids : ~Alive(p)

\* What a location relies on: no API from the moment start or up has looked until the
\* spawn; only the spawned one until it is recorded; a stop that has looked works on the
\* process that the file names, and none is left when it waits for the port.
Located(c) ==
  /\ pc[c] \in {"start_port", "spawn"} => NoApi /\ ~compose
  /\ pc[c] \in {"compose_up", "wait_port"} => NoApi
  /\ pc[c] \in {"write_pid", "write_meta"} => \A p \in Pids : Alive(p) => p = pid[c]
  /\ At(c, "write_meta") => pidFile = pid[c]
  /\ pc[c] \in {"kill", "wait_exit"} => pid[c] = pidFile /\ pid[c] \in Pids

Recorded(p) == (Starting(p) \/ (pidFile = p /\ meta = p)) /\ ~compose

ScriptInvariant ==
  Orderly =>
    /\ OneAtATime
    /\ \A c \in Commands : Located(c)
    /\ \A p \in Pids : Alive(p) => Recorded(p)

-----------------------------------------------------------------------------
(* Prefixes of a sequence.                                                   *)

LEMMA SubSeqIs ==
  ASSUME NEW S, NEW s \in Seq(S), NEW n \in 0..Len(s)
  PROVE  /\ SubSeq(s, 1, n) \in Seq(S) /\ Len(SubSeq(s, 1, n)) = n
         /\ \A i \in 1..n : SubSeq(s, 1, n)[i] = s[i]
<1>1. n \in Int /\ n >= 0
  OBVIOUS
<1>2. \A i \in 1..n : s[i] \in S
  OBVIOUS
<1>3. SubSeq(s, 1, n) \in Seq(S)
  BY <1>1, <1>2, SubSeqProperties
<1>4. Len(SubSeq(s, 1, n)) = IF 1<=n THEN n-1+1 ELSE 0
  BY <1>1, <1>2, SubSeqProperties
<1>5. \A i \in 1..(n-1+1) : SubSeq(s, 1, n)[i] = s[1+i-1]
  BY <1>1, <1>2, SubSeqProperties
<1>6. Len(SubSeq(s, 1, n)) = n
  BY <1>1, <1>4
<1>7. \A i \in 1..n : SubSeq(s, 1, n)[i] = s[i]
  BY <1>1, <1>5
<1>8. QED BY <1>3, <1>6, <1>7

LEMMA PrefixIs ==
  ASSUME NEW S, NEW s \in Seq(S), NEW t \in Seq(S)
  PROVE  IsPrefix(s, t) <=> Len(s) <= Len(t) /\ \A i \in 1..Len(s) : s[i] = t[i]
<1>1. CASE Len(s) <= Len(t)
  <2>1. Len(s) \in 0..Len(s) /\ Len(s) \in 0..Len(t)
    BY <1>1
  <2>2. /\ SubSeq(s, 1, Len(s)) \in Seq(S) /\ Len(SubSeq(s, 1, Len(s))) = Len(s)
        /\ \A i \in 1..Len(s) : SubSeq(s, 1, Len(s))[i] = s[i]
    BY <2>1, SubSeqIs
  <2>3. /\ SubSeq(t, 1, Len(s)) \in Seq(S) /\ Len(SubSeq(t, 1, Len(s))) = Len(s)
        /\ \A i \in 1..Len(s) : SubSeq(t, 1, Len(s))[i] = t[i]
    BY <2>1, SubSeqIs
  <2>4. SubSeq(s, 1, Len(s)) = SubSeq(t, 1, Len(s)) <=> \A i \in 1..Len(s) : s[i] = t[i]
    BY <2>2, <2>3, SeqEqual
  <2>5. QED BY <1>1, <2>4 DEF IsPrefix
<1>2. CASE ~(Len(s) <= Len(t))
  BY <1>2 DEF IsPrefix
<1>3. QED BY <1>1, <1>2

LEMMA PrefixGrows ==
  ASSUME NEW S, NEW s \in Seq(S), NEW t \in Seq(S), IsPrefix(s, t), Len(s) < Len(t)
  PROVE  IsPrefix(Append(s, t[Len(s) + 1]), t)
<1>1. \A i \in 1..Len(s) : s[i] = t[i]
  BY PrefixIs
<1>2. t[Len(s) + 1] \in S
  OBVIOUS
<1> DEFINE r == Append(s, t[Len(s) + 1])
<1>3. r \in Seq(S) /\ Len(r) = Len(s) + 1 /\ r[Len(s) + 1] = t[Len(s) + 1]
      /\ \A i \in 1..Len(s) : r[i] = s[i]
  BY <1>2
<1>4. \A i \in 1..Len(r) : r[i] = t[i]
  BY <1>1, <1>3
<1> HIDE DEF r
<1>5. IsPrefix(r, t)
  BY <1>3, <1>4, PrefixIs
<1>6. QED BY <1>5 DEF r

LEMMA FrontIs ==
  ASSUME NEW S, NEW s \in Seq(S), s # <<>>
  PROVE  /\ Front(s) \in Seq(S) /\ Len(Front(s)) = Len(s) - 1
         /\ \A i \in 1..(Len(s) - 1) : Front(s)[i] = s[i]
<1> DEFINE n == Len(s) - 1
<1>1. n \in 0..Len(s)
  OBVIOUS
<1> HIDE DEF n
<1>2. /\ SubSeq(s, 1, n) \in Seq(S) /\ Len(SubSeq(s, 1, n)) = n
      /\ \A i \in 1..n : SubSeq(s, 1, n)[i] = s[i]
  BY <1>1, SubSeqIs
<1>3. QED BY <1>2 DEF Front, n

LEMMA PrefixShrinks ==
  ASSUME NEW S, NEW s \in Seq(S), NEW t \in Seq(S), IsPrefix(s, t), s # <<>>
  PROVE  Front(s) \in Seq(S) /\ IsPrefix(Front(s), t)
<1>2. /\ Front(s) \in Seq(S) /\ Len(Front(s)) = Len(s) - 1
      /\ \A i \in 1..(Len(s) - 1) : Front(s)[i] = s[i]
  BY FrontIs
<1>3. Len(s) <= Len(t) /\ \A i \in 1..Len(s) : s[i] = t[i]
  BY PrefixIs
<1>4. \A i \in 1..Len(Front(s)) : Front(s)[i] = t[i]
  BY <1>2, <1>3
<1>5. Len(Front(s)) <= Len(t)
  BY <1>2, <1>3
<1>6. QED BY <1>2, <1>4, <1>5, PrefixIs

LEMMA PrefixEmpty ==
  ASSUME NEW S, NEW t \in Seq(S)
  PROVE  IsPrefix(<<>>, t)
<1> DEFINE e == <<>>
<1>1. e \in Seq(S) /\ Len(e) = 0 /\ Len(t) >= 0
  OBVIOUS
<1> HIDE DEF e
<1>2. Len(e) <= Len(t) /\ \A i \in 1..Len(e) : e[i] = t[i]
  BY <1>1
<1>3. IsPrefix(e, t)
  BY <1>1, <1>2, PrefixIs, Zenon
<1>4. QED BY <1>3 DEF e

LEMMA PrefixWhole ==
  ASSUME NEW S, NEW s \in Seq(S), NEW t \in Seq(S), IsPrefix(s, t), Len(s) = Len(t)
  PROVE  s = t
BY PrefixIs, SeqEqual
-----------------------------------------------------------------------------
(* Types.                                                                   *)

LEMMA ProvidersTyped ==
  ASSUME TypeOK, NEW p \in Pids, Len(started[p]) < Len(Order)
  PROVE  [started EXCEPT ![p] = Append(@, Order[Len(@) + 1])] \in [Pids -> Seq(Range(Order))]
<1>1. started[p] \in Seq(Range(Order)) /\ Order \in Seq(Range(Order))
  BY LifecycleAssumption DEF TypeOK
<1>2. Len(started[p]) + 1 \in 1..Len(Order)
  BY <1>1
<1>3. Order[Len(started[p]) + 1] \in Range(Order)
  BY <1>1, <1>2
<1>4. Append(started[p], Order[Len(started[p]) + 1]) \in Seq(Range(Order))
  BY <1>1, <1>3
<1>5. QED BY <1>4 DEF TypeOK

LEMMA InitTyped == Init => TypeOK
<1> SUFFICES ASSUME Init PROVE TypeOK
  OBVIOUS
<1>1. started \in [Pids -> Seq(Range(Order))] /\ phase \in [Pids -> Phases] /\ term = {}
  BY DEF Init, AppInit
<1>2. pc \in [Commands -> {"idle"}] /\ pid \in [Commands -> {NoPid}]
      /\ goal \in [Commands -> {"none"}] /\ answer \in [Commands -> {"none"}]
  BY DEF Init
<1>3. QED BY <1>1, <1>2 DEF Init, AppInit, TypeOK

LEMMA LifespanTyped ==
  ASSUME TypeOK, NEW p \in Pids, Lifespan(p) \/ Process(p), UNCHANGED scripts
  PROVE  TypeOK'
<1> USE DEF scripts, files, marks
<1>1. CASE StartProvider(p)
  <2>1. CASE started' = [started EXCEPT ![p] = Append(@, Order[Len(@) + 1])]
                /\ UNCHANGED <<phase, faults>>
    BY <1>1, <2>1, ProvidersTyped DEF StartProvider, TypeOK
  <2>2. CASE Fault /\ Enter(p, "starting", "failing") /\ UNCHANGED started
    BY <1>1, <2>2 DEF StartProvider, TypeOK, Fault, Enter
  <2>3. QED BY <1>1, <2>1, <2>2 DEF StartProvider
<1>2. CASE AllStarted(p)
  BY <1>2 DEF AllStarted, TypeOK, Enter
<1>3. CASE ShutdownProvider(p)
  <2>1. Front(started[p]) \in Seq(Range(Order))
    BY <1>3, FrontIs DEF ShutdownProvider, TypeOK
  <2>2. faults' \in Nat
    BY <1>3 DEF ShutdownProvider, Fault, TypeOK
  <2>3. QED BY <1>3, <2>1, <2>2 DEF ShutdownProvider, TypeOK
<1>4. CASE AllShutDown(p)
  BY <1>4 DEF AllShutDown, TypeOK
<1>5. CASE Bind(p)
  BY <1>5 DEF Bind, TypeOK, Enter
<1>6. CASE Unbind(p)
  BY <1>6 DEF Unbind, TypeOK, Enter
<1>7. CASE Gone(p)
  <2>1. faults' \in Nat
    BY <1>7 DEF Gone, Fault, TypeOK
  <2>2. QED BY <1>7, <2>1 DEF Gone, TypeOK
<1>8. CASE Recycle(p)
  BY <1>8 DEF Recycle, TypeOK, Enter
<1>9. QED BY <1>1, <1>2, <1>3, <1>4, <1>5, <1>6, <1>7, <1>8 DEF Lifespan, Process

Positions == {"idle", "start", "start_port", "spawn", "write_pid", "write_meta", "look",
              "wait", "stop", "kill", "wait_exit", "wait_port", "up", "compose_up", "down"}

CommandsTyped ==
  /\ pc' \in [Commands -> Positions] /\ pid' \in [Commands -> Pids \cup {NoPid}]
  /\ \A d \in Commands : pc'[d] \in {"kill", "wait_exit"} => pid'[d] \in Pids
  /\ goal' \in [Commands -> {"none", "start", "stop", "restart", "up", "down"}]
  /\ answer' \in [Commands -> {"none", "running", "ready", "stopped", "done", "failed"}]

LEMMA ReturnTyped ==
  ASSUME TypeOK, NEW c \in Commands, Return(c, "none") \/ Return(c, "running") \/ Return(c, "ready")
                                   \/ Return(c, "stopped") \/ Return(c, "failed")
  PROVE  CommandsTyped
BY DEF TypeOK, Return, CommandsTyped, Positions

LEMMA GoOnTyped ==
  ASSUME TypeOK, NEW c \in Commands, NEW loc \in Positions \ {"kill", "wait_exit"}, GoOn(c, loc),
         UNCHANGED pid \/ pid' = [pid EXCEPT ![c] = NoPid]
  PROVE  CommandsTyped
BY DEF TypeOK, GoOn, CommandsTyped, Positions

LEMMA StoppedTyped ==
  ASSUME TypeOK, NEW c \in Commands, Stopped(c)
  PROVE  CommandsTyped
BY ReturnTyped, GoOnTyped DEF Stopped, Positions

\* A step of the scripts that leaves the processes and the history as they are.
LEMMA ScriptTyped ==
  ASSUME TypeOK, CommandsTyped, UNCHANGED <<app, compose, marks>>, UNCHANGED files \/ RemoveFiles
  PROVE  TypeOK'
BY DEF TypeOK, CommandsTyped, Positions, app, files, marks, RemoveFiles

LEMMA StepTyped ==
  ASSUME TypeOK, NEW c \in Commands, Begin(c) \/ Step(c) \/ Interrupt(c)
  PROVE  TypeOK'
<1> USE DEF app, scripts, files, marks, GoOn, Return, TypeOK
<1>1. CASE Begin(c)
  BY <1>1 DEF Begin
<1>2. CASE StartLook(c) \/ StartPort(c)
  <2>1. CommandsTyped
    <3> HIDE DEF TypeOK, GoOn, Return
    <3> QED BY <1>2, ReturnTyped, GoOnTyped DEF StartLook, StartPort, Positions
  <2>2. QED BY <1>2, <2>1, ScriptTyped DEF StartLook, StartPort
<1>4. CASE Spawn(c)
  BY <1>4 DEF Spawn, Enter
<1>5. CASE WritePid(c)
  BY <1>5 DEF WritePid
<1>6. CASE WriteMeta(c)
  BY <1>6 DEF WriteMeta
<1>7. CASE Look(c) \/ Wait(c)
  <2>1. CommandsTyped
    <3> HIDE DEF TypeOK, GoOn, Return
    <3> QED BY <1>7, ReturnTyped, GoOnTyped DEF Look, Wait, Positions
  <2>2. QED BY <1>7, <2>1, ScriptTyped DEF Look, Wait
<1>9. CASE StopLook(c)
  <2>1. CASE ApiRunning
    BY <1>9, <2>1 DEF StopLook, ApiRunning, Owned
  <2>2. CASE ~ApiRunning
    <3>1. Stopped(c) /\ RemoveFiles /\ UNCHANGED <<app, compose, marks>>
      BY <1>9, <2>2 DEF StopLook
    <3>2. CommandsTyped
      BY <3>1, StoppedTyped
    <3>3. QED BY <3>1, <3>2, ScriptTyped
  <2>3. QED BY <2>1, <2>2
<1>10. CASE StopKill(c)
  <2>1. pid[c] \in Pids
    BY <1>10 DEF StopKill
  <2>2. term' \subseteq {p \in Pids : phase'[p] \notin {"free", "foreign"}}
    BY <1>10, <2>1 DEF StopKill
  <2>3. phase' \in [Pids -> Phases]
    BY <1>10, <2>1 DEF StopKill
  <2>4. CASE Running(pid[c])
    BY <1>10, <2>1, <2>2, <2>3, <2>4 DEF StopKill
  <2>5. CASE ~Running(pid[c])
    <3>1. pc' = [pc EXCEPT ![c] = "idle"] /\ pid' = [pid EXCEPT ![c] = NoPid]
          /\ goal' = [goal EXCEPT ![c] = "none"] /\ answer' = [answer EXCEPT ![c] = "failed"]
      BY <1>10, <2>5 DEF StopKill
    <3>2. \A d \in Commands : pc'[d] \in {"kill", "wait_exit"} => pid'[d] \in Pids
      BY <3>1
    <3>3. UNCHANGED <<started, port, faults, files, compose, marks>>
      BY <1>10 DEF StopKill
    <3>4. QED BY <2>2, <2>3, <3>1, <3>2, <3>3
  <2>6. QED BY <2>4, <2>5
<1>11. CASE WaitExit(c) \/ WaitPort(c) \/ UpLook(c)
  <2>1. CommandsTyped
    <3> HIDE DEF TypeOK, GoOn, Return
    <3> QED BY <1>11, ReturnTyped, GoOnTyped, StoppedTyped DEF WaitExit, WaitPort, UpLook, Positions
  <2>2. QED BY <1>11, <2>1, ScriptTyped DEF WaitExit, WaitPort, UpLook
<1>14. CASE Compose(c)
  BY <1>14 DEF Compose
<1>15. CASE Interrupt(c)
  BY <1>15 DEF Interrupt
<1>16. QED BY <1>1, <1>2, <1>4, <1>5, <1>6, <1>7, <1>9, <1>10, <1>11, <1>14, <1>15 DEF Step

LEMMA NextTyped == TypeOK /\ [Next]_vars => TypeOK'
<1> SUFFICES ASSUME TypeOK, [Next]_vars PROVE TypeOK'
  OBVIOUS
<1>1. CASE \E c \in Commands : Begin(c) \/ Step(c) \/ Interrupt(c)
  BY <1>1, StepTyped
<1>2. CASE \E p \in Pids : (Lifespan(p) \/ Process(p)) /\ UNCHANGED scripts
  BY <1>2, LifespanTyped
<1>3. CASE Intrude
  BY <1>3 DEF Intrude, TypeOK, files
<1>4. CASE UNCHANGED vars
  BY <1>4 DEF vars, app, scripts, TypeOK
<1>5. QED BY <1>1, <1>2, <1>3, <1>4 DEF Next

(* Every variable of the scripts, the processes and the port has its type.  *)
THEOREM Typed == Spec => []TypeOK
<1>1. QED BY InitTyped, NextTyped, PTL DEF Spec

-----------------------------------------------------------------------------
(* Providers and the port.                                                  *)

\* LifespanInvariant, of one process
Sound(p) ==
  /\ IsPrefix(started[p], Order)
  /\ phase[p] = "ended" => started[p] = <<>>
  /\ phase[p] \in {"ready", "serving"} => started[p] = Order
  /\ port = p => phase[p] = "serving"

LEMMA SoundIsInvariant ==
  LifespanInvariant <=> (\A p \in Pids : Sound(p)) /\ (~intruded => port # Other)
BY DEF LifespanInvariant, ProvidersUnwind, Sound

LEMMA LifespanKeepsSound ==
  ASSUME TypeOK, NEW p \in Pids, Sound(p), Lifespan(p)
  PROVE  Sound(p)'
<1>1. started[p] \in Seq(Range(Order)) /\ Order \in Seq(Range(Order))
  BY LifecycleAssumption DEF TypeOK
<1>2. CASE StartProvider(p)
  <2>1. CASE started' = [started EXCEPT ![p] = Append(@, Order[Len(@) + 1])] /\ UNCHANGED phase
    <3>1. started'[p] = Append(started[p], Order[Len(started[p]) + 1]) /\ phase'[p] = "starting"
      BY <1>2, <2>1 DEF StartProvider, TypeOK
    <3>2. IsPrefix(started'[p], Order)
      BY <1>1, <1>2, <3>1, PrefixGrows DEF StartProvider, Sound
    <3>3. QED BY <1>2, <3>1, <3>2 DEF StartProvider, Sound
  <2>2. CASE Enter(p, "starting", "failing") /\ UNCHANGED started
    BY <1>2, <2>2 DEF StartProvider, Enter, Sound, TypeOK
  <2>3. QED BY <1>2, <2>1, <2>2 DEF StartProvider
<1>3. CASE AllStarted(p)
  <2>1. started[p] = Order
    BY <1>1, <1>3, PrefixWhole DEF AllStarted, Sound
  <2>2. phase'[p] = "ready" /\ started'[p] = started[p] /\ port' = port /\ phase[p] = "starting"
    BY <1>3 DEF AllStarted, Enter, TypeOK
  <2>3. QED BY <2>1, <2>2 DEF Sound
<1>4. CASE ShutdownProvider(p)
  <2>1. started'[p] = Front(started[p]) /\ phase'[p] = phase[p] /\ port' = port
    BY <1>4 DEF ShutdownProvider, TypeOK
  <2>2. IsPrefix(started'[p], Order)
    BY <1>1, <1>4, <2>1, PrefixShrinks DEF ShutdownProvider, Sound
  <2>3. QED BY <1>4, <2>1, <2>2 DEF ShutdownProvider, Sound
<1>5. CASE AllShutDown(p)
  BY <1>5 DEF AllShutDown, Sound, TypeOK
<1>6. QED BY <1>2, <1>3, <1>4, <1>5 DEF Lifespan

LEMMA ProcessKeepsSound ==
  ASSUME TypeOK, NEW p \in Pids, Sound(p), Process(p)
  PROVE  Sound(p)'
<1>1. CASE Bind(p)
  BY <1>1 DEF Bind, Enter, Sound, TypeOK
<1>2. CASE Unbind(p)
  BY <1>2, CommandsAssumption DEF Unbind, Enter, Sound, TypeOK
<1>3. CASE Gone(p)
  <2>1. phase'[p] = "free" /\ started'[p] = <<>> /\ port' # p
    BY <1>3, CommandsAssumption DEF Gone, TypeOK
  <2>2. QED BY <2>1, PrefixEmpty, LifecycleAssumption DEF Sound
<1>4. CASE Recycle(p)
  BY <1>4 DEF Recycle, Enter, Sound, TypeOK
<1>5. QED BY <1>1, <1>2, <1>3, <1>4 DEF Process

\* Another process is not concerned.
LEMMA OthersStaySound ==
  ASSUME TypeOK, NEW p \in Pids, NEW q \in Pids, q # p, Sound(q), Lifespan(p) \/ Process(p)
  PROVE  Sound(q)'
<1>1. phase'[q] = phase[q] /\ started'[q] = started[q] /\ (port' = q => port = q)
  BY CommandsAssumption DEF Lifespan, Process, StartProvider, AllStarted, ShutdownProvider,
     AllShutDown, Bind, Unbind, Gone, Recycle, Enter, TypeOK
<1>2. QED BY <1>1 DEF Sound

LEMMA StepKeepsSound ==
  ASSUME TypeOK, LifespanInvariant, NEW c \in Commands, Begin(c) \/ Step(c) \/ Interrupt(c)
  PROVE  LifespanInvariant'
<1>1. CASE Spawn(c)
  <2>1. PICK p \in Pids : Enter(p, "free", "starting")
    BY <1>1 DEF Spawn
  <2>2. UNCHANGED <<started, port, intruded>>
    BY <1>1 DEF Spawn, marks
  <2>3. QED BY <2>1, <2>2 DEF LifespanInvariant, ProvidersUnwind, Enter, TypeOK
<1>2. CASE StopKill(c)
  <2>1. pid[c] \in Pids /\ UNCHANGED <<started, port, intruded>>
    BY <1>2 DEF StopKill, TypeOK, marks
  <2>2. \A p \in Pids : phase'[p] = phase[p] \/ (phase[p] = "foreign" /\ phase'[p] = "free")
    BY <1>2, <2>1 DEF StopKill, TypeOK
  <2>3. QED BY <2>1, <2>2 DEF LifespanInvariant, ProvidersUnwind
<1>3. CASE ~Spawn(c) /\ ~StopKill(c)
  <2>1. UNCHANGED app /\ intruded' = intruded
    BY <1>3 DEF Begin, Step, Interrupt, StartLook, StartPort, WritePid, WriteMeta, Look, Wait,
       StopLook, WaitExit, WaitPort, UpLook, Compose, marks
  <2>2. QED BY <2>1 DEF app, LifespanInvariant, ProvidersUnwind
<1>4. QED BY <1>1, <1>2, <1>3

LEMMA InitSound == Init => LifespanInvariant
BY PrefixEmpty, LifecycleAssumption, CommandsAssumption
   DEF Init, AppInit, LifespanInvariant, ProvidersUnwind

LEMMA NextSound == TypeOK /\ LifespanInvariant /\ [Next]_vars => LifespanInvariant'
<1> SUFFICES ASSUME TypeOK, LifespanInvariant, [Next]_vars PROVE LifespanInvariant'
  OBVIOUS
<1>1. CASE \E c \in Commands : Begin(c) \/ Step(c) \/ Interrupt(c)
  BY <1>1, StepKeepsSound
<1>2. CASE \E p \in Pids : (Lifespan(p) \/ Process(p)) /\ UNCHANGED scripts
  <2>1. PICK p \in Pids : (Lifespan(p) \/ Process(p)) /\ UNCHANGED scripts
    BY <1>2
  <2>2. \A q \in Pids : Sound(q)'
    BY <2>1, LifespanKeepsSound, ProcessKeepsSound, OthersStaySound, SoundIsInvariant
  <2>3. port' \in {port, p, NoPid}
    BY <2>1 DEF Lifespan, Process, StartProvider, AllStarted, ShutdownProvider,
       AllShutDown, Bind, Unbind, Gone, Recycle
  <2>4. ~intruded' => port' # Other
    BY <2>1, <2>3, CommandsAssumption DEF LifespanInvariant, scripts
  <2>5. QED BY <2>2, <2>4 DEF LifespanInvariant, ProvidersUnwind, Sound
<1>3. CASE Intrude
  BY <1>3, CommandsAssumption DEF Intrude, LifespanInvariant, ProvidersUnwind
<1>4. CASE UNCHANGED vars
  BY <1>4 DEF vars, app, scripts, LifespanInvariant, ProvidersUnwind
<1>5. QED BY <1>1, <1>2, <1>3, <1>4 DEF Next

LEMMA AlwaysSound == Spec => []LifespanInvariant
<1>1. QED BY InitSound, NextSound, Typed, PTL DEF Spec

(* LifecycleProviderRegistry: whatever fails when providers are started or   *)
(* shut down, those that run are the first of the order, and none runs at    *)
(* the end of the lifespan.                                                  *)
THEOREM Unwinds == Spec => []ProvidersUnwind
<1>1. LifespanInvariant => ProvidersUnwind
  BY DEF LifespanInvariant
<1>2. QED BY <1>1, AlwaysSound, PTL

-----------------------------------------------------------------------------
(* The record of the API.                                                   *)

\* Only a spawn brings an API about.
LEMMA NoNewApi ==
  ASSUME TypeOK, NEW p \in Pids, Lifespan(p) \/ Process(p), NEW q \in Pids, Alive(q)'
  PROVE  Alive(q)
<1>1. CASE q = p
  BY <1>1 DEF Lifespan, Process, StartProvider, AllStarted, ShutdownProvider,
     AllShutDown, Bind, Unbind, Gone, Recycle, Enter, TypeOK
<1>2. CASE q # p
  BY <1>2 DEF Lifespan, Process, StartProvider, AllStarted, ShutdownProvider,
     AllShutDown, Bind, Unbind, Gone, Recycle, Enter, TypeOK
<1>3. QED BY <1>1, <1>2

LEMMA FewerApis ==
  ASSUME ScriptInvariant,
         UNCHANGED <<pc, pid, pidFile, meta, compose, overlap, cuts>>,
         \A q \in Pids : Alive(q)' => Alive(q)
  PROVE  ScriptInvariant'
<1>1. Orderly' = Orderly /\ \A q \in Pids : Starting(q)' = Starting(q)
  BY DEF Orderly, Starting
<1>2. OneAtATime => OneAtATime'
  BY DEF OneAtATime
<1>3. NoApi => NoApi'
  BY DEF NoApi
<1>4. \A c \in Commands : Located(c) => Located(c)'
  BY <1>3 DEF Located
<1>5. \A q \in Pids : Recorded(q) => Recorded(q)'
  BY <1>1 DEF Recorded
<1>6. QED BY <1>1, <1>2, <1>4, <1>5 DEF ScriptInvariant

LEMMA BeginKeepsRecord ==
  ASSUME TypeOK, ScriptInvariant, NEW c \in Commands, Begin(c)
  PROVE  ScriptInvariant'
<1> SUFFICES ASSUME Orderly' PROVE ScriptInvariant'
  BY DEF ScriptInvariant
<1>1. Orderly /\ \A d \in Commands : pc[d] = "idle"
  BY DEF Begin, Orderly, TypeOK, marks
<1>2. \A d \in Commands : pc'[d] \in {"idle", "start", "up", "down", "stop"}
                          /\ (d # c => pc'[d] = "idle")
  BY <1>1 DEF Begin, TypeOK
<1>3. OneAtATime' /\ \A d \in Commands : Located(d)'
  BY <1>2 DEF OneAtATime, Located
<1>4. UNCHANGED <<phase, pidFile, meta, compose>>
  BY DEF Begin, app, files
<1>5. \A p \in Pids : ~Starting(p)
  BY <1>1 DEF Starting
<1>6. \A p \in Pids : Alive(p)' => Recorded(p)'
  BY <1>1, <1>4, <1>5 DEF ScriptInvariant, Recorded
<1>7. QED BY <1>3, <1>6 DEF ScriptInvariant

\* An API as the only command at work sees it.
Seen(c, p) ==
  ~compose /\ \/ pc[c] \in {"write_pid", "write_meta"} /\ pid[c] = p
              \/ pidFile = p /\ meta = p

LEMMA AloneSees ==
  ASSUME NEW c \in Commands, \A d \in Commands \ {c} : pc[d] = "idle", NEW p \in Pids
  PROVE  Recorded(p) <=> Seen(c, p)
BY DEF Recorded, Seen, Starting

\* A command that does not see an API is right.
LEMMA LookIsRight ==
  ASSUME NEW c \in Commands, \A p \in Pids : Alive(p) => Seen(c, p),
         pc[c] \notin {"write_pid", "write_meta"}, ~ApiRunning
  PROVE  NoApi
BY DEF Seen, ApiRunning, Owned, NoApi

LEMMA StepKeepsSeen ==
  ASSUME TypeOK, NEW c \in Commands, Located(c), Step(c),
         \A p \in Pids : Alive(p) => Seen(c, p)
  PROVE  Located(c)' /\ \A p \in Pids : Alive(p)' => Seen(c, p)'
<1> USE DEF app, scripts, files, marks, GoOn, Return, TypeOK, Located, NoApi
<1>1. CASE StartLook(c)
  BY <1>1, LookIsRight DEF StartLook, Seen
<1>2. CASE StartPort(c)
  BY <1>2 DEF StartPort, Seen
<1>3. CASE Spawn(c)
  <2>1. PICK p \in Pids : /\ Enter(p, "free", "starting")
                          /\ pid' = [pid EXCEPT ![c] = p] /\ pc' = [pc EXCEPT ![c] = "write_pid"]
    BY <1>3 DEF Spawn
  <2>2. ~compose' /\ \A q \in Pids : Alive(q)' => q = p
    BY <1>3, <2>1 DEF Spawn, Enter
  <2>3. pid'[c] = p /\ pc'[c] = "write_pid"
    BY <2>1
  <2>4. QED BY <2>2, <2>3 DEF Seen
<1>4. CASE WritePid(c)
  BY <1>4 DEF WritePid, Seen
<1>5. CASE WriteMeta(c)
  BY <1>5 DEF WriteMeta, Seen
<1>6. CASE Look(c)
  <2>1. CASE ApiRunning
    BY <1>6, <2>1 DEF Look, Seen
  <2>2. CASE ~ApiRunning
    <3>1. pc'[c] = "idle" /\ pc[c] = "look" /\ UNCHANGED phase
      BY <1>6, <2>2 DEF Look
    <3>2. NoApi
      BY <2>2, <3>1, LookIsRight
    <3>3. QED BY <3>1, <3>2
  <2>3. QED BY <2>1, <2>2
<1>7. CASE Wait(c)
  BY <1>7 DEF Wait, Seen
<1>8. CASE StopLook(c)
  <2>1. CASE ApiRunning
    BY <1>8, <2>1 DEF StopLook, ApiRunning, Owned, Seen
  <2>2. CASE ~ApiRunning
    <3>1. pc'[c] \in {"idle", "start"} /\ pc[c] = "stop" /\ UNCHANGED phase
      BY <1>8, <2>2 DEF StopLook, Stopped
    <3>2. NoApi
      BY <2>2, <3>1, LookIsRight
    <3>3. QED BY <3>1, <3>2
  <2>3. QED BY <2>1, <2>2
<1>9. CASE StopKill(c)
  <2>1. \A p \in Pids : Alive(p)' => Alive(p)
    BY <1>9 DEF StopKill
  <2>2. UNCHANGED <<pidFile, meta, compose>> /\ pc[c] = "kill" /\ pid[c] \in Pids
    BY <1>9 DEF StopKill
  <2>3. \/ pc'[c] = "wait_exit" /\ pid' = pid
        \/ pc'[c] = "idle"
    BY <1>9 DEF StopKill
  <2>4. QED BY <2>1, <2>2, <2>3 DEF Seen
<1>10. CASE WaitExit(c)
  <2>1. CASE Running(pid[c])
    BY <1>10, <2>1 DEF WaitExit, Seen
  <2>2. CASE ~Running(pid[c])
    BY <1>10, <2>2 DEF WaitExit, Running, RemoveFiles, Seen
  <2>3. QED BY <2>1, <2>2
<1>11. CASE WaitPort(c)
  BY <1>11 DEF WaitPort, Stopped, Seen
<1>12. CASE UpLook(c)
  <2>1. CASE ApiRunning
    BY <1>12, <2>1 DEF UpLook, Seen
  <2>2. CASE ~ApiRunning
    <3>1. pc'[c] = "compose_up" /\ pc[c] = "up" /\ UNCHANGED phase
      BY <1>12, <2>2 DEF UpLook
    <3>2. NoApi
      BY <2>2, <3>1, LookIsRight
    <3>3. QED BY <3>1, <3>2
  <2>3. QED BY <2>1, <2>2
<1>13. CASE Compose(c)
  BY <1>13 DEF Compose, Seen
<1>14. QED BY <1>1, <1>2, <1>3, <1>4, <1>5, <1>6, <1>7, <1>8, <1>9, <1>10, <1>11, <1>12, <1>13
           DEF Step

LEMMA StepKeepsRecord ==
  ASSUME TypeOK, ScriptInvariant, NEW c \in Commands, Step(c)
  PROVE  ScriptInvariant'
<1>1. pc[c] # "idle" /\ UNCHANGED <<overlap, cuts>> /\ \A d \in Commands \ {c} : pc'[d] = pc[d]
  BY DEF Step, StartLook, StartPort, Spawn, WritePid, WriteMeta, Look, Wait, StopLook, StopKill,
     WaitExit, WaitPort, UpLook, Compose, Stopped, GoOn, Return, marks, TypeOK
<1> SUFFICES ASSUME Orderly PROVE OneAtATime' /\ (\A d \in Commands : Located(d)')
                                  /\ (\A p \in Pids : Alive(p)' => Recorded(p)')
  BY <1>1 DEF ScriptInvariant, Orderly
<1>2. \A d \in Commands \ {c} : pc[d] = "idle" /\ pc'[d] = "idle"
  BY <1>1 DEF ScriptInvariant, OneAtATime
<1>3. \A p \in Pids : Alive(p) => Seen(c, p)
  BY <1>2, AloneSees DEF ScriptInvariant
<1>4. Located(c)' /\ \A p \in Pids : Alive(p)' => Seen(c, p)'
  BY <1>3, StepKeepsSeen DEF ScriptInvariant
<1>5. \A p \in Pids : Seen(c, p)' => Recorded(p)'
  BY DEF Seen, Recorded, Starting
<1>6. \A d \in Commands : Located(d)'
  BY <1>2, <1>4 DEF Located
<1>7. OneAtATime'
  BY <1>2 DEF OneAtATime
<1>8. QED BY <1>4, <1>5, <1>6, <1>7

LEMMA InitRecord == Init => ScriptInvariant
BY DEF Init, AppInit, ScriptInvariant, OneAtATime, Located, NoApi

LEMMA NextRecord == TypeOK /\ ScriptInvariant /\ [Next]_vars => ScriptInvariant'
<1> SUFFICES ASSUME TypeOK, ScriptInvariant, [Next]_vars PROVE ScriptInvariant'
  OBVIOUS
<1>1. CASE \E c \in Commands : Begin(c) \/ Step(c)
  BY <1>1, BeginKeepsRecord, StepKeepsRecord
<1>2. CASE \E c \in Commands : Interrupt(c)
  <2>1. cuts' # 0
    BY <1>2 DEF Interrupt, TypeOK
  <2>2. QED BY <2>1 DEF ScriptInvariant, Orderly
<1>3. CASE \E p \in Pids : (Lifespan(p) \/ Process(p)) /\ UNCHANGED scripts
  <2>1. PICK p \in Pids : (Lifespan(p) \/ Process(p)) /\ UNCHANGED scripts
    BY <1>3
  <2>2. \A q \in Pids : Alive(q)' => Alive(q)
    BY <2>1, NoNewApi
  <2>3. QED BY <2>1, <2>2, FewerApis DEF scripts
<1>4. CASE Intrude
  BY <1>4, FewerApis DEF Intrude, files
<1>5. CASE UNCHANGED vars
  BY <1>5, FewerApis DEF vars, app, scripts
<1>6. QED BY <1>1, <1>2, <1>3, <1>4, <1>5 DEF Next

LEMMA AlwaysRecorded == Spec => []ScriptInvariant
<1>1. QED BY InitRecord, NextRecord, Typed, PTL DEF Spec

(* While the commands come one by one, the API process that is alive is the  *)
(* one that run/api.pid and run/api.meta name (or the one its start is about *)
(* to record), and the compose-full API does not run beside it.              *)
THEOREM Records == Spec => []OneRecordedApi
<1>1. ScriptInvariant => OneRecordedApi
  BY DEF ScriptInvariant, OneRecordedApi, Recorded
<1>2. QED BY <1>1, AlwaysRecorded, PTL

\* The step in which a start turns out ready.
LEMMA ReadyStep ==
  ASSUME TypeOK, LifespanInvariant, ScriptInvariant, [Next]_vars, NEW c \in Commands,
         answer'[c] = "ready", answer[c] # "ready", Orderly, ~intruded
  PROVE  pidFile = port /\ phase[port] = "serving" /\ started[port] = Order
<1>1. Wait(c)
  <2>1. \A d \in Commands : Begin(d) => answer'[c] \in {answer[c], "none"}
    BY DEF Begin, TypeOK
  <2>2. \A d \in Commands : Interrupt(d) => answer'[c] \in {answer[c], "none"}
    BY DEF Interrupt, Return, TypeOK
  <2>3. \A d \in Commands : Step(d) /\ ~Wait(d) =>
           answer'[c] \in {answer[c], "running", "failed", "stopped", "done"}
    BY DEF Step, StartLook, StartPort, Spawn, WritePid, WriteMeta, Look, StopLook, StopKill,
       WaitExit, WaitPort, UpLook, Compose, Stopped, GoOn, Return, TypeOK
  <2>4. \A d \in Commands : Wait(d) => d = c
    BY DEF Wait, Return, TypeOK
  <2>5. (\E p \in Pids : UNCHANGED scripts) \/ Intrude \/ UNCHANGED vars => answer' = answer
    BY DEF scripts, Intrude, vars
  <2>6. QED BY <2>1, <2>2, <2>3, <2>4, <2>5 DEF Next
<1>2. port # NoPid /\ pc[c] = "wait"
  BY <1>1 DEF Wait, Return, TypeOK
<1>3. port \in Pids
  BY <1>2 DEF TypeOK, LifespanInvariant
<1>4. phase[port] = "serving" /\ started[port] = Order
  BY <1>3 DEF LifespanInvariant
<1>5. \A d \in Commands \ {c} : pc[d] = "idle"
  BY <1>2 DEF ScriptInvariant, OneAtATime
<1>6. Seen(c, port)
  BY <1>3, <1>4, <1>5, AloneSees DEF ScriptInvariant
<1>7. QED BY <1>2, <1>4, <1>6 DEF Seen

(* A start that waited and says ready speaks of the recorded process: it     *)
(* listens on the port, and all of its providers have been started.          *)
THEOREM ReadyServes == Spec => ReadyIsServing
<1>1. TypeOK /\ LifespanInvariant /\ ScriptInvariant /\ [Next]_vars
        => [\A c \in Commands : answer'[c] = "ready" /\ answer[c] # "ready" /\ Orderly /\ ~intruded
              => pidFile = port /\ phase[port] = "serving" /\ started[port] = Order]_vars
  BY ReadyStep
<1>2. QED BY <1>1, Typed, AlwaysSound, AlwaysRecorded, PTL DEF Spec, ReadyIsServing

-----------------------------------------------------------------------------
(* The scripts implement ApiHost.                                           *)

Lives(p) == Alive(p) /\ \A q \in Pids : Alive(q) => q = p

LEMMA LiveIs ==
  /\ \A p \in Pids : Lives(p) => Live = p
  /\ NoApi => Live = NoPid /\ ~Serving
  /\ \A p \in Pids : Alive(p) => Live \in Pids
BY DEF Lives, Live, NoApi, Serving

LEMMA LiveBecomes ==
  /\ \A p \in Pids : Lives(p)' => Live' = p
  /\ NoApi' => Live' = NoPid /\ ~Serving'
BY DEF Lives, Live, NoApi, Serving

\* There is one API at most.
LEMMA OneApi ==
  ASSUME ScriptInvariant, Orderly
  PROVE  NoApi \/ \E p \in Pids : Lives(p)
<1>1. ASSUME NEW p \in Pids, NEW q \in Pids, Alive(p), Alive(q)
      PROVE  q = p
  <2>1. Recorded(p) /\ Recorded(q) /\ \A c \in Commands : Located(c)
    BY <1>1 DEF ScriptInvariant
  <2>2. CASE Starting(p) \/ Starting(q)
    BY <1>1, <2>1, <2>2 DEF Starting, Located
  <2>3. CASE ~Starting(p) /\ ~Starting(q)
    BY <2>1, <2>3 DEF Recorded
  <2>4. QED BY <2>2, <2>3
<1>2. QED BY <1>1 DEF NoApi, Lives

\* The same processes are alive, and the same serve.
Alike == \A p \in Pids : /\ Alive(p)' <=> Alive(p)
                         /\ phase'[p] = "serving" /\ started'[p] = Order
                              <=> phase[p] = "serving" /\ started[p] = Order

LEMMA AlikeStays ==
  ASSUME ScriptInvariant, Orderly, Alike
  PROVE  Live' = Live /\ Serving' = Serving
<1>1. Live' = Live
  <2>1. CASE NoApi
    <3>1. NoApi'
      BY <2>1 DEF NoApi, Alike
    <3>2. QED BY <2>1, <3>1, LiveIs, LiveBecomes
  <2>2. CASE \E p \in Pids : Lives(p)
    <3>1. PICK p \in Pids : Lives(p)
      BY <2>2
    <3>2. Lives(p)'
      BY <3>1 DEF Lives, Alike
    <3>3. QED BY <3>1, <3>2, LiveIs, LiveBecomes
  <2>3. QED BY <2>1, <2>2, OneApi
<1>2. Serving' <=> Serving
  BY DEF Serving, Alike
<1>3. QED BY <1>1, <1>2 DEF Serving

\* What the step of a command is to an operator: the answer that it prints, or nothing.
Speaks(c, what) ==
  /\ answer' = [answer EXCEPT ![c] = what]
  /\ what = "running" => Live # NoPid
  /\ what = "ready"   => Serving \/ intruded
  /\ what = "stopped" => Live = NoPid

Silent == UNCHANGED answer

LEMMA LookFinds == TypeOK /\ ApiRunning => Live # NoPid
BY LiveIs, CommandsAssumption DEF ApiRunning, Owned

\* Every step of a command but those that create an API or compose-full.
Talk(c) ==
  \/ StartLook(c) \/ StartPort(c) \/ WritePid(c) \/ WriteMeta(c) \/ Look(c) \/ Wait(c)
  \/ StopLook(c) \/ StopKill(c) \/ WaitExit(c) \/ WaitPort(c) \/ UpLook(c)

LEMMA StoppedSpeaks ==
  ASSUME NEW c \in Commands, Stopped(c), NoApi
  PROVE  Speaks(c, "stopped") \/ Silent
BY LiveIs DEF Stopped, GoOn, Return, Speaks, Silent

LEMMA TalkSpeaks ==
  ASSUME TypeOK, LifespanInvariant, NEW c \in Commands, Located(c), Talk(c),
         \A p \in Pids : Alive(p) => Seen(c, p)
  PROVE  Silent \/ \E what \in {"running", "ready", "stopped", "failed"} : Speaks(c, what)
<1>1. ~ApiRunning /\ pc[c] \notin {"write_pid", "write_meta"} => NoApi
  BY LookIsRight
<1>2. CASE StartLook(c)
  BY <1>2, LookFinds DEF StartLook, GoOn, Return, Speaks, Silent
<1>3. CASE StartPort(c) \/ WritePid(c) \/ WriteMeta(c) \/ Look(c) \/ StopKill(c) \/ WaitExit(c)
           \/ UpLook(c)
  BY <1>3 DEF StartPort, WritePid, WriteMeta, Look, StopKill, WaitExit, UpLook, GoOn, Return,
     Speaks, Silent
<1>4. CASE Wait(c)
  <2>1. port # NoPid => Serving \/ intruded
    BY DEF TypeOK, LifespanInvariant, Serving
  <2>2. QED BY <1>4, <2>1 DEF Wait, Return, Speaks
<1>5. CASE StopLook(c)
  <2>1. ~ApiRunning => Stopped(c) /\ NoApi
    BY <1>1, <1>5 DEF StopLook
  <2>2. ApiRunning => Silent
    BY <1>5 DEF StopLook, GoOn, Silent
  <2>3. QED BY <2>1, <2>2, StoppedSpeaks
<1>6. CASE WaitPort(c)
  <2>1. NoApi
    BY <1>6 DEF WaitPort, Located
  <2>2. Stopped(c) \/ Return(c, "failed")
    BY <1>6 DEF WaitPort
  <2>3. QED BY <2>1, <2>2, StoppedSpeaks DEF Return, Speaks
<1>7. QED BY <1>2, <1>3, <1>4, <1>5, <1>6 DEF Talk

LEMMA TalkIsAlike ==
  ASSUME TypeOK, NEW c \in Commands, Talk(c)
  PROVE  Alike /\ UNCHANGED <<compose, intruded, overlap, cuts>>
<1>1. CASE StopKill(c)
  <2>1. UNCHANGED <<started, compose, marks>> /\ phase \in [Pids -> Phases]
    BY <1>1 DEF StopKill, TypeOK
  <2>2. phase' = IF phase[pid[c]] = "foreign" THEN [phase EXCEPT ![pid[c]] = "free"] ELSE phase
    BY <1>1 DEF StopKill
  <2>3. QED BY <2>1, <2>2 DEF Alike, marks
<1>2. CASE ~StopKill(c)
  <2>1. UNCHANGED <<app, compose, marks>>
    BY <1>2 DEF Talk, StartLook, StartPort, WritePid, WriteMeta, Look, Wait, StopLook, WaitExit,
       WaitPort, UpLook
  <2>2. QED BY <2>1 DEF app, marks, Alike
<1>3. QED BY <1>1, <1>2

LEMMA ProcessHosts ==
  ASSUME TypeOK, LifespanInvariant, ScriptInvariant, Orderly,
         NEW p \in Pids, Lifespan(p) \/ Process(p), UNCHANGED scripts
  PROVE  Host!Serve \/ Host!Withdraw \/ Host!End \/ UNCHANGED Host!host
<1>1. UNCHANGED <<compose, answer, intruded, overlap, cuts>>
  BY DEF scripts, marks
<1>2. (~Orderly)' = ~Orderly
  BY <1>1 DEF Orderly
<1>3. Alike => UNCHANGED Host!host
  BY <1>1, <1>2, AlikeStays DEF Host!host
<1>4. \A q \in Pids : Alive(p) /\ Alive(q) => q = p
  BY OneApi DEF NoApi, Lives
<1>5. CASE Lifespan(p) \/ Recycle(p)
  <2>1. Alike
    BY <1>5 DEF Lifespan, StartProvider, AllStarted, ShutdownProvider, AllShutDown, Recycle, Enter,
       TypeOK, Alike
  <2>2. QED BY <1>3, <2>1
<1>6. CASE Bind(p)
  <2>1. CASE port # NoPid
    <3>1. Alike
      BY <1>6, <2>1 DEF Bind, Enter, TypeOK, Alike
    <3>2. QED BY <1>3, <3>1
  <2>2. CASE port = NoPid
    <3>1. phase[p] = "ready" /\ phase' = [phase EXCEPT ![p] = "serving"] /\ started' = started
      BY <1>6, <2>2 DEF Bind, Enter
    <3>2. Lives(p) /\ Lives(p)'
      BY <1>4, <3>1 DEF Lives, TypeOK
    <3>3. Live' = Live /\ Live # NoPid
      BY <3>2, LiveIs, LiveBecomes, CommandsAssumption
    <3>4. phase'[p] = "serving" /\ started'[p] = Order
      BY <3>1 DEF LifespanInvariant, TypeOK
    <3>5. Serving' = TRUE
      BY <3>4 DEF Serving
    <3>6. QED BY <1>1, <1>2, <3>3, <3>5 DEF Host!Serve
  <2>3. QED BY <2>1, <2>2
<1>7. CASE Unbind(p)
  <2>1. phase[p] = "serving" /\ phase' = [phase EXCEPT ![p] = "stopping"] /\ started' = started
    BY <1>7 DEF Unbind, Enter
  <2>2. Lives(p) /\ Lives(p)'
    BY <1>4, <2>1 DEF Lives, TypeOK
  <2>3. Live' = Live
    BY <2>2, LiveIs, LiveBecomes
  <2>4. Serving' = FALSE
    BY <2>1, <2>2 DEF Lives, Serving, TypeOK
  <2>5. QED BY <1>1, <1>2, <2>3, <2>4 DEF Host!Withdraw
<1>8. CASE Gone(p)
  <2>1. Alive(p) /\ phase' = [phase EXCEPT ![p] = "free"]
    BY <1>8 DEF Gone
  <2>2. NoApi'
    BY <1>4, <2>1 DEF NoApi, TypeOK
  <2>3. QED BY <1>1, <1>2, <2>2, LiveBecomes DEF Host!End
<1>9. QED BY <1>5, <1>6, <1>7, <1>8 DEF Process

LEMMA StepHosts ==
  ASSUME TypeOK, LifespanInvariant, ScriptInvariant, Orderly, NEW c \in Commands, Step(c)
  PROVE  Host!Next \/ UNCHANGED Host!host
<1>1. pc[c] # "idle" /\ UNCHANGED <<overlap, cuts>>
  BY DEF Step, StartLook, StartPort, Spawn, WritePid, WriteMeta, Look, Wait, StopLook, StopKill,
     WaitExit, WaitPort, UpLook, Compose, Stopped, GoOn, Return, marks, TypeOK
<1>2. (~Orderly)' = ~Orderly
  BY <1>1 DEF Orderly
<1>3. Located(c) /\ \A d \in Commands \ {c} : pc[d] = "idle"
  BY <1>1 DEF ScriptInvariant, OneAtATime
<1>4. \A p \in Pids : Alive(p) => Seen(c, p)
  BY <1>3, AloneSees DEF ScriptInvariant
<1>5. CASE Talk(c)
  <2>1. Alike /\ UNCHANGED <<compose, intruded>>
    BY <1>5, TalkIsAlike
  <2>2. Live' = Live /\ Serving' = Serving
    BY <2>1, AlikeStays
  <2>3. Silent \/ \E what \in {"running", "ready", "stopped", "failed"} : Speaks(c, what)
    BY <1>3, <1>4, <1>5, TalkSpeaks
  <2>4. CASE Silent
    BY <1>2, <2>1, <2>2, <2>4 DEF Silent, Host!host
  <2>5. CASE \E what \in {"running", "ready", "stopped", "failed"} : Speaks(c, what)
    <3>1. PICK what \in {"running", "ready", "stopped", "failed"} : Speaks(c, what)
      BY <2>5
    <3>2. Host!Say(c, what)
      BY <1>2, <2>1, <2>2, <3>1 DEF Speaks, Host!Say
    <3>3. QED BY <3>2 DEF Host!Next
  <2>6. QED BY <2>3, <2>4, <2>5
<1>6. CASE Spawn(c)
  <2>1. PICK p \in Pids : Enter(p, "free", "starting")
    BY <1>6 DEF Spawn
  <2>2. UNCHANGED <<answer, compose, intruded, started>> /\ NoApi /\ ~compose
    BY <1>3, <1>6 DEF Spawn, GoOn, Located, marks
  <2>3. Live = NoPid /\ ~Serving
    BY <2>2, LiveIs
  <2>4. phase' = [phase EXCEPT ![p] = "starting"]
    BY <2>1 DEF Enter
  <2>5. Lives(p)' /\ ~Serving'
    BY <2>2, <2>4 DEF Lives, NoApi, Serving, TypeOK
  <2>6. Live' = p
    BY <2>5, LiveBecomes
  <2>7. Serving' = Serving
    BY <2>3, <2>5 DEF Serving
  <2>8. Host!Launch
    BY <1>2, <2>2, <2>3, <2>6, <2>7 DEF Host!Launch
  <2>9. QED BY <2>8 DEF Host!Next
<1>7. CASE Compose(c)
  <2>1. UNCHANGED <<phase, started, intruded>>
    BY <1>7 DEF Compose, app, marks
  <2>2. Live' = Live /\ Serving' = Serving
    BY <2>1, AlikeStays DEF Alike
  <2>3. compose' \in BOOLEAN /\ answer' = [answer EXCEPT ![c] = "done"]
    BY <1>7 DEF Compose, Return
  <2>4. compose' = TRUE => Live = NoPid
    BY <1>3, <1>7, LiveIs DEF Compose, Located
  <2>5. Host!Compose(c)
    BY <1>2, <2>1, <2>2, <2>3, <2>4 DEF Host!Compose
  <2>6. QED BY <2>5 DEF Host!Next
<1>8. QED BY <1>5, <1>6, <1>7 DEF Step, Talk

LEMMA NextHosts ==
  ASSUME TypeOK, LifespanInvariant, ScriptInvariant, [Next]_vars
  PROVE  Host!Next \/ UNCHANGED Host!host
<1>1. CASE ~Orderly'
  <2>1. (~Orderly)' = TRUE
    BY <1>1
  <2>2. QED BY <2>1 DEF Host!Next, Host!Trouble
<1> SUFFICES ASSUME Orderly' PROVE Host!Next \/ UNCHANGED Host!host
  BY <1>1
<1>2. CASE \E c \in Commands : Begin(c)
  <2>1. PICK c \in Commands : Begin(c)
    BY <1>2
  <2>2. Orderly /\ UNCHANGED <<phase, started, compose, intruded>>
        /\ answer' = [answer EXCEPT ![c] = "none"]
    BY <2>1 DEF Begin, app
  <2>3. Live' = Live /\ Serving' = Serving /\ (~Orderly)' = ~Orderly
    BY <2>2, AlikeStays DEF Alike
  <2>4. Host!Say(c, "none")
    BY <2>2, <2>3 DEF Host!Say
  <2>5. QED BY <2>4 DEF Host!Next
<1>3. CASE \E c \in Commands : Step(c)
  <2>1. PICK c \in Commands : Step(c)
    BY <1>3
  <2>2. UNCHANGED <<overlap, cuts>>
    BY <2>1 DEF Step, StartLook, StartPort, Spawn, WritePid, WriteMeta, Look, Wait, StopLook,
       StopKill, WaitExit, WaitPort, UpLook, Compose, marks
  <2>3. Orderly
    BY <2>2 DEF Orderly
  <2>4. QED BY <2>1, <2>3, StepHosts
<1>4. CASE \E c \in Commands : Interrupt(c)
  <2>1. cuts' # 0
    BY <1>4 DEF Interrupt, TypeOK
  <2>2. QED BY <2>1 DEF Orderly
<1>5. CASE \E p \in Pids : (Lifespan(p) \/ Process(p)) /\ UNCHANGED scripts
  <2>1. PICK p \in Pids : (Lifespan(p) \/ Process(p)) /\ UNCHANGED scripts
    BY <1>5
  <2>2. Orderly
    BY <2>1 DEF scripts, marks, Orderly
  <2>3. QED BY <2>1, <2>2, ProcessHosts DEF Host!Next
<1>6. CASE Intrude \/ UNCHANGED vars
  <2>1. UNCHANGED <<phase, started, compose, answer, overlap, cuts>>
        /\ (intruded' = intruded \/ intruded' = TRUE)
    BY <1>6 DEF Intrude, vars, app, scripts
  <2>2. Orderly /\ (~Orderly)' = ~Orderly
    BY <2>1 DEF Orderly
  <2>3. Live' = Live /\ Serving' = Serving
    BY <2>1, <2>2, AlikeStays DEF Alike
  <2>4. Host!Meet \/ UNCHANGED Host!host
    BY <2>1, <2>2, <2>3 DEF Host!Meet, Host!host
  <2>5. QED BY <2>4 DEF Host!Next
<1>7. QED BY <1>2, <1>3, <1>4, <1>5, <1>6 DEF Next

LEMMA InitHosts == Init => Host!Init
<1> SUFFICES ASSUME Init PROVE Host!Init
  OBVIOUS
<1>1. NoApi /\ Orderly
  BY DEF Init, AppInit, NoApi, Orderly
<1>2. Live = NoPid /\ Serving = FALSE
  BY <1>1, LiveIs
<1>3. QED BY <1>1, <1>2 DEF Init, Host!Init

(* dev.sh and deploy.sh implement ApiHost, with any number of commands and   *)
(* processes and through any failures: as long as the commands come one by   *)
(* one, there is one API at most, compose-full is never beside it, and what  *)
(* start, stop, restart, up and down say is so when they say it.             *)
THEOREM Implements == Spec => ImplementsApiHost
<1>1. TypeOK /\ LifespanInvariant /\ ScriptInvariant /\ [Next]_vars => [Host!Next]_Host!host
  BY NextHosts
<1>2. QED BY <1>1, InitHosts, Typed, AlwaysSound, AlwaysRecorded, PTL
          DEF Spec, ImplementsApiHost, Host!Spec

=============================================================================
