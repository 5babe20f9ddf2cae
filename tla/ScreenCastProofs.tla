--------------------------- MODULE ScreenCastProofs ---------------------------
(***************************************************************************)
(* Proofs about ScreenCast, for any number of paths, calls and             *)
(* applications, any capacity of the queue, and a frontend that gives      *)
(* paths to new sessions whenever it likes.                                *)
(*                                                                         *)
(* The inductive invariant adds to TypeOK what the guards rely on without  *)
(* reading it: a call that has arrived has a path (Arrived), and a request *)
(* waiting in the queue is in no thread and waits there once (QueueOK).    *)
(***************************************************************************)
EXTENDS ScreenCast, SequenceTheorems, TLAPS

USE RegistryAssumption, ScreenCastAssumption

Arrived ==
    /\ \A k \in Calls : pc[k] # "idle" => path[k] \in Paths
    /\ \A k \in Requests : pc[k] # "idle" => app[k] \in Apps
    /\ \A k \in StartCalls : cast[k] # "none" => pc[k] # "idle"
    /\ blocked # None => pc[blocked] = "sending"

OfRequest(job) == job.kind \in {"SelectSources", "Start"}

QueueOK ==
    \A i \in 1..Len(queue) :
        OfRequest(queue[i]) =>
            /\ pc[queue[i].call] = "queued"
            /\ \A j \in 1..Len(queue) :
                  OfRequest(queue[j]) /\ queue[j].call = queue[i].call => i = j

Inv == TypeOK /\ Arrived /\ QueueOK

-----------------------------------------------------------------------------
(* The registry operators map registries to registries (session.rs).       *)

LEMMA InsertType ==
    ASSUME NEW r \in Registry, NEW p \in Paths, NEW a \in Apps, NEW k \in CreateCalls
    PROVE  Insert(r, p, a, k) \in Registry
  BY DEF Registry, Session, Insert

LEMMA SelectType ==
    ASSUME NEW r \in Registry, NEW p \in Paths, r[p] # None, NEW k \in SelectCalls
    PROVE  MarkSourcesSelected(r, p, k) \in Registry
  BY DEF Registry, Session, MarkSourcesSelected

LEMMA ReserveType ==
    ASSUME NEW r \in Registry, NEW p \in Paths, r[p] # None
    PROVE  ReserveStart(r, p) \in Registry
  BY DEF Registry, Session, ReserveStart

LEMMA ClearType ==
    ASSUME NEW r \in Registry, NEW p \in Paths
    PROVE  ClearStart(r, p) \in Registry
  BY DEF Registry, Session, ClearStart

LEMMA MarkStartedType ==
    ASSUME NEW r \in Registry, NEW p \in Paths, r[p] # None, NEW k \in StartCalls
    PROVE  MarkStarted(r, p, k) \in Registry
  BY DEF Registry, Session, MarkStarted

LEMMA RemoveType ==
    ASSUME NEW r \in Registry, NEW p \in Paths
    PROVE  /\ Remove(r, p) \in Registry
           /\ Dropped(r, p) \subseteq StartCalls
  BY DEF Registry, Session, Remove, Dropped

(* Marking a session leaves its cast and the other sessions alone.         *)
KeepsCast(r, s) ==
    \A q \in Paths : r[q] # None => s[q] # None /\ s[q].cast = r[q].cast

LEMMA SelectKeepsCast ==
    ASSUME NEW r \in Registry, NEW p \in Paths, r[p] # None, NEW k \in SelectCalls
    PROVE  KeepsCast(r, MarkSourcesSelected(r, p, k))
<1>1. MarkSourcesSelected(r, p, k)[p] \in Session
  BY DEF Registry, Session, MarkSourcesSelected
<1>2. MarkSourcesSelected(r, p, k)[p].cast = r[p].cast
  BY DEF Registry, Session, MarkSourcesSelected
<1>. QED  BY <1>1, <1>2, NoneIsNoSession DEF KeepsCast, Registry, MarkSourcesSelected

LEMMA ReserveKeepsCast ==
    ASSUME NEW r \in Registry, NEW p \in Paths, r[p] # None
    PROVE  KeepsCast(r, ReserveStart(r, p))
<1>1. ReserveStart(r, p)[p] \in Session
  BY DEF Registry, Session, ReserveStart
<1>2. ReserveStart(r, p)[p].cast = r[p].cast
  BY DEF Registry, Session, ReserveStart
<1>. QED  BY <1>1, <1>2, NoneIsNoSession DEF KeepsCast, Registry, ReserveStart

LEMMA ClearKeepsCast ==
    ASSUME NEW r \in Registry, NEW p \in Paths
    PROVE  KeepsCast(r, ClearStart(r, p))
<1>. SUFFICES ASSUME r[p] # None
              PROVE  KeepsCast(r, ClearStart(r, p))
  BY DEF KeepsCast, ClearStart
<1>1. ClearStart(r, p)[p] \in Session
  <2>1. r[p] \in Session
    BY DEF Registry
  <2>2. ClearStart(r, p)[p] = [r[p] EXCEPT !.starting = FALSE]
    BY DEF Registry, ClearStart
  <2>. QED  BY <2>1, <2>2 DEF Session
<1>2. ClearStart(r, p)[p].cast = r[p].cast
  BY DEF Registry, Session, ClearStart
<1>. QED  BY <1>1, <1>2, NoneIsNoSession DEF KeepsCast, Registry, ClearStart

LEMMA InstallTakesOver ==
    ASSUME NEW r \in Registry, NEW p \in Paths, r[p] # None, NEW k \in StartCalls
    PROVE  /\ MarkStarted(r, p, k)[p] # None
           /\ MarkStarted(r, p, k)[p].cast = k
           /\ \A q \in Paths \ {p} : MarkStarted(r, p, k)[q] = r[q]
           /\ r[p].cast \in Dropped(r, p) \cup {None}
<1>1. MarkStarted(r, p, k)[p] \in Session
  BY DEF Registry, Session, MarkStarted
<1>. QED  BY <1>1, NoneIsNoSession DEF Registry, Session, MarkStarted, Dropped

-----------------------------------------------------------------------------
(* A step that neither touches the queue nor moves a queued call keeps     *)
(* QueueOK; so do the ends of the queue.                                   *)

LEMMA QueueSame ==
    ASSUME QueueOK, TypeOK, NEW k \in Calls, NEW to,
           pc' = [pc EXCEPT ![k] = to], queue' = queue, pc[k] # "queued"
    PROVE  QueueOK'
  BY DEF QueueOK, TypeOK, OfRequest, Job, Calls, Requests

(* A call that has arrived, moved on, or returned still has its path.      *)

LEMMA ArriveArrived ==
    ASSUME Inv, NEW k \in Calls, NEW p \in Paths, NEW a, NEW to, NEW code,
           k \in Requests => a \in Apps,
           Arrive(k, p, a, to, code), to # "idle", cast' = cast,
           blocked' = blocked \/ (blocked' = k /\ to = "sending")
    PROVE  Arrived'
<1>1. /\ \A j \in Calls : pc'[j] # "idle" => path'[j] \in Paths
      /\ \A j \in Requests : pc'[j] # "idle" => app'[j] \in Apps
  BY DEF Inv, Arrived, TypeOK, Arrive, Calls
<1>2. \A j \in StartCalls : cast'[j] # "none" => pc'[j] # "idle"
  BY DEF Inv, Arrived, TypeOK, Arrive, Calls, Requests
<1>3. blocked' # None => pc'[blocked'] = "sending"
  BY DEF Inv, Arrived, TypeOK, Arrive, Calls
<1>. QED  BY <1>1, <1>2, <1>3 DEF Arrived

LEMMA MoveArrived ==
    ASSUME Inv, NEW k \in Calls, NEW to, pc' = [pc EXCEPT ![k] = to], to # "idle",
           pc[k] # "idle", path' = path, app' = app,
           \/ k \in Requests /\ blocked' = blocked
           \/ blocked' = None,
           \A j \in StartCalls : cast'[j] # "none" => cast[j] # "none" \/ j = k
    PROVE  Arrived'
<1>1. /\ \A j \in Calls : pc'[j] # "idle" => path'[j] \in Paths
      /\ \A j \in Requests : pc'[j] # "idle" => app'[j] \in Apps
  BY DEF Inv, Arrived, TypeOK, Calls
<1>2. \A j \in StartCalls : cast'[j] # "none" => pc'[j] # "idle"
  BY DEF Inv, Arrived, TypeOK, Calls, Requests
<1>3. blocked' # None => pc'[blocked'] = "sending"
  BY DEF Inv, Arrived, TypeOK, Calls, Requests
<1>. QED  BY <1>1, <1>2, <1>3 DEF Arrived

LEMMA QueueAppend ==
    ASSUME TypeOK, QueueOK, NEW job \in Job, Len(queue) < QueueCap,
           queue' = Append(queue, job)
    PROVE  /\ queue' \in Seq(Job)
           /\ Len(queue') <= QueueCap
           /\ Len(queue') = Len(queue) + 1
           /\ \A i \in 1..Len(queue) : queue'[i] = queue[i]
           /\ queue'[Len(queue) + 1] = job
  BY DEF TypeOK

LEMMA QueueTail ==
    ASSUME TypeOK, queue # <<>>, queue' = Tail(queue)
    PROVE  /\ queue' \in Seq(Job)
           /\ Len(queue') <= QueueCap
           /\ Len(queue') = Len(queue) - 1
           /\ \A i \in 1..Len(queue') : queue'[i] = queue[i + 1]
           /\ Head(queue) = queue[1]
           /\ 1 \in 1..Len(queue)
  BY DEF TypeOK

-----------------------------------------------------------------------------
(* The type invariant, action by action.                                   *)

LEMMA InitInv == Init => Inv
<1>. SUFFICES ASSUME Init PROVE Inv
  OBVIOUS
<1>1. /\ worker \in Worker
      /\ queue \in Seq(Job)
      /\ Len(queue) <= QueueCap
  BY DEF Init, Worker
<1>2. TypeOK
  BY <1>1 DEF Init, TypeOK, Registry, CastPhase
<1>3. Arrived /\ QueueOK
  BY DEF Init, Arrived, QueueOK, Calls, Requests
<1>. QED  BY <1>2, <1>3 DEF Inv

LEMMA ClientInv ==
    ASSUME Inv, Client
    PROVE  Inv'
<1>. USE DEF Inv, Requests, Calls
<1>1. ASSUME NEW k \in CreateCalls, NEW p \in Paths, NEW a \in Apps,
             CreateArrive(k, p, a)
      PROVE  Inv'
  <2>1. TypeOK'
    BY <1>1 DEF TypeOK, CreateArrive, Arrive, castVars, CreatePc, Codes
  <2>2. Arrived'
    BY <1>1, ArriveArrived DEF CreateArrive, castVars
  <2>3. QueueOK'
    BY <1>1, QueueSame DEF CreateArrive, Arrive
  <2>. QED  BY <2>1, <2>2, <2>3
<1>2. ASSUME NEW k \in SelectCalls \cup StartCalls, NEW p \in Paths, NEW a \in Apps,
             NEW kind \in {"SelectSources", "Start"},
             Enqueue(k, p, a, kind)
      PROVE  Inv'
  <2>. DEFINE job == [kind |-> kind, call |-> k]
  <2>1. job \in Job
    BY DEF Job
  <2>2. Arrived'
    BY <1>2, ArriveArrived DEF Enqueue, castVars
  <2>3. CASE queue' = queue
    <3>1. TypeOK'
      BY <1>2, <2>3, SMTT(30) DEF TypeOK, Enqueue, Arrive, castVars, Codes
    <3>2. QueueOK'
      BY <1>2, <2>3, QueueSame DEF Enqueue, Arrive
    <3>. QED  BY <2>2, <3>1, <3>2
  <2>4. CASE /\ Len(queue) < QueueCap
             /\ Arrive(k, p, a, "queued", None)
             /\ queue' = Append(queue, job)
    <3>1. TypeOK'
      BY <1>2, <2>1, <2>4, QueueAppend DEF TypeOK, Enqueue, Arrive, castVars, Codes
    <3>2. QueueOK'
      BY <1>2, <2>1, <2>4, QueueAppend
      DEF QueueOK, OfRequest, TypeOK, Arrive, Job
    <3>. QED  BY <2>2, <3>1, <3>2
  <2>. QED  BY <1>2, <2>3, <2>4 DEF Enqueue
<1>3. ASSUME NEW k \in CloseCalls, NEW p \in Paths, SessionClose(k, p)
      PROVE  Inv'
  <2>. DEFINE job == [kind |-> "CloseSession", path |-> p]
  <2>1. job \in Job
    BY DEF Job
  <2>2. Arrived'
    BY <1>3, ArriveArrived DEF SessionClose, castVars
  <2>3. CASE /\ Arrive(k, p, None, "sending", None)
             /\ blocked' = k
             /\ queue' = queue
    <3>1. TypeOK'
      BY <1>3, <2>3 DEF TypeOK, SessionClose, Arrive, castVars
    <3>2. QueueOK'
      BY <2>3, QueueSame DEF Arrive
    <3>. QED  BY <2>2, <3>1, <3>2
  <2>4. CASE /\ Len(queue) < QueueCap
             /\ Arrive(k, p, None, "done", "success")
             /\ queue' = Append(queue, job)
             /\ blocked' = blocked
    <3>1. TypeOK'
      BY <1>3, <2>1, <2>4, QueueAppend DEF TypeOK, SessionClose, Arrive, castVars, Codes
    <3>2. QueueOK'
      BY <2>1, <2>4, QueueAppend
      DEF QueueOK, OfRequest, TypeOK, Arrive, Job
    <3>. QED  BY <2>2, <3>1, <3>2
  <2>. QED  BY <1>3, <2>3, <2>4 DEF SessionClose
<1>4. ASSUME NEW k \in Requests, RequestClose(k)
      PROVE  Inv'
  BY <1>4 DEF RequestClose, castVars, TypeOK, Arrived, QueueOK
<1>5. ASSUME NEW k \in SelectCalls, NEW p \in Paths, NEW a \in Apps,
             Misshapen(k, p, a)
      PROVE  Inv'
  <2>1. TypeOK'
    BY <1>5 DEF TypeOK, Misshapen, Arrive, castVars, Codes
  <2>2. Arrived'
    BY <1>5, ArriveArrived DEF Misshapen, castVars
  <2>3. QueueOK'
    BY <1>5, QueueSame DEF Misshapen, Arrive
  <2>. QED  BY <2>1, <2>2, <2>3
<1>. QED
  BY <1>1, <1>2, <1>3, <1>4, <1>5 DEF Client, SelectArrive, StartArrive

LEMMA ExecutorInv ==
    ASSUME Inv, Executor
    PROVE  Inv'
<1>. USE DEF Inv, Requests, Calls
<1>1. ASSUME NEW k \in CreateCalls, CreateInsert(k)
      PROVE  Inv'
  <2>1. path[k] \in Paths /\ app[k] \in Apps
    BY <1>1 DEF Arrived, CreateInsert
  <2>2. sessions' \in Registry
    BY <1>1, <2>1, InsertType DEF TypeOK, CreateInsert
  <2>3. TypeOK'
    BY <1>1, <2>2
    DEF TypeOK, CreateInsert, Return, Answer, Goto, castVars, CreatePc, Codes
  <2>4. Arrived'
    BY <1>1, MoveArrived DEF CreateInsert, Return, Answer, Goto, castVars
  <2>5. QueueOK'
    BY <1>1, QueueSame DEF CreateInsert, Return, Answer, Goto
  <2>. QED  BY <2>3, <2>4, <2>5
<1>2. ASSUME NEW k \in CreateCalls, CreateExport(k)
      PROVE  Inv'
  <2>1. path[k] \in Paths
    BY <1>2 DEF Arrived, CreateExport
  <2>2. sessions' \in Registry /\ stopped' \subseteq StartCalls
    BY <1>2, <2>1, RemoveType DEF TypeOK, CreateExport
  <2>3. TypeOK'
    BY <1>2, <2>1, <2>2 DEF TypeOK, CreateExport, Return, Answer, Codes
  <2>4. Arrived'
    BY <1>2, MoveArrived DEF CreateExport, Return, Answer
  <2>5. QueueOK'
    BY <1>2, QueueSame DEF CreateExport, Return, Answer
  <2>. QED  BY <2>3, <2>4, <2>5
<1>3. ASSUME NEW k \in CloseCalls, SessionCloseSent(k)
      PROVE  Inv'
  <2>. DEFINE job == [kind |-> "CloseSession", path |-> path[k]]
  <2>1. pc[k] = "sending" /\ job \in Job
    BY <1>3 DEF Job, Arrived, SessionCloseSent
  <2>2. TypeOK'
    BY <1>3, <2>1, QueueAppend
    DEF TypeOK, SessionCloseSent, Return, Answer, castVars, Codes
  <2>3. Arrived'
    BY <1>3, <2>1, MoveArrived DEF SessionCloseSent, Return, Answer, castVars
  <2>4. QueueOK'
    BY <1>3, <2>1, QueueAppend
    DEF QueueOK, OfRequest, TypeOK, SessionCloseSent, Return, Answer, Job
  <2>. QED  BY <2>2, <2>3, <2>4
<1>. QED
  BY <1>1, <1>2, <1>3 DEF Executor

LEMMA DispatcherInv ==
    ASSUME Inv, Dispatcher
    PROVE  Inv'
<1>. USE DEF Inv, Requests, Calls
<1>1. ASSUME NEW k \in SelectCalls \cup StartCalls, NEW to \in {"selecting", "starting"},
             NEW kind \in {"SelectSources", "Start"},
             Spawn([kind |-> kind, call |-> k], to)
      PROVE  Inv'
  <2>1. /\ queue # <<>>
        /\ [kind |-> kind, call |-> k] = Head(queue)
        /\ queue' = Tail(queue)
    BY <1>1 DEF Spawn, Receive
  <2>2. /\ OfRequest(queue[1])
        /\ queue[1].call = k
        /\ pc[k] = "queued"
    BY <2>1, QueueTail DEF QueueOK, OfRequest
  <2>3. TypeOK'
    <3>1. /\ queue' \in Seq(Job)
          /\ Len(queue') <= QueueCap
      BY <2>1, QueueTail
    <3>2. /\ pc' \in [Calls -> {"idle", "queued", "sending", "replied", "done"}
                               \cup CreatePc \cup SelectPc \cup StartPc]
          /\ reply' \in [Calls -> Codes \cup {None}]
          /\ closedReq' \subseteq Requests
      BY <1>1 DEF TypeOK, Spawn, Goto, Return, Answer, SelectPc, StartPc, Codes
    <3>. QED
      BY <1>1, <3>1, <3>2 DEF TypeOK, Spawn, Goto, Return, Answer, castVars
  <2>4. Arrived'
    BY <1>1, <2>2, MoveArrived DEF Spawn, Goto, Return, Answer, castVars
  <2>5. \A i \in 1..Len(queue') : OfRequest(queue'[i]) => queue'[i].call # k
    BY <2>1, <2>2, QueueTail DEF QueueOK, TypeOK
  <2>6. \A i \in 1..Len(queue') : OfRequest(queue'[i]) => pc'[queue'[i].call] = "queued"
    <3>1. \A j \in Calls : j # k => pc'[j] = pc[j]
      BY <1>1 DEF TypeOK, Spawn, Goto, Return, Answer
    <3>2. \A i \in 1..Len(queue') : OfRequest(queue'[i]) => queue'[i].call \in Calls
      BY <2>1, QueueTail DEF OfRequest, Job
    <3>3. \A i \in 1..Len(queue') : OfRequest(queue'[i]) => pc[queue'[i].call] = "queued"
      BY <2>1, QueueTail DEF QueueOK, TypeOK
    <3>. QED  BY <2>5, <3>1, <3>2, <3>3
  <2>7. QueueOK'
    BY <2>1, <2>6, QueueTail DEF QueueOK, OfRequest, TypeOK
  <2>. QED  BY <2>3, <2>4, <2>7
<1>2. ASSUME NEW p \in Paths, NEW kind \in {"CloseSession", "SessionEnded"},
             CloseDetach(p, kind)
      PROVE  Inv'
  <2>1. /\ queue # <<>>
        /\ queue' = Tail(queue)
        /\ pc' = pc
    BY <1>2 DEF CloseDetach, Receive, callVars
  <2>2. sessions' \in Registry /\ stopped' \subseteq StartCalls
    BY <1>2, RemoveType DEF TypeOK, CloseDetach
  <2>3. worker' \in Worker
    BY <1>2 DEF CloseDetach, TypeOK, Registry, Session, Worker
  <2>4. TypeOK'
    BY <1>2, <2>1, <2>2, <2>3, QueueTail DEF TypeOK, CloseDetach, callVars
  <2>5. QueueOK'
    BY <2>1, QueueTail DEF QueueOK, OfRequest, TypeOK
  <2>. QED  BY <1>2, <2>4, <2>5 DEF Arrived, CloseDetach, callVars
<1>3. ASSUME CloseJoin \/ CloseEmit \/ CloseUnexport
      PROVE  Inv'
  <2>1. worker' \in Worker /\ closedSig' \subseteq CreateCalls
    BY <1>3 DEF CloseJoin, CloseEmit, CloseUnexport, TypeOK, Worker
  <2>. QED
    BY <1>3, <2>1
    DEF CloseJoin, CloseEmit, CloseUnexport, callVars, castVars, TypeOK, Arrived, QueueOK
<1>. QED
  BY <1>1, <1>2, <1>3 DEF Dispatcher, SpawnSelect, SpawnStart

LEMMA SelectTaskInv ==
    ASSUME Inv, NEW k \in SelectCalls, SelectTask(k) \/ SelectAnswer(k)
    PROVE  Inv'
<1>. USE DEF Inv, Requests, Calls
<1>. DEFINE Step == \/ SelectBegin(k) \/ SelectAnswer(k) \/ SelectCheck(k)
                    \/ SelectArm(k) \/ TaskExit(k)
<1>1. Step
  BY DEF SelectTask
<1>2. pc[k] # "idle" /\ pc[k] # "queued" /\ queue' = queue /\ path' = path /\ app' = app
  BY <1>1 DEF SelectBegin, SelectAnswer, SelectCheck, SelectArm, TaskExit,
              TaskReply, Answer, Goto
<1>3. /\ \E to : to # "idle" /\ pc' = [pc EXCEPT ![k] = to]
      /\ pc' \in [Calls -> {"idle", "queued", "sending", "replied", "done"}
                           \cup CreatePc \cup SelectPc \cup StartPc]
      /\ reply' \in [Calls -> Codes \cup {None}]
      /\ closedReq' \subseteq Requests
  BY <1>1 DEF SelectBegin, SelectAnswer, SelectCheck, SelectArm, TaskExit,
              TaskReply, Answer, Goto, TypeOK, SelectPc, Codes
<1>4. sessions' \in Registry
  BY <1>1, <1>2, SelectType
  DEF SelectBegin, SelectAnswer, SelectCheck, SelectArm, TaskExit, TypeOK,
      Arrived, CanSelect
<1>5. TypeOK'
  BY <1>1, <1>2, <1>3, <1>4
  DEF SelectBegin, SelectAnswer, SelectCheck, SelectArm, TaskExit, castVars, TypeOK
<1>6. cast' = cast /\ blocked' = blocked
  BY <1>1 DEF SelectBegin, SelectAnswer, SelectCheck, SelectArm, TaskExit, castVars
<1>7. Arrived' /\ QueueOK'
  BY <1>2, <1>3, <1>6, QueueSame, MoveArrived
<1>. QED  BY <1>5, <1>7

LEMMA StartTaskInv ==
    ASSUME Inv, NEW k \in StartCalls, StartTask(k)
    PROVE  Inv'
<1>. USE DEF Inv, Requests, Calls
<1>1. /\ pc[k] # "idle" /\ pc[k] # "queued"
      /\ queue' = queue /\ path' = path /\ app' = app
      /\ UNCHANGED <<objects, completed, worker, blocked, closedSig, overlapped>>
  BY DEF StartTask, StartReserve, StartSpawn, StartWait, StartInstall, StartJoin,
         TaskExit, TaskReply, Answer, Goto, castVars
<1>2. /\ pc' = [pc EXCEPT ![k] = pc'[k]]
      /\ pc'[k] \in {"replied", "done"} \cup StartPc
      /\ pc'[k] # "idle"
      /\ pc' \in [Calls -> {"idle", "queued", "sending", "replied", "done"}
                           \cup CreatePc \cup SelectPc \cup StartPc]
  <2>1. CASE StartReserve(k)
    BY <2>1 DEF StartReserve, TaskReply, Answer, Goto, TypeOK, StartPc
  <2>2. CASE StartSpawn(k)
    BY <2>2 DEF StartSpawn, TaskReply, Answer, Goto, TypeOK, StartPc
  <2>3. CASE StartWait(k)
    BY <2>3 DEF StartWait, TaskReply, Answer, Goto, TypeOK, StartPc
  <2>4. CASE StartInstall(k)
    BY <2>4 DEF StartInstall, TaskReply, Answer, Goto, TypeOK, StartPc
  <2>5. CASE StartJoin(k)
    BY <2>5 DEF StartJoin, TaskReply, Answer, Goto, TypeOK, StartPc
  <2>6. CASE TaskExit(k)
    BY <2>6 DEF TaskExit, TaskReply, Answer, Goto, TypeOK, StartPc
  <2>. QED  BY <2>1, <2>2, <2>3, <2>4, <2>5, <2>6 DEF StartTask
<1>9. reply' \in [Calls -> Codes \cup {None}] /\ closedReq' \subseteq Requests
  BY DEF StartTask, StartReserve, StartSpawn, StartWait, StartInstall, StartJoin,
         TaskExit, TaskReply, Answer, Goto, TypeOK, Codes
<1>3. path[k] \in Paths
  BY <1>1 DEF Arrived
<1>4. sessions' \in Registry
  BY <1>3, ReserveType, ClearType, MarkStartedType
  DEF StartTask, StartReserve, StartSpawn, StartWait, StartInstall, StartJoin,
      TaskExit, TypeOK, CanReserve
<1>5. stopped' \subseteq StartCalls
  BY <1>3, RemoveType
  DEF StartTask, StartReserve, StartSpawn, StartWait, StartInstall, StartJoin,
      TaskExit, castVars, TypeOK
<1>6. /\ cast' \in [StartCalls -> CastPhase]
      /\ \A j \in StartCalls \ {k} : cast'[j] = cast[j]
  BY DEF StartTask, StartReserve, StartSpawn, StartWait, StartInstall, StartJoin,
         TaskExit, castVars, TypeOK, CastPhase
<1>7. reserved' \in [StartCalls -> Reservation \cup {None}]
  BY <1>3
  DEF StartTask, StartReserve, StartSpawn, StartWait, StartInstall, StartJoin,
      TaskExit, castVars, TypeOK, CanReserve, Registry, Session, Reservation
<1>8. TypeOK'
  BY <1>1, <1>2, <1>4, <1>5, <1>6, <1>7, <1>9 DEF TypeOK
<1>10. Arrived' /\ QueueOK'
  BY <1>1, <1>2, <1>6, QueueSame, MoveArrived
<1>. QED  BY <1>8, <1>10

LEMMA CastInv ==
    ASSUME Inv, NEW k \in StartCalls, CastThread(k) \/ Compositor(k)
    PROVE  Inv'
<1>. USE DEF Inv
<1>. DEFINE job == [kind |-> "SessionEnded", path |-> path[k]]
<1>0. /\ cast[k] # "none"
      /\ \A j \in StartCalls \ {k} : cast'[j] = cast[j]
  BY DEF CastThread, Compositor, CastStop, CastReport, CastTeardown, CastComplete,
         CastFail, CastEnded, CastError, CastStep, TypeOK
<1>1. /\ UNCHANGED <<sessions, objects, stopped, reserved, worker, blocked, closedSig, overlapped>>
      /\ UNCHANGED callVars
      /\ cast' \in [StartCalls -> CastPhase]
      /\ completed' \subseteq StartCalls
      /\ \/ queue' = queue
         \/ Len(queue) < QueueCap /\ queue' = Append(queue, job)
  BY DEF CastThread, Compositor, CastStop, CastReport, CastTeardown, CastComplete,
         CastFail, CastEnded, CastError, CastStep, SendEnded, TypeOK, CastPhase
<1>2. job \in Job
  BY <1>0 DEF Job, Arrived, Calls, Requests
<1>3. queue' \in Seq(Job) /\ Len(queue') <= QueueCap
  BY <1>1, <1>2, QueueAppend DEF TypeOK
<1>4. TypeOK' /\ Arrived'
  BY <1>0, <1>1, <1>3 DEF TypeOK, Arrived, callVars
<1>5. QueueOK'
  <2>1. CASE queue' = queue
    BY <1>1, <2>1 DEF QueueOK, callVars
  <2>2. CASE Len(queue) < QueueCap /\ queue' = Append(queue, job)
    BY <1>1, <1>2, <2>2, QueueAppend DEF QueueOK, OfRequest, TypeOK, callVars
  <2>. QED  BY <1>1, <2>1, <2>2
<1>. QED  BY <1>4, <1>5

LEMMA NextInv == Inv /\ [Next]_vars => Inv'
<1>. SUFFICES ASSUME Inv, [Next]_vars PROVE Inv'
  OBVIOUS
<1>1. CASE UNCHANGED vars
  BY <1>1 DEF vars, Inv, TypeOK, Arrived, QueueOK
<1>2. CASE Next
  BY <1>2, ClientInv, ExecutorInv, DispatcherInv, SelectTaskInv, StartTaskInv, CastInv
  DEF Next
<1>. QED  BY <1>1, <1>2

THEOREM InvCorrect == Spec => []Inv
  BY InitInv, NextInv, PTL DEF Spec

(* Every variable keeps its type; in particular the channel never holds    *)
(* more than MAX_QUEUED_REQUESTS jobs and the dispatcher always knows the  *)
(* cast it joins (screencast.rs cast_worker, session.rs).                  *)
THEOREM TypeCorrect == Spec => []TypeOK
  BY InvCorrect, PTL DEF Inv

-----------------------------------------------------------------------------
(* NoOrphanProducer.  A producer leaves the care of its Start task only by *)
(* being installed or stopped (StartWait, StartInstall), and the care of a *)
(* session only with the drop of the session's stop socket, which is to    *)
(* stop it.                                                                *)

(* What a step must do with the producers of other actors. *)
LEMMA OrphanStep ==
    ASSUME NoOrphanProducer, TypeOK,
           stopped \subseteq stopped',
           NEW S \in SUBSET StartCalls,
           \A k \in StartCalls \ S : cast'[k] \notin {"none", "exited"} =>
                                        cast[k] \notin {"none", "exited"},
           \A k \in StartCalls \ S : pc'[k] = pc[k] \/ ~Negotiated(k),
           \A p \in Paths : sessions[p] # None =>
               \/ sessions[p].cast = None
               \/ sessions'[p] # None /\ sessions'[p].cast = sessions[p].cast
               \/ sessions[p].cast \in stopped',
           \A k \in S : k \in stopped' \/ Held(k)' \/ Negotiated(k)'
    PROVE  NoOrphanProducer'
<1>. SUFFICES ASSUME NEW k \in StartCalls \ S, cast'[k] \notin {"none", "exited"}
              PROVE  k \in stopped' \/ Held(k)' \/ Negotiated(k)'
  BY DEF NoOrphanProducer, Running
<1>1. k \in stopped \/ Held(k) \/ Negotiated(k)
  BY DEF NoOrphanProducer, Running
<1>2. CASE Held(k)
  BY <1>2 DEF Held
<1>3. CASE Negotiated(k)
  BY <1>3 DEF Negotiated
<1>. QED  BY <1>1, <1>2, <1>3

LEMMA OrphanClient ==
    ASSUME Inv, NoOrphanProducer, Client
    PROVE  NoOrphanProducer'
<1>1. UNCHANGED <<sessions, stopped, cast>>
  BY DEF Client, CreateArrive, SelectArrive, Misshapen, StartArrive,
         Enqueue, SessionClose,
         RequestClose, castVars
<1>2. \A k \in StartCalls : pc'[k] = pc[k] \/ pc[k] = "idle"
  <2>1. ASSUME NEW j, NEW p, NEW a, NEW to, NEW code, Arrive(j, p, a, to, code),
               NEW k \in StartCalls
        PROVE  pc'[k] = pc[k] \/ pc[k] = "idle"
    BY <2>1 DEF Arrive, Inv, TypeOK, Calls, Requests
  <2>. QED
    BY <2>1 DEF Client, CreateArrive, SelectArrive, Misshapen, StartArrive,
         Enqueue, SessionClose,
                RequestClose
<1>. QED  BY <1>1, <1>2, OrphanStep, StartCalls \ {} = StartCalls DEF Negotiated, Inv

LEMMA OrphanExecutor ==
    ASSUME Inv, NoOrphanProducer, Executor
    PROVE  NoOrphanProducer'
<1>1. \A k \in StartCalls : pc'[k] = pc[k]
  <2>1. ASSUME NEW j \in CreateCalls \cup CloseCalls, NEW to,
               pc' = [pc EXCEPT ![j] = to], NEW k \in StartCalls
        PROVE  pc'[k] = pc[k]
    BY <2>1 DEF Inv, TypeOK, Calls, Requests
  <2>. QED
    BY <2>1 DEF Executor, CreateInsert, CreateExport, SessionCloseSent, Return, Answer, Goto
<1>2. cast' = cast /\ stopped \subseteq stopped'
  BY DEF Executor, CreateInsert, CreateExport, SessionCloseSent, castVars
<1>3. \A p \in Paths : sessions[p] # None =>
         \/ sessions[p].cast = None
         \/ sessions'[p] # None /\ sessions'[p].cast = sessions[p].cast
         \/ sessions[p].cast \in stopped'
  <2>1. ASSUME NEW k \in CreateCalls, CreateInsert(k)
        PROVE  \A p \in Paths : sessions[p] # None => sessions'[p] = sessions[p]
    BY <2>1 DEF CreateInsert, CanInsert, Insert, Inv, TypeOK, Registry
  <2>2. ASSUME NEW k \in CreateCalls, CreateExport(k), NEW p \in Paths,
               sessions[p] # None
        PROVE  \/ sessions[p].cast = None
               \/ sessions'[p] = sessions[p]
               \/ sessions[p].cast \in stopped'
    BY <2>2 DEF CreateExport, Remove, Dropped, Inv, TypeOK, Registry
  <2>3. ASSUME NEW k \in CloseCalls, SessionCloseSent(k)
        PROVE  sessions' = sessions
    BY <2>3 DEF SessionCloseSent
  <2>. QED  BY <2>1, <2>2, <2>3 DEF Executor
<1>. QED  BY <1>1, <1>2, <1>3, OrphanStep, StartCalls \ {} = StartCalls DEF Inv

(* The dispatcher moves only calls whose job it took from the queue.       *)
LEMMA DispatcherMoves ==
    ASSUME Inv, Dispatcher
    PROVE  \A k \in StartCalls : pc'[k] = pc[k] \/ pc[k] = "queued"
<1>1. ASSUME NEW j \in SelectCalls \cup StartCalls, NEW kind, NEW to,
             kind \in {"SelectSources", "Start"},
             Spawn([kind |-> kind, call |-> j], to)
      PROVE  \A k \in StartCalls : pc'[k] = pc[k] \/ pc[k] = "queued"
  <2>1. \A k \in StartCalls : k # j => pc'[k] = pc[k]
    BY <1>1 DEF Spawn, Goto, Return, Answer, Inv, TypeOK, Calls, Requests
  <2>2. pc[j] = "queued"
    BY <1>1, QueueTail DEF Spawn, Receive, Inv, QueueOK, OfRequest
  <2>. QED  BY <2>1, <2>2
<1>2. CASE pc' = pc
  BY <1>2
<1>3. CASE \E j \in SelectCalls \cup StartCalls : SpawnSelect(j) \/ SpawnStart(j)
  BY <1>1, <1>3 DEF SpawnSelect, SpawnStart
<1>. QED
  BY <1>2, <1>3 DEF Dispatcher, CloseDetach, CloseJoin, CloseEmit, CloseUnexport, callVars

LEMMA OrphanDispatcher ==
    ASSUME Inv, NoOrphanProducer, Dispatcher
    PROVE  NoOrphanProducer'
<1>1. \A k \in StartCalls : pc'[k] = pc[k] \/ pc[k] = "queued"
  BY DispatcherMoves
<1>2. cast' = cast /\ stopped \subseteq stopped'
  BY DEF Dispatcher, SpawnSelect, SpawnStart, Spawn, CloseDetach, CloseJoin,
         CloseEmit, CloseUnexport, castVars
<1>3. \A p \in Paths : sessions[p] # None =>
         \/ sessions[p].cast = None
         \/ sessions'[p] # None /\ sessions'[p].cast = sessions[p].cast
         \/ sessions[p].cast \in stopped'
  <2>1. ASSUME NEW q \in Paths, NEW kind, CloseDetach(q, kind), NEW p \in Paths,
               sessions[p] # None
        PROVE  \/ sessions[p].cast = None
               \/ sessions'[p] = sessions[p]
               \/ sessions[p].cast \in stopped'
    BY <2>1 DEF CloseDetach, Remove, Dropped, Inv, TypeOK, Registry
  <2>. QED
    BY <2>1 DEF Dispatcher, SpawnSelect, SpawnStart, Spawn, CloseJoin, CloseEmit,
                CloseUnexport
<1>. QED
  BY <1>1, <1>2, <1>3, OrphanStep, StartCalls \ {} = StartCalls DEF Inv, Negotiated

LEMMA OrphanSelect ==
    ASSUME Inv, NoOrphanProducer, NEW k \in SelectCalls, SelectTask(k) \/ SelectAnswer(k)
    PROVE  NoOrphanProducer'
<1>1. \A j \in StartCalls : pc'[j] = pc[j]
  BY DEF SelectTask, SelectBegin, SelectAnswer, SelectCheck, SelectArm, TaskExit,
         TaskReply, Answer, Goto, Inv, TypeOK, Calls, Requests
<1>2. cast' = cast /\ stopped' = stopped
  BY DEF SelectTask, SelectBegin, SelectAnswer, SelectCheck, SelectArm, TaskExit, castVars
<1>3. \/ sessions' = sessions
      \/ /\ path[k] \in Paths
         /\ sessions[path[k]] # None
         /\ sessions' = MarkSourcesSelected(sessions, path[k], k)
  BY DEF SelectTask, SelectBegin, SelectAnswer, SelectCheck, SelectArm, TaskExit,
         CanSelect, Inv, Arrived, Calls, Requests
<1>4. \A p \in Paths : sessions[p] # None =>
         sessions'[p] # None /\ sessions'[p].cast = sessions[p].cast
  BY <1>3, SelectKeepsCast DEF Inv, TypeOK, KeepsCast
<1>. QED  BY <1>1, <1>2, <1>4, OrphanStep, StartCalls \ {} = StartCalls DEF Inv

(* The Start task is where ownership changes hands: one step per action.   *)
LEMMA OrphanStart ==
    ASSUME Inv, NoOrphanProducer, NEW k \in StartCalls, StartTask(k)
    PROVE  NoOrphanProducer'
<1>. USE DEF Inv, Calls, Requests
<1>. DEFINE Kept(p) == \/ sessions[p].cast = None
                       \/ sessions'[p] # None /\ sessions'[p].cast = sessions[p].cast
                       \/ sessions[p].cast \in stopped'
            Safe == k \in stopped' \/ Held(k)' \/ Negotiated(k)'
<1>1. path[k] \in Paths
  BY DEF StartTask, StartReserve, StartSpawn, StartWait, StartInstall, StartJoin,
         TaskExit, Arrived
<1>2. \A j \in StartCalls \ {k} : pc'[j] = pc[j] /\ cast'[j] = cast[j]
  BY DEF StartTask, StartReserve, StartSpawn, StartWait, StartInstall, StartJoin,
         TaskExit, TaskReply, Answer, Goto, TypeOK, castVars
<1>3. stopped \subseteq stopped'
  BY DEF StartTask, StartReserve, StartSpawn, StartWait, StartInstall, StartJoin,
         TaskExit, castVars
<1>4. \A p \in Paths : sessions[p] # None => Kept(p)
  <2>1. CASE StartReserve(k) \/ StartSpawn(k)
    <3>1. \/ sessions' = sessions
          \/ sessions[path[k]] # None /\ sessions' = ReserveStart(sessions, path[k])
          \/ sessions' = ClearStart(sessions, path[k])
      BY <2>1 DEF StartReserve, StartSpawn, CanReserve
    <3>. QED  BY <1>1, <3>1, ReserveKeepsCast, ClearKeepsCast DEF TypeOK, KeepsCast
  <2>2. CASE StartInstall(k)
    BY <1>1, <2>2, InstallTakesOver DEF StartInstall, TypeOK
  <2>3. CASE StartWait(k) \/ StartJoin(k) \/ TaskExit(k)
    <3>1. sessions' = sessions \/ sessions' = ClearStart(sessions, path[k])
      BY <2>3 DEF StartWait, StartJoin, TaskExit
    <3>. QED  BY <1>1, <3>1, ReserveKeepsCast, ClearKeepsCast DEF TypeOK, KeepsCast
  <2>. QED  BY <2>1, <2>2, <2>3 DEF StartTask
<1>5. cast'[k] \in {"none", "exited"} \/ Safe
  <2>1. CASE k \in Running /\ (Held(k) \/ k \in stopped)
    BY <1>3, <1>4, <2>1 DEF Held
  <2>2. CASE k \in Running /\ Negotiated(k)
    <3>1. CASE StartWait(k)
      BY <3>1 DEF StartWait, Goto, Negotiated, TypeOK
    <3>2. CASE StartInstall(k)
      BY <1>1, <3>2, InstallTakesOver DEF StartInstall, Held, TypeOK
    <3>. QED
      BY <2>2, <3>1, <3>2 DEF StartTask, StartReserve, StartSpawn, StartJoin, TaskExit,
                              Negotiated
  <2>3. CASE k \notin Running
    BY <2>3 DEF Running, StartTask, StartReserve, StartSpawn, StartWait, StartInstall,
                StartJoin, TaskExit, castVars, Goto, Negotiated, TypeOK
  <2>. QED  BY <2>1, <2>2, <2>3 DEF NoOrphanProducer
<1>. QED
  <2>1. CASE Safe
    BY <1>2, <1>3, <1>4, <2>1, OrphanStep, {k} \in SUBSET StartCalls, ZenonT(60)
  <2>2. CASE cast'[k] \in {"none", "exited"}
    BY <1>2, <1>3, <1>4, <2>2, OrphanStep DEF NoOrphanProducer, Running, Held, Negotiated
  <2>. QED  BY <1>5, <2>1, <2>2

LEMMA OrphanCast ==
    ASSUME Inv, NoOrphanProducer, NEW k \in StartCalls, CastThread(k) \/ Compositor(k)
    PROVE  NoOrphanProducer'
<1>1. UNCHANGED <<sessions, stopped, pc>>
  BY DEF CastThread, Compositor, CastStop, CastReport, CastTeardown, CastComplete,
         CastFail, CastEnded, CastError, CastStep, callVars
<1>2. \A j \in StartCalls : cast'[j] \notin {"none", "exited"} =>
                               cast[j] \notin {"none", "exited"}
  BY DEF CastThread, Compositor, CastStop, CastReport, CastTeardown, CastComplete,
         CastFail, CastEnded, CastError, CastStep, Inv, TypeOK
<1>. QED  BY <1>1, <1>2, OrphanStep, StartCalls \ {} = StartCalls DEF Inv

(* Every running cast thread is owned or has been told to stop             *)
(* (session.rs mark_started, close_session, stop_cast).                    *)
THEOREM NoOrphanCorrect == Spec => []NoOrphanProducer
<1>1. Init => NoOrphanProducer
  BY DEF Init, NoOrphanProducer, Running
<1>2. Inv /\ NoOrphanProducer /\ [Next]_vars => NoOrphanProducer'
  <2>. SUFFICES ASSUME Inv, NoOrphanProducer, [Next]_vars
                PROVE  NoOrphanProducer'
    OBVIOUS
  <2>1. CASE UNCHANGED vars
    BY <2>1 DEF vars, NoOrphanProducer, Running, Held, Negotiated
  <2>. QED
    BY <2>1, OrphanClient, OrphanExecutor, OrphanDispatcher, OrphanSelect,
       OrphanStart, OrphanCast DEF Next
<1>. QED  BY <1>1, <1>2, InvCorrect, PTL DEF Spec

-----------------------------------------------------------------------------
(* ReservationBacked.  A Start gives its reservation up only by clearing   *)
(* the mark at its own path, so whoever backs a mark that survives a step  *)
(* still backs it after the step.                                          *)

Backing == StartPc \ {"starting", "orphaned"}

Backs(k, p) == pc[k] \in Backing /\ path[k] = p /\ SessionOf(k) = sessions[p].id

Marked(p) == sessions[p] # None /\ sessions[p].starting

LEMMA ReservationStep ==
    ASSUME ReservationBacked, TypeOK,
           NEW S \in SUBSET StartCalls,
           \A k \in StartCalls \ S :
               /\ pc[k] \in Backing => pc'[k] = pc[k] /\ path'[k] = path[k]
               /\ reserved'[k] = reserved[k],
           \A p \in Paths : Marked(p)' =>
               \/ \E k \in StartCalls : Backs(k, p)'
               \/ /\ Marked(p)
                  /\ sessions'[p].id = sessions[p].id
                  /\ \A k \in S : ~Backs(k, p)
    PROVE  ReservationBacked'
<1>. SUFFICES ASSUME NEW p \in Paths, Marked(p)'
              PROVE  \E k \in StartCalls : Backs(k, p)'
  BY DEF ReservationBacked, Marked, Backs, Backing
<1>1. CASE /\ Marked(p)
           /\ sessions'[p].id = sessions[p].id
           /\ \A k \in S : ~Backs(k, p)
  <2>1. PICK k \in StartCalls : Backs(k, p)
    BY <1>1 DEF ReservationBacked, Marked, Backs, Backing
  <2>2. k \in StartCalls \ S
    BY <1>1, <2>1
  <2>3. Backs(k, p)'
    BY <1>1, <2>1, <2>2 DEF Backs, SessionOf
  <2>. QED  BY <2>3
<1>. QED  BY <1>1

(* A step that moves no Start out of its reservation, and marks nothing.   *)
LEMMA ReservationOthers ==
    ASSUME ReservationBacked, TypeOK,
           \A k \in StartCalls :
               /\ pc[k] \in Backing => pc'[k] = pc[k] /\ path'[k] = path[k]
               /\ reserved'[k] = reserved[k],
           \A p \in Paths : Marked(p)' => Marked(p) /\ sessions'[p].id = sessions[p].id
    PROVE  ReservationBacked'
  BY ReservationStep, {} \in SUBSET StartCalls

LEMMA ReservationClient ==
    ASSUME Inv, ReservationBacked, Client
    PROVE  ReservationBacked'
<1>1. sessions' = sessions /\ reserved' = reserved
  BY DEF Client, CreateArrive, SelectArrive, Misshapen, StartArrive,
         Enqueue, SessionClose,
         RequestClose, castVars
<1>2. \A k \in StartCalls :
         pc[k] \in Backing => pc'[k] = pc[k] /\ path'[k] = path[k]
  <2>1. ASSUME NEW j, NEW p, NEW a, NEW to, NEW code, Arrive(j, p, a, to, code),
               NEW k \in StartCalls, pc[k] \in Backing
        PROVE  pc'[k] = pc[k] /\ path'[k] = path[k]
    BY <2>1 DEF Arrive, Inv, TypeOK, Calls, Requests, Backing, StartPc
  <2>. QED
    BY <2>1 DEF Client, CreateArrive, SelectArrive, Misshapen, StartArrive,
         Enqueue, SessionClose,
                RequestClose
<1>. QED  BY <1>1, <1>2, ReservationOthers DEF Inv, Marked

LEMMA ReservationExecutor ==
    ASSUME Inv, ReservationBacked, Executor
    PROVE  ReservationBacked'
<1>1. \A k \in StartCalls : pc'[k] = pc[k]
  <2>1. ASSUME NEW j \in CreateCalls \cup CloseCalls, NEW to,
               pc' = [pc EXCEPT ![j] = to], NEW k \in StartCalls
        PROVE  pc'[k] = pc[k]
    BY <2>1 DEF Inv, TypeOK, Calls, Requests
  <2>. QED
    BY <2>1 DEF Executor, CreateInsert, CreateExport, SessionCloseSent, Return, Answer, Goto
<1>2. reserved' = reserved /\ path' = path
  BY DEF Executor, CreateInsert, CreateExport, SessionCloseSent, Return, Answer, Goto,
         castVars
<1>3. \A p \in Paths : Marked(p)' => sessions'[p] = sessions[p]
  <2>1. ASSUME NEW k \in CreateCalls, CreateInsert(k), NEW p \in Paths, Marked(p)'
        PROVE  sessions'[p] = sessions[p]
    BY <2>1 DEF CreateInsert, CanInsert, Insert, Inv, TypeOK, Registry, Marked
  <2>2. ASSUME NEW k \in CreateCalls, CreateExport(k), NEW p \in Paths, Marked(p)'
        PROVE  sessions'[p] = sessions[p]
    BY <2>2 DEF CreateExport, Remove, Inv, TypeOK, Registry, Marked
  <2>3. ASSUME NEW k \in CloseCalls, SessionCloseSent(k)
        PROVE  sessions' = sessions
    BY <2>3 DEF SessionCloseSent
  <2>. QED  BY <2>1, <2>2, <2>3 DEF Executor
<1>. QED  BY <1>1, <1>2, <1>3, ReservationOthers DEF Inv, Marked

LEMMA ReservationDispatcher ==
    ASSUME Inv, ReservationBacked, Dispatcher
    PROVE  ReservationBacked'
<1>1. reserved' = reserved /\ path' = path
  BY DEF Dispatcher, SpawnSelect, SpawnStart, Spawn, Goto, Return, Answer, CloseDetach,
         CloseJoin, CloseEmit, CloseUnexport, callVars, castVars
<1>2. \A k \in StartCalls : pc'[k] = pc[k] \/ pc[k] = "queued"
  BY DispatcherMoves
<1>3. \A p \in Paths : Marked(p)' => sessions'[p] = sessions[p]
  <2>1. ASSUME NEW q \in Paths, NEW kind, CloseDetach(q, kind), NEW p \in Paths, Marked(p)'
        PROVE  sessions'[p] = sessions[p]
    BY <2>1 DEF CloseDetach, Remove, Inv, TypeOK, Registry, Marked
  <2>. QED
    BY <2>1 DEF Dispatcher, SpawnSelect, SpawnStart, Spawn, CloseJoin, CloseEmit,
                CloseUnexport
<1>. QED  BY <1>1, <1>2, <1>3, ReservationOthers DEF Inv, Marked, Backing, StartPc

LEMMA ReservationSelect ==
    ASSUME Inv, ReservationBacked, NEW k \in SelectCalls, SelectTask(k) \/ SelectAnswer(k)
    PROVE  ReservationBacked'
<1>1. \A j \in StartCalls : pc'[j] = pc[j]
  BY DEF SelectTask, SelectBegin, SelectAnswer, SelectCheck, SelectArm, TaskExit,
         TaskReply, Answer, Goto, Inv, TypeOK, Calls, Requests
<1>2. reserved' = reserved /\ path' = path
  BY DEF SelectTask, SelectBegin, SelectAnswer, SelectCheck, SelectArm, TaskExit,
         TaskReply, Answer, Goto, castVars
<1>3. \A p \in Paths : Marked(p)' => Marked(p) /\ sessions'[p].id = sessions[p].id
  <2>1. CASE sessions' = sessions
    BY <2>1 DEF Marked
  <2>2. CASE SelectArm(k) /\ sessions' # sessions
    BY <2>2 DEF SelectArm, CanSelect, MarkSourcesSelected, Inv, TypeOK, Registry, Session,
                Arrived, Calls, Requests, Marked
  <2>. QED  BY <2>1, <2>2 DEF SelectTask, SelectBegin, SelectAnswer, SelectCheck, TaskExit
<1>. QED  BY <1>1, <1>2, <1>3, ReservationOthers DEF Inv

LEMMA ReservationStart ==
    ASSUME Inv, ReservationBacked, NEW k \in StartCalls, StartTask(k)
    PROVE  ReservationBacked'
<1>. USE DEF Inv, Calls, Requests
<1>1. path[k] \in Paths /\ path' = path
  BY DEF StartTask, StartReserve, StartSpawn, StartWait, StartInstall, StartJoin,
         TaskExit, TaskReply, Answer, Goto, Arrived
<1>2. \A j \in StartCalls \ {k} : pc'[j] = pc[j] /\ reserved'[j] = reserved[j]
  BY DEF StartTask, StartReserve, StartSpawn, StartWait, StartInstall, StartJoin,
         TaskExit, TaskReply, Answer, Goto, TypeOK, castVars
(* Elsewhere nothing changes.                                              *)
<1>3. \A p \in Paths \ {path[k]} : sessions'[p] = sessions[p]
  BY DEF StartTask, StartReserve, StartSpawn, StartWait, StartInstall, StartJoin,
         TaskExit, ReserveStart, ClearStart, MarkStarted, TypeOK, Registry
(* At its own path, k backs the mark, or leaves none, or never did.        *)
<1>. DEFINE p == path[k]
<1>4. Marked(p)' => \/ Backs(k, p)'
                    \/ Marked(p) /\ sessions' = sessions /\ ~Backs(k, p)
  <2>1. CASE StartReserve(k)
    <3>1. CASE pc'[k] = "spawning"
      <4>1. /\ CanReserve(sessions, path[k], app[k])
            /\ sessions' = ReserveStart(sessions, path[k])
            /\ reserved' = [reserved EXCEPT ![k] =
                              [id |-> sessions[path[k]].id, sel |-> sessions[path[k]].sel]]
        BY <2>1, <3>1 DEF StartReserve, TaskReply, Answer, TypeOK
      <4>2. sessions'[path[k]].id = sessions[path[k]].id
        BY <1>1, <4>1 DEF CanReserve, ReserveStart, TypeOK, Registry, Session
      <4>3. /\ reserved'[k] \in Reservation
            /\ reserved'[k].id = sessions[path[k]].id
        BY <1>1, <4>1 DEF CanReserve, TypeOK, Registry, Session, Reservation
      <4>4. SessionOf(k)' = sessions'[path[k]].id
        BY <4>2, <4>3, NoneIsNoReservation DEF SessionOf
      <4>. QED  BY <1>1, <3>1, <4>4 DEF Backs, Backing, StartPc
    <3>2. CASE pc'[k] # "spawning"
      BY <2>1, <3>2 DEF StartReserve, TaskReply, Answer, Goto, TypeOK, Backs, Backing, Marked
    <3>. QED  BY <3>1, <3>2
  <2>2. CASE StartSpawn(k) \/ (StartJoin(k) /\ pc[k] # "orphaned")
    <3>1. CASE sessions' = ClearStart(sessions, path[k])
      BY <1>1, <3>1 DEF ClearStart, Marked, TypeOK, Registry, Session
    <3>2. CASE sessions' = sessions /\ pc'[k] = "negotiating"
      BY <2>2, <3>2, <1>1
      DEF StartSpawn, StartJoin, Marked, Backs, Backing, StartPc, SessionOf
    <3>. QED  BY <2>2, <3>1, <3>2 DEF StartSpawn, StartJoin, Goto, TypeOK
  <2>3. CASE StartWait(k)
    <3>1. sessions' = sessions /\ reserved' = reserved
      BY <2>3 DEF StartWait
    <3>2. pc[k] \in Backing /\ pc'[k] \in Backing
      BY <2>3 DEF StartWait, Goto, TypeOK, Backing, StartPc
    <3>. QED  BY <1>1, <3>1, <3>2 DEF Marked, Backs, SessionOf
  <2>4. CASE StartInstall(k)
    <3>1. CASE sessions[p] = None
      BY <2>4, <1>1, <3>1 DEF StartInstall, Marked
    <3>2. CASE sessions' = MarkStarted(sessions, p, k)
      BY <1>1, <3>2 DEF MarkStarted, Marked, TypeOK, Registry, Session
    <3>. QED  BY <2>4, <3>1, <3>2 DEF StartInstall
  <2>5. CASE TaskExit(k) \/ (StartJoin(k) /\ pc[k] = "orphaned")
    <3>1. sessions' = sessions
      BY <2>5 DEF TaskExit, StartJoin
    <3>2. ~Backs(k, p)
      BY <2>5 DEF TaskExit, Backs, Backing, StartPc
    <3>. QED  BY <1>1, <3>1, <3>2 DEF Marked
  <2>. QED  BY <2>1, <2>2, <2>3, <2>4, <2>5 DEF StartTask
<1>5. ASSUME NEW q \in Paths, Marked(q)'
      PROVE  \/ \E j \in StartCalls : Backs(j, q)'
             \/ /\ Marked(q)
                /\ sessions'[q].id = sessions[q].id
                /\ \A j \in {k} : ~Backs(j, q)
  <2>1. CASE q = path[k]
    BY <1>1, <1>4, <1>5, <2>1
  <2>2. CASE q # path[k]
    BY <1>3, <1>5, <2>2 DEF Marked, Backs
  <2>. QED  BY <2>1, <2>2
<1>. QED  BY <1>1, <1>2, <1>5, ReservationStep, {k} \in SUBSET StartCalls, ZenonT(60)

LEMMA ReservationCast ==
    ASSUME Inv, ReservationBacked, NEW k \in StartCalls, CastThread(k) \/ Compositor(k)
    PROVE  ReservationBacked'
<1>1. UNCHANGED <<sessions, reserved, pc, path>>
  BY DEF CastThread, Compositor, CastStop, CastReport, CastTeardown, CastComplete,
         CastFail, CastEnded, CastError, CastStep, callVars
<1>. QED  BY <1>1, ReservationOthers DEF Inv, Marked

(* A session marked "starting" always has a Start task that will install a *)
(* cast or clear the mark (session.rs reserve_start, clear_start).         *)
THEOREM ReservationCorrect == Spec => []ReservationBacked
<1>1. Init => ReservationBacked
  BY DEF Init, ReservationBacked
<1>2. Inv /\ ReservationBacked /\ [Next]_vars => ReservationBacked'
  <2>. SUFFICES ASSUME Inv, ReservationBacked, [Next]_vars
                PROVE  ReservationBacked'
    OBVIOUS
  <2>1. CASE UNCHANGED vars
    BY <2>1 DEF vars, ReservationBacked, SessionOf
  <2>. QED
    BY <2>1, ReservationClient, ReservationExecutor, ReservationDispatcher,
       ReservationSelect, ReservationStart, ReservationCast DEF Next
<1>. QED  BY <1>1, <1>2, InvCorrect, PTL DEF Spec

-----------------------------------------------------------------------------
(* Sessions, reservations and casts agree.  The code finds everything by   *)
(* path, so a path must mean one session for as long as anything acts on   *)
(* it.  CreateInsert makes a session while something acts on its path, and *)
(* the session is in overlapped, or it does not, and then it is the only   *)
(* one that a Start found going on its path can have reserved.             *)

Early  == {"idle", "queued", "starting"}
InHand == {"spawning", "negotiating", "installing"}
Going  == InHand \cup {"aborting", "failing", "orphaned"}

Good(p) == sessions[p] # None /\ sessions[p].id \notin overlapped

(* A session has the path of the call that made it and of the Start whose  *)
(* cast it holds.                                                          *)
Named ==
    \A p \in Paths : sessions[p] # None =>
        /\ path[sessions[p].id] = p
        /\ pc[sessions[p].id] \notin {"idle", "creating"}
        /\ sessions[p].cast # None =>
              path[sessions[p].cast] = p /\ reserved[sessions[p].cast] # None

(* So has a reservation, which a Start holds from reserve_start on. *)
Reserving ==
    \A k \in StartCalls :
        /\ pc[k] \in Going \/ cast[k] # "none" => reserved[k] # None
        /\ reserved[k] # None =>
              /\ pc[k] \notin Early
              /\ path[reserved[k].id] = path[k]
              /\ pc[reserved[k].id] \notin {"idle", "creating"}

(* A Start going on the path of a good session is the one that reserved    *)
(* it, and the only one.                                                   *)
Reserver(k) ==
    /\ pc[k] # "orphaned"
    /\ sessions[path[k]].starting
    /\ sessions[path[k]].cast = None
    /\ reserved[k].id = sessions[path[k]].id
    /\ reserved[k].sel = sessions[path[k]].sel

Sound == \A k \in StartCalls : pc[k] \in Going /\ Good(path[k]) => Reserver(k)

Only ==
    \A j, k \in StartCalls :
        pc[j] \in Going /\ pc[k] \in Going /\ path[j] = path[k] /\ Good(path[k]) => j = k

(* Of the Starts that reserved a good session, one has or may have a cast. *)
InPlay(k) == pc[k] \in InHand \/ Held(k)

Unique ==
    \A j, k \in StartCalls :
        InPlay(j) /\ InPlay(k) /\ SessionOf(j) = SessionOf(k) /\ SessionOf(j) \notin overlapped
            => j = k

AgreeInv == Named /\ Reserving /\ Sound /\ Only /\ InstalledWhereReserved /\ Unique

LEMMA InitAgree == Init => AgreeInv
<1>. SUFFICES ASSUME Init PROVE AgreeInv
  OBVIOUS
<1>1. /\ \A p \in Paths : sessions[p] = None
      /\ \A k \in StartCalls : pc[k] = "idle" /\ cast[k] = "none" /\ reserved[k] = None
  BY DEF Init, Calls, Requests
<1>2. \A k \in StartCalls : ~InPlay(k)
  BY <1>1 DEF InPlay, InHand, Held
<1>. QED
  BY <1>1, <1>2
  DEF AgreeInv, Named, Reserving, Sound, Only, InstalledWhereReserved, Unique, Going, InHand

(* What the invariant reads has its type. *)
LEMMA AgreeTypes ==
    ASSUME Inv, AgreeInv
    PROVE  /\ \A p \in Paths : sessions[p] # None =>
                 /\ sessions[p].id \in CreateCalls
                 /\ sessions[p].cast \in StartCalls \cup {None}
           /\ \A k \in StartCalls : reserved[k] # None =>
                 /\ reserved[k].id \in CreateCalls
                 /\ reserved[k].sel \in SelectCalls
                 /\ path[k] \in Paths
           /\ \A k \in StartCalls : pc[k] \notin Early =>  path[k] \in Paths
           /\ CreateCalls \cup StartCalls \subseteq Calls
<1>1. \A p \in Paths : sessions[p] # None =>
         sessions[p].id \in CreateCalls /\ sessions[p].cast \in StartCalls \cup {None}
  BY DEF Inv, TypeOK, Registry, Session
<1>2. \A k \in StartCalls : pc[k] \notin Early =>  path[k] \in Paths
  BY DEF Inv, Arrived, Early, Calls, Requests
<1>3. \A k \in StartCalls : reserved[k] # None =>
         reserved[k].id \in CreateCalls /\ reserved[k].sel \in SelectCalls
  BY DEF Inv, TypeOK, Reservation
<1>. QED  BY <1>1, <1>2, <1>3 DEF AgreeInv, Reserving, Calls, Requests

-----------------------------------------------------------------------------
(* No call loses its path, and no CreateSession is undone.                 *)

Stays ==
    /\ \A k \in Calls : pc[k] # "idle" => path'[k] = path[k] /\ pc'[k] # "idle"
    /\ \A k \in CreateCalls :
          pc[k] \notin {"idle", "creating"} => pc'[k] \notin {"idle", "creating"}

LEMMA ArriveStays ==
    ASSUME Inv, NEW k \in Calls, NEW p, NEW a, NEW to, NEW code,
           Arrive(k, p, a, to, code)
    PROVE  Stays
  BY DEF Arrive, Inv, TypeOK, Stays, Calls, Requests

LEMMA MoveStays ==
    ASSUME Inv, NEW k \in Calls, NEW to, pc' = [pc EXCEPT ![k] = to], path' = path,
           to \notin {"idle", "creating"}
    PROVE  Stays
  BY DEF Inv, TypeOK, Stays, Calls, Requests

LEMMA SameStays ==
    ASSUME pc' = pc, path' = path
    PROVE  Stays
  BY DEF Stays

LEMMA StaysNext ==
    ASSUME Inv, Next
    PROVE  Stays
<1>. USE DEF Calls, Requests
<1>1. CASE Client
  BY <1>1, ArriveStays, SameStays
  DEF Client, CreateArrive, SelectArrive, Misshapen, StartArrive, Enqueue, SessionClose,
      RequestClose
<1>2. CASE Executor
  <2>1. ASSUME NEW k \in CreateCalls, CreateInsert(k) \/ CreateExport(k)
        PROVE  Stays
    <3>1. pc[k] \in CreatePc /\ path' = path
      BY <2>1 DEF CreateInsert, CreateExport, Return, Answer, Goto, CreatePc
    <3>2. pc' = [pc EXCEPT ![k] = "done"] \/ pc' = [pc EXCEPT ![k] = "exporting"]
      BY <2>1 DEF CreateInsert, CreateExport, Return, Answer, Goto
    <3>. QED  BY <3>1, <3>2, MoveStays
  <2>2. ASSUME NEW k \in CloseCalls, SessionCloseSent(k)
        PROVE  Stays
    BY <2>2, MoveStays DEF SessionCloseSent, Return, Answer
  <2>. QED  BY <1>2, <2>1, <2>2 DEF Executor
<1>3. CASE Dispatcher
  <2>1. ASSUME NEW k \in SelectCalls \cup StartCalls, NEW kind,
               NEW to \in {"selecting", "starting"},
               Spawn([kind |-> kind, call |-> k], to)
        PROVE  Stays
    <3>1. path' = path
      BY <2>1 DEF Spawn, Goto, Return, Answer
    <3>2. pc' = [pc EXCEPT ![k] = "done"] \/ pc' = [pc EXCEPT ![k] = to]
      BY <2>1 DEF Spawn, Goto, Return, Answer
    <3>. QED  BY <3>1, <3>2, MoveStays
  <2>2. CASE pc' = pc /\ path' = path
    BY <2>2, SameStays
  <2>. QED
    BY <1>3, <2>1, <2>2
    DEF Dispatcher, SpawnSelect, SpawnStart, CloseDetach, CloseJoin, CloseEmit,
        CloseUnexport, callVars
<1>4. ASSUME NEW k \in SelectCalls, SelectTask(k) \/ SelectAnswer(k)
      PROVE  Stays
  BY <1>4, MoveStays
  DEF SelectTask, SelectBegin, SelectAnswer, SelectCheck, SelectArm, TaskExit,
      TaskReply, Answer, Goto
<1>5. ASSUME NEW k \in StartCalls, StartTask(k)
      PROVE  Stays
  BY <1>5, MoveStays
  DEF StartTask, StartReserve, StartSpawn, StartWait, StartInstall, StartJoin,
      TaskExit, TaskReply, Answer, Goto
<1>6. ASSUME NEW k \in StartCalls, CastThread(k) \/ Compositor(k)
      PROVE  Stays
  BY <1>6, SameStays
  DEF CastThread, Compositor, CastStop, CastReport, CastTeardown, CastComplete,
      CastFail, CastEnded, CastError, CastStep, callVars
<1>. QED  BY <1>1, <1>2, <1>3, <1>4, <1>5, <1>6 DEF Next

-----------------------------------------------------------------------------
(* The parts of the invariant that are about identities.                   *)

LEMMA NamedStep ==
    ASSUME Inv, AgreeInv, Stays,
           \A k \in StartCalls : reserved[k] # None => reserved'[k] # None,
           \A p \in Paths : sessions'[p] # None =>
               /\ \/ sessions[p] # None /\ sessions'[p].id = sessions[p].id
                  \/ /\ path'[sessions'[p].id] = p
                     /\ pc'[sessions'[p].id] \notin {"idle", "creating"}
               /\ \/ sessions'[p].cast = None
                  \/ sessions[p] # None /\ sessions'[p].cast = sessions[p].cast
                  \/ /\ path'[sessions'[p].cast] = p
                     /\ reserved'[sessions'[p].cast] # None
    PROVE  Named'
<1>. SUFFICES ASSUME NEW p \in Paths, sessions'[p] # None
              PROVE  /\ path'[sessions'[p].id] = p
                     /\ pc'[sessions'[p].id] \notin {"idle", "creating"}
                     /\ sessions'[p].cast # None =>
                           /\ path'[sessions'[p].cast] = p
                           /\ reserved'[sessions'[p].cast] # None
  BY DEF Named
<1>1. sessions[p] # None =>
         /\ path'[sessions[p].id] = p
         /\ pc'[sessions[p].id] \notin {"idle", "creating"}
  BY AgreeTypes DEF AgreeInv, Named, Stays
<1>2. sessions[p] # None /\ sessions[p].cast # None =>
         path'[sessions[p].cast] = p /\ reserved'[sessions[p].cast] # None
  BY AgreeTypes DEF AgreeInv, Named, Reserving, Stays, Early
<1>. QED  BY <1>1, <1>2

LEMMA ReservingStep ==
    ASSUME Inv, AgreeInv, Stays,
           \A k \in StartCalls :
               /\ \/ reserved'[k] = reserved[k]
                  \/ /\ pc'[k] = "spawning"
                     /\ path'[reserved'[k].id] = path'[k]
                     /\ pc'[reserved'[k].id] \notin {"idle", "creating"}
               /\ pc'[k] \in Early => pc[k] \in Early
               /\ pc'[k] \in Going => pc[k] \in Going \/ reserved'[k] # None
               /\ reserved[k] # None => reserved'[k] # None
               /\ cast'[k] # "none" => cast[k] # "none" \/ pc[k] \in Going
    PROVE  Reserving'
<1>. SUFFICES ASSUME NEW k \in StartCalls
              PROVE  /\ pc'[k] \in Going \/ cast'[k] # "none" => reserved'[k] # None
                     /\ reserved'[k] # None =>
                           /\ pc'[k] \notin Early
                           /\ path'[reserved'[k].id] = path'[k]
                           /\ pc'[reserved'[k].id] \notin {"idle", "creating"}
  BY DEF Reserving
<1>1. pc'[k] \in Going \/ cast'[k] # "none" => reserved'[k] # None
  BY DEF AgreeInv, Reserving
<1>2. CASE reserved'[k] = reserved[k] /\ reserved[k] # None
  <2>1. reserved[k].id \in Calls /\ reserved[k].id \in CreateCalls /\ k \in Calls
    BY <1>2, AgreeTypes
  <2>2. /\ pc[k] \notin Early
        /\ path[reserved[k].id] = path[k]
        /\ pc[reserved[k].id] \notin {"idle", "creating"}
    BY <1>2 DEF AgreeInv, Reserving
  <2>. QED  BY <1>1, <1>2, <2>1, <2>2 DEF Stays, Early
<1>. QED  BY <1>1, <1>2 DEF Early

LEMMA UniqueStep ==
    ASSUME AgreeInv, reserved' = reserved, overlapped \subseteq overlapped',
           \A k \in StartCalls : InPlay(k)' => InPlay(k)
    PROVE  Unique'
  BY DEF AgreeInv, Unique, SessionOf

-----------------------------------------------------------------------------
(* A step that reserves, installs and marks nothing: sessions may vanish,  *)
(* Starts may go on or give up.                                            *)

Plain ==
    /\ \A p \in Paths : sessions'[p] \in {sessions[p], None}
    /\ reserved' = reserved
    /\ overlapped' = overlapped
    /\ \A k \in StartCalls :
          /\ pc'[k] \in Early => pc[k] \in Early
          /\ pc'[k] \in Going => pc[k] \in Going
          /\ pc'[k] \in InHand => pc[k] \in InHand
          /\ pc'[k] = "orphaned" => pc[k] = "orphaned" \/ sessions'[path[k]] = None
          /\ cast'[k] # "none" => cast[k] # "none" \/ pc[k] \in Going

LEMMA PlainAgree ==
    ASSUME Inv, AgreeInv, Stays, Plain
    PROVE  AgreeInv'
<1>1. Named'
  BY NamedStep DEF Plain
<1>2. Reserving'
  BY ReservingStep DEF Plain
<1>3. Unique'
  <2>1. \A k \in StartCalls : InPlay(k)' => InPlay(k)
    BY DEF Plain, InPlay, Held
  <2>. QED  BY <2>1, UniqueStep DEF Plain
<1>4. \A k \in StartCalls : pc'[k] \in Going =>
         /\ pc[k] \in Going
         /\ path[k] \in Paths /\ path'[k] = path[k]
         /\ Good(path[k])' => Good(path[k]) /\ sessions'[path[k]] = sessions[path[k]]
  <2>1. \A k \in StartCalls : pc'[k] \in Going => pc[k] \in Going /\ pc[k] \notin Early
    BY DEF Plain, Going, InHand, Early
  <2>2. \A k \in StartCalls : pc'[k] \in Going => path'[k] = path[k] /\ path[k] \in Paths
    BY <2>1, AgreeTypes DEF Stays, Early
  <2>. QED  BY <2>1, <2>2 DEF Plain, Good
<1>5. Sound'
  <2>. SUFFICES ASSUME NEW k \in StartCalls, pc'[k] \in Going, Good(path[k])'
                PROVE  Reserver(k)'
    BY DEF Sound, Good
  <2>1. /\ pc[k] \in Going /\ path'[k] = path[k] /\ Good(path[k])
        /\ sessions'[path[k]] = sessions[path[k]] /\ sessions[path[k]] # None
    BY <1>4 DEF Good
  <2>2. Reserver(k)
    BY <2>1 DEF AgreeInv, Sound
  <2>. QED  BY <2>1, <2>2 DEF Reserver, Plain
<1>6. Only'
  <2>. SUFFICES ASSUME NEW j \in StartCalls, NEW k \in StartCalls,
                       pc'[j] \in Going, pc'[k] \in Going, path'[j] = path'[k],
                       Good(path[k])'
                PROVE  j = k
    BY DEF Only, Good
  <2>. QED  BY <1>4 DEF AgreeInv, Only, Good
<1>7. InstalledWhereReserved'
  BY DEF Plain, AgreeInv, InstalledWhereReserved, SessionOf
<1>. QED  BY <1>1, <1>2, <1>3, <1>5, <1>6, <1>7 DEF AgreeInv

-----------------------------------------------------------------------------
(* What the registry operators do to one session.                          *)

LEMMA SelectFacts ==
    ASSUME NEW r \in Registry, NEW p \in Paths, r[p] # None, NEW k \in SelectCalls
    PROVE  /\ \A q \in Paths \ {p} : MarkSourcesSelected(r, p, k)[q] = r[q]
           /\ MarkSourcesSelected(r, p, k)[p] # None
           /\ MarkSourcesSelected(r, p, k)[p].id = r[p].id
           /\ MarkSourcesSelected(r, p, k)[p].cast = r[p].cast
<1>1. r[p] \in Session
  BY DEF Registry
<1>2. MarkSourcesSelected(r, p, k)[p] = [r[p] EXCEPT !.sel = k]
  BY DEF Registry, MarkSourcesSelected
<1>3. /\ MarkSourcesSelected(r, p, k)[p] \in Session
      /\ MarkSourcesSelected(r, p, k)[p].id = r[p].id
      /\ MarkSourcesSelected(r, p, k)[p].cast = r[p].cast
  BY <1>1, <1>2 DEF Session
<1>. QED  BY <1>3, NoneIsNoSession DEF Registry, MarkSourcesSelected

LEMMA ClearFacts ==
    ASSUME NEW r \in Registry, NEW p \in Paths
    PROVE  /\ \A q \in Paths \ {p} : ClearStart(r, p)[q] = r[q]
           /\ ClearStart(r, p)[p] # None =>
                 /\ r[p] # None
                 /\ ClearStart(r, p)[p].id = r[p].id
                 /\ ClearStart(r, p)[p].cast = r[p].cast
                 /\ ClearStart(r, p)[p].sel = r[p].sel
<1>1. CASE r[p] = None
  BY <1>1 DEF ClearStart
<1>2. CASE r[p] # None
  <2>1. r[p] \in Session
    BY <1>2 DEF Registry
  <2>2. ClearStart(r, p) = [r EXCEPT ![p] = [r[p] EXCEPT !.starting = FALSE]]
    BY <1>2 DEF ClearStart
  <2>3. ClearStart(r, p)[p] = [r[p] EXCEPT !.starting = FALSE]
    BY <2>2 DEF Registry
  <2>4. /\ ClearStart(r, p)[p].id = r[p].id
        /\ ClearStart(r, p)[p].cast = r[p].cast
        /\ ClearStart(r, p)[p].sel = r[p].sel
    BY <2>1, <2>3 DEF Session
  <2>. QED  BY <1>2, <2>2, <2>4 DEF Registry
<1>. QED  BY <1>1, <1>2

LEMMA ReserveFacts ==
    ASSUME NEW r \in Registry, NEW p \in Paths, r[p] # None
    PROVE  /\ \A q \in Paths \ {p} : ReserveStart(r, p)[q] = r[q]
           /\ ReserveStart(r, p)[p] # None
           /\ ReserveStart(r, p)[p].starting
           /\ ReserveStart(r, p)[p].id = r[p].id
           /\ ReserveStart(r, p)[p].cast = r[p].cast
           /\ ReserveStart(r, p)[p].sel = r[p].sel
<1>1. r[p] \in Session
  BY DEF Registry
<1>2. ReserveStart(r, p)[p] = [r[p] EXCEPT !.starting = TRUE]
  BY DEF Registry, ReserveStart
<1>3. /\ ReserveStart(r, p)[p] \in Session
      /\ ReserveStart(r, p)[p].starting
      /\ ReserveStart(r, p)[p].id = r[p].id
      /\ ReserveStart(r, p)[p].cast = r[p].cast
      /\ ReserveStart(r, p)[p].sel = r[p].sel
  BY <1>1, <1>2 DEF Session
<1>. QED  BY <1>3, NoneIsNoSession DEF Registry, ReserveStart

LEMMA InstallFacts ==
    ASSUME NEW r \in Registry, NEW p \in Paths, r[p] # None, NEW k \in StartCalls
    PROVE  /\ \A q \in Paths \ {p} : MarkStarted(r, p, k)[q] = r[q]
           /\ MarkStarted(r, p, k)[p] # None
           /\ MarkStarted(r, p, k)[p].id = r[p].id
           /\ MarkStarted(r, p, k)[p].cast = k
           /\ MarkStarted(r, p, k)[p].sel = r[p].sel
<1>1. r[p] \in Session
  BY DEF Registry
<1>2. MarkStarted(r, p, k)[p] = [r[p] EXCEPT !.starting = FALSE, !.cast = k]
  BY DEF Registry, MarkStarted
<1>3. /\ MarkStarted(r, p, k)[p] \in Session
      /\ MarkStarted(r, p, k)[p].id = r[p].id
      /\ MarkStarted(r, p, k)[p].cast = k
      /\ MarkStarted(r, p, k)[p].sel = r[p].sel
  BY <1>1, <1>2 DEF Session
<1>. QED  BY <1>3, NoneIsNoSession DEF Registry, MarkStarted

LEMMA InsertFacts ==
    ASSUME NEW r \in Registry, NEW p \in Paths, NEW a \in Apps, NEW k \in CreateCalls
    PROVE  /\ \A q \in Paths \ {p} : Insert(r, p, a, k)[q] = r[q]
           /\ Insert(r, p, a, k)[p] # None
           /\ Insert(r, p, a, k)[p].id = k
           /\ Insert(r, p, a, k)[p].cast = None
<1>1. Insert(r, p, a, k)[p] \in Session
  BY DEF Registry, Session, Insert
<1>. QED  BY <1>1, NoneIsNoSession DEF Registry, Insert

-----------------------------------------------------------------------------
(* The steps that mark a session, one by one.                              *)

(* A new session is overlapped, or no Start is going on its path. *)
LEMMA InsertAgree ==
    ASSUME Inv, AgreeInv, Stays, NEW k \in CreateCalls, pc[k] = "creating",
           pc' = [pc EXCEPT ![k] = "exporting"],
           UNCHANGED <<path, cast, reserved>>,
           sessions[path[k]] = None,
           sessions' = Insert(sessions, path[k], app[k], k),
           overlapped' = IF InUse(path[k], k) THEN overlapped \cup {k} ELSE overlapped
    PROVE  AgreeInv'
<1>1. path[k] \in Paths /\ app[k] \in Apps
  BY DEF Inv, Arrived, Calls, Requests
<1>2. /\ \A q \in Paths \ {path[k]} : sessions'[q] = sessions[q]
      /\ sessions'[path[k]] # None /\ sessions'[path[k]].id = k
      /\ sessions'[path[k]].cast = None
  BY <1>1, InsertFacts DEF Inv, TypeOK
<1>3. /\ pc'[k] = "exporting" /\ path'[k] = path[k]
      /\ \A j \in StartCalls : pc'[j] = pc[j]
      /\ overlapped \subseteq overlapped'
  BY DEF Inv, TypeOK, Calls, Requests
<1>4. Named'
  BY <1>1, <1>2, <1>3, NamedStep
<1>5. Reserving'
  BY <1>3, ReservingStep
<1>6. Unique'
  <2>1. \A j \in StartCalls : InPlay(j)' => InPlay(j)
    BY <1>1, <1>2, <1>3 DEF InPlay, Held
  <2>. QED  BY <1>3, <2>1, UniqueStep
<1>7. \A j \in StartCalls : pc[j] \in Going /\ Good(path[j])' =>
         /\ path[j] \in Paths /\ path[j] # path[k]
         /\ Good(path[j]) /\ sessions'[path[j]] = sessions[path[j]]
  <2>. SUFFICES ASSUME NEW j \in StartCalls, pc[j] \in Going, Good(path[j])'
                PROVE  /\ path[j] \in Paths /\ path[j] # path[k]
                       /\ Good(path[j]) /\ sessions'[path[j]] = sessions[path[j]]
    OBVIOUS
  <2>1. path[j] \in Paths
    BY AgreeTypes DEF Going, InHand, Early
  <2>2. path[j] # path[k]
    <3>1. SUFFICES ASSUME path[j] = path[k]  PROVE k \in overlapped'
      BY <1>2 DEF Good
    <3>2. InUse(path[k], k)
      BY <3>1 DEF InUse, Going, InHand
    <3>. QED  BY <3>2
  <2>. QED  BY <1>2, <1>3, <2>1, <2>2 DEF Good
<1>8. Sound'
  BY <1>3, <1>7 DEF AgreeInv, Sound, Reserver, Good
<1>9. Only'
  BY <1>3, <1>7 DEF AgreeInv, Only, Good
<1>10. InstalledWhereReserved'
  <2>1. \A p \in Paths : sessions'[p] # None /\ sessions'[p].cast # None =>
           sessions'[p] = sessions[p]
    BY <1>1, <1>2
  <2>. QED  BY <1>3, <2>1 DEF AgreeInv, InstalledWhereReserved, SessionOf
<1>. QED  BY <1>4, <1>5, <1>6, <1>8, <1>9, <1>10 DEF AgreeInv

(* No selection replaces one that a Start has reserved. *)
LEMMA ArmAgree ==
    ASSUME Inv, AgreeInv, Stays, NEW k \in SelectCalls, path[k] \in Paths,
           \A j \in CreateCalls \cup StartCalls : pc'[j] = pc[j],
           UNCHANGED <<path, cast, reserved, overlapped>>,
           CanSelect(sessions, path[k], app[k]),
           sessions' = MarkSourcesSelected(sessions, path[k], k)
    PROVE  AgreeInv'
<1>1. sessions[path[k]] # None /\ sessions[path[k]].sel = None
  BY DEF CanSelect
<1>2. /\ \A q \in Paths \ {path[k]} : sessions'[q] = sessions[q]
      /\ sessions'[path[k]] # None
      /\ sessions'[path[k]].id = sessions[path[k]].id
      /\ sessions'[path[k]].cast = sessions[path[k]].cast
  BY <1>1, SelectFacts DEF Inv, TypeOK
<1>3. Named'
  BY <1>1, <1>2, NamedStep
<1>4. Reserving'
  BY ReservingStep
<1>5. Unique'
  <2>1. \A j \in StartCalls : InPlay(j)' => InPlay(j)
    BY <1>1, <1>2 DEF InPlay, Held
  <2>. QED  BY <2>1, UniqueStep
<1>6. None \notin SelectCalls
  OBVIOUS
<1>7. \A j \in StartCalls : pc[j] \in Going /\ Good(path[j])' =>
         path[j] \in Paths /\ Good(path[j]) /\ sessions'[path[j]] = sessions[path[j]]
  <2>. SUFFICES ASSUME NEW j \in StartCalls, pc[j] \in Going, Good(path[j])'
                PROVE  /\ path[j] \in Paths /\ Good(path[j])
                       /\ sessions'[path[j]] = sessions[path[j]]
    OBVIOUS
  <2>1. path[j] \in Paths
    BY AgreeTypes DEF Going, InHand, Early
  <2>2. Good(path[j])
    BY <1>1, <1>2, <2>1 DEF Good
  <2>3. Reserver(j) /\ reserved[j] # None
    BY <2>2 DEF AgreeInv, Sound, Reserving
  <2>4. path[j] # path[k]
    BY <1>1, <1>6, <2>3, AgreeTypes DEF Reserver
  <2>. QED  BY <1>2, <2>1, <2>2, <2>4
<1>8. Sound'
  BY <1>7 DEF AgreeInv, Sound, Reserver, Good
<1>9. Only'
  BY <1>7 DEF AgreeInv, Only, Good
<1>10. InstalledWhereReserved'
  <2>1. \A p \in Paths :
           /\ sessions'[p] # None /\ sessions'[p].cast # None
           /\ sessions'[p].id \notin overlapped
           => sessions'[p] = sessions[p]
    <3>. SUFFICES ASSUME sessions[path[k]].cast # None,
                         sessions[path[k]].id \notin overlapped
                  PROVE  FALSE
      BY <1>2
    <3>1. /\ reserved[sessions[path[k]].cast].sel = None
          /\ reserved[sessions[path[k]].cast] # None
      BY <1>1 DEF AgreeInv, InstalledWhereReserved, Named
    <3>. QED  BY <1>1, <1>6, <3>1, AgreeTypes
  <2>. QED  BY <2>1 DEF AgreeInv, InstalledWhereReserved, SessionOf
<1>. QED  BY <1>3, <1>4, <1>5, <1>8, <1>9, <1>10 DEF AgreeInv

(* A Start that ends: it clears the mark, or installs its cast. *)
LEMMA EndAgree ==
    ASSUME Inv, AgreeInv, Stays, NEW k \in StartCalls, pc[k] \in Going,
           pc'[k] = "replied", \A j \in Calls \ {k} : pc'[j] = pc[j],
           UNCHANGED <<path, cast, reserved, overlapped>>,
           \A q \in Paths \ {path[k]} : sessions'[q] = sessions[q],
           sessions'[path[k]] # None =>
               /\ sessions[path[k]] # None
               /\ sessions'[path[k]].id = sessions[path[k]].id
               /\ sessions'[path[k]].sel = sessions[path[k]].sel
               /\ \/ sessions'[path[k]].cast = sessions[path[k]].cast
                  \/ sessions'[path[k]].cast = k /\ pc[k] \in InHand
    PROVE  AgreeInv'
<1>1. path[k] \in Paths /\ k \in Calls /\ reserved[k] # None
  BY AgreeTypes DEF Going, InHand, Early, AgreeInv, Reserving
<1>2. /\ \A j \in StartCalls : j # k => pc'[j] = pc[j]
      /\ \A j \in CreateCalls : pc'[j] = pc[j]
      /\ pc'[k] \notin Going /\ pc'[k] \notin Early /\ pc'[k] \notin InHand
  BY DEF Calls, Requests, Going, InHand, Early
<1>3. Named'
  BY <1>1, <1>2, NamedStep
<1>4. Reserving'
  BY <1>2, ReservingStep
<1>5. Unique'
  <2>1. \A j \in StartCalls : InPlay(j)' => InPlay(j)
    BY <1>1, <1>2 DEF InPlay, Held
  <2>. QED  BY <2>1, UniqueStep
<1>6. \A j \in StartCalls : pc'[j] \in Going /\ Good(path[j])' =>
         /\ pc[j] = pc'[j] /\ path[j] \in Paths /\ Good(path[j])
         /\ sessions'[path[j]] = sessions[path[j]]
  <2>. SUFFICES ASSUME NEW j \in StartCalls, pc'[j] \in Going, Good(path[j])'
                PROVE  /\ pc[j] = pc'[j] /\ path[j] \in Paths /\ Good(path[j])
                       /\ sessions'[path[j]] = sessions[path[j]]
    OBVIOUS
  <2>1. pc[j] = pc'[j] /\ j # k /\ path[j] \in Paths
    BY <1>2, AgreeTypes DEF Going, InHand, Early
  <2>2. Good(path[j])
    BY <1>1, <2>1 DEF Good
  <2>3. path[j] # path[k]
    BY <2>1, <2>2 DEF AgreeInv, Only, Good
  <2>. QED  BY <2>1, <2>2, <2>3
<1>7. Sound'
  BY <1>6 DEF AgreeInv, Sound, Reserver, Good
<1>8. Only'
  BY <1>6 DEF AgreeInv, Only, Good
<1>9. InstalledWhereReserved'
  <2>. SUFFICES ASSUME NEW p \in Paths, sessions'[p] # None, sessions'[p].cast # None,
                       sessions'[p].id \notin overlapped
                PROVE  /\ SessionOf(sessions'[p].cast) = sessions'[p].id
                       /\ reserved[sessions'[p].cast].sel = sessions'[p].sel
    BY DEF InstalledWhereReserved, SessionOf
  <2>1. CASE p # path[k] \/ sessions'[p].cast = sessions[p].cast
    BY <1>1, <2>1 DEF AgreeInv, InstalledWhereReserved
  <2>2. CASE p = path[k] /\ sessions'[p].cast = k
    <3>1. Reserver(k)
      BY <1>1, <2>2 DEF AgreeInv, Sound, Good
    <3>. QED  BY <1>1, <2>2, <3>1 DEF Reserver, SessionOf
  <2>. QED  BY <2>1, <2>2
<1>. QED  BY <1>3, <1>4, <1>5, <1>7, <1>8, <1>9 DEF AgreeInv

(* A Start that reserves a good session finds nobody in play for it. *)
LEMMA ReserveAgree ==
    ASSUME Inv, AgreeInv, Stays, NEW k \in StartCalls, pc[k] = "starting",
           pc'[k] = "spawning", \A j \in Calls \ {k} : pc'[j] = pc[j],
           UNCHANGED <<path, cast, overlapped>>,
           CanReserve(sessions, path[k], app[k]),
           sessions' = ReserveStart(sessions, path[k]),
           reserved' = [reserved EXCEPT ![k] = [id |-> sessions[path[k]].id,
                                                sel |-> sessions[path[k]].sel]]
    PROVE  AgreeInv'
<1>1. path[k] \in Paths /\ k \in Calls
  BY DEF Inv, Arrived, Calls, Requests
<1>2. /\ sessions[path[k]] # None /\ sessions[path[k]].sel # None
      /\ ~sessions[path[k]].starting /\ sessions[path[k]].cast = None
  BY DEF CanReserve
<1>3. /\ \A q \in Paths \ {path[k]} : sessions'[q] = sessions[q]
      /\ sessions'[path[k]] # None /\ sessions'[path[k]].starting
      /\ sessions'[path[k]].id = sessions[path[k]].id
      /\ sessions'[path[k]].cast = None
      /\ sessions'[path[k]].sel = sessions[path[k]].sel
  BY <1>1, <1>2, ReserveFacts DEF Inv, TypeOK
<1>4. /\ reserved'[k].id = sessions[path[k]].id
      /\ reserved'[k].sel = sessions[path[k]].sel
      /\ reserved'[k] # None
      /\ \A j \in StartCalls \ {k} : reserved'[j] = reserved[j]
  <2>1. sessions[path[k]] \in Session
    BY <1>1, <1>2 DEF Inv, TypeOK, Registry
  <2>2. [id |-> sessions[path[k]].id, sel |-> sessions[path[k]].sel] \in Reservation
    BY <1>2, <2>1 DEF Session, Reservation
  <2>3. reserved'[k] = [id |-> sessions[path[k]].id, sel |-> sessions[path[k]].sel]
    BY DEF Inv, TypeOK
  <2>. QED  BY <2>2, <2>3, NoneIsNoReservation DEF Inv, TypeOK
<1>5. /\ \A j \in StartCalls : j # k => pc'[j] = pc[j]
      /\ \A j \in CreateCalls : pc'[j] = pc[j]
      /\ reserved[k] = None
      /\ pc'[k] \in Going /\ pc'[k] \notin Early /\ pc[k] \in Early
  BY DEF Calls, Requests, Going, InHand, Early, AgreeInv, Reserving
<1>6. /\ path[sessions[path[k]].id] = path[k]
      /\ pc[sessions[path[k]].id] \notin {"idle", "creating"}
      /\ sessions[path[k]].id \in CreateCalls
  BY <1>1, <1>2, AgreeTypes DEF AgreeInv, Named
<1>7. Named'
  BY <1>1, <1>2, <1>3, <1>4, NamedStep
<1>8. Reserving'
  BY <1>4, <1>5, <1>6, ReservingStep
(* Another Start going on the path of a good session would have marked it. *)
<1>9. \A j \in StartCalls : j # k /\ pc[j] \in Going /\ Good(path[j]) =>
         path[j] \in Paths /\ path[j] # path[k]
  BY <1>2, AgreeTypes DEF Going, InHand, Early, AgreeInv, Sound, Reserver
<1>10. \A p \in Paths : Good(p)' => Good(p)
  BY <1>1, <1>2, <1>3 DEF Good
<1>11. Sound'
  <2>. SUFFICES ASSUME NEW j \in StartCalls, pc'[j] \in Going, Good(path[j])'
                PROVE  Reserver(j)'
    BY DEF Sound, Good
  <2>1. CASE j = k
    BY <1>1, <1>3, <1>4, <2>1 DEF Reserver
  <2>2. CASE j # k
    <3>1. pc[j] \in Going /\ path[j] \in Paths
      BY <1>5, <2>2, AgreeTypes DEF Going, InHand, Early
    <3>2. Good(path[j])
      BY <1>10, <3>1
    <3>3. sessions'[path[j]] = sessions[path[j]]
      BY <1>3, <1>9, <2>2, <3>1, <3>2
    <3>4. Reserver(j)
      BY <3>1, <3>2 DEF AgreeInv, Sound
    <3>. QED  BY <1>4, <1>5, <2>2, <3>3, <3>4 DEF Reserver
  <2>. QED  BY <2>1, <2>2
<1>12. Only'
  <2>. SUFFICES ASSUME NEW i \in StartCalls, NEW j \in StartCalls,
                       pc'[i] \in Going, pc'[j] \in Going, path[i] = path[j],
                       Good(path[j])'
                PROVE  i = j
    BY DEF Only, Good
  <2>1. path[j] \in Paths /\ Good(path[j])
    <3>1. path[j] \in Paths
      BY <1>1, <1>5, AgreeTypes DEF Going, InHand, Early
    <3>. QED  BY <1>10, <3>1
  <2>2. CASE i = k \/ j = k
    BY <1>5, <1>9, <2>1, <2>2
  <2>3. CASE i # k /\ j # k
    BY <1>5, <2>1, <2>3 DEF AgreeInv, Only
  <2>. QED  BY <2>2, <2>3
<1>13. InstalledWhereReserved'
  <2>1. \A p \in Paths : sessions'[p] # None /\ sessions'[p].cast # None =>
           sessions'[p] = sessions[p] /\ sessions[p].cast # k
    BY <1>1, <1>3, <1>5 DEF AgreeInv, Named
  <2>2. \A p \in Paths : sessions[p] # None => sessions[p].cast \in StartCalls \cup {None}
    BY AgreeTypes
  <2>. QED  BY <1>4, <2>1, <2>2 DEF AgreeInv, InstalledWhereReserved, SessionOf
<1>14. Unique'
  <2>1. \A j \in StartCalls : j # k /\ InPlay(j)' =>
            InPlay(j) /\ SessionOf(j)' = SessionOf(j)
    <3>1. \A j \in StartCalls : j # k /\ Held(j)' => Held(j)
      BY <1>1, <1>3 DEF Held
    <3>. QED  BY <1>4, <1>5, <3>1 DEF InPlay, SessionOf
  <2>2. SessionOf(k)' = sessions[path[k]].id
    BY <1>4 DEF SessionOf
  <2>3. \A j \in StartCalls : /\ j # k /\ InPlay(j)
                              /\ SessionOf(j) = sessions[path[k]].id
                              => sessions[path[k]].id \in overlapped
    <3>. SUFFICES ASSUME NEW j \in StartCalls, j # k, InPlay(j),
                         SessionOf(j) = sessions[path[k]].id,
                         sessions[path[k]].id \notin overlapped
                  PROVE  FALSE
      OBVIOUS
    <3>1. Good(path[k])
      BY <1>2 DEF Good
    <3>2. reserved[j] # None /\ path[j] = path[k]
      <4>1. reserved[j] # None
        BY AgreeTypes DEF InPlay, Held, AgreeInv, Named, Reserving, Going
      <4>. QED  BY <1>6, <4>1 DEF SessionOf, AgreeInv, Reserving
    <3>3. CASE pc[j] \in InHand
      BY <1>9, <3>1, <3>2, <3>3 DEF Going
    <3>4. CASE Held(j)
      <4>1. PICK q \in Paths : sessions[q] # None /\ sessions[q].cast = j
        BY <3>4 DEF Held
      <4>2. q = path[k]
        BY <3>2, <4>1 DEF AgreeInv, Named
      <4>. QED  BY <1>2, <4>1, <4>2
    <3>. QED  BY <3>3, <3>4 DEF InPlay
  <2>. QED
    BY <2>1, <2>2, <2>3 DEF AgreeInv, Unique
<1>. QED  BY <1>7, <1>8, <1>11, <1>12, <1>13, <1>14 DEF AgreeInv

-----------------------------------------------------------------------------
(* The actions.                                                            *)

LEMMA ClientAgree ==
    ASSUME Inv, AgreeInv, Stays, Client
    PROVE  AgreeInv'
<1>1. UNCHANGED <<sessions, cast, reserved, overlapped>>
  BY DEF Client, CreateArrive, SelectArrive, Misshapen, StartArrive, Enqueue,
         SessionClose, RequestClose, castVars
<1>2. \A k \in StartCalls : pc'[k] = pc[k] \/ (pc[k] = "idle" /\ pc'[k] \in {"queued", "done"})
  <2>1. ASSUME NEW j \in Calls \ StartCalls, NEW p, NEW a, NEW to, NEW code,
               Arrive(j, p, a, to, code), NEW k \in StartCalls
        PROVE  pc'[k] = pc[k]
    BY <2>1 DEF Arrive, Inv, TypeOK, Calls, Requests
  <2>2. ASSUME NEW j \in StartCalls, NEW p, NEW a, NEW to \in {"queued", "done"}, NEW code,
               Arrive(j, p, a, to, code), NEW k \in StartCalls
        PROVE  pc'[k] = pc[k] \/ (pc[k] = "idle" /\ pc'[k] \in {"queued", "done"})
    BY <2>2 DEF Arrive, Inv, TypeOK, Calls, Requests
  <2>3. CASE \E k \in StartCalls, p \in Paths, a \in Apps : StartArrive(k, p, a)
    BY <2>2, <2>3 DEF StartArrive, Enqueue
  <2>4. CASE \E k \in CreateCalls, p \in Paths, a \in Apps : CreateArrive(k, p, a)
    BY <2>1, <2>4 DEF CreateArrive, Calls, Requests
  <2>5. CASE \E k \in SelectCalls, p \in Paths, a \in Apps : SelectArrive(k, p, a)
    BY <2>1, <2>5 DEF SelectArrive, Misshapen, Enqueue, Calls, Requests
  <2>6. CASE \E k \in CloseCalls, p \in Paths : SessionClose(k, p)
    BY <2>1, <2>6 DEF SessionClose, Calls, Requests
  <2>7. CASE \E k \in Requests : RequestClose(k)
    BY <2>7 DEF RequestClose
  <2>. QED  BY <2>3, <2>4, <2>5, <2>6, <2>7 DEF Client
<1>3. Plain
  BY <1>1, <1>2 DEF Plain, Early, Going, InHand
<1>. QED  BY <1>3, PlainAgree

LEMMA ExecutorAgree ==
    ASSUME Inv, AgreeInv, Stays, Executor
    PROVE  AgreeInv'
<1>1. /\ \A k \in StartCalls : pc'[k] = pc[k]
      /\ cast' = cast /\ reserved' = reserved
  <2>1. ASSUME NEW j \in CreateCalls \cup CloseCalls, NEW to,
               pc' = [pc EXCEPT ![j] = to], NEW k \in StartCalls
        PROVE  pc'[k] = pc[k]
    BY <2>1 DEF Inv, TypeOK, Calls, Requests
  <2>. QED
    BY <2>1 DEF Executor, CreateInsert, CreateExport, SessionCloseSent, Return, Answer,
                Goto, castVars
<1>2. CASE /\ \A p \in Paths : sessions'[p] \in {sessions[p], None}
           /\ overlapped' = overlapped
  <2>1. Plain
    BY <1>1, <1>2 DEF Plain, Early, Going, InHand
  <2>. QED  BY <2>1, PlainAgree
<1>3. ASSUME NEW k \in CreateCalls, CreateInsert(k)
      PROVE  AgreeInv'
  <2>1. CASE sessions' = sessions /\ overlapped' = overlapped
    BY <1>2, <2>1
  <2>2. CASE CanInsert(sessions, path[k]) /\ k \notin closedReq
             /\ sessions' = Insert(sessions, path[k], app[k], k)
             /\ overlapped' = (IF InUse(path[k], k) THEN overlapped \cup {k} ELSE overlapped)
             /\ Goto(k, "exporting")
    BY <1>1, <1>3, <2>2, InsertAgree DEF CreateInsert, CanInsert, Goto
  <2>. QED  BY <1>3, <2>1, <2>2 DEF CreateInsert
<1>4. ASSUME NEW k \in CreateCalls, CreateExport(k)
      PROVE  AgreeInv'
  <2>1. \A p \in Paths : sessions'[p] \in {sessions[p], None}
    BY <1>4 DEF CreateExport, Remove, Inv, TypeOK, Registry
  <2>. QED  BY <1>2, <1>4, <2>1 DEF CreateExport
<1>5. ASSUME NEW k \in CloseCalls, SessionCloseSent(k)
      PROVE  AgreeInv'
  BY <1>2, <1>5 DEF SessionCloseSent
<1>. QED  BY <1>3, <1>4, <1>5 DEF Executor

LEMMA DispatcherAgree ==
    ASSUME Inv, AgreeInv, Stays, Dispatcher
    PROVE  AgreeInv'
<1>1. cast' = cast /\ reserved' = reserved /\ overlapped' = overlapped
  BY DEF Dispatcher, SpawnSelect, SpawnStart, Spawn, CloseDetach, CloseJoin,
         CloseEmit, CloseUnexport, castVars
<1>2. \A k \in StartCalls : pc'[k] = pc[k] \/ (pc[k] = "queued" /\ pc'[k] \in {"starting", "done"})
  <2>1. ASSUME NEW j \in SelectCalls, SpawnSelect(j), NEW k \in StartCalls
        PROVE  pc'[k] = pc[k]
    BY <2>1 DEF SpawnSelect, Spawn, Goto, Return, Answer, Inv, TypeOK, Calls, Requests
  <2>2. ASSUME NEW j \in StartCalls, SpawnStart(j), NEW k \in StartCalls
        PROVE  pc'[k] = pc[k] \/ (pc[k] = "queued" /\ pc'[k] \in {"starting", "done"})
    <3>1. k # j => pc'[k] = pc[k]
      BY <2>2 DEF SpawnStart, Spawn, Goto, Return, Answer, Inv, TypeOK, Calls, Requests
    <3>2. pc'[j] \in {"starting", "done"}
      BY <2>2 DEF SpawnStart, Spawn, Goto, Return, Answer, Inv, TypeOK, Calls, Requests
    <3>. QED  BY <3>1, <3>2, DispatcherMoves
  <2>. QED
    BY <2>1, <2>2
    DEF Dispatcher, CloseDetach, CloseJoin, CloseEmit, CloseUnexport, callVars
<1>3. \A p \in Paths : sessions'[p] \in {sessions[p], None}
  <2>1. ASSUME NEW q \in Paths, NEW kind, CloseDetach(q, kind), NEW p \in Paths
        PROVE  sessions'[p] \in {sessions[p], None}
    BY <2>1 DEF CloseDetach, Remove, Inv, TypeOK, Registry
  <2>. QED
    BY <2>1 DEF Dispatcher, SpawnSelect, SpawnStart, Spawn, CloseJoin, CloseEmit,
                CloseUnexport
<1>4. Plain
  BY <1>1, <1>2, <1>3 DEF Plain, Early, Going, InHand
<1>. QED  BY <1>4, PlainAgree

LEMMA SelectAgree ==
    ASSUME Inv, AgreeInv, Stays, NEW k \in SelectCalls, SelectTask(k) \/ SelectAnswer(k)
    PROVE  AgreeInv'
<1>1. /\ \A j \in CreateCalls \cup StartCalls : pc'[j] = pc[j]
      /\ UNCHANGED <<path, cast, reserved, overlapped>>
  BY DEF SelectTask, SelectBegin, SelectAnswer, SelectCheck, SelectArm, TaskExit,
         TaskReply, Answer, Goto, castVars, Inv, TypeOK, Calls, Requests
<1>2. CASE sessions' = sessions
  <2>1. Plain
    BY <1>1, <1>2 DEF Plain
  <2>. QED  BY <2>1, PlainAgree
<1>3. CASE /\ pc[k] = "arming" /\ CanSelect(sessions, path[k], app[k])
           /\ sessions' = MarkSourcesSelected(sessions, path[k], k)
  <2>1. path[k] \in Paths
    BY <1>3 DEF Inv, Arrived, Calls, Requests
  <2>. QED  BY <1>1, <1>3, <2>1, ArmAgree
<1>. QED
  BY <1>2, <1>3 DEF SelectTask, SelectBegin, SelectAnswer, SelectCheck, SelectArm, TaskExit

LEMMA StartAgree ==
    ASSUME Inv, AgreeInv, Stays, NEW k \in StartCalls, StartTask(k)
    PROVE  AgreeInv'
<1>1. /\ \A j \in Calls \ {k} : pc'[j] = pc[j]
      /\ \A j \in StartCalls \ {k} : pc'[j] = pc[j] /\ cast'[j] = cast[j]
      /\ path' = path /\ overlapped' = overlapped
  BY DEF StartTask, StartReserve, StartSpawn, StartWait, StartInstall, StartJoin, TaskExit,
         TaskReply, Answer, Goto, castVars, Inv, TypeOK, Calls, Requests
<1>2. path[k] \in Paths
  BY DEF StartTask, StartReserve, StartSpawn, StartWait, StartInstall, StartJoin,
         TaskExit, Inv, Arrived, Calls, Requests
<1>3. k \in Calls
  BY DEF Calls, Requests
<1>4. CASE /\ pc[k] \in Going /\ pc'[k] = "replied" /\ cast' = cast /\ reserved' = reserved
           /\ sessions' = ClearStart(sessions, path[k])
  <2>1. /\ \A q \in Paths \ {path[k]} : sessions'[q] = sessions[q]
        /\ sessions'[path[k]] # None =>
              /\ sessions[path[k]] # None
              /\ sessions'[path[k]].id = sessions[path[k]].id
              /\ sessions'[path[k]].sel = sessions[path[k]].sel
              /\ sessions'[path[k]].cast = sessions[path[k]].cast
    BY <1>2, <1>4, ClearFacts DEF Inv, TypeOK
  <2>. QED  BY <1>1, <1>4, <2>1, EndAgree
<1>5. CASE StartReserve(k)
  <2>1. CASE sessions' = sessions /\ reserved' = reserved /\ pc'[k] = "replied"
    <3>1. Plain
      BY <1>1, <1>5, <2>1 DEF Plain, StartReserve, Early, Going, InHand
    <3>. QED  BY <3>1, PlainAgree
  <2>2. CASE /\ CanReserve(sessions, path[k], app[k]) /\ pc'[k] = "spawning"
             /\ sessions' = ReserveStart(sessions, path[k])
             /\ reserved' = [reserved EXCEPT ![k] =
                               [id |-> sessions[path[k]].id, sel |-> sessions[path[k]].sel]]
    BY <1>1, <1>5, <2>2, ReserveAgree DEF StartReserve
  <2>. QED
    BY <1>3, <1>5, <2>1, <2>2 DEF StartReserve, TaskReply, Answer, Goto, Inv, TypeOK
<1>6. CASE StartSpawn(k)
  <2>1. CASE sessions' = sessions /\ pc'[k] = "negotiating"
    <3>1. Plain
      BY <1>1, <1>6, <2>1 DEF Plain, StartSpawn, Early, Going, InHand
    <3>. QED  BY <3>1, PlainAgree
  <2>2. CASE sessions' = ClearStart(sessions, path[k]) /\ pc'[k] = "replied" /\ cast' = cast
    BY <1>4, <1>6, <2>2 DEF StartSpawn, Going, InHand
  <2>. QED
    BY <1>3, <1>6, <2>1, <2>2 DEF StartSpawn, TaskReply, Answer, Goto, Inv, TypeOK
<1>7. CASE StartWait(k)
  <2>1. pc'[k] \in {"installing", "aborting", "failing"}
    BY <1>3, <1>7 DEF StartWait, Goto, Inv, TypeOK
  <2>2. Plain
    BY <1>1, <1>7, <2>1 DEF Plain, StartWait, Early, Going, InHand
  <2>. QED  BY <2>2, PlainAgree
<1>8. CASE StartInstall(k)
  <2>1. CASE sessions[path[k]] = None /\ sessions' = sessions /\ pc'[k] = "orphaned"
    <3>1. Plain
      BY <1>1, <1>8, <2>1 DEF Plain, StartInstall, Early, Going, InHand
    <3>. QED  BY <3>1, PlainAgree
  <2>2. CASE /\ sessions[path[k]] # None /\ pc'[k] = "replied"
             /\ sessions' = MarkStarted(sessions, path[k], k)
    <3>1. /\ \A q \in Paths \ {path[k]} : sessions'[q] = sessions[q]
          /\ sessions'[path[k]].id = sessions[path[k]].id
          /\ sessions'[path[k]].sel = sessions[path[k]].sel
          /\ sessions'[path[k]].cast = k
      BY <1>2, <2>2, InstallFacts DEF Inv, TypeOK
    <3>2. pc[k] \in Going /\ pc[k] \in InHand /\ UNCHANGED <<cast, reserved>>
      BY <1>8 DEF StartInstall, Going, InHand
    <3>. QED  BY <1>1, <2>2, <3>1, <3>2, EndAgree
  <2>. QED
    BY <1>3, <1>8, <2>1, <2>2 DEF StartInstall, TaskReply, Answer, Goto, Inv, TypeOK
<1>9. CASE StartJoin(k)
  <2>1. pc'[k] = "replied" /\ UNCHANGED <<cast, reserved>> /\ pc[k] \in Going
    BY <1>3, <1>9 DEF StartJoin, TaskReply, Answer, Inv, TypeOK, Going
  <2>2. CASE sessions' = sessions
    <3>1. Plain
      BY <1>1, <2>1, <2>2 DEF Plain, Early, Going, InHand
    <3>. QED  BY <3>1, PlainAgree
  <2>3. CASE sessions' = ClearStart(sessions, path[k])
    BY <1>4, <2>1, <2>3
  <2>. QED  BY <1>9, <2>2, <2>3 DEF StartJoin
<1>10. CASE TaskExit(k)
  <2>1. pc[k] = "replied" /\ pc'[k] = "done" /\ UNCHANGED <<sessions, cast, reserved>>
    BY <1>3, <1>10 DEF TaskExit, Goto, castVars, Inv, TypeOK
  <2>2. Plain
    BY <1>1, <2>1 DEF Plain, Early, Going, InHand
  <2>. QED  BY <2>2, PlainAgree
<1>. QED  BY <1>5, <1>6, <1>7, <1>8, <1>9, <1>10 DEF StartTask

LEMMA CastAgree ==
    ASSUME Inv, AgreeInv, Stays, NEW k \in StartCalls, CastThread(k) \/ Compositor(k)
    PROVE  AgreeInv'
<1>1. UNCHANGED <<sessions, reserved, overlapped, pc>>
  BY DEF CastThread, Compositor, CastStop, CastReport, CastTeardown, CastComplete,
         CastFail, CastEnded, CastError, CastStep, callVars
<1>2. \A j \in StartCalls : cast'[j] # "none" => cast[j] # "none"
  BY DEF CastThread, Compositor, CastStop, CastReport, CastTeardown, CastComplete,
         CastFail, CastEnded, CastError, CastStep, Inv, TypeOK
<1>3. Plain
  BY <1>1, <1>2 DEF Plain
<1>. QED  BY <1>3, PlainAgree

LEMMA NextAgree == Inv /\ AgreeInv /\ [Next]_vars => AgreeInv'
<1>. SUFFICES ASSUME Inv, AgreeInv, [Next]_vars
              PROVE  AgreeInv'
  OBVIOUS
<1>1. CASE UNCHANGED vars
  <2>1. Plain
    BY <1>1 DEF vars, Plain
  <2>. QED  BY <1>1, <2>1, SameStays, PlainAgree DEF vars
<1>2. CASE Next
  BY <1>2, StaysNext, ClientAgree, ExecutorAgree, DispatcherAgree, SelectAgree, StartAgree,
     CastAgree DEF Next
<1>. QED  BY <1>1, <1>2

THEOREM AgreeCorrect == Spec => []AgreeInv
  BY InitAgree, NextAgree, InvCorrect, PTL DEF Spec

(* The cast a session holds was reserved on that very session and streams  *)
(* what its user agreed to (session.rs:173), whenever nothing of an        *)
(* earlier session of the path was still under way when it was made.       *)
THEOREM InstalledCorrect == Spec => []InstalledWhereReserved
  BY AgreeCorrect, PTL DEF AgreeInv

(* session.rs:52: no two Starts have a producer for one session, whatever  *)
(* they race with.                                                         *)
THEOREM OneProducerCorrect == Spec => []OneProducerPerSession
<1>1. Inv /\ AgreeInv /\ NoOrphanProducer => OneProducerPerSession
  <2>. SUFFICES ASSUME Inv, AgreeInv, NoOrphanProducer,
                       NEW j \in Running \ stopped, NEW k \in Running \ stopped,
                       SessionOf(j) = SessionOf(k), SessionOf(j) \notin overlapped
                PROVE  j = k
    BY DEF OneProducerPerSession
  <2>1. InPlay(j) /\ InPlay(k)
    BY DEF NoOrphanProducer, Negotiated, InPlay, InHand
  <2>. QED  BY <2>1 DEF Running, AgreeInv, Unique
<1>. QED  BY <1>1, InvCorrect, AgreeCorrect, NoOrphanCorrect, PTL

-----------------------------------------------------------------------------
(* No object without its session.  Between the insert and the export of a  *)
(* session that is not overlapped nothing acts on its path, so that its    *)
(* export cannot come after its close.                                     *)

TaskAt(p) ==
    \E j \in SelectCalls \cup StartCalls : path[j] = p /\ pc[j] \notin {"idle", "replied", "done"}
CastAt(p) == \E j \in Running : path[j] = p
JobAt(p) == \E i \in 1..Len(queue) : OfSession(queue[i]) /\ queue[i].path = p
CloseAt(p) == worker.at # "recv" /\ worker.path = p
ExportAt(p, k) == \E j \in CreateCalls \ {k} : path[j] = p /\ pc[j] = "exporting"
SendAt(p) == \E x \in CloseCalls : path[x] = p /\ pc[x] = "sending"

Taken(p) == \E j \in overlapped : path[j] = p

Fresh(k, p) ==
    /\ sessions[p] # None /\ sessions[p].id = k
    /\ ~TaskAt(p) /\ ~CastAt(p) /\ ~JobAt(p) /\ ~CloseAt(p) /\ ~ExportAt(p, k) /\ ~SendAt(p)
    /\ p \in objects => Taken(p)

Exporting ==
    \A k \in CreateCalls, p \in Paths :
        pc[k] = "exporting" /\ path[k] = p /\ k \notin overlapped => Fresh(k, p)

Sending == \A x \in CloseCalls : pc[x] = "sending" => blocked = x

Inserted == \A k \in overlapped : pc[k] \notin {"idle", "creating"}

ObjectInv == Exporting /\ Sending /\ Inserted /\ ObjectBacked

LEMMA InitObject == Init => ObjectInv
<1>. SUFFICES ASSUME Init PROVE ObjectInv
  OBVIOUS
<1>1. \A k \in CreateCalls \cup CloseCalls : pc[k] = "idle"
  BY DEF Init, Calls, Requests
<1>2. objects = {} /\ overlapped = {}
  BY DEF Init
<1>. QED  BY <1>1, <1>2 DEF ObjectInv, Exporting, Sending, Inserted, ObjectBacked

(* A session stays fresh while a step leaves its path alone. *)
LEMMA FreshStep ==
    ASSUME Inv, ObjectInv, Stays, overlapped \subseteq overlapped',
           NEW k \in CreateCalls, NEW p \in Paths,
           pc[k] = "exporting", path[k] = p, k \notin overlapped,
           sessions'[p] = sessions[p],
           p \in objects' => p \in objects,
           TaskAt(p)' => TaskAt(p), CastAt(p)' => CastAt(p), JobAt(p)' => JobAt(p),
           CloseAt(p)' => CloseAt(p), ExportAt(p, k)' => ExportAt(p, k),
           SendAt(p)' => SendAt(p)
    PROVE  Fresh(k, p)'
<1>1. Fresh(k, p)
  BY DEF ObjectInv, Exporting
<1>2. Taken(p) => Taken(p)'
  BY DEF Taken, Stays, ObjectInv, Inserted, Inv, TypeOK, Calls, Requests
<1>. QED  BY <1>1, <1>2 DEF Fresh

LEMMA InsertedStep ==
    ASSUME Inv, ObjectInv, Stays,
           \A k \in overlapped' : k \in overlapped \/ pc'[k] \notin {"idle", "creating"}
    PROVE  Inserted'
  BY DEF ObjectInv, Inserted, Stays, Inv, TypeOK

LEMMA BackedStep ==
    ASSUME Inv, ObjectInv, Stays, overlapped \subseteq overlapped',
           \A p \in objects' :
              /\ p \in objects
              /\ sessions[p] # None => sessions'[p] # None \/ CloseAt(p)'
              /\ CloseAt(p) => CloseAt(p)'
    PROVE  ObjectBacked'
<1>1. \A p \in Paths : Taken(p) => Taken(p)'
  BY DEF Taken, Stays, ObjectInv, Inserted, Inv, TypeOK, Calls, Requests
<1>2. \A p \in objects : sessions[p] # None \/ CloseAt(p) \/ Taken(p)
  BY DEF ObjectInv, ObjectBacked, CloseAt, Taken
<1>3. \A p \in objects' : p \in Paths
  BY DEF Inv, TypeOK
<1>4. \A p \in objects' : (sessions[p] # None)' \/ CloseAt(p)' \/ Taken(p)'
  BY <1>1, <1>2, <1>3
<1>. QED  BY <1>4 DEF ObjectBacked, CloseAt, Taken

LEMMA ClientObject ==
    ASSUME Inv, ObjectInv, Stays, Client
    PROVE  ObjectInv'
<1>. USE DEF Calls, Requests
<1>1. UNCHANGED <<sessions, objects, worker, cast, overlapped>>
  BY DEF Client, CreateArrive, SelectArrive, Misshapen, StartArrive, Enqueue,
         SessionClose, RequestClose, castVars
<1>2. ObjectBacked' /\ Inserted'
  BY <1>1, BackedStep, InsertedStep DEF CloseAt
(* Only CreateSession arrives at a path where one is exporting.            *)
<1>3. ASSUME NEW j \in Calls, NEW q \in Paths, NEW a, NEW to, NEW code,
             Arrive(j, q, a, to, code), to # "exporting",
             to = "sending" => blocked' = j,
             to # "sending" => blocked' = blocked,
             j \notin CreateCalls => ~Creating(q),
             \A i \in 1..Len(queue') :
                 OfSession(queue'[i]) => \/ i \in 1..Len(queue) /\ queue'[i] = queue[i]
                                         \/ queue'[i].path = q /\ j \notin CreateCalls
      PROVE  Exporting' /\ Sending'
  <2>1. /\ pc[j] = "idle" /\ blocked = None /\ pc'[j] = to /\ path'[j] = q
        /\ \A i \in Calls \ {j} : pc'[i] = pc[i] /\ path'[i] = path[i]
    BY <1>3 DEF Arrive, Inv, TypeOK
  <2>2. Sending'
    BY <1>3, <2>1 DEF ObjectInv, Sending
  <2>. SUFFICES ASSUME NEW k \in CreateCalls, NEW p \in Paths,
                       pc'[k] = "exporting", path'[k] = p, k \notin overlapped
                PROVE  Fresh(k, p)'
    BY <1>1, <2>2 DEF Exporting
  <2>3. k # j /\ pc[k] = "exporting" /\ path[k] = p
    BY <1>3, <2>1
  <2>4. j \notin CreateCalls => q # p
    BY <1>3, <2>3 DEF Creating, CreatePc
  <2>5. TaskAt(p)' => TaskAt(p)
    BY <2>1, <2>4 DEF TaskAt
  <2>6. CastAt(p)' => CastAt(p)
    BY <1>1, <2>1, <2>4 DEF CastAt, Running
  <2>7. JobAt(p)' => JobAt(p)
    BY <1>3, <2>4 DEF JobAt
  <2>8. ExportAt(p, k)' => ExportAt(p, k)
    BY <1>3, <2>1 DEF ExportAt
  <2>9. SendAt(p)' => SendAt(p)
    BY <2>1, <2>4 DEF SendAt
  <2>. QED
    BY <1>1, <2>3, <2>5, <2>6, <2>7, <2>8, <2>9, FreshStep DEF CloseAt
<1>4. ASSUME NEW j \in CreateCalls, NEW q \in Paths, NEW a \in Apps, CreateArrive(j, q, a)
      PROVE  Exporting' /\ Sending'
  BY <1>3, <1>4 DEF CreateArrive
<1>5. ASSUME NEW j \in SelectCalls \cup StartCalls, NEW q \in Paths, NEW a \in Apps,
             NEW kind \in {"SelectSources", "Start"}, Enqueue(j, q, a, kind)
      PROVE  Exporting' /\ Sending'
  <2>. DEFINE job == [kind |-> kind, call |-> j]
  <2>1. job \in Job /\ ~OfSession(job)
    BY DEF Job, OfSession
  <2>2. CASE queue' = queue
    BY <1>3, <1>5, <2>2 DEF Enqueue
  <2>3. CASE Len(queue) < QueueCap /\ queue' = Append(queue, job)
    <3>1. \A i \in 1..Len(queue') :
             OfSession(queue'[i]) => i \in 1..Len(queue) /\ queue'[i] = queue[i]
      BY <2>1, <2>3, QueueAppend DEF Inv, TypeOK
    <3>. QED  BY <1>3, <1>5, <3>1 DEF Enqueue
  <2>. QED  BY <1>5, <2>2, <2>3 DEF Enqueue
<1>6. ASSUME NEW j \in SelectCalls, NEW q \in Paths, NEW a \in Apps, Misshapen(j, q, a)
      PROVE  Exporting' /\ Sending'
  BY <1>3, <1>6 DEF Misshapen
<1>7. ASSUME NEW j \in CloseCalls, NEW q \in Paths, SessionClose(j, q)
      PROVE  Exporting' /\ Sending'
  <2>. DEFINE job == [kind |-> "CloseSession", path |-> q]
  <2>1. job \in Job
    BY DEF Job
  <2>2. CASE queue' = queue
    BY <1>3, <1>7, <2>2 DEF SessionClose
  <2>3. CASE Len(queue) < QueueCap /\ queue' = Append(queue, job)
    <3>1. \A i \in 1..Len(queue') : \/ i \in 1..Len(queue) /\ queue'[i] = queue[i]
                                    \/ queue'[i] = job
      BY <2>1, <2>3, QueueAppend DEF Inv, TypeOK
    <3>. QED  BY <1>3, <1>7, <2>3, <3>1 DEF SessionClose
  <2>. QED  BY <1>7, <2>2, <2>3 DEF SessionClose
<1>8. ASSUME NEW j \in Requests, RequestClose(j)
      PROVE  Exporting' /\ Sending'
  BY <1>1, <1>8
  DEF RequestClose, ObjectInv, Exporting, Sending, Fresh, TaskAt, CastAt, JobAt, CloseAt,
      ExportAt, SendAt, Taken, Running
<1>9. Exporting' /\ Sending'
  BY <1>4, <1>5, <1>6, <1>7, <1>8 DEF Client, SelectArrive, StartArrive
<1>. QED  BY <1>2, <1>9 DEF ObjectInv

(* Nothing happens but at the path q. *)
Elsewhere(q) ==
    \A p \in Paths \ {q} :
        /\ sessions'[p] = sessions[p]
        /\ p \in objects' => p \in objects
        /\ TaskAt(p)' => TaskAt(p)
        /\ CastAt(p)' => CastAt(p)
        /\ JobAt(p)' => JobAt(p)
        /\ CloseAt(p)' => CloseAt(p)
        /\ SendAt(p)' => SendAt(p)

LEMMA ElsewhereExporting ==
    ASSUME Inv, ObjectInv, Stays, path' = path, overlapped \subseteq overlapped',
           NEW q, Elsewhere(q),
           \A k \in CreateCalls :
               pc'[k] = "exporting" => pc[k] = "exporting",
           \A k \in CreateCalls :
               pc'[k] = "exporting" /\ k \notin overlapped => path[k] # q
    PROVE  Exporting'
<1>. SUFFICES ASSUME NEW k \in CreateCalls, NEW p \in Paths, pc'[k] = "exporting",
                     path'[k] = p, k \notin overlapped'
              PROVE  Fresh(k, p)'
  BY DEF Exporting
<1>1. pc[k] = "exporting" /\ path[k] = p /\ p # q /\ k \notin overlapped
  OBVIOUS
<1>2. ExportAt(p, k)' => ExportAt(p, k)
  BY DEF ExportAt
<1>. QED  BY <1>1, <1>2, FreshStep DEF Elsewhere

(* The queue moves on, or gets a job for the path q. *)
LEMMA JobsElsewhere ==
    ASSUME Inv, NEW q,
           \/ queue' = queue
           \/ queue # <<>> /\ queue' = Tail(queue)
           \/ /\ Len(queue) < QueueCap
              /\ \E kind \in {"CloseSession", "SessionEnded"} :
                    queue' = Append(queue, [kind |-> kind, path |-> q])
              /\ q \in Paths
    PROVE  \A p \in Paths \ {q} : JobAt(p)' => JobAt(p)
<1>1. CASE queue' = queue
  BY <1>1 DEF JobAt
<1>2. CASE queue # <<>> /\ queue' = Tail(queue)
  <2>1. \A i \in 1..Len(queue') : i + 1 \in 1..Len(queue) /\ queue'[i] = queue[i + 1]
    BY <1>2, QueueTail DEF Inv, TypeOK
  <2>. QED  BY <2>1 DEF JobAt
<1>3. ASSUME Len(queue) < QueueCap, q \in Paths,
             NEW kind \in {"CloseSession", "SessionEnded"},
             queue' = Append(queue, [kind |-> kind, path |-> q])
      PROVE  \A p \in Paths \ {q} : JobAt(p)' => JobAt(p)
  <2>. DEFINE job == [kind |-> kind, path |-> q]
  <2>1. job \in Job
    BY <1>3 DEF Job
  <2>2. \A i \in 1..Len(queue') : \/ i \in 1..Len(queue) /\ queue'[i] = queue[i]
                                  \/ queue'[i] = job
    BY <1>3, <2>1, QueueAppend DEF Inv, TypeOK
  <2>3. job.path = q
    OBVIOUS
  <2>. HIDE DEF job
  <2>. QED  BY <2>2, <2>3 DEF JobAt
<1>. QED  BY <1>1, <1>2, <1>3

LEMMA ExecutorObject ==
    ASSUME Inv, ObjectInv, Stays, Executor
    PROVE  ObjectInv'
<1>. USE DEF Calls, Requests
<1>1. ASSUME NEW k \in CreateCalls, CreateInsert(k)
      PROVE  ObjectInv'
  <2>1. /\ blocked = None /\ pc[k] = "creating" /\ path[k] \in Paths /\ app[k] \in Apps
        /\ UNCHANGED <<objects, queue, worker, blocked, path, cast>>
        /\ \A j \in Calls \ {k} : pc'[j] = pc[j]
        /\ pc'[k] \in {"exporting", "done"}
    BY <1>1 DEF CreateInsert, Return, Answer, Goto, castVars, Inv, Arrived, TypeOK
  <2>2. \A p : /\ TaskAt(p)' <=> TaskAt(p)
               /\ CastAt(p)' <=> CastAt(p)
               /\ JobAt(p)' <=> JobAt(p)
               /\ CloseAt(p)' <=> CloseAt(p)
               /\ SendAt(p)' <=> SendAt(p)
    BY <2>1 DEF TaskAt, CastAt, JobAt, CloseAt, SendAt, Running
  <2>3. Sending'
    BY <2>1 DEF ObjectInv, Sending
  <2>4. CASE pc'[k] = "done" /\ sessions' = sessions /\ overlapped' = overlapped
    <3>1. Elsewhere(None)
      BY <2>1, <2>2, <2>4 DEF Elsewhere
    <3>2. Exporting'
      BY <2>1, <2>4, <3>1, ElsewhereExporting DEF Inv, Arrived
    <3>3. ObjectBacked' /\ Inserted'
      BY <2>1, <2>2, <2>4, BackedStep, InsertedStep
    <3>. QED  BY <2>3, <3>2, <3>3 DEF ObjectInv
  <2>5. CASE /\ pc'[k] = "exporting" /\ CanInsert(sessions, path[k])
             /\ sessions' = Insert(sessions, path[k], app[k], k)
             /\ overlapped' = (IF InUse(path[k], k) THEN overlapped \cup {k} ELSE overlapped)
    <3>1. /\ \A p \in Paths \ {path[k]} : sessions'[p] = sessions[p]
          /\ sessions'[path[k]] # None /\ sessions'[path[k]].id = k
          /\ sessions[path[k]] = None
          /\ overlapped \subseteq overlapped'
      BY <2>1, <2>5, InsertFacts DEF CanInsert, Inv, TypeOK
    <3>2. ObjectBacked' /\ Inserted'
      <4>1. \A p \in objects' : p \in objects /\ p \in Paths
        BY <2>1 DEF Inv, TypeOK
      <4>. QED  BY <2>1, <2>2, <2>5, <3>1, <4>1, BackedStep, InsertedStep
    <3>3. ASSUME NEW j \in CreateCalls, NEW p \in Paths, pc'[j] = "exporting",
                 path'[j] = p, j \notin overlapped', j # k
          PROVE  Fresh(j, p)'
      <4>1. pc[j] = "exporting" /\ path[j] = p /\ j \notin overlapped
        BY <2>1, <3>1, <3>3
      <4>2. p # path[k]
        BY <3>1, <4>1 DEF ObjectInv, Exporting, Fresh
      <4>3. ExportAt(p, j)' => ExportAt(p, j)
        BY <2>1, <4>2 DEF ExportAt
      <4>. QED  BY <2>1, <2>2, <3>1, <4>1, <4>2, <4>3, FreshStep
    <3>4. ASSUME k \notin overlapped'
          PROVE  Fresh(k, path[k])'
      <4>. DEFINE p == path[k]
      <4>1. ~InUse(p, k)
        BY <2>5, <3>4
      <4>2. ~TaskAt(p) /\ ~CastAt(p) /\ ~JobAt(p) /\ ~CloseAt(p) /\ ~ExportAt(p, k)
        BY <4>1 DEF InUse, TaskAt, CastAt, JobAt, CloseAt, ExportAt
      <4>3. ~SendAt(p)
        BY <2>1 DEF SendAt, ObjectInv, Sending
      <4>4. p \in objects => Taken(p)
        BY <3>1, <4>2 DEF ObjectInv, ObjectBacked, CloseAt, Taken
      <4>5. Taken(p) => Taken(p)'
        BY <2>1, <3>1 DEF Taken
      <4>6. ~ExportAt(p, k)'
        BY <2>1, <4>2 DEF ExportAt
      <4>. QED  BY <2>1, <2>2, <3>1, <4>2, <4>3, <4>4, <4>5, <4>6 DEF Fresh
    <3>5. Exporting'
      BY <2>1, <3>3, <3>4 DEF Exporting
    <3>. QED  BY <2>3, <3>2, <3>5 DEF ObjectInv
  <2>. QED
    BY <1>1, <2>1, <2>4, <2>5 DEF CreateInsert, Return, Answer, Goto, Inv, TypeOK
<1>2. ASSUME NEW k \in CreateCalls, CreateExport(k)
      PROVE  ObjectInv'
  <2>1. /\ pc[k] = "exporting" /\ path[k] \in Paths /\ pc'[k] = "done"
        /\ UNCHANGED <<queue, worker, blocked, path, cast, overlapped>>
        /\ \A j \in Calls \ {k} : pc'[j] = pc[j]
        /\ \A p \in Paths \ {path[k]} : sessions'[p] = sessions[p] /\ (p \in objects' <=> p \in objects)
        /\ objects' \subseteq Paths
    BY <1>2 DEF CreateExport, Remove, Return, Answer, Inv, Arrived, TypeOK, Registry
  <2>2. \A p : /\ TaskAt(p)' <=> TaskAt(p)
               /\ CastAt(p)' <=> CastAt(p)
               /\ JobAt(p)' <=> JobAt(p)
               /\ CloseAt(p)' <=> CloseAt(p)
               /\ SendAt(p)' <=> SendAt(p)
               /\ Taken(p)' <=> Taken(p)
    BY <2>1 DEF TaskAt, CastAt, JobAt, CloseAt, SendAt, Running, Taken
  <2>3. Sending' /\ Inserted'
    BY <2>1, InsertedStep DEF ObjectInv, Sending
  <2>4. Exporting'
    <3>1. Elsewhere(path[k])
      BY <2>1, <2>2 DEF Elsewhere
    <3>2. \A j \in CreateCalls :
             pc'[j] = "exporting" /\ j \notin overlapped => path[j] # path[k]
      BY <2>1 DEF ObjectInv, Exporting, Fresh, ExportAt
    <3>. QED  BY <2>1, <3>1, <3>2, ElsewhereExporting
  <2>5. \A p \in objects' : (sessions[p] # None)' \/ CloseAt(p)' \/ Taken(p)'
    <3>1. \A p \in objects : sessions[p] # None \/ CloseAt(p) \/ Taken(p)
      BY DEF ObjectInv, ObjectBacked, CloseAt, Taken
    <3>2. \A p \in objects' : p # path[k] =>
             (sessions[p] # None)' \/ CloseAt(p)' \/ Taken(p)'
      BY <2>1, <2>2, <3>1
    <3>3. k \notin overlapped => Fresh(k, path[k])
      BY <2>1 DEF ObjectInv, Exporting
    <3>4. k \in overlapped => Taken(path[k])
      BY DEF Taken
    <3>5. path[k] \in objects' => sessions'[path[k]] # None \/ Taken(path[k])
      <4>1. CASE sessions' = sessions
        BY <3>3, <3>4, <4>1 DEF Fresh
      <4>2. CASE objects' = objects
        BY <3>3, <3>4, <4>2 DEF Fresh
      <4>. QED  BY <1>2, <4>1, <4>2 DEF CreateExport
    <3>. QED  BY <2>1, <2>2, <3>2, <3>5
  <2>. QED  BY <2>3, <2>4, <2>5 DEF ObjectInv, ObjectBacked, CloseAt, Taken
<1>3. ASSUME NEW x \in CloseCalls, SessionCloseSent(x)
      PROVE  ObjectInv'
  <2>1. /\ pc[x] = "sending" /\ path[x] \in Paths /\ pc'[x] = "done"
        /\ UNCHANGED <<sessions, objects, worker, path, cast, overlapped>>
        /\ \A j \in Calls \ {x} : pc'[j] = pc[j]
    BY <1>3 DEF SessionCloseSent, Return, Answer, castVars, Inv, Arrived, TypeOK
  <2>2. Sending'
    BY <1>3, <2>1 DEF ObjectInv, Sending, SessionCloseSent
  <2>3. ObjectBacked' /\ Inserted'
    BY <2>1, BackedStep, InsertedStep DEF CloseAt
  <2>4. Elsewhere(path[x])
    <3>1. \A p \in Paths \ {path[x]} : JobAt(p)' => JobAt(p)
      BY <1>3, <2>1, JobsElsewhere DEF SessionCloseSent
    <3>. QED  BY <2>1, <3>1 DEF Elsewhere, TaskAt, CastAt, CloseAt, SendAt, Running
  <2>5. \A k \in CreateCalls :
           pc'[k] = "exporting" /\ k \notin overlapped => path[k] # path[x]
    BY <2>1 DEF ObjectInv, Exporting, Fresh, SendAt
  <2>6. Exporting'
    BY <2>1, <2>4, <2>5, ElsewhereExporting
  <2>. QED  BY <2>2, <2>3, <2>6 DEF ObjectInv
<1>. QED  BY <1>1, <1>2, <1>3 DEF Executor

(* A step of the task or cast thread of call j, or of the dispatcher at    *)
(* the path q: what is left of ObjectInv.                                  *)
LEMMA RestObject ==
    ASSUME Inv, ObjectInv, Stays, UNCHANGED <<path, blocked, overlapped>>,
           \A k \in CreateCalls \cup CloseCalls : pc'[k] = pc[k],
           NEW q, Elsewhere(q), ObjectBacked',
           \A k \in CreateCalls : Fresh(k, path[k]) => path[k] # q
    PROVE  ObjectInv'
<1>1. Sending' /\ Inserted'
  BY InsertedStep DEF ObjectInv, Sending
<1>2. \A k \in CreateCalls :
         pc'[k] = "exporting" /\ k \notin overlapped => path[k] # q
  BY DEF ObjectInv, Exporting, Inv, Arrived, Calls, Requests
<1>3. Exporting'
  BY <1>2, ElsewhereExporting
<1>. QED  BY <1>1, <1>3 DEF ObjectInv

LEMMA DispatcherObject ==
    ASSUME Inv, ObjectInv, Stays, Dispatcher
    PROVE  ObjectInv'
<1>. USE DEF Calls, Requests
<1>1. ASSUME NEW j \in SelectCalls \cup StartCalls, NEW to,
             NEW kind \in {"SelectSources", "Start"},
             Spawn([kind |-> kind, call |-> j], to)
      PROVE  ObjectInv'
  <2>1. /\ queue # <<>> /\ queue' = Tail(queue) /\ pc[j] = "queued"
        /\ UNCHANGED <<sessions, objects, worker, blocked, path, cast, overlapped>>
        /\ \A i \in Calls \ {j} : pc'[i] = pc[i]
    BY <1>1, QueueTail
    DEF Spawn, Receive, Goto, Return, Answer, castVars, Inv, QueueOK, OfRequest, TypeOK
  <2>2. Elsewhere(path[j])
    <3>1. \A p \in Paths \ {path[j]} : JobAt(p)' => JobAt(p)
      BY <2>1, JobsElsewhere
    <3>. QED  BY <2>1, <3>1 DEF Elsewhere, TaskAt, CastAt, CloseAt, SendAt, Running
  <2>3. ObjectBacked'
    BY <2>1, BackedStep DEF CloseAt
  <2>4. \A k \in CreateCalls : Fresh(k, path[k]) => path[k] # path[j]
    BY <2>1 DEF Fresh, TaskAt
  <2>. QED  BY <2>1, <2>2, <2>3, <2>4, RestObject
<1>2. ASSUME NEW q \in Paths, NEW kind \in {"CloseSession", "SessionEnded"},
             CloseDetach(q, kind)
      PROVE  ObjectInv'
  <2>1. /\ worker.at = "recv" /\ queue # <<>> /\ queue' = Tail(queue)
        /\ [kind |-> kind, path |-> q] = Head(queue)
        /\ UNCHANGED <<objects, blocked, path, pc, cast, overlapped>>
    BY <1>2 DEF CloseDetach, Receive, callVars
  <2>2. JobAt(q)
    <3>1. queue[1].path = q /\ OfSession(queue[1]) /\ 1 \in 1..Len(queue)
      BY <2>1, QueueTail DEF OfSession, Inv
    <3>. QED  BY <3>1 DEF JobAt
  <2>3. /\ \A p \in Paths \ {q} : sessions'[p] = sessions[p]
        /\ \/ sessions' = sessions /\ worker' = worker
           \/ worker'.at # "recv" /\ worker'.path = q
    BY <1>2 DEF CloseDetach, Remove, Inv, TypeOK, Registry
  <2>4. Elsewhere(q)
    <3>1. \A p \in Paths \ {q} : JobAt(p)' => JobAt(p)
      BY <2>1, JobsElsewhere
    <3>. QED  BY <2>1, <2>3, <3>1 DEF Elsewhere, TaskAt, CastAt, CloseAt, SendAt, Running
  <2>5. ObjectBacked'
    <3>1. \A p \in objects' : p \in objects /\ p \in Paths
      BY <2>1 DEF Inv, TypeOK
    <3>. QED  BY <2>1, <2>3, <3>1, BackedStep DEF CloseAt
  <2>6. \A k \in CreateCalls : Fresh(k, path[k]) => path[k] # q
    BY <2>2 DEF Fresh
  <2>. QED  BY <2>1, <2>4, <2>5, <2>6, RestObject
<1>3. ASSUME CloseJoin \/ CloseEmit \/ CloseUnexport
      PROVE  ObjectInv'
  <2>1. /\ UNCHANGED <<sessions, queue, blocked, path, pc, cast, overlapped>>
        /\ worker.at # "recv"
        /\ \/ objects' = objects /\ worker'.at # "recv" /\ worker'.path = worker.path
           \/ objects' = objects \ {worker.path} /\ worker'.at = "recv"
    BY <1>3 DEF CloseJoin, CloseEmit, CloseUnexport, callVars, castVars, Inv, TypeOK, Worker
  <2>2. Elsewhere(worker.path)
    BY <2>1 DEF Elsewhere, TaskAt, CastAt, JobAt, CloseAt, SendAt, Running
  <2>3. ObjectBacked'
    BY <2>1, BackedStep DEF CloseAt
  <2>4. \A k \in CreateCalls : Fresh(k, path[k]) => path[k] # worker.path
    BY <2>1 DEF Fresh, CloseAt
  <2>. QED  BY <2>1, <2>2, <2>3, <2>4, RestObject
<1>. QED  BY <1>1, <1>2, <1>3 DEF Dispatcher, SpawnSelect, SpawnStart

LEMMA SelectObject ==
    ASSUME Inv, ObjectInv, Stays, NEW j \in SelectCalls, SelectTask(j) \/ SelectAnswer(j)
    PROVE  ObjectInv'
<1>. USE DEF Calls, Requests
<1>1. /\ path[j] \in Paths
      /\ UNCHANGED <<objects, queue, worker, blocked, path, cast, overlapped>>
      /\ \A i \in Calls \ {j} : pc'[i] = pc[i]
      /\ \/ pc[j] \notin {"idle", "replied", "done"}
         \/ pc'[j] = "done" /\ sessions' = sessions
  BY DEF SelectTask, SelectBegin, SelectAnswer, SelectCheck, SelectArm, TaskExit,
         TaskReply, Answer, Goto, castVars, Inv, Arrived, TypeOK
<1>2. /\ \A p \in Paths \ {path[j]} : sessions'[p] = sessions[p]
      /\ \A p \in Paths : sessions[p] # None => sessions'[p] # None
  <2>1. CASE sessions' = sessions
    BY <2>1
  <2>2. CASE /\ CanSelect(sessions, path[j], app[j])
             /\ sessions' = MarkSourcesSelected(sessions, path[j], j)
    BY <1>1, <2>2, SelectFacts DEF CanSelect, Inv, TypeOK
  <2>. QED
    BY <2>1, <2>2 DEF SelectTask, SelectBegin, SelectAnswer, SelectCheck, SelectArm, TaskExit
<1>3. ObjectBacked'
  <2>1. \A p \in objects' : p \in objects /\ p \in Paths
    BY <1>1 DEF Inv, TypeOK
  <2>. QED  BY <1>1, <1>2, <2>1, BackedStep DEF CloseAt
<1>4. CASE pc[j] \notin {"idle", "replied", "done"}
  <2>1. Elsewhere(path[j])
    BY <1>1, <1>2 DEF Elsewhere, TaskAt, CastAt, JobAt, CloseAt, SendAt, Running
  <2>2. \A k \in CreateCalls : Fresh(k, path[k]) => path[k] # path[j]
    BY <1>4 DEF Fresh, TaskAt
  <2>. QED  BY <1>1, <1>3, <2>1, <2>2, RestObject
<1>5. CASE pc'[j] = "done" /\ sessions' = sessions
  <2>1. Elsewhere(None)
    BY <1>1, <1>5 DEF Elsewhere, TaskAt, CastAt, JobAt, CloseAt, SendAt, Running
  <2>2. Exporting'
    BY <1>1, <2>1, ElsewhereExporting DEF Inv, Arrived
  <2>3. Sending' /\ Inserted'
    BY <1>1, InsertedStep DEF ObjectInv, Sending
  <2>. QED  BY <1>3, <2>2, <2>3 DEF ObjectInv
<1>. QED  BY <1>1, <1>4, <1>5

LEMMA StartObject ==
    ASSUME Inv, ObjectInv, Stays, NEW j \in StartCalls, StartTask(j)
    PROVE  ObjectInv'
<1>. USE DEF Calls, Requests
<1>1. /\ path[j] \in Paths
      /\ UNCHANGED <<objects, queue, worker, blocked, path, overlapped>>
      /\ \A i \in Calls \ {j} : pc'[i] = pc[i]
      /\ \A i \in StartCalls \ {j} : cast'[i] = cast[i]
      /\ \/ pc[j] \notin {"idle", "replied", "done"}
         \/ pc'[j] = "done" /\ sessions' = sessions /\ cast' = cast
  BY DEF StartTask, StartReserve, StartSpawn, StartWait, StartInstall, StartJoin, TaskExit,
         TaskReply, Answer, Goto, castVars, Inv, Arrived, TypeOK
<1>2. /\ \A p \in Paths \ {path[j]} : sessions'[p] = sessions[p]
      /\ \A p \in Paths : sessions[p] # None => sessions'[p] # None
  <2>1. CASE sessions' = sessions
    BY <2>1
  <2>2. CASE sessions' = ClearStart(sessions, path[j])
    <3>1. \A p \in Paths \ {path[j]} : sessions'[p] = sessions[p]
      BY <1>1, <2>2, ClearFacts DEF Inv, TypeOK
    <3>. QED  BY <2>2, <3>1, ClearKeepsCast, <1>1 DEF KeepsCast, Inv, TypeOK
  <2>3. CASE sessions[path[j]] # None /\ sessions' = ReserveStart(sessions, path[j])
    BY <1>1, <2>3, ReserveFacts DEF Inv, TypeOK
  <2>4. CASE sessions[path[j]] # None /\ sessions' = MarkStarted(sessions, path[j], j)
    BY <1>1, <2>4, InstallFacts DEF Inv, TypeOK
  <2>. QED
    BY <2>1, <2>2, <2>3, <2>4
    DEF StartTask, StartReserve, StartSpawn, StartWait, StartInstall, StartJoin, TaskExit,
        CanReserve
<1>3. ObjectBacked'
  <2>1. \A p \in objects' : p \in objects /\ p \in Paths
    BY <1>1 DEF Inv, TypeOK
  <2>. QED  BY <1>1, <1>2, <2>1, BackedStep DEF CloseAt
<1>4. CASE pc[j] \notin {"idle", "replied", "done"}
  <2>1. Elsewhere(path[j])
    BY <1>1, <1>2 DEF Elsewhere, TaskAt, CastAt, JobAt, CloseAt, SendAt, Running
  <2>2. \A k \in CreateCalls : Fresh(k, path[k]) => path[k] # path[j]
    BY <1>4 DEF Fresh, TaskAt
  <2>. QED  BY <1>1, <1>3, <2>1, <2>2, RestObject
<1>5. CASE pc'[j] = "done" /\ sessions' = sessions /\ cast' = cast
  <2>1. Elsewhere(None)
    BY <1>1, <1>5 DEF Elsewhere, TaskAt, CastAt, JobAt, CloseAt, SendAt, Running
  <2>2. Exporting'
    BY <1>1, <2>1, ElsewhereExporting DEF Inv, Arrived
  <2>3. Sending' /\ Inserted'
    BY <1>1, InsertedStep DEF ObjectInv, Sending
  <2>. QED  BY <1>3, <2>2, <2>3 DEF ObjectInv
<1>. QED  BY <1>1, <1>4, <1>5

LEMMA CastObject ==
    ASSUME Inv, ObjectInv, Stays, NEW j \in StartCalls, CastThread(j) \/ Compositor(j)
    PROVE  ObjectInv'
<1>1. /\ j \in Running /\ path[j] \in Paths
      /\ UNCHANGED <<sessions, objects, worker, blocked, overlapped, pc, path>>
      /\ \A i \in StartCalls \ {j} : cast'[i] = cast[i]
  BY DEF CastThread, Compositor, CastStop, CastReport, CastTeardown, CastComplete,
         CastFail, CastEnded, CastError, CastStep, callVars, Running, Inv, Arrived, TypeOK,
         Calls, Requests
<1>2. \/ queue' = queue
      \/ Len(queue) < QueueCap
         /\ queue' = Append(queue, [kind |-> "SessionEnded", path |-> path[j]])
  BY DEF CastThread, Compositor, CastStop, CastReport, CastTeardown, CastComplete,
         CastFail, CastEnded, CastError, SendEnded
<1>3. Elsewhere(path[j])
  <2>1. \A p \in Paths \ {path[j]} : JobAt(p)' => JobAt(p)
    BY <1>1, <1>2, JobsElsewhere
  <2>. QED  BY <1>1, <2>1 DEF Elsewhere, TaskAt, CastAt, CloseAt, SendAt, Running
<1>4. ObjectBacked'
  BY <1>1, BackedStep DEF CloseAt
<1>5. \A k \in CreateCalls : Fresh(k, path[k]) => path[k] # path[j]
  BY <1>1 DEF Fresh, CastAt
<1>. QED  BY <1>1, <1>3, <1>4, <1>5, RestObject

LEMMA NextObject == Inv /\ ObjectInv /\ [Next]_vars => ObjectInv'
<1>. SUFFICES ASSUME Inv, ObjectInv, [Next]_vars
              PROVE  ObjectInv'
  OBVIOUS
<1>1. CASE UNCHANGED vars
  BY <1>1
  DEF vars, ObjectInv, Exporting, Sending, Inserted, ObjectBacked, Fresh, TaskAt, CastAt,
      JobAt, CloseAt, ExportAt, SendAt, Taken, Running
<1>2. CASE Next
  BY <1>2, StaysNext, ClientObject, ExecutorObject, DispatcherObject, SelectObject,
     StartObject, CastObject DEF Next
<1>. QED  BY <1>1, <1>2

(* An exported session object has its session in the registry or at the    *)
(* dispatcher, unless a session of its path was made while an earlier one  *)
(* was still under way (screencast.rs create_session, close_session).      *)
THEOREM ObjectCorrect == Spec => []ObjectBacked
<1>1. Inv /\ ObjectInv => ObjectBacked
  BY DEF ObjectInv
<1>. QED  BY <1>1, InitObject, NextObject, InvCorrect, PTL DEF Spec
=============================================================================
