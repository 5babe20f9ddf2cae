----------------------------- MODULE ScreenCast -----------------------------
(***************************************************************************)
(* The ScreenCast portal: the D-Bus methods on the zbus executor, the      *)
(* dispatcher thread with its bounded job queue, one task thread per       *)
(* SelectSources and Start, one cast thread per started producer, and the  *)
(* session registry they share (screencast.rs, session.rs, the life cycle  *)
(* of cast/mod.rs).                                                        *)
(*                                                                         *)
(* Left out: what a selection contains, the restore store (RestoreStore),  *)
(* the frames (the cast's inner loop), and the request-handle bookkeeping  *)
(* (RequestDispatch): here a call is its own request handle.               *)
(***************************************************************************)
EXTENDS SessionRegistry, Sequences

CONSTANTS
    CloseCalls,     \* Session.Close method calls
    QueueCap,       \* MAX_QUEUED_REQUESTS: capacity of the job channel
    MaxActive       \* MAX_ACTIVE_CAST_REQUESTS

ASSUME ScreenCastAssumption ==
    /\ CloseCalls \cap (CreateCalls \cup SelectCalls \cup StartCalls \cup {None}) = {}
    /\ QueueCap \in Nat \ {0}
    /\ MaxActive \in Nat \ {0}

Requests == CreateCalls \cup SelectCalls \cup StartCalls
Calls == Requests \cup CloseCalls

VARIABLES
    sessions,       \* SessionRegistry
    objects,        \* paths at which a SessionIface is exported
    queue,          \* the dispatcher's channel of CastJobs
    pc,             \* where each call is
    path,           \* its session_handle, and
    app,            \* its app_id, once it has arrived
    reply,          \* its response code
    closedReq,      \* calls whose Request.Close has been recorded
    cast,           \* life cycle of each cast thread
    completed,      \* casts that reported CastStarted
    stopped,        \* casts whose stop socket has been closed
    reserved,       \* the session a Start reserved, and the selection it got
    worker,         \* the dispatcher thread
    blocked,        \* a Session.Close blocking the executor in send, or None
    closedSig,      \* history: sessions whose Closed signal was emitted
    overlapped      \* history: sessions made while something of an earlier
                    \* session of their path was still under way

vars == <<sessions, objects, queue, pc, path, app, reply, closedReq, cast,
          completed, stopped, reserved, worker, blocked, closedSig, overlapped>>

callVars == <<pc, path, app, reply, closedReq>>
castVars == <<cast, completed, stopped, reserved>>

(* Portal response codes 0, 1 and 2, and a D-Bus error.                    *)
Codes == {"success", "cancelled", "refused", "error"}

CreatePc == {"creating", "exporting"}
SelectPc == {"selecting", "asking", "checking", "arming"}
StartPc  == {"starting", "spawning", "negotiating", "installing",
             "aborting", "orphaned", "failing"}

(* A task thread holds its ActiveGuard until after it has replied. *)
TaskPc == SelectPc \cup StartPc \cup {"replied"}
Active == {k \in Requests : pc[k] \in TaskPc}

(* Request handles are exported from arrival until the reply is received.  *)
InFlight == {k \in Requests : pc[k] \notin {"idle", "replied", "done"}}

CastPhase == {"none", "negotiating", "live", "reporting", "teardown", "exited"}

Running == {k \in StartCalls : cast[k] \notin {"none", "exited"}}

Job == [kind : {"SelectSources", "Start"}, call : SelectCalls \cup StartCalls]
       \cup [kind : {"CloseSession", "SessionEnded"}, path : Paths]

OfSession(job) == job.kind \in {"CloseSession", "SessionEnded"}

(* The dispatcher: waiting for a job, joining the cast thread of a session *)
(* it detached (id), about to emit Closed, about to unexport the object.   *)
Worker == [at : {"recv"}]
          \cup [at : {"join"}, path : Paths, id : CreateCalls, cast : StartCalls]
          \cup [at : {"emit", "unexport"}, path : Paths, id : CreateCalls]

Reservation == [id : CreateCalls, sel : SelectCalls]

ASSUME NoneIsNoReservation == None \notin Reservation

TypeOK ==
    /\ sessions \in Registry
    /\ objects \subseteq Paths
    /\ queue \in Seq(Job)
    /\ Len(queue) <= QueueCap
    /\ pc \in [Calls -> {"idle", "queued", "sending", "replied", "done"}
                        \cup CreatePc \cup SelectPc \cup StartPc]
    /\ path \in [Calls -> Paths \cup {None}]
    /\ app \in [Calls -> Apps \cup {None}]
    /\ reply \in [Calls -> Codes \cup {None}]
    /\ closedReq \subseteq Requests
    /\ cast \in [StartCalls -> CastPhase]
    /\ completed \subseteq StartCalls
    /\ stopped \subseteq StartCalls
    /\ reserved \in [StartCalls -> Reservation \cup {None}]
    /\ worker \in Worker
    /\ blocked \in CloseCalls \cup {None}
    /\ closedSig \subseteq CreateCalls
    /\ overlapped \subseteq CreateCalls

Init ==
    /\ sessions = [p \in Paths |-> None]
    /\ objects = {}
    /\ queue = <<>>
    /\ pc = [k \in Calls |-> "idle"]
    /\ path = [k \in Calls |-> None]
    /\ app = [k \in Calls |-> None]
    /\ reply = [k \in Calls |-> None]
    /\ closedReq = {}
    /\ cast = [k \in StartCalls |-> "none"]
    /\ completed = {}
    /\ stopped = {}
    /\ reserved = [k \in StartCalls |-> None]
    /\ worker = [at |-> "recv"]
    /\ blocked = None
    /\ closedSig = {}
    /\ overlapped = {}

-----------------------------------------------------------------------------
(* Steps of a call.                                                        *)

Goto(k, to) ==
    /\ pc' = [pc EXCEPT ![k] = to]
    /\ UNCHANGED <<path, app, reply, closedReq>>

Answer(k, code, to) ==
    /\ pc' = [pc EXCEPT ![k] = to]
    /\ reply' = [reply EXCEPT ![k] = code]
    /\ closedReq' = closedReq \ {k}     \* finish: the marker is forgotten
    /\ UNCHANGED <<path, app>>

(* An executor handler replies; a task thread replies and then exits. *)
Return(k, code) == Answer(k, code, "done")
TaskReply(k, code) == Answer(k, code, "replied")

Arrive(k, p, a, to, code) ==
    /\ blocked = None
    /\ pc[k] = "idle"
    /\ pc' = [pc EXCEPT ![k] = to]
    /\ path' = [path EXCEPT ![k] = p]
    /\ app' = [app EXCEPT ![k] = a]
    /\ reply' = [reply EXCEPT ![k] = code]
    /\ UNCHANGED closedReq

(* RequestIface.close: recorded while the request is in flight. *)
RequestClose(k) ==
    /\ blocked = None
    /\ k \in InFlight
    /\ closedReq' = closedReq \cup {k}
    /\ UNCHANGED <<sessions, objects, queue, pc, path, app, reply, worker,
                   blocked, closedSig, overlapped>>
    /\ UNCHANGED castVars

-----------------------------------------------------------------------------
(* CreateSession runs on the executor.  The registry insert and the export *)
(* of the object are two steps: the dispatcher thread may run in between.  *)
(* The frontend may give a path to a session again at any time.            *)
CreateArrive(k, p, a) ==
    /\ Arrive(k, p, a, "creating", None)
    /\ UNCHANGED <<sessions, objects, queue, worker, blocked, closedSig, overlapped>>
    /\ UNCHANGED castVars

(* What may still act on a path: a Select or Start task, a cast thread, a  *)
(* close job in the queue or at work, another CreateSession.               *)
InUse(p, k) ==
    \/ \E j \in SelectCalls \cup StartCalls :
          path[j] = p /\ pc[j] \notin {"idle", "replied", "done"}
    \/ \E j \in Running : path[j] = p
    \/ \E i \in 1..Len(queue) : OfSession(queue[i]) /\ queue[i].path = p
    \/ worker.at # "recv" /\ worker.path = p
    \/ \E j \in CreateCalls \ {k} : path[j] = p /\ pc[j] = "exporting"

CreateInsert(k) ==
    /\ blocked = None
    /\ pc[k] = "creating"
    /\ \/ /\ k \in closedReq
          /\ Return(k, "cancelled")
          /\ UNCHANGED <<sessions, overlapped>>
       \/ /\ k \notin closedReq
          /\ ~CanInsert(sessions, path[k])
          /\ Return(k, "refused")
          /\ UNCHANGED <<sessions, overlapped>>
       \/ /\ k \notin closedReq
          /\ CanInsert(sessions, path[k])
          /\ sessions' = Insert(sessions, path[k], app[k], k)
          /\ overlapped' = IF InUse(path[k], k) THEN overlapped \cup {k} ELSE overlapped
          /\ Goto(k, "exporting")
    /\ UNCHANGED <<objects, queue, worker, blocked, closedSig>>
    /\ UNCHANGED castVars

(* ObjectServer::at succeeds, finds the path taken, or fails; the last two *)
(* roll the registry back by path, dropping whatever session is there.     *)
CreateExport(k) ==
    /\ blocked = None
    /\ pc[k] = "exporting"
    /\ \/ /\ path[k] \notin objects
          /\ objects' = objects \cup {path[k]}
          /\ Return(k, "success")
          /\ UNCHANGED <<sessions, stopped>>
       \/ /\ \/ path[k] \in objects /\ Return(k, "refused")
             \/ Return(k, "error")
          /\ sessions' = Remove(sessions, path[k])
          /\ stopped' = stopped \cup Dropped(sessions, path[k])
          /\ UNCHANGED objects
    /\ UNCHANGED <<queue, cast, completed, reserved, worker, blocked, closedSig, overlapped>>

(* The frontend uses a session only once its CreateSession has returned.   *)
Creating(p) == \E k \in CreateCalls : path[k] = p /\ pc[k] \in CreatePc

(* SelectSources and Start only check that the session exists, register    *)
(* the request and try_send the job: a full queue is refused with 2.       *)
(* Mutant: the capacity check is off by one. *)
EnqueueOneTooMany(k, p, a, kind) ==
    /\ ~Creating(p)
    /\ sessions[p] # None
    /\ Len(queue) <= QueueCap
    /\ Arrive(k, p, a, "queued", None)
    /\ queue' = Append(queue, [kind |-> kind, call |-> k])
    /\ UNCHANGED <<sessions, objects, worker, blocked, closedSig, overlapped>>
    /\ UNCHANGED castVars

Enqueue(k, p, a, kind) ==
    /\ ~Creating(p)
    /\ \/ /\ sessions[p] = None
          /\ Arrive(k, p, a, "done", "error")
          /\ UNCHANGED queue
       \/ /\ sessions[p] # None
          /\ Len(queue) = QueueCap
          /\ Arrive(k, p, a, "done", "refused")
          /\ UNCHANGED queue
       \/ /\ sessions[p] # None
          /\ Len(queue) < QueueCap
          /\ Arrive(k, p, a, "queued", None)
          /\ queue' = Append(queue, [kind |-> kind, call |-> k])
    /\ UNCHANGED <<sessions, objects, worker, blocked, closedSig, overlapped>>
    /\ UNCHANGED castVars

(* Options of an ill shape (validate_select_shape) are an error before the *)
(* request is registered.                                                  *)
Misshapen(k, p, a) ==
    /\ ~Creating(p)
    /\ sessions[p] # None
    /\ Arrive(k, p, a, "done", "error")
    /\ UNCHANGED <<sessions, objects, queue, worker, blocked, closedSig, overlapped>>
    /\ UNCHANGED castVars

SelectArrive(k, p, a) == Enqueue(k, p, a, "SelectSources") \/ Misshapen(k, p, a)

StartArrive(k, p, a) == Enqueue(k, p, a, "Start")

(* SessionIface.close sends a blocking job from the executor thread: with  *)
(* the queue full, no other handler runs until the dispatcher makes room.  *)
SessionClose(k, p) ==
    /\ ~Creating(p)
    /\ p \in objects
    /\ \/ /\ Len(queue) < QueueCap
          /\ Arrive(k, p, None, "done", "success")
          /\ queue' = Append(queue, [kind |-> "CloseSession", path |-> p])
          /\ UNCHANGED blocked
       \/ /\ Len(queue) = QueueCap
          /\ Arrive(k, p, None, "sending", None)
          /\ blocked' = k
          /\ UNCHANGED queue
    /\ UNCHANGED <<sessions, objects, worker, closedSig, overlapped>>
    /\ UNCHANGED castVars

SessionCloseSent(k) ==
    /\ blocked = k
    /\ Len(queue) < QueueCap
    /\ queue' = Append(queue, [kind |-> "CloseSession", path |-> path[k]])
    /\ blocked' = None
    /\ Return(k, "success")
    /\ UNCHANGED <<sessions, objects, worker, closedSig, overlapped>>
    /\ UNCHANGED castVars

-----------------------------------------------------------------------------
(* The dispatcher thread (cast_worker).                                    *)

Receive(job) ==
    /\ worker.at = "recv"
    /\ queue # <<>>
    /\ job = Head(queue)
    /\ queue' = Tail(queue)

(* A request gets a task thread of its own unless the limit is reached or  *)
(* the thread cannot be spawned; both answer 2.                            *)
Spawn(job, to) ==
    /\ Receive(job)
    /\ \/ /\ Cardinality(Active) < MaxActive
          /\ Goto(job.call, to)
       \/ Return(job.call, "refused")
    /\ UNCHANGED <<sessions, objects, worker, blocked, closedSig, overlapped>>
    /\ UNCHANGED castVars

SpawnSelect(k) == Spawn([kind |-> "SelectSources", call |-> k], "selecting")
SpawnStart(k) == Spawn([kind |-> "Start", call |-> k], "starting")

(* close_session: detach the session, tell its cast to stop; then join it, *)
(* emit Closed, and unexport the object, each of which takes its time.     *)
(* Mutant: the cast is joined before its stop socket is closed. *)
CloseDetachJoinsFirst(p, kind) ==
    /\ Receive([kind |-> kind, path |-> p])
    /\ IF sessions[p] = None
       THEN UNCHANGED <<sessions, worker>>
       ELSE /\ sessions' = Remove(sessions, p)
            /\ worker' = IF sessions[p].cast = None
                         THEN [at |-> "emit", path |-> p, id |-> sessions[p].id]
                         ELSE [at |-> "join", path |-> p, id |-> sessions[p].id,
                               cast |-> sessions[p].cast]
    /\ UNCHANGED <<objects, blocked, closedSig, overlapped>>
    /\ UNCHANGED callVars
    /\ UNCHANGED castVars

CloseDetach(p, kind) ==
    /\ Receive([kind |-> kind, path |-> p])
    /\ \/ /\ sessions[p] = None
          /\ UNCHANGED <<sessions, stopped, worker>>
       \/ /\ sessions[p] # None
          /\ sessions' = Remove(sessions, p)
          /\ stopped' = stopped \cup Dropped(sessions, p)
          /\ worker' = IF sessions[p].cast = None
                       THEN [at |-> "emit", path |-> p, id |-> sessions[p].id]
                       ELSE [at |-> "join", path |-> p, id |-> sessions[p].id,
                             cast |-> sessions[p].cast]
    /\ UNCHANGED <<objects, cast, completed, reserved, blocked, closedSig, overlapped>>
    /\ UNCHANGED callVars

CloseJoin ==
    /\ worker.at = "join"
    /\ cast[worker.cast] = "exited"
    /\ worker' = [at |-> "emit", path |-> worker.path, id |-> worker.id]
    /\ UNCHANGED <<sessions, objects, queue, blocked, closedSig, overlapped>>
    /\ UNCHANGED callVars
    /\ UNCHANGED castVars

CloseEmit ==
    /\ worker.at = "emit"
    /\ closedSig' = closedSig \cup {worker.id}
    /\ worker' = [worker EXCEPT !.at = "unexport"]
    /\ UNCHANGED <<sessions, objects, queue, blocked, overlapped>>
    /\ UNCHANGED callVars
    /\ UNCHANGED castVars

(* Mutant: the object stays exported. *)
CloseKeepsObject ==
    /\ worker.at = "unexport"
    /\ worker' = [at |-> "recv"]
    /\ UNCHANGED <<sessions, objects, queue, blocked, closedSig, overlapped>>
    /\ UNCHANGED callVars
    /\ UNCHANGED castVars

CloseUnexport ==
    /\ worker.at = "unexport"
    /\ objects' = objects \ {worker.path}
    /\ worker' = [at |-> "recv"]
    /\ UNCHANGED <<sessions, queue, blocked, closedSig, overlapped>>
    /\ UNCHANGED callVars
    /\ UNCHANGED castVars

-----------------------------------------------------------------------------
(* A SelectSources task.                                                   *)

(* Closed already, refused by validate_select, restored from a valid       *)
(* token without any dialog, or the user has to be asked.                  *)
SelectBegin(k) ==
    /\ pc[k] = "selecting"
    /\ \/ k \in closedReq /\ TaskReply(k, "cancelled")
       \/ k \notin closedReq /\ TaskReply(k, "refused")
       \/ k \notin closedReq /\ \E to \in {"asking", "checking"} : Goto(k, to)
    /\ UNCHANGED <<sessions, objects, queue, worker, blocked, closedSig, overlapped>>
    /\ UNCHANGED castVars

(* The source chooser, the window pick and the compositor's confirmation.  *)
SelectAnswer(k) ==
    /\ pc[k] = "asking"
    /\ \/ \E code \in {"cancelled", "refused"} : TaskReply(k, code)
       \/ Goto(k, "checking")
    /\ UNCHANGED <<sessions, objects, queue, worker, blocked, closedSig, overlapped>>
    /\ UNCHANGED castVars

(* was_closed, last read before the session is armed. *)
SelectCheck(k) ==
    /\ pc[k] = "checking"
    /\ IF k \in closedReq THEN TaskReply(k, "cancelled") ELSE Goto(k, "arming")
    /\ UNCHANGED <<sessions, objects, queue, worker, blocked, closedSig, overlapped>>
    /\ UNCHANGED castVars

SelectArm(k) ==
    /\ pc[k] = "arming"
    /\ \/ /\ CanSelect(sessions, path[k], app[k])
          /\ sessions' = MarkSourcesSelected(sessions, path[k], k)
          /\ TaskReply(k, "success")
       \/ /\ ~CanSelect(sessions, path[k], app[k])
          /\ TaskReply(k, "refused")
          /\ UNCHANGED sessions
    /\ UNCHANGED <<objects, queue, worker, blocked, closedSig, overlapped>>
    /\ UNCHANGED castVars

(* The closure ends and its ActiveGuard is dropped. *)
TaskExit(k) ==
    /\ pc[k] = "replied"
    /\ Goto(k, "done")
    /\ UNCHANGED <<sessions, objects, queue, worker, blocked, closedSig, overlapped>>
    /\ UNCHANGED castVars

-----------------------------------------------------------------------------
(* A Start task (start_cast).                                              *)

StartReserve(k) ==
    /\ pc[k] = "starting"
    /\ \/ /\ k \in closedReq
          /\ TaskReply(k, "cancelled")
          /\ UNCHANGED <<sessions, reserved>>
       \/ /\ k \notin closedReq
          /\ ~CanReserve(sessions, path[k], app[k])
          /\ TaskReply(k, "refused")
          /\ UNCHANGED <<sessions, reserved>>
       \/ /\ k \notin closedReq
          /\ CanReserve(sessions, path[k], app[k])
          /\ sessions' = ReserveStart(sessions, path[k])
          /\ reserved' = [reserved EXCEPT ![k] =
                            [id |-> sessions[path[k]].id, sel |-> sessions[path[k]].sel]]
          /\ Goto(k, "spawning")
    /\ UNCHANGED <<objects, queue, cast, completed, stopped, worker, blocked, closedSig, overlapped>>

StartSpawn(k) ==
    /\ pc[k] = "spawning"
    /\ \/ /\ cast' = [cast EXCEPT ![k] = "negotiating"]
          /\ Goto(k, "negotiating")
          /\ UNCHANGED sessions
       \/ /\ sessions' = ClearStart(sessions, path[k])
          /\ TaskReply(k, "refused")
          /\ UNCHANGED cast
    /\ UNCHANGED <<objects, queue, completed, stopped, reserved, worker, blocked, closedSig, overlapped>>

(* Mutant: recv instead of recv_timeout. *)
StartWaitsForever(k) ==
    /\ pc[k] = "negotiating"
    /\ k \in completed
    /\ Goto(k, "installing")
    /\ UNCHANGED <<sessions, objects, queue, worker, blocked, closedSig, overlapped>>
    /\ UNCHANGED castVars

(* recv_timeout(START_TIMEOUT): the cast reported, or it failed or timed   *)
(* out, or its end of the channel is gone.                                 *)
StartWait(k) ==
    /\ pc[k] = "negotiating"
    /\ \/ /\ k \in completed
          /\ k \notin closedReq
          /\ Goto(k, "installing")
          /\ UNCHANGED stopped
       \/ /\ k \in completed
          /\ k \in closedReq
          /\ stopped' = stopped \cup {k}
          /\ Goto(k, "aborting")
       \/ /\ k \notin completed
          /\ stopped' = stopped \cup {k}
          /\ Goto(k, "failing")
    /\ UNCHANGED <<sessions, objects, queue, cast, completed, reserved, worker,
                   blocked, closedSig, overlapped>>

(* Mutant: a cast whose session is gone is dropped without being stopped. *)
StartInstallLosesOrphan(k) ==
    /\ pc[k] = "installing"
    /\ IF sessions[path[k]] # None
       THEN /\ sessions' = MarkStarted(sessions, path[k], k)
            /\ stopped' = stopped \cup Dropped(sessions, path[k])
            /\ TaskReply(k, "success")
       ELSE /\ TaskReply(k, "cancelled")
            /\ UNCHANGED <<sessions, stopped>>
    /\ UNCHANGED <<objects, queue, cast, completed, reserved, worker, blocked, closedSig, overlapped>>

(* mark_started.  Storing a new stop socket drops the one it replaces.     *)
StartInstall(k) ==
    /\ pc[k] = "installing"
    /\ \/ /\ sessions[path[k]] # None
          /\ sessions' = MarkStarted(sessions, path[k], k)
          /\ stopped' = stopped \cup Dropped(sessions, path[k])
          /\ TaskReply(k, "success")
       \/ /\ sessions[path[k]] = None
          /\ stopped' = stopped \cup {k}
          /\ Goto(k, "orphaned")
          /\ UNCHANGED sessions
    /\ UNCHANGED <<objects, queue, cast, completed, reserved, worker, blocked, closedSig, overlapped>>

(* Mutant: an aborted Start forgets clear_start. *)
StartJoinKeepsMark(k) ==
    /\ pc[k] \in {"aborting", "failing", "orphaned"}
    /\ cast[k] = "exited"
    /\ sessions' = IF pc[k] = "failing" THEN ClearStart(sessions, path[k]) ELSE sessions
    /\ TaskReply(k, IF pc[k] = "failing" THEN "refused" ELSE "cancelled")
    /\ UNCHANGED <<objects, queue, cast, completed, stopped, reserved, worker,
                   blocked, closedSig, overlapped>>

(* Join the stopped cast, then clear the reservation (an orphan has none). *)
StartJoin(k) ==
    /\ pc[k] \in {"aborting", "failing", "orphaned"}
    /\ cast[k] = "exited"
    /\ sessions' = IF pc[k] = "orphaned" THEN sessions
                                         ELSE ClearStart(sessions, path[k])
    /\ TaskReply(k, IF pc[k] = "failing" THEN "refused" ELSE "cancelled")
    /\ UNCHANGED <<objects, queue, cast, completed, stopped, reserved, worker,
                   blocked, closedSig, overlapped>>

-----------------------------------------------------------------------------
(* A cast thread (cast_thread, run_cast).                                  *)

CastStep(k, from, to) ==
    /\ cast[k] \in from
    /\ cast' = [cast EXCEPT ![k] = to]
    /\ UNCHANGED <<sessions, objects, stopped, reserved, worker, blocked, closedSig, overlapped>>
    /\ UNCHANGED callVars

(* Node id and serial are both known: CastStarted is sent, once. *)
CastComplete(k) ==
    /\ CastStep(k, {"negotiating"}, "live")
    /\ completed' = completed \cup {k}
    /\ UNCHANGED queue

(* run_cast fails while setting up, or the stream errors before Paused. *)
CastFail(k) ==
    /\ CastStep(k, {"negotiating"}, "exited")
    /\ UNCHANGED <<queue, completed>>

(* The stop socket is readable: stopped_by_owner, no report. *)
CastStop(k) ==
    /\ k \in stopped
    /\ CastStep(k, {"negotiating", "live"}, "exited")
    /\ UNCHANGED <<queue, completed>>

(* Event::StreamEnded, disconnect or a failed restart: end_cast. *)
CastEnded(k) ==
    /\ CastStep(k, {"negotiating", "live"}, "reporting")
    /\ UNCHANGED <<queue, completed>>

(* A PipeWire error quits the loop of a started cast without end_cast. *)
CastError(k) ==
    /\ CastStep(k, {"live"}, "teardown")
    /\ UNCHANGED <<queue, completed>>

SendEnded(k) ==
    /\ Len(queue) < QueueCap
    /\ queue' = Append(queue, [kind |-> "SessionEnded", path |-> path[k]])

(* Mutant: end_cast only quits the loop. *)
CastQuitsSilently(k) ==
    /\ CastStep(k, {"reporting"}, "teardown")
    /\ UNCHANGED <<queue, completed>>

(* end_cast: a blocking send, then the loop quits. *)
CastReport(k) ==
    /\ SendEnded(k)
    /\ CastStep(k, {"reporting"}, "teardown")
    /\ UNCHANGED completed

(* Teardown reports a completed cast (once more, after end_cast), unless   *)
(* the stop socket was also seen in the loop's last iteration.             *)
CastTeardown(k) ==
    /\ \/ k \in completed /\ SendEnded(k)
       \/ (k \notin completed \/ k \in stopped) /\ UNCHANGED queue
    /\ CastStep(k, {"teardown"}, "exited")
    /\ UNCHANGED completed

-----------------------------------------------------------------------------
Client ==
    \/ \E k \in CreateCalls, p \in Paths, a \in Apps : CreateArrive(k, p, a)
    \/ \E k \in SelectCalls, p \in Paths, a \in Apps : SelectArrive(k, p, a)
    \/ \E k \in StartCalls, p \in Paths, a \in Apps : StartArrive(k, p, a)
    \/ \E k \in CloseCalls, p \in Paths : SessionClose(k, p)
    \/ \E k \in Requests : RequestClose(k)

Executor ==
    \/ \E k \in CreateCalls : CreateInsert(k) \/ CreateExport(k)
    \/ \E k \in CloseCalls : SessionCloseSent(k)

Dispatcher ==
    \/ \E k \in SelectCalls : SpawnSelect(k)
    \/ \E k \in StartCalls : SpawnStart(k)
    \/ \E p \in Paths : CloseDetach(p, "CloseSession")
    \/ \E p \in Paths : CloseDetach(p, "SessionEnded")
    \/ CloseJoin
    \/ CloseEmit
    \/ CloseUnexport

SelectTask(k) == SelectBegin(k) \/ SelectCheck(k) \/ SelectArm(k) \/ TaskExit(k)

StartTask(k) == \/ StartReserve(k) \/ StartSpawn(k) \/ StartWait(k)
                \/ StartInstall(k) \/ StartJoin(k) \/ TaskExit(k)

CastThread(k) == CastStop(k) \/ CastReport(k) \/ CastTeardown(k)

Compositor(k) == CastComplete(k) \/ CastFail(k) \/ CastEnded(k) \/ CastError(k)

Next ==
    \/ Client
    \/ Executor
    \/ Dispatcher
    \/ \E k \in SelectCalls : SelectTask(k) \/ SelectAnswer(k)
    \/ \E k \in StartCalls : StartTask(k) \/ CastThread(k) \/ Compositor(k)

Spec == Init /\ [][Next]_vars

(***************************************************************************)
(* Threads that are not blocked keep running, and every join and every     *)
(* blocking send of the code returns once it can.  Nothing is assumed of   *)
(* the client, the user (SelectAnswer) or the compositor: what bounds a    *)
(* negotiation is START_TIMEOUT, the third disjunct of StartWait.          *)
(***************************************************************************)
Fairness ==
    /\ WF_vars(Executor)
    /\ WF_vars(Dispatcher)
    /\ \A k \in SelectCalls : WF_vars(SelectTask(k))
    /\ \A k \in StartCalls : WF_vars(StartTask(k)) /\ WF_vars(CastThread(k))

FairSpec == Spec /\ Fairness

-----------------------------------------------------------------------------
(* Who answers for a running producer: a session of the registry, or the   *)
(* Start task that is still negotiating it.                                *)
Held(k) == \E p \in Paths : sessions[p] # None /\ sessions[p].cast = k
Negotiated(k) == pc[k] \in {"negotiating", "installing"}

(* Every running cast thread is owned or has been told to stop             *)
(* (session.rs:173 "return ownership so the caller can stop and join the   *)
(* orphan producer"): no interleaving of Close, the end of the stream and  *)
(* Start leaves a producer that nobody can ever stop.                      *)
NoOrphanProducer ==
    \A k \in Running : k \in stopped \/ Held(k) \/ Negotiated(k)

(* The incarnation a Start reserved. *)
SessionOf(k) == IF reserved[k] = None THEN None ELSE reserved[k].id

(* A session marked "starting" has a Start task that will install a cast   *)
(* or clear the mark: the reservation of reserve_start never leaks, which  *)
(* would refuse every later Start of the session.                          *)
ReservationBacked ==
    \A p \in Paths :
        sessions[p] # None /\ sessions[p].starting =>
            \E k \in StartCalls :
                /\ pc[k] \in StartPc \ {"starting", "orphaned"}
                /\ path[k] = p
                /\ SessionOf(k) = sessions[p].id

(* session.rs:52: "concurrent Start calls cannot create two producers for  *)
(* one session", whatever becomes of its path.  The sessions made while    *)
(* something of an earlier one was under way are the exception, here and   *)
(* in the next two: the code names everything by path (screencast.rs:873,  *)
(* :912, :982), and takes the later session for the earlier one.           *)
OneProducerPerSession ==
    \A j, k \in Running \ stopped :
        SessionOf(j) = SessionOf(k) /\ SessionOf(j) \notin overlapped => j = k

(* session.rs:173: "Install a negotiated cast only if the reserved session *)
(* still exists": the cast a session holds was reserved on that very       *)
(* session and streams the source its user agreed to.                      *)
InstalledWhereReserved ==
    \A p \in Paths :
        /\ sessions[p] # None
        /\ sessions[p].cast # None
        /\ sessions[p].id \notin overlapped
        => /\ SessionOf(sessions[p].cast) = sessions[p].id
           /\ reserved[sessions[p].cast].sel = sessions[p].sel

(* A session object is exported only while the registry knows the session  *)
(* or the dispatcher is closing it: otherwise Close would find nothing to  *)
(* remove and the path would stay taken for ever.  A late or repeated      *)
(* Close job does that to an overlapped session, and only to those.        *)
ObjectBacked ==
    \A p \in objects :
        \/ sessions[p] # None
        \/ worker.at # "recv" /\ worker.path = p
        \/ \E k \in overlapped : path[k] = p

(* screencast.rs:398: close and end events "remain responsive": the        *)
(* dispatcher always comes back to its queue.                              *)
DispatcherResponsive == worker.at # "recv" ~> worker.at = "recv"

(* Every Start that was queued is answered, whatever the compositor does.  *)
StartReturns == \A k \in StartCalls : pc[k] = "queued" ~> reply[k] # None

(* session.rs:7: a cast that ends from the compositor side takes the       *)
(* session with it; the frontend is told by Closed.                        *)
EndedSessionCloses ==
    \A k \in StartCalls :
        cast[k] = "reporting" ~> SessionOf(k) \in closedSig
=============================================================================
