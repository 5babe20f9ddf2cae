--------------------------- MODULE RequestDispatch ---------------------------
(***************************************************************************)
(* One prompting portal interface: method calls dispatched on the zbus     *)
(* executor (atrium-portal-runtime dispatch), the request objects and      *)
(* their cancellation tracker, the interface's worker thread behind a      *)
(* bounded queue, one task thread per admitted call, and the prompter      *)
(* child each task supervises (prompter.rs).  Every interface with a       *)
(* dialog has this shape; file_chooser.rs is the one followed here.        *)
(*                                                                         *)
(* The object server inserts and removes an object and the code touches    *)
(* the tracker with no await in between, so one variable holds both the    *)
(* exported handles and the tracker's active set.                          *)
(***************************************************************************)
EXTENDS Naturals, Sequences, FiniteSets

CONSTANTS
    Calls,          \* portal method calls; each is made at most once
    CloseCalls,     \* Request.Close method calls
    Handles,        \* request object paths chosen by the frontend
    LargeCalls,     \* calls whose encoded request does not fit in a pipe
    QueueCap,       \* MAX_QUEUED_REQUESTS: capacity of the job channel
    MaxActive,      \* MAX_ACTIVE_FILE_CHOOSERS
    None

(* Portal response codes 0, 1 and 2, and a D-Bus error. *)
Codes == {"success", "cancelled", "refused", "error"}

ASSUME DispatchAssumption ==
    /\ None \notin Calls \cup CloseCalls \cup Handles \cup Codes
    /\ Calls \cap CloseCalls = {}
    /\ LargeCalls \subseteq Calls
    /\ QueueCap \in Nat \ {0}
    /\ MaxActive \in Nat \ {0}

VARIABLES
    status,         \* per call: idle, open (awaiting the reply), its answer
    handle,         \* per call: the handle it came with
    served,         \* handles with a request object, the tracker's active
    closed,         \* the tracker's closed set
    closing,        \* per Close: the object it was dispatched to, or None
    jobs,           \* the worker's channel
    worker,         \* the worker thread
    count,          \* its atomic count of active tasks
    task,           \* per call: where its task thread is
    resp,           \* per call: its one-slot reply channel
    child,          \* per call: the prompter process
    aim,            \* history: per Close, the call it was meant for
    cancelled       \* history: calls whose Close was recorded in time

tracker == <<served, closed>>
vars == <<status, handle, served, closed, closing, jobs, worker, count, task,
          resp, child, aim, cancelled>>

(* A task thread, from its spawn to the drop of its ActiveGuard. *)
Supervising == {"writing", "polling"}
Undecided == {"begin", "answered"} \cup Supervising
Threads == {k \in Calls : task[k] \in Undecided \cup {"passed", "replied"}}

(* A prompter: not started, running, has read its request, exited with an  *)
(* answer, or killed.                                                      *)
ChildAnswers == {"selected", "dismissed", "garbled", "crashed"}
Alive == {k \in Calls : child[k] \in {"running", "reading"}}

Open == {k \in Calls : status[k] = "open"}

TypeOK ==
    /\ status \in [Calls -> {"idle", "open"} \cup Codes]
    /\ handle \in [Calls -> Handles \cup {None}]
    /\ served \subseteq Handles
    /\ closed \subseteq Handles
    /\ closing \in [CloseCalls -> Handles \cup {None}]
    /\ jobs \in Seq(Calls) /\ Len(jobs) <= QueueCap
    /\ worker \in [at : {"recv"}] \cup [at : {"admit"}, call : Calls, over : BOOLEAN]
    /\ count \in Nat
    /\ task \in [Calls -> {"none", "queued", "passed", "replied", "exited"} \cup Undecided]
    /\ resp \in [Calls -> Codes \cup {None}]
    /\ child \in [Calls -> {"none", "running", "reading", "killed"} \cup ChildAnswers]
    /\ aim \in [CloseCalls -> Calls \cup {None}]
    /\ cancelled \subseteq Calls

Init ==
    /\ status = [k \in Calls |-> "idle"]
    /\ handle = [k \in Calls |-> None]
    /\ served = {}
    /\ closed = {}
    /\ closing = [x \in CloseCalls |-> None]
    /\ jobs = <<>>
    /\ worker = [at |-> "recv"]
    /\ count = 0
    /\ task = [k \in Calls |-> "none"]
    /\ resp = [k \in Calls |-> None]
    /\ child = [k \in Calls |-> "none"]
    /\ aim = [x \in CloseCalls |-> None]
    /\ cancelled = {}

-----------------------------------------------------------------------------
(* The executor.                                                           *)

Register(h) == served' = served \cup {h}

(* finish: the object is removed and the marker forgotten. *)
Finish(h) == served' = served \ {h} /\ closed' = closed \ {h}

(* A method call arrives and runs up to its await of the reply: invalid,   *)
(* its handle taken, the queue full (registered, then finished), or        *)
(* queued.  The executor starts tasks in the order of the messages that    *)
(* made them, so an earlier Close of the same handle has run by now.       *)
Arrive(k, h) ==
    /\ status[k] = "idle"
    /\ \A x \in CloseCalls : closing[x] # h
    /\ \/ /\ status' = [status EXCEPT ![k] = "refused"]
          /\ UNCHANGED <<served, closed, jobs, task>>
       \/ /\ h \in served
          /\ status' = [status EXCEPT ![k] = "error"]
          /\ UNCHANGED <<served, closed, jobs, task>>
       \/ /\ h \notin served
          /\ Len(jobs) = QueueCap
          /\ Finish(h)
          /\ status' = [status EXCEPT ![k] = "refused"]
          /\ UNCHANGED <<jobs, task>>
       \/ /\ h \notin served
          /\ Len(jobs) < QueueCap
          /\ Register(h)
          /\ jobs' = Append(jobs, k)
          /\ status' = [status EXCEPT ![k] = "open"]
          /\ task' = [task EXCEPT ![k] = "queued"]
          /\ UNCHANGED closed
    /\ handle' = [handle EXCEPT ![k] = h]
    /\ UNCHANGED <<closing, worker, count, resp, child, aim, cancelled>>

(* The reply is received, or its sender was dropped. *)
Return(k) ==
    /\ k \in Open
    /\ resp[k] # None
    /\ Finish(handle[k])
    /\ status' = [status EXCEPT ![k] = resp[k]]
    /\ UNCHANGED <<handle, closing, jobs, worker, count, task, resp, child, aim,
                   cancelled>>

(* Request.Close finds the object; the call itself is a task of its own,   *)
(* and the request may be finished before that task runs.                  *)
CloseArrive(x, k) ==
    /\ aim[x] = None
    /\ k \in Open
    /\ handle[k] \in served
    /\ closing' = [closing EXCEPT ![x] = handle[k]]
    /\ aim' = [aim EXCEPT ![x] = k]
    /\ UNCHANGED <<status, handle, jobs, worker, count, task, resp, child, cancelled>>
    /\ UNCHANGED tracker

(* In time: the task has not read the marker for the last time.            *)
InTime(h) == {k \in Open : handle[k] = h /\ task[k] \in Undecided \cup {"queued"}}

(* Mutant: the marker is recorded whether or not the request is in flight. *)
CloseMarkAlways(x) ==
    /\ closing[x] # None
    /\ closing' = [closing EXCEPT ![x] = None]
    /\ closed' = closed \cup {closing[x]}
    /\ cancelled' = cancelled \cup InTime(closing[x])
    /\ UNCHANGED <<status, handle, served, jobs, worker, count, task, resp, child, aim>>

(* mark_closed: only while the request is in flight. *)
CloseMark(x) ==
    /\ closing[x] # None
    /\ closing' = [closing EXCEPT ![x] = None]
    /\ IF closing[x] \in served
       THEN /\ closed' = closed \cup {closing[x]}
            /\ cancelled' = cancelled \cup InTime(closing[x])
       ELSE UNCHANGED <<closed, cancelled>>
    /\ UNCHANGED <<status, handle, served, jobs, worker, count, task, resp, child, aim>>

-----------------------------------------------------------------------------
(* The worker thread.                                                      *)

WasClosed(k) == handle[k] \in closed

WorkerTake ==
    /\ worker.at = "recv"
    /\ jobs # <<>>
    /\ worker' = [at |-> "admit", call |-> Head(jobs), over |-> count >= MaxActive]
    /\ count' = count + 1
    /\ jobs' = Tail(jobs)
    /\ UNCHANGED <<status, handle, closing, task, resp, child, aim, cancelled>>
    /\ UNCHANGED tracker

(* Mutant: the refusal gives the count back twice. *)
WorkerAdmitReturnsTwice ==
    /\ worker.at = "admit"
    /\ worker' = [at |-> "recv"]
    /\ LET k == worker.call
       IN \/ /\ ~worker.over
             /\ task' = [task EXCEPT ![k] = "begin"]
             /\ UNCHANGED <<count, resp>>
          \/ /\ task' = [task EXCEPT ![k] = "exited"]
             /\ resp' = [resp EXCEPT ![k] = "refused"]
             /\ count' = count - 2
    /\ UNCHANGED <<status, handle, closing, jobs, child, aim, cancelled>>
    /\ UNCHANGED tracker

(* Mutant: the refusal does not give the count back. *)
WorkerAdmitLeaks ==
    /\ worker.at = "admit"
    /\ worker' = [at |-> "recv"]
    /\ LET k == worker.call
       IN IF worker.over
          THEN /\ task' = [task EXCEPT ![k] = "exited"]
               /\ resp' = [resp EXCEPT ![k] = "refused"]
          ELSE /\ task' = [task EXCEPT ![k] = "begin"]
               /\ UNCHANGED resp
    /\ UNCHANGED <<status, handle, closing, jobs, count, child, aim, cancelled>>
    /\ UNCHANGED tracker

(* Mutant: the worker waits for a free slot instead of refusing. *)
WorkerAdmitWaits ==
    /\ worker.at = "admit"
    /\ Cardinality(Threads) < MaxActive
    /\ worker' = [at |-> "recv"]
    /\ task' = [task EXCEPT ![worker.call] = "begin"]
    /\ UNCHANGED <<status, handle, closing, jobs, count, resp, child, aim, cancelled>>
    /\ UNCHANGED tracker

(* Over the limit, or no thread: refused, and the count given back.        *)
WorkerAdmit ==
    /\ worker.at = "admit"
    /\ worker' = [at |-> "recv"]
    /\ LET k == worker.call
       IN \/ /\ ~worker.over
             /\ task' = [task EXCEPT ![k] = "begin"]
             /\ UNCHANGED <<count, resp>>
          \/ /\ task' = [task EXCEPT ![k] = "exited"]
             /\ resp' = [resp EXCEPT ![k] = "refused"]
             /\ count' = count - 1
    /\ UNCHANGED <<status, handle, closing, jobs, child, aim, cancelled>>
    /\ UNCHANGED tracker

-----------------------------------------------------------------------------
(* A task thread (run_pick, prompter::invoke).                             *)

Step(k, from, to) ==
    /\ task[k] = from
    /\ task' = [task EXCEPT ![k] = to]

Reply(k, code) == resp' = [resp EXCEPT ![k] = code]

TaskUnchanged == UNCHANGED <<status, handle, served, closed, closing, jobs, worker,
                             aim, cancelled>>

(* Closed while it waited in the queue, the prompter cannot be started, or *)
(* it is running.                                                          *)
TaskBegin(k) ==
    /\ \/ /\ Step(k, "begin", "replied")
          /\ IF WasClosed(k) THEN Reply(k, "cancelled") ELSE Reply(k, "refused")
          /\ UNCHANGED child
       \/ /\ ~WasClosed(k)
          /\ Step(k, "begin", "writing")
          /\ child' = [child EXCEPT ![k] = "running"]
          /\ UNCHANGED resp
    /\ UNCHANGED count
    /\ TaskUnchanged

(* The request is written before anything else is looked at: a small one   *)
(* fits in the pipe, a large one needs a prompter that reads, or is gone   *)
(* (EPIPE is not a failure).  Any other error terminates the prompter.     *)
TaskWrite(k) ==
    /\ \/ /\ k \notin LargeCalls \/ child[k] # "running"
          /\ Step(k, "writing", "polling")
          /\ UNCHANGED <<child, resp>>
       \/ /\ Step(k, "writing", "replied")
          /\ k \in Alive
          /\ k \notin LargeCalls \/ child[k] # "running"
          /\ child' = [child EXCEPT ![k] = "killed"]
          /\ Reply(k, "refused")
    /\ UNCHANGED count
    /\ TaskUnchanged

(* Mutant: a cancelled request leaves its prompter running. *)
TaskPollLeavesChild(k) ==
    /\ \/ /\ WasClosed(k)
          /\ Step(k, "polling", "replied")
          /\ Reply(k, "cancelled")
       \/ /\ ~WasClosed(k)
          /\ child[k] = "selected"
          /\ Step(k, "polling", "answered")
          /\ UNCHANGED resp
       \/ /\ ~WasClosed(k)
          /\ child[k] \in {"dismissed", "garbled", "crashed"}
          /\ Step(k, "polling", "replied")
          /\ Reply(k, "refused")
    /\ UNCHANGED <<child, count>>
    /\ TaskUnchanged

(* Mutant: the loop only waits for the prompter. *)
TaskPollIgnoresClose(k) ==
    /\ child[k] = "selected"
    /\ Step(k, "polling", "answered")
    /\ UNCHANGED <<resp, child, count>>
    /\ TaskUnchanged

Terminate(k) == child' = [child EXCEPT ![k] = IF k \in Alive THEN "killed" ELSE child[k]]

(* The 20 ms loop: cancellation first, then the exit of the prompter.  A   *)
(* response that is not JSON is refused, or panics the thread while its    *)
(* preview is cut at byte 256, which drops the reply sender.               *)
TaskPoll(k) ==
    /\ \/ /\ WasClosed(k)
          /\ Step(k, "polling", "replied")
          /\ Reply(k, "cancelled")
          /\ Terminate(k)
       \/ /\ ~WasClosed(k)
          /\ child[k] = "selected"
          /\ Step(k, "polling", "answered")
          /\ UNCHANGED <<resp, child>>
       \/ /\ ~WasClosed(k)
          /\ \/ child[k] = "dismissed" /\ Reply(k, "cancelled")
             \/ child[k] \in {"garbled", "crashed"} /\ Reply(k, "refused")
             \/ child[k] = "garbled" /\ Reply(k, "error")
          /\ Step(k, "polling", "replied")
          /\ UNCHANGED child
    /\ UNCHANGED count
    /\ TaskUnchanged

(* The same loop when try_wait fails: the prompter is terminated.  Nothing *)
(* makes it fail, so no fairness is asked of this step.                    *)
TaskPollError(k) ==
    /\ ~WasClosed(k)
    /\ Step(k, "polling", "replied")
    /\ Reply(k, "refused")
    /\ Terminate(k)
    /\ UNCHANGED count
    /\ TaskUnchanged

(* Mutant: the answer is taken without looking at the tracker again. *)
TaskCheckNothing(k) ==
    /\ Step(k, "answered", "passed")
    /\ UNCHANGED <<resp, child, count>>
    /\ TaskUnchanged

(* Request.Close wins a race with a completed response; a response that    *)
(* does not fit the request is refused.                                    *)
TaskCheck(k) ==
    /\ \/ WasClosed(k) /\ Step(k, "answered", "replied") /\ Reply(k, "cancelled")
       \/ ~WasClosed(k) /\ Step(k, "answered", "replied") /\ Reply(k, "refused")
       \/ ~WasClosed(k) /\ Step(k, "answered", "passed") /\ UNCHANGED resp
    /\ UNCHANGED <<child, count>>
    /\ TaskUnchanged

TaskSucceed(k) ==
    /\ Step(k, "passed", "replied")
    /\ Reply(k, "success")
    /\ UNCHANGED <<child, count>>
    /\ TaskUnchanged

(* The closure ends: its ActiveGuard gives the count back. *)
TaskExit(k) ==
    /\ Step(k, "replied", "exited")
    /\ count' = count - 1
    /\ UNCHANGED <<resp, child>>
    /\ TaskUnchanged

-----------------------------------------------------------------------------
(* The prompter process and its user.                                      *)

ChildStep(k, to) ==
    /\ child' = [child EXCEPT ![k] = to]
    /\ UNCHANGED <<status, handle, closing, jobs, worker, count, task, resp, aim,
                   cancelled>>
    /\ UNCHANGED tracker

ChildRead(k) == child[k] = "running" /\ ChildStep(k, "reading")

(* Only a prompter that has read the whole request can answer it. *)
ChildExit(k, answer) ==
    /\ k \in Alive
    /\ answer \in {"selected", "dismissed"} => child[k] = "reading" /\ task[k] = "polling"
    /\ ChildStep(k, answer)

-----------------------------------------------------------------------------
Client ==
    \/ \E k \in Calls, h \in Handles : Arrive(k, h)
    \/ \E x \in CloseCalls, k \in Calls : CloseArrive(x, k)

Executor ==
    \/ \E k \in Calls : Return(k)
    \/ \E x \in CloseCalls : CloseMark(x)

Worker == WorkerTake \/ WorkerAdmit

Task(k) == \/ TaskBegin(k) \/ TaskWrite(k) \/ TaskPoll(k)
           \/ TaskCheck(k) \/ TaskSucceed(k) \/ TaskExit(k)

Prompter(k) == ChildRead(k) \/ \E answer \in ChildAnswers : ChildExit(k, answer)

Next ==
    \/ Client
    \/ Executor
    \/ Worker
    \/ \E k \in Calls : Task(k) \/ TaskPollError(k) \/ Prompter(k)

Spec == Init /\ [][Next]_vars

(* The daemon's own threads keep running; a prompter and its user need not *)
(* do anything, ever.                                                      *)
Fairness ==
    /\ \A k \in Calls : WF_vars(Return(k)) /\ WF_vars(Task(k))
    /\ \A x \in CloseCalls : WF_vars(CloseMark(x))
    /\ WF_vars(Worker)

FairSpec == Spec /\ Fairness

-----------------------------------------------------------------------------
Contract == INSTANCE PortalRequest WITH
    Calls <- Calls,
    Handles <- Handles,
    None <- None,
    status <- status,
    handle <- handle,
    cancelled <- cancelled

(* The runtime keeps the contract of PortalRequest: one open call per      *)
(* handle ("a duplicate handle is a protocol error rather than an          *)
(* opportunity to share cancellation state", runtime lib.rs:83), one       *)
(* answer per call, and no success after a Close that came in time         *)
(* ("Request.Close wins a race with a completed child response",           *)
(* file_chooser.rs:241).                                                   *)
KeepsContract == Contract!ContractSpec

(* A call is told it was cancelled only if its user dismissed the dialog   *)
(* or a Close was meant for that very call.                                *)
NoFalseCancel ==
    \A k \in Calls :
        resp[k] = "cancelled" =>
            child[k] = "dismissed" \/ \E x \in CloseCalls : aim[x] = k

(* The active count is exact whenever the worker compares it with the      *)
(* limit: a leaked count would in the end refuse every request, a lost one *)
(* would lift the limit (file_chooser.rs:200).                             *)
CountExact ==
    /\ count = Cardinality(Threads) + (IF worker.at = "admit" THEN 1 ELSE 0)
    /\ Cardinality(Threads) <= MaxActive

(* No dialog outlives its request: a live prompter is supervised by the    *)
(* task of a call that is still open (prompter.rs:16 "terminates   *)
(* the child").                                                            *)
NoDialogOutlivesRequest ==
    \A k \in Alive : k \in Open /\ task[k] \in Supervising

(* account.rs:99: "one application leaving a prompt open cannot             *)
(* head-of-line block every other Account request".                        *)
NoHeadOfLineBlocking ==
    \A k \in Calls : task[k] = "queued" ~> task[k] # "queued"

(* prompter.rs:15: Request.Close "terminates the child immediately and     *)
(* answers the caller with code 1", however long the user would take.  A   *)
(* request too large for a pipe is left out: its task may stay in          *)
(* write_all for as long as the prompter does not read.                    *)
CancelledReturns ==
    \A k \in Calls \ LargeCalls : k \in cancelled ~> status[k] \notin {"idle", "open"}
=============================================================================
