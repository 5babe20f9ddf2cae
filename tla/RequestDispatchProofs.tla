------------------------ MODULE RequestDispatchProofs ------------------------
(***************************************************************************)
(* Proofs about RequestDispatch, for any number of calls, Closes and       *)
(* handles, any capacity of the queue and any limit on tasks.              *)
(*                                                                         *)
(* No property of RequestDispatch is inductive by itself.  Inv relates the *)
(* four records the code keeps of one call, which no lock spans: the reply *)
(* awaited on the executor, the object and the markers of the tracker, the *)
(* job in the channel, and the task thread.                                *)
(***************************************************************************)
EXTENDS RequestDispatch, FiniteSetTheorems, SequenceTheorems, TLAPS

USE DispatchAssumption

Waiting == {"queued"} \cup Undecided

(* A call that has a job or an undecided task is open and unanswered, and  *)
(* its prompter runs only while the task supervises it.                    *)
Progress ==
    \A k \in Calls :
        /\ task[k] \in Waiting \cup {"passed"} => status[k] = "open"
        /\ task[k] \in Waiting \cup {"none", "passed"} => resp[k] = None
        /\ status[k] = "idle" => task[k] = "none"
        /\ k \in Alive => task[k] \in Supervising

(* An open call has an object to itself, and only such objects are marked. *)
OneCallPerHandle ==
    /\ \A k \in Open : handle[k] \in served
    /\ \A j, k \in Open : handle[j] = handle[k] => j = k
    /\ closed \subseteq served

(* A call closed in time is marked until its task has looked, and then     *)
(* does not succeed.                                                       *)
Marked ==
    \A k \in cancelled :
        /\ task[k] \notin {"none", "passed"}
        /\ resp[k] # "success"
        /\ task[k] \in Waiting => WasClosed(k)

(* A Close about to run, and the marker it leaves, are at the handle of    *)
(* the call it was meant for, and of no other open one.                    *)
Meant ==
    /\ \A x \in CloseCalls : closing[x] # None =>
          \A k \in Open : handle[k] = closing[x] => aim[x] = k
    /\ \A k \in Open : WasClosed(k) => \E x \in CloseCalls : aim[x] = k
    /\ NoFalseCancel

(* Each job waits in one place, its task not yet begun. *)
JobsOK ==
    /\ \A i \in 1..Len(jobs) : task[jobs[i]] = "queued"
    /\ \A i, j \in 1..Len(jobs) : jobs[i] = jobs[j] => i = j
    /\ worker.at = "admit" =>
          /\ task[worker.call] = "queued"
          /\ \A i \in 1..Len(jobs) : jobs[i] # worker.call

(* What the worker found when it compared the count still bounds it. *)
Counted ==
    /\ IsFiniteSet(Threads)
    /\ CountExact
    /\ worker.at = "admit" /\ ~worker.over => Cardinality(Threads) < MaxActive

Inv == TypeOK /\ Progress /\ OneCallPerHandle /\ Marked /\ Meant /\ JobsOK /\ Counted

-----------------------------------------------------------------------------
(* The set of task threads, as one task moves.                             *)

ThreadStates == Undecided \cup {"passed", "replied"}

LEMMA ThreadStays ==
    ASSUME TypeOK, NEW k \in Calls, NEW to, task' = [task EXCEPT ![k] = to],
           task[k] \in ThreadStates <=> to \in ThreadStates
    PROVE  Threads' = Threads
  BY DEF TypeOK, Threads, ThreadStates

LEMMA ThreadBegins ==
    ASSUME TypeOK, NEW k \in Calls, task' = [task EXCEPT ![k] = "begin"],
           task[k] = "queued"
    PROVE  Threads' = Threads \cup {k} /\ k \notin Threads
  BY DEF TypeOK, Threads, Undecided, Supervising

LEMMA ThreadEnds ==
    ASSUME TypeOK, NEW k \in Calls, task' = [task EXCEPT ![k] = "exited"],
           task[k] \in ThreadStates
    PROVE  Threads' = Threads \ {k} /\ k \in Threads
  BY DEF TypeOK, Threads, ThreadStates, Undecided, Supervising

(* The worker's channel. *)

LEMMA JobAppend ==
    ASSUME TypeOK, NEW k \in Calls, Len(jobs) < QueueCap, jobs' = Append(jobs, k)
    PROVE  /\ jobs' \in Seq(Calls)
           /\ Len(jobs') = Len(jobs) + 1
           /\ \A i \in 1..Len(jobs) : jobs'[i] = jobs[i]
           /\ jobs'[Len(jobs) + 1] = k
  BY DEF TypeOK

LEMMA JobTail ==
    ASSUME TypeOK, jobs # <<>>, jobs' = Tail(jobs)
    PROVE  /\ jobs' \in Seq(Calls)
           /\ Len(jobs') = Len(jobs) - 1
           /\ \A i \in 1..Len(jobs') : jobs'[i] = jobs[i + 1]
           /\ Head(jobs) = jobs[1] /\ Head(jobs) \in Calls
           /\ 1 \in 1..Len(jobs)
  BY DEF TypeOK

LEMMA JobsStay ==
    ASSUME TypeOK, JobsOK, NEW k \in Calls, NEW to, task[k] # "queued",
           task' = [task EXCEPT ![k] = to], jobs' = jobs, worker' = worker
    PROVE  JobsOK'
<1>1. \A i \in 1..Len(jobs) : jobs[i] \in Calls
  BY DEF TypeOK
<1>2. worker.at = "admit" => worker.call \in Calls
  BY DEF TypeOK
<1>. QED  BY <1>1, <1>2 DEF TypeOK, JobsOK

-----------------------------------------------------------------------------
LEMMA InitInv == Init => Inv
<1>. SUFFICES ASSUME Init PROVE Inv
  OBVIOUS
<1>1. TypeOK
  BY DEF Init, TypeOK
<1>2. Progress
  BY DEF Init, Progress, Waiting, Undecided, Supervising, Alive
<1>5. OneCallPerHandle /\ Marked /\ Meant
  BY DEF Init, OneCallPerHandle, Marked, Meant, NoFalseCancel, WasClosed, Open, Codes
<1>3. JobsOK
  BY DEF Init, JobsOK
<1>4. Counted
  <2>1. Threads = {}
    BY DEF Init, Threads, Undecided, Supervising
  <2>. QED  BY <2>1, FS_EmptySet DEF Init, Counted, CountExact
<1>. QED  BY <1>1, <1>2, <1>5, <1>3, <1>4 DEF Inv

(* A call arrives; only a call that is queued has an object and a job.     *)
LEMMA ArriveInv ==
    ASSUME Inv, NEW k \in Calls, NEW h \in Handles, Arrive(k, h)
    PROVE  Inv'
<1>. USE DEF Inv
<1>0. /\ status[k] = "idle" /\ task[k] = "none"
      /\ handle' = [handle EXCEPT ![k] = h]
      /\ UNCHANGED <<closing, worker, count, resp, child, aim, cancelled>>
      /\ \A x \in CloseCalls : closing[x] # h
      /\ k \notin cancelled
  BY DEF Arrive, Progress, Marked
<1>1. CASE /\ status' \in {[status EXCEPT ![k] = "refused"], [status EXCEPT ![k] = "error"]}
           /\ served' = served /\ closed' = closed
           /\ UNCHANGED <<jobs, task>>
  <2>1. TypeOK'
    BY <1>0, <1>1 DEF TypeOK, Codes
  <2>2. Open' = Open /\ k \notin Open /\ \A j \in Calls : j # k => handle'[j] = handle[j]
    BY <1>0, <1>1 DEF TypeOK, Open
  <2>3. Progress'
    BY <1>0, <1>1 DEF Progress, TypeOK, Waiting, Undecided, Supervising, Alive
  <2>4. OneCallPerHandle'
    BY <1>1, <2>2 DEF OneCallPerHandle, Open
  <2>5. Marked'
    BY <1>0, <1>1, <2>2 DEF Marked, TypeOK, WasClosed
  <2>6. Meant'
    BY <1>0, <1>1, <2>2 DEF Meant, NoFalseCancel, WasClosed, Open
  <2>7. JobsOK' /\ Counted'
    BY <1>0, <1>1 DEF JobsOK, Counted, CountExact, Threads
  <2>. QED  BY <2>1, <2>3, <2>4, <2>5, <2>6, <2>7
<1>2. CASE /\ h \notin served
           /\ Len(jobs) < QueueCap
           /\ Register(h)
           /\ jobs' = Append(jobs, k)
           /\ status' = [status EXCEPT ![k] = "open"]
           /\ task' = [task EXCEPT ![k] = "queued"]
           /\ UNCHANGED closed
  <2>1. TypeOK'
    BY <1>0, <1>2, JobAppend DEF TypeOK, Register
  <2>2. /\ Open' = Open \cup {k} /\ k \notin Open
        /\ handle'[k] = h /\ \A j \in Calls : j # k => handle'[j] = handle[j]
        /\ \A j \in Open : handle'[j] = handle[j] /\ handle[j] # h
    BY <1>0, <1>2 DEF TypeOK, Open, OneCallPerHandle
  <2>3. Progress'
    <3>1. resp[k] = None /\ k \notin Alive
      BY <1>0 DEF Progress, Supervising
    <3>. QED  BY <1>0, <1>2, <3>1 DEF Progress, TypeOK, Waiting, Undecided, Supervising, Alive
  <2>4. OneCallPerHandle'
    BY <1>2, <2>2 DEF OneCallPerHandle, Register
  <2>5. Marked'
    BY <1>0, <1>2, <2>2 DEF Marked, TypeOK, WasClosed
  <2>6. Meant'
    BY <1>0, <1>2, <2>2 DEF Meant, NoFalseCancel, WasClosed, OneCallPerHandle
  <2>7. JobsOK'
    <3>1. \A i \in 1..Len(jobs) : jobs[i] \in Calls /\ jobs[i] # k
      BY <1>0 DEF TypeOK, JobsOK
    <3>2. worker.at = "admit" => worker.call \in Calls /\ worker.call # k
      BY <1>0 DEF TypeOK, JobsOK
    <3>. QED  BY <1>0, <1>2, <3>1, <3>2, JobAppend DEF TypeOK, JobsOK
  <2>8. Counted'
    <3>1. Threads' = Threads
      BY <1>0, <1>2, ThreadStays DEF ThreadStates, Undecided, Supervising
    <3>. QED  BY <1>0, <3>1 DEF Counted, CountExact
  <2>. QED  BY <2>1, <2>3, <2>4, <2>5, <2>6, <2>7, <2>8
<1>. QED
  <2>1. h \notin served /\ Finish(h) => served' = served /\ closed' = closed
    BY DEF Finish, OneCallPerHandle
  <2>. QED  BY <1>1, <1>2, <2>1 DEF Arrive

(* A call returns: its object and its marker go, those of others stay.     *)
LEMMA ReturnInv ==
    ASSUME Inv, NEW k \in Calls, Return(k)
    PROVE  Inv'
<1>. USE DEF Inv
<1>0. /\ k \in Open /\ resp[k] \in Codes /\ task[k] \notin Waiting \cup {"passed"}
      /\ served' = served \ {handle[k]} /\ closed' = closed \ {handle[k]}
      /\ status' = [status EXCEPT ![k] = resp[k]]
      /\ UNCHANGED <<handle, closing, jobs, worker, count, task, resp, child, aim,
                     cancelled>>
  BY DEF Return, Finish, Progress, TypeOK
<1>1. TypeOK'
  BY <1>0 DEF TypeOK
<1>2. /\ Open' = Open \ {k}
      /\ \A j \in Open \ {k} : handle[j] # handle[k]
  BY <1>0 DEF TypeOK, Open, Codes, OneCallPerHandle
<1>3. Progress'
  <2>1. status'[k] # "idle"
    BY <1>0 DEF TypeOK, Codes
  <2>. QED  BY <1>0, <2>1 DEF Progress, TypeOK, Waiting, Undecided, Supervising, Alive
<1>4. OneCallPerHandle'
  BY <1>0, <1>2 DEF OneCallPerHandle
<1>5. Marked'
  <2>. SUFFICES ASSUME NEW j \in cancelled, task[j] \in Waiting
                PROVE  handle[j] \in closed'
    BY <1>0 DEF Marked, WasClosed
  <2>1. j \in Open \ {k}
    BY <1>0 DEF Progress, Open, TypeOK
  <2>. QED  BY <1>0, <1>2, <2>1 DEF Marked, WasClosed
<1>6. Meant'
  BY <1>0, <1>2 DEF Meant, NoFalseCancel, WasClosed, OneCallPerHandle
<1>7. JobsOK' /\ Counted'
  BY <1>0 DEF JobsOK, Counted, CountExact, Threads
<1>. QED  BY <1>1, <1>3, <1>4, <1>5, <1>6, <1>7

(* Request.Close reaches the object of an open call.                       *)
LEMMA CloseArriveInv ==
    ASSUME Inv, NEW x \in CloseCalls, NEW k \in Calls, CloseArrive(x, k)
    PROVE  Inv'
<1>. USE DEF Inv
<1>0. /\ aim[x] = None /\ k \in Open
      /\ handle[k] \in Handles
      /\ closing' = [closing EXCEPT ![x] = handle[k]]
      /\ aim' = [aim EXCEPT ![x] = k]
      /\ UNCHANGED <<status, handle, served, closed, jobs, worker, count, task, resp,
                     child, cancelled>>
  BY DEF CloseArrive, tracker, OneCallPerHandle, TypeOK
<1>1. TypeOK'
  BY <1>0 DEF TypeOK
<1>2. Progress' /\ OneCallPerHandle' /\ Marked' /\ JobsOK' /\ Counted'
  BY <1>0 DEF Progress, OneCallPerHandle, Marked, JobsOK, Counted, CountExact, Threads,
              Open, Alive, WasClosed
<1>3. \A y \in CloseCalls : aim'[y] = IF y = x THEN k ELSE aim[y]
  BY <1>0 DEF TypeOK
<1>4. Meant'
  <2>1. \A y \in CloseCalls : closing'[y] # None =>
            \A j \in Open' : handle'[j] = closing'[y] => aim'[y] = j
    BY <1>0, <1>3 DEF Meant, OneCallPerHandle, TypeOK, Open
  <2>2. \A j \in Calls : (\E y \in CloseCalls : aim[y] = j) => \E y \in CloseCalls : aim'[y] = j
    BY <1>0, <1>3
  <2>3. \A j \in Open' : WasClosed(j)' => \E y \in CloseCalls : aim'[y] = j
    BY <1>0, <2>2 DEF Meant, WasClosed, Open
  <2>4. NoFalseCancel'
    BY <1>0, <2>2 DEF Meant, NoFalseCancel
  <2>. QED  BY <2>1, <2>3, <2>4 DEF Meant
<1>. QED  BY <1>1, <1>2, <1>4

(* And runs: the call it was meant for is closed, or nothing happens.      *)
LEMMA CloseMarkInv ==
    ASSUME Inv, NEW x \in CloseCalls, CloseMark(x)
    PROVE  Inv'
<1>. USE DEF Inv
<1>0. /\ closing[x] \in Handles
      /\ closing' = [closing EXCEPT ![x] = None]
      /\ \/ /\ closing[x] \in served
            /\ closed' = closed \cup {closing[x]}
            /\ cancelled' = cancelled \cup InTime(closing[x])
         \/ closed' = closed /\ cancelled' = cancelled
      /\ UNCHANGED <<status, handle, served, jobs, worker, count, task, resp, child, aim>>
  BY DEF CloseMark, TypeOK
<1>1. TypeOK'
  BY <1>0 DEF TypeOK, InTime, Open
<1>2. Progress' /\ OneCallPerHandle' /\ JobsOK' /\ Counted'
  BY <1>0 DEF Progress, OneCallPerHandle, JobsOK, Counted, CountExact, Threads, Open, Alive
<1>3. Marked'
  <2>1. \A k \in InTime(closing[x]) :
            /\ k \in Calls /\ task[k] \in Waiting /\ resp[k] = None
            /\ handle[k] = closing[x]
    BY DEF InTime, Progress, Waiting, Open
  <2>2. \A k \in Calls : task[k] \in Waiting => task[k] \notin {"none", "passed"}
    BY DEF Waiting, Undecided, Supervising
  <2>. QED  BY <1>0, <2>1, <2>2 DEF Marked, WasClosed, Codes
<1>4. Meant'
  <2>1. aim[x] \in Calls \cup {None} /\ closing[x] # None
    BY <1>0 DEF TypeOK
  <2>2. \A k \in Open : handle[k] = closing[x] => aim[x] = k
    BY <2>1 DEF Meant
  <2>. QED  BY <1>0, <2>2 DEF Meant, NoFalseCancel, WasClosed, Open, TypeOK
<1>. QED  BY <1>1, <1>2, <1>3, <1>4

(* The worker compares the count with the limit and adds to it at once,    *)
LEMMA WorkerTakeInv ==
    ASSUME Inv, WorkerTake
    PROVE  Inv'
<1>. USE DEF Inv
<1>0. /\ worker.at = "recv" /\ jobs # <<>>
      /\ worker' = [at |-> "admit", call |-> Head(jobs), over |-> count >= MaxActive]
      /\ count' = count + 1
      /\ jobs' = Tail(jobs)
      /\ UNCHANGED <<status, handle, served, closed, closing, task, resp, child, aim,
                     cancelled>>
  BY DEF WorkerTake, tracker
<1>1. /\ jobs' \in Seq(Calls) /\ Len(jobs') = Len(jobs) - 1
      /\ \A i \in 1..Len(jobs') : jobs'[i] = jobs[i + 1] /\ i + 1 \in 1..Len(jobs)
      /\ Head(jobs) = jobs[1] /\ Head(jobs) \in Calls /\ 1 \in 1..Len(jobs)
  BY <1>0, JobTail DEF TypeOK
<1>2. TypeOK'
  <2>1. worker' \in [at : {"admit"}, call : Calls, over : BOOLEAN]
    BY <1>0, <1>1
  <2>2. count' \in Nat /\ Len(jobs') <= QueueCap
    BY <1>0, <1>1 DEF TypeOK
  <2>. QED  BY <1>0, <1>1, <2>1, <2>2 DEF TypeOK
<1>3. Progress' /\ OneCallPerHandle' /\ Marked' /\ Meant'
  BY <1>0 DEF Progress, OneCallPerHandle, Marked, Meant, NoFalseCancel, Open, Alive,
              WasClosed
<1>4. JobsOK'
  <2>1. \A i \in 1..Len(jobs') : task[jobs'[i]] = "queued" /\ jobs'[i] # Head(jobs)
    BY <1>1 DEF JobsOK
  <2>2. \A i, j \in 1..Len(jobs') : jobs'[i] = jobs'[j] => i = j
    <3>. SUFFICES ASSUME NEW i \in 1..Len(jobs'), NEW j \in 1..Len(jobs'), jobs'[i] = jobs'[j]
                  PROVE  i = j
      OBVIOUS
    <3>1. i + 1 = j + 1
      BY <1>1 DEF JobsOK
    <3>. QED  BY <3>1
  <2>3. task[Head(jobs)] = "queued"
    BY <1>1 DEF JobsOK
  <2>. QED  BY <1>0, <2>1, <2>2, <2>3 DEF JobsOK
<1>5. Counted'
  <2>1. IsFiniteSet(Threads') /\ Threads' = Threads /\ Cardinality(Threads) \in Nat
    BY <1>0, FS_CardinalityType DEF Counted, Threads
  <2>2. count = Cardinality(Threads) /\ Cardinality(Threads) <= MaxActive
    BY <1>0, <2>1 DEF Counted, CountExact
  <2>3. worker'.at = "admit" /\ worker'.over = (count >= MaxActive)
    BY <1>0
  <2>4. CountExact'
    BY <1>0, <2>1, <2>2, <2>3 DEF CountExact
  <2>5. ~worker'.over => Cardinality(Threads) < MaxActive
    <3>1. ~worker'.over => ~(count >= MaxActive)
      BY <2>3
    <3>. QED  BY <2>1, <2>2, <3>1 DEF TypeOK
  <2>. QED  BY <2>1, <2>4, <2>5 DEF Counted
<1>. QED  BY <1>2, <1>3, <1>4, <1>5

(* and then spawns the task, or refuses and gives the count back.          *)
LEMMA WorkerAdmitInv ==
    ASSUME Inv, WorkerAdmit
    PROVE  Inv'
<1>. USE DEF Inv
<1>. DEFINE k == worker.call
<1>0. /\ worker.at = "admit" /\ k \in Calls /\ task[k] = "queued" /\ k \notin Alive
      /\ worker' = [at |-> "recv"]
      /\ UNCHANGED <<status, handle, served, closed, closing, jobs, child, aim, cancelled>>
  BY DEF WorkerAdmit, tracker, TypeOK, JobsOK, Progress, Supervising
<1>1. /\ resp[k] = None
      /\ Open' = Open /\ Alive' = Alive
      /\ worker' \in [at : {"recv"}]
      /\ \A i \in 1..Len(jobs) : jobs[i] \in Calls \ {k}
  BY <1>0 DEF Progress, Waiting, Open, Alive, JobsOK, TypeOK
<1>2. /\ IsFiniteSet(Threads) /\ Cardinality(Threads) \in Nat
      /\ count = Cardinality(Threads) + 1 /\ Cardinality(Threads) <= MaxActive
  BY <1>0, FS_CardinalityType DEF Counted, CountExact
<1>3. CASE /\ ~worker.over
           /\ task' = [task EXCEPT ![k] = "begin"]
           /\ UNCHANGED <<count, resp>>
  <2>1. TypeOK'
    BY <1>0, <1>1, <1>3 DEF TypeOK, Undecided
  <2>2. Progress'
    BY <1>0, <1>1, <1>3 DEF Progress, TypeOK, Waiting, Undecided, Supervising
  <2>3. OneCallPerHandle' /\ Meant'
    BY <1>0, <1>1, <1>3 DEF OneCallPerHandle, Meant, NoFalseCancel, WasClosed
  <2>4. Marked'
    BY <1>0, <1>3 DEF Marked, WasClosed, TypeOK, Waiting, Undecided
  <2>5. JobsOK'
    BY <1>0, <1>1, <1>3 DEF JobsOK, TypeOK
  <2>6. Counted'
    <3>1. /\ Threads' = Threads \cup {k} /\ k \notin Threads
          /\ Cardinality(Threads) < MaxActive
      BY <1>0, <1>3, ThreadBegins DEF Counted
    <3>2. IsFiniteSet(Threads') /\ Cardinality(Threads') = Cardinality(Threads) + 1
      BY <1>2, <3>1, FS_AddElement
    <3>. QED  BY <1>0, <1>2, <1>3, <3>1, <3>2 DEF Counted, CountExact
  <2>. QED  BY <2>1, <2>2, <2>3, <2>4, <2>5, <2>6
<1>4. CASE /\ task' = [task EXCEPT ![k] = "exited"]
           /\ resp' = [resp EXCEPT ![k] = "refused"]
           /\ count' = count - 1
  <2>1. TypeOK'
    <3>1. count' \in Nat
      BY <1>2, <1>4
    <3>. QED  BY <1>0, <1>1, <1>4, <3>1 DEF TypeOK, Codes
  <2>2. Progress'
    BY <1>0, <1>1, <1>4 DEF Progress, TypeOK, Waiting, Undecided, Supervising
  <2>3. OneCallPerHandle' /\ Meant'
    BY <1>0, <1>1, <1>4 DEF OneCallPerHandle, Meant, NoFalseCancel, WasClosed, TypeOK
  <2>4. Marked'
    BY <1>0, <1>4 DEF Marked, WasClosed, TypeOK, Waiting, Undecided, Supervising
  <2>5. JobsOK'
    BY <1>0, <1>1, <1>4 DEF JobsOK, TypeOK
  <2>6. Counted'
    <3>1. Threads' = Threads
      BY <1>0, <1>4, ThreadStays DEF ThreadStates, Undecided, Supervising
    <3>. QED  BY <1>0, <1>2, <1>4, <3>1 DEF Counted, CountExact
  <2>. QED  BY <2>1, <2>2, <2>3, <2>4, <2>5, <2>6
<1>. QED  BY <1>0, <1>3, <1>4 DEF WorkerAdmit

(* A task moves on: what its steps have in common.                         *)
LEMMA TaskMoves ==
    ASSUME Inv, NEW k \in Calls, NEW to,
           TaskUnchanged, task' = [task EXCEPT ![k] = to],
           task[k] \in ThreadStates,
           to \in ThreadStates \cup {"exited"}
    PROVE  /\ Open' = Open
           /\ OneCallPerHandle' /\ JobsOK'
           /\ \A j \in Calls : WasClosed(j)' = WasClosed(j)
           /\ to \in ThreadStates /\ count' = count => Counted'
           /\ to = "exited" /\ count' = count - 1 => Counted' /\ count' \in Nat
<1>. USE DEF Inv, TaskUnchanged
<1>1. Open' = Open /\ \A j \in Calls : WasClosed(j)' = WasClosed(j)
  BY DEF Open, WasClosed
<1>2. OneCallPerHandle'
  BY <1>1 DEF OneCallPerHandle
<1>3. JobsOK'
  BY JobsStay DEF ThreadStates, Undecided, Supervising
<1>4. to \in ThreadStates /\ count' = count => Counted'
  <2>. SUFFICES ASSUME to \in ThreadStates, count' = count PROVE Counted'
    OBVIOUS
  <2>1. Threads' = Threads
    BY ThreadStays
  <2>. QED  BY <2>1 DEF Counted, CountExact
<1>5. to = "exited" /\ count' = count - 1 => Counted' /\ count' \in Nat
  <2>. SUFFICES ASSUME to = "exited", count' = count - 1 PROVE Counted' /\ count' \in Nat
    OBVIOUS
  <2>. DEFINE n == Cardinality(Threads)
              more == IF worker.at = "admit" THEN 1 ELSE 0
  <2>1. Threads' = Threads \ {k} /\ k \in Threads
    BY ThreadEnds
  <2>2. IsFiniteSet(Threads) /\ n \in Nat /\ n # 0
    BY <2>1, FS_CardinalityType, FS_EmptySet DEF Counted
  <2>3. IsFiniteSet(Threads') /\ Cardinality(Threads') = n - 1
    BY <2>1, <2>2, FS_RemoveElement
  <2>4. count = n + more /\ n <= MaxActive /\ worker' = worker
    BY DEF Counted, CountExact
  <2>5. worker.at = "admit" /\ ~worker.over => n < MaxActive
    BY DEF Counted
  <2>. HIDE DEF n, more
  <2>6. count' = (n - 1) + more /\ n - 1 <= MaxActive /\ more \in {0, 1}
    BY <2>2, <2>4 DEF more
  <2>7. count' \in Nat
    BY <2>2, <2>6
  <2>8. worker'.at = "admit" /\ ~worker'.over => n - 1 < MaxActive
    BY <2>2, <2>4, <2>5
  <2>. QED  BY <2>3, <2>4, <2>6, <2>7, <2>8 DEF Counted, CountExact, more
<1>. QED  BY <1>1, <1>2, <1>3, <1>4, <1>5

(* A step within the task, or its answer: what each action must see to.    *)
MovesWithin(k) ==
    /\ task[k] \in Undecided \cup {"passed"}
    /\ task' = [task EXCEPT ![k] = task'[k]]
    /\ task'[k] \in Undecided \cup {"passed", "replied"}
    /\ task'[k] = "passed" => ~WasClosed(k)
    /\ count' = count

AnswersRightly(k) ==
    \/ task'[k] # "replied" /\ resp' = resp
    \/ /\ resp' = [resp EXCEPT ![k] = resp'[k]]
       /\ resp'[k] \in Codes
       /\ task'[k] = "replied"
       /\ resp'[k] = "success" => task[k] = "passed"
       /\ resp'[k] = "cancelled" => WasClosed(k) \/ child'[k] = "dismissed"

KeepsChild(k) ==
    /\ child' = [child EXCEPT ![k] = child'[k]]
    /\ child'[k] \in {"none", "running", "reading", "killed"} \cup ChildAnswers
    /\ child'[k] \in {"running", "reading"} => task'[k] \in Supervising

LEMMA TaskStep ==
    ASSUME Inv, NEW k \in Calls, TaskUnchanged,
           MovesWithin(k), AnswersRightly(k), KeepsChild(k)
    PROVE  Inv'
<1>. USE DEF Inv
<1>. DEFINE to == task'[k]
<1>1. /\ Open' = Open
      /\ \A j \in Calls : WasClosed(j)' = WasClosed(j)
      /\ OneCallPerHandle' /\ JobsOK' /\ Counted'
  <2>1. task' = [task EXCEPT ![k] = to] /\ task[k] \in ThreadStates /\ to \in ThreadStates
    BY DEF MovesWithin, ThreadStates
  <2>2. count' = count
    BY DEF MovesWithin
  <2>. HIDE DEF to
  <2>. QED  BY <2>1, <2>2, TaskMoves
<1>2. TypeOK'
  BY DEF TypeOK, TaskUnchanged, MovesWithin, AnswersRightly, KeepsChild, Undecided,
         Supervising
<1>3. k \in Open /\ resp[k] = None
  BY DEF Progress, Waiting, Open, MovesWithin
<1>4. Progress'
  BY <1>3 DEF Progress, TypeOK, TaskUnchanged, Waiting, Undecided, Supervising, Alive, Open,
              MovesWithin, AnswersRightly, KeepsChild
<1>5. Marked'
  <2>1. k \in cancelled => task[k] \in Waiting /\ WasClosed(k)
    BY DEF Marked, Waiting, MovesWithin
  <2>2. k \in cancelled => to \notin {"none", "passed"} /\ resp'[k] # "success"
    BY <1>3, <2>1 DEF MovesWithin, AnswersRightly, Undecided, Supervising, Waiting, Codes
  <2>3. \A j \in Calls \ {k} : task'[j] = task[j] /\ resp'[j] = resp[j]
    BY DEF MovesWithin, AnswersRightly, TypeOK
  <2>. QED  BY <1>1, <2>1, <2>2, <2>3 DEF Marked, TaskUnchanged, TypeOK, WasClosed
<1>6. NoFalseCancel'
  <2>. SUFFICES ASSUME NEW j \in Calls, resp'[j] = "cancelled"
                PROVE  child'[j] = "dismissed" \/ \E x \in CloseCalls : aim[x] = j
    BY DEF NoFalseCancel, TaskUnchanged
  <2>1. CASE j # k
    BY <2>1 DEF Meant, NoFalseCancel, TypeOK, AnswersRightly, KeepsChild
  <2>2. CASE j = k
    <3>1. WasClosed(k) \/ child'[k] = "dismissed"
      BY <1>3, <2>2 DEF AnswersRightly, Codes
    <3>. QED  BY <1>3, <2>2, <3>1 DEF Meant
  <2>. QED  BY <2>1, <2>2
<1>7. Meant'
  BY <1>1, <1>6 DEF Meant, TaskUnchanged, WasClosed
<1>. QED  BY <1>1, <1>2, <1>4, <1>5, <1>7

LEMMA TaskInv ==
    ASSUME Inv, NEW k \in Calls, Task(k) \/ TaskPollError(k)
    PROVE  Inv'
<1>. USE DEF Inv, Step, Reply
<1>0. /\ child[k] \in {"none", "running", "reading", "killed"} \cup ChildAnswers
      /\ child \in [Calls -> {"none", "running", "reading", "killed"} \cup ChildAnswers]
      /\ resp \in [Calls -> Codes \cup {None}] /\ DOMAIN task = Calls
      /\ child[k] \in {"running", "reading"} => task[k] \in Supervising
  BY DEF TypeOK, Progress, Alive
<1>1. CASE TaskBegin(k)
  <2>1. MovesWithin(k)
    BY <1>0, <1>1 DEF TaskBegin, MovesWithin, Undecided, Supervising
  <2>2. AnswersRightly(k)
    BY <1>0, <1>1 DEF TaskBegin, AnswersRightly, Codes
  <2>3. KeepsChild(k)
    BY <1>0, <1>1 DEF TaskBegin, KeepsChild, Supervising, ChildAnswers, Alive
  <2>. QED  BY <1>1, <2>1, <2>2, <2>3, TaskStep DEF TaskBegin
<1>2. CASE TaskWrite(k)
  <2>1. MovesWithin(k)
    BY <1>0, <1>2 DEF TaskWrite, MovesWithin, Undecided, Supervising
  <2>2. AnswersRightly(k)
    BY <1>0, <1>2 DEF TaskWrite, AnswersRightly, Codes
  <2>3. KeepsChild(k)
    BY <1>0, <1>2 DEF TaskWrite, KeepsChild, Supervising, ChildAnswers, Alive
  <2>. QED  BY <1>2, <2>1, <2>2, <2>3, TaskStep DEF TaskWrite
<1>3. CASE TaskPoll(k)
  <2>1. MovesWithin(k)
    BY <1>0, <1>3 DEF TaskPoll, MovesWithin, Undecided, Supervising
  <2>2. AnswersRightly(k)
    BY <1>0, <1>3 DEF TaskPoll, AnswersRightly, Codes
  <2>3. KeepsChild(k)
    BY <1>0, <1>3 DEF TaskPoll, Terminate, KeepsChild, Supervising, ChildAnswers, Alive
  <2>. QED  BY <1>3, <2>1, <2>2, <2>3, TaskStep DEF TaskPoll
<1>4. CASE TaskCheck(k)
  <2>1. MovesWithin(k)
    BY <1>0, <1>4 DEF TaskCheck, MovesWithin, Undecided, Supervising
  <2>2. AnswersRightly(k)
    BY <1>0, <1>4 DEF TaskCheck, AnswersRightly, Codes
  <2>3. KeepsChild(k)
    BY <1>0, <1>4 DEF TaskCheck, KeepsChild, Supervising, ChildAnswers, Alive
  <2>. QED  BY <1>4, <2>1, <2>2, <2>3, TaskStep DEF TaskCheck
<1>5. CASE TaskSucceed(k)
  <2>1. MovesWithin(k)
    BY <1>0, <1>5 DEF TaskSucceed, MovesWithin, Undecided, Supervising
  <2>2. AnswersRightly(k)
    BY <1>0, <1>5 DEF TaskSucceed, AnswersRightly, Codes
  <2>3. KeepsChild(k)
    BY <1>0, <1>5 DEF TaskSucceed, KeepsChild, Supervising, ChildAnswers, Alive
  <2>. QED  BY <1>5, <2>1, <2>2, <2>3, TaskStep DEF TaskSucceed
<1>6. CASE TaskExit(k)
  <2>. USE DEF TaskExit, TaskUnchanged
  <2>1. /\ Open' = Open
        /\ \A j \in Calls : WasClosed(j)' = WasClosed(j)
        /\ OneCallPerHandle' /\ JobsOK' /\ Counted' /\ count' \in Nat
    BY <1>6, TaskMoves DEF ThreadStates
  <2>2. TypeOK'
    BY <1>6, <2>1 DEF TypeOK
  <2>3. Progress'
    BY <1>6 DEF Progress, TypeOK, Waiting, Undecided, Supervising, Alive
  <2>4. Marked'
    BY <1>6, <2>1 DEF Marked, TypeOK, Waiting, Undecided, Supervising
  <2>5. Meant'
    BY <1>6, <2>1 DEF Meant, NoFalseCancel, WasClosed
  <2>. QED  BY <2>1, <2>2, <2>3, <2>4, <2>5
<1>7. CASE TaskPollError(k)
  <2>1. MovesWithin(k)
    BY <1>0, <1>7 DEF TaskPollError, MovesWithin, Undecided, Supervising
  <2>2. AnswersRightly(k)
    BY <1>0, <1>7 DEF TaskPollError, AnswersRightly, Codes
  <2>3. KeepsChild(k)
    BY <1>0, <1>7 DEF TaskPollError, Terminate, KeepsChild, Supervising, ChildAnswers, Alive
  <2>. QED  BY <1>7, <2>1, <2>2, <2>3, TaskStep DEF TaskPollError
<1>. QED  BY <1>1, <1>2, <1>3, <1>4, <1>5, <1>6, <1>7 DEF Task

(* The prompter and its user touch nothing of the daemon's.                *)
LEMMA PrompterInv ==
    ASSUME Inv, NEW k \in Calls, Prompter(k)
    PROVE  Inv'
<1>. USE DEF Inv
<1>1. PICK to \in {"reading"} \cup ChildAnswers : ChildStep(k, to) /\ k \in Alive
  BY DEF Prompter, ChildRead, ChildExit, Alive
<1>2. /\ child' = [child EXCEPT ![k] = to]
      /\ UNCHANGED <<status, handle, served, closed, closing, jobs, worker, count, task,
                     resp, aim, cancelled>>
  BY <1>1 DEF ChildStep, tracker
<1>3. TypeOK'
  BY <1>2 DEF TypeOK
<1>4. Progress'
  BY <1>1, <1>2 DEF Progress, TypeOK, Alive
<1>5. Meant'
  BY <1>1, <1>2 DEF Meant, NoFalseCancel, Open, WasClosed, TypeOK, Alive
<1>6. OneCallPerHandle' /\ Marked' /\ JobsOK' /\ Counted'
  BY <1>2 DEF OneCallPerHandle, Marked, JobsOK, Counted, CountExact, Threads, Open, WasClosed
<1>. QED  BY <1>3, <1>4, <1>5, <1>6

-----------------------------------------------------------------------------
LEMMA NextInv == Inv /\ [Next]_vars => Inv'
<1>. SUFFICES ASSUME Inv, [Next]_vars PROVE Inv'
  OBVIOUS
<1>1. CASE Client
  BY <1>1, ArriveInv, CloseArriveInv DEF Client
<1>2. CASE Executor
  BY <1>2, ReturnInv, CloseMarkInv DEF Executor
<1>3. CASE Worker
  BY <1>3, WorkerTakeInv, WorkerAdmitInv DEF Worker
<1>4. ASSUME NEW k \in Calls, Task(k) \/ TaskPollError(k) \/ Prompter(k)
      PROVE  Inv'
  BY <1>4, TaskInv, PrompterInv
<1>5. CASE UNCHANGED vars
  <2>. USE <1>5 DEF vars
  <2>1. TypeOK' /\ Progress' /\ OneCallPerHandle' /\ Marked'
    BY DEF Inv, TypeOK, Progress, OneCallPerHandle, Marked, Open, Alive, WasClosed
  <2>2. Meant' /\ JobsOK' /\ Counted'
    BY DEF Inv, Meant, NoFalseCancel, Open, WasClosed, JobsOK, Counted, CountExact, Threads
  <2>. QED  BY <2>1, <2>2 DEF Inv
<1>. QED  BY <1>1, <1>2, <1>3, <1>4, <1>5 DEF Next

LEMMA InvCorrect == Spec => []Inv
<1>. QED  BY InitInv, NextInv, PTL DEF Spec

(* Every variable of RequestDispatch keeps its type; in particular the job *)
(* channel never holds more than its capacity.                             *)
THEOREM TypeCorrect == Spec => []TypeOK
<1>. QED  BY InvCorrect, PTL DEF Inv

(* The count of active tasks is exact whenever it is compared with the     *)
(* limit, and the limit holds, whatever way each task ends                 *)
(* (file_chooser.rs:200).                                                  *)
THEOREM CountCorrect == Spec => []CountExact
<1>1. Inv => CountExact
  BY DEF Inv, Counted
<1>. QED  BY <1>1, InvCorrect, PTL

(* A call is told it was cancelled only by its own user or its own Close,  *)
(* however often its handle was used before (runtime lib.rs:45-54).        *)
THEOREM NoFalseCancelCorrect == Spec => []NoFalseCancel
<1>1. Inv => NoFalseCancel
  BY DEF Inv, Meant
<1>. QED  BY <1>1, InvCorrect, PTL

(* A live prompter is supervised by the task of an open call               *)
(* (prompter.rs:16).                                                       *)
THEOREM NoDialogCorrect == Spec => []NoDialogOutlivesRequest
<1>1. Inv => NoDialogOutlivesRequest
  BY DEF Inv, Progress, NoDialogOutlivesRequest, Alive, Open, Waiting, Undecided
<1>. QED  BY <1>1, InvCorrect, PTL

-----------------------------------------------------------------------------
(* The refinement of PortalRequest: a Close that comes in time cancels the *)
(* one open call at its handle, every other step of a thread is a stutter. *)

LEMMA RefinesInit == Init => Contract!ContractInit
  BY DEF Init, Contract!ContractInit

LEMMA RefinesNext ==
    Inv /\ [Next]_vars => [Contract!ContractNext]_<<status, handle, cancelled>>
<1>. SUFFICES ASSUME Inv, [Next]_vars
              PROVE  \/ Contract!ContractNext
                     \/ UNCHANGED <<status, handle, cancelled>>
  OBVIOUS
<1>. USE DEF Inv
<1>1. ASSUME NEW k \in Calls, NEW h \in Handles, Arrive(k, h)
      PROVE  Contract!Open(k, h) \/ Contract!Reject(k, h)
  <2>1. \A j \in Calls : status[j] = "open" => handle[j] \in served
    BY DEF OneCallPerHandle, Open
  <2>. QED  BY <1>1, <2>1 DEF Arrive, Contract!Open, Contract!Reject
<1>2. ASSUME NEW x \in CloseCalls, NEW k \in Calls, CloseArrive(x, k)
      PROVE  UNCHANGED <<status, handle, cancelled>>
  BY <1>2 DEF CloseArrive
<1>3. ASSUME NEW k \in Calls, Return(k)
      PROVE  Contract!AnswerCall(k)
  <2>1. resp[k] = "success" => k \notin cancelled
    BY DEF Marked
  <2>2. resp[k] \in Contract!Answers
    BY <1>3 DEF Return, TypeOK, Codes, Contract!Answers
  <2>. QED  BY <1>3, <2>1, <2>2 DEF Return, Open, Contract!AnswerCall
<1>4. ASSUME NEW x \in CloseCalls, CloseMark(x)
      PROVE  \/ \E k \in Calls : Contract!Cancel(k)
             \/ UNCHANGED <<status, handle, cancelled>>
  <2>. DEFINE h == closing[x]
  <2>1. UNCHANGED <<status, handle>> /\ cancelled' \in {cancelled, cancelled \cup InTime(h)}
    BY <1>4 DEF CloseMark
  <2>2. CASE InTime(h) = {}
    BY <2>1, <2>2
  <2>3. ASSUME NEW k \in InTime(h)
        PROVE  Contract!Cancel(k) \/ UNCHANGED <<status, handle, cancelled>>
    <3>1. k \in Open /\ \A j \in InTime(h) : j = k
      BY <2>3 DEF InTime, OneCallPerHandle
    <3>2. InTime(h) = {k}
      BY <2>3, <3>1
    <3>. QED  BY <2>1, <3>1, <3>2 DEF Open, Contract!Cancel
  <2>. QED  BY <2>2, <2>3 DEF InTime, Open
<1>5. CASE Worker
  BY <1>5 DEF Worker, WorkerTake, WorkerAdmit
<1>6. ASSUME NEW k \in Calls, Task(k) \/ TaskPollError(k) \/ Prompter(k)
      PROVE  UNCHANGED <<status, handle, cancelled>>
  BY <1>6 DEF Task, TaskBegin, TaskWrite, TaskPoll, TaskPollError, TaskCheck, TaskSucceed, TaskExit,
              TaskUnchanged, Prompter, ChildRead, ChildExit, ChildStep
<1>7. CASE UNCHANGED vars
  BY <1>7 DEF vars
<1>. QED
  BY <1>1, <1>2, <1>3, <1>4, <1>5, <1>6, <1>7
  DEF Next, Client, Executor, Contract!ContractNext

(* The dispatcher, its worker, its tasks and their prompters keep the      *)
(* contract of one prompting interface: one open call per handle, one      *)
(* answer per call, and no success after a Close that came in time.        *)
THEOREM ContractKept == Spec => KeepsContract
<1>. QED
  BY RefinesInit, RefinesNext, InvCorrect, PTL
  DEF Spec, KeepsContract, Contract!ContractSpec, Contract!contractVars
=============================================================================
