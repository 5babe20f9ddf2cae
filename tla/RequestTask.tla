----------------------------- MODULE RequestTask -----------------------------
(***************************************************************************)
(* What the dialog portals have in common: a method that checks its        *)
(* arguments and hands a job to its interface's worker, the worker's       *)
(* admission, the task thread's reads of the request's marker, and the     *)
(* one-shot dialog.  RequestDispatch has this machinery step by step; here *)
(* it is what the portals do in between that matters.                      *)
(*                                                                         *)
(* A request is one method call with a handle of its own.  Its portal and  *)
(* its arguments are chosen when it is made.                               *)
(***************************************************************************)
EXTENDS Naturals, Sequences, FiniteSets

CONSTANTS
    Requests,       \* method calls
    Kinds,          \* the methods that are called
    MaxActive,      \* per method: the tasks its worker runs at once
    None

VARIABLES
    kind, arg,      \* the method and its arguments, None before the call
    at,             \* where the request is: idle, queued, in its task, done
    answer,         \* the response code
    closed,         \* requests whose marker is set
    timely          \* history: those marked before the code's last look

taskVars == <<kind, arg, at, answer, closed, timely>>

Answers == {"success", "cancelled", "refused", "error"}

TaskInit ==
    /\ kind = [r \in Requests |-> None]
    /\ arg = [r \in Requests |-> None]
    /\ at = [r \in Requests |-> "idle"]
    /\ answer = [r \in Requests |-> None]
    /\ closed = {} /\ timely = {}

Goto(r, step) ==
    /\ at' = [at EXCEPT ![r] = step]
    /\ UNCHANGED <<kind, arg, answer, closed, timely>>

Answer(r, code) ==
    /\ at' = [at EXCEPT ![r] = "done"]
    /\ answer' = [answer EXCEPT ![r] = code]
    /\ UNCHANGED <<kind, arg, closed, timely>>

(* Handlers run on the one thread of the bus connection, which ComposeEmail *)
(* and RetrieveSecret hold from their look at the marker to their answer.  *)
ExecutorFree == \A r \in Requests : at[r] \notin {"mailing", "fetching"}

(* The method: registered and queued, or refused for its arguments. *)
Arrive(r, k, a, valid) ==
    /\ k \in Kinds /\ ExecutorFree
    /\ at[r] = "idle"
    /\ kind' = [kind EXCEPT ![r] = k]
    /\ arg' = [arg EXCEPT ![r] = a]
    /\ at' = [at EXCEPT ![r] = IF valid THEN "queued" ELSE "done"]
    /\ answer' = [answer EXCEPT ![r] = IF valid THEN None ELSE "refused"]
    /\ UNCHANGED <<closed, timely>>

Queued(r, k) == kind[r] = k /\ at[r] = "queued"

InTask(r) == at[r] \notin {"idle", "queued", "done"}

(* The worker: over its limit, or without a thread, it refuses; else the   *)
(* task looks at the marker and goes on.                                   *)
Admit(r, k, first) ==
    /\ Queued(r, k)
    /\ IF Cardinality({q \in Requests : kind[q] = k /\ InTask(q)}) >= MaxActive[k]
       THEN Answer(r, "refused")
       ELSE \/ r \in closed /\ Answer(r, "cancelled")
            \/ r \notin closed /\ Goto(r, first)
            \/ Answer(r, "refused")

(* The dialog.  The polling loop looks at the marker and then at the       *)
(* prompter; the prompter may be slow, dismissed, fail, or answer what     *)
(* does not fit the question.  It refuses a text its own contract does not *)
(* allow, which a method may have let through.                             *)
Poll(r) ==
    /\ at[r] = "asking"
    /\ IF r \in closed THEN Answer(r, "cancelled") ELSE Goto(r, "polled")

StillAsking(r) == at[r] = "polled" /\ Goto(r, "asking")

Showable(r) == kind[r] \in {"account", "access"} => arg[r] # "unshowable"

Dismissed(r) == at[r] = "polled" /\ Showable(r) /\ Answer(r, "cancelled")

DialogFails(r) == at[r] \in {"asking", "polled"} /\ Answer(r, "refused")

Dialog(r) == Poll(r) \/ StillAsking(r) \/ Dismissed(r) \/ DialogFails(r)

Affirmed(r, k) == kind[r] = k /\ at[r] = "polled" /\ Showable(r)

(* Request.Close marks a request in flight; timely says whether its task   *)
(* has yet to look.                                                        *)
Close(r, isTimely) ==
    /\ at[r] \notin {"idle", "done"} /\ ExecutorFree
    /\ closed' = closed \cup {r}
    /\ timely' = IF isTimely THEN timely \cup {r} ELSE timely
    /\ r \notin closed
    /\ UNCHANGED <<kind, arg, at, answer>>

(* Mutant: the answer is taken without looking at the marker again. *)
StillOpenUnlooked(r, k) == Affirmed(r, k)

(* "Request.Close wins a race with a completed child response."            *)
Recheck(r, k) == Affirmed(r, k) /\ r \in closed /\ Answer(r, "cancelled")
StillOpen(r, k) == Affirmed(r, k) /\ r \notin closed
=============================================================================
