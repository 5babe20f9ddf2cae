---------------------------- MODULE PortalRequest ----------------------------
(***************************************************************************)
(* What the request runtime promises an application, whatever queues,      *)
(* threads and child processes stand behind it: a request handle names one *)
(* open call at a time, a call is answered once, an answer comes only      *)
(* after the call was opened, and a call that was cancelled in time never  *)
(* succeeds.                                                               *)
(***************************************************************************)
CONSTANTS
    Calls,      \* portal method calls; each is made at most once
    Handles,    \* request object paths chosen by the frontend
    None

VARIABLES
    status,     \* "idle", "open", or the code a call was answered with
    handle,     \* the handle a call was made with, or None
    cancelled   \* calls cancelled before the user's answer was taken

contractVars == <<status, handle, cancelled>>

Answers == {"success", "cancelled", "refused", "error"}

ContractInit ==
    /\ status = [k \in Calls |-> "idle"]
    /\ handle = [k \in Calls |-> None]
    /\ cancelled = {}

Open(k, h) ==
    /\ status[k] = "idle"
    /\ \A j \in Calls : status[j] = "open" => handle[j] # h
    /\ status' = [status EXCEPT ![k] = "open"]
    /\ handle' = [handle EXCEPT ![k] = h]
    /\ UNCHANGED cancelled

(* Refused on arrival: invalid, a handle in use, or a full queue. *)
Reject(k, h) ==
    /\ status[k] = "idle"
    /\ \E code \in {"refused", "error"} : status' = [status EXCEPT ![k] = code]
    /\ handle' = [handle EXCEPT ![k] = h]
    /\ UNCHANGED cancelled

Cancel(k) ==
    /\ status[k] = "open"
    /\ cancelled' = cancelled \cup {k}
    /\ UNCHANGED <<status, handle>>

AnswerCall(k) ==
    /\ status[k] = "open"
    /\ \E code \in Answers :
          /\ code = "success" => k \notin cancelled
          /\ status' = [status EXCEPT ![k] = code]
    /\ UNCHANGED <<handle, cancelled>>

ContractNext ==
    \E k \in Calls :
        \/ \E h \in Handles : Open(k, h) \/ Reject(k, h)
        \/ Cancel(k)
        \/ AnswerCall(k)

ContractSpec == ContractInit /\ [][ContractNext]_contractVars
=============================================================================
