--------------------------- MODULE InhibitRegistry ---------------------------
(***************************************************************************)
(* Inhibit: inhibitions keyed by their request object, and the sessions of *)
(* monitors, one registry and one limit for both.  The object that ends an *)
(* inhibition is exported after it was recorded, and removed after it was  *)
(* released.  An inhibition outlives its method call, so its object is not *)
(* the Request of the other portals.                                       *)
(***************************************************************************)
EXTENDS RequestTask

CONSTANTS
    Paths,          \* object paths of inhibitions and of monitor sessions:
    Sessions,       \* the latter, which are never request handles as well
    MaxInhibit,     \* MAX_INHIBIT_OBJECTS
    MaxCloses       \* bound: Close calls of one object at once

VARIABLES
    record,         \* per path: the call whose inhibition or monitor is recorded
    object,         \* per path: the call whose object is exported
    closing,        \* per path: the Close calls that released and have not yet
                    \* removed
    stranded,       \* history: paths whose export failed outright
    reclosed        \* history: paths closed while another Close was at work

inhibitVars == <<record, object, closing, stranded, reclosed>>

InhibitInit ==
    /\ record = [p \in Paths |-> None]
    /\ object = [p \in Paths |-> None]
    /\ closing = [p \in Paths |-> 0]
    /\ stranded = {}
    /\ reclosed = {}

Live == Cardinality({p \in Paths : record[p] # None})

(* add_request and add_monitor: one object per path, and a limit.          *)
Unavailable(p) == record[p] # None \/ Live >= MaxInhibit

(* Inhibit: the reason and the flags are checked and logind's lock taken   *)
(* before anything is recorded; a refusal lets the lock go.                *)
Inhibit(r) ==
    \E p \in Paths \ Sessions :
        /\ Arrive(r, "inhibit", p, TRUE)
        /\ UNCHANGED inhibitVars

ApplyInhibit(r) ==
    /\ Queued(r, "inhibit") /\ ExecutorFree
    /\ \/ Answer(r, "error") /\ UNCHANGED record
       \/ /\ ~Unavailable(arg[r])
          /\ Goto(r, "exporting")
          /\ record' = [record EXCEPT ![arg[r]] = r]
    /\ UNCHANGED <<object, closing, stranded, reclosed>>

(* CreateMonitor: its own Request is registered first and finished last.   *)
CreateMonitor(r) ==
    \E p \in Sessions :
        /\ Arrive(r, "monitor", p, TRUE)
        /\ UNCHANGED inhibitVars

AddMonitor(r) ==
    /\ Queued(r, "monitor") /\ ExecutorFree
    /\ IF Unavailable(arg[r])
       THEN Answer(r, "refused") /\ UNCHANGED record
       ELSE /\ Goto(r, "exporting")
            /\ record' = [record EXCEPT ![arg[r]] = r]
    /\ UNCHANGED <<object, closing, stranded, reclosed>>

(* Mutant: a path in use keeps the record of the call it refused. *)
ExportKeeps(r, refusal) ==
    /\ at[r] = "exporting" /\ ExecutorFree
    /\ \/ /\ object[arg[r]] = None
          /\ object' = [object EXCEPT ![arg[r]] = r]
          /\ Answer(r, "success")
          /\ UNCHANGED <<record, stranded>>
       \/ /\ object[arg[r]] # None
          /\ Answer(r, refusal)
          /\ UNCHANGED <<record, object, stranded>>
    /\ UNCHANGED <<closing, reclosed>>

(* The object is exported; where one is still exported the record is       *)
(* taken back; and where the export fails it stays for good.               *)
Export(r, refusal) ==
    /\ at[r] = "exporting" /\ ExecutorFree
    /\ \/ /\ object[arg[r]] = None
          /\ object' = [object EXCEPT ![arg[r]] = r]
          /\ Answer(r, "success")
          /\ UNCHANGED <<record, stranded>>
       \/ /\ object[arg[r]] # None
          /\ record' = [record EXCEPT ![arg[r]] = None]
          /\ Answer(r, refusal)
          /\ UNCHANGED <<object, stranded>>
       \/ /\ stranded' = stranded \cup {arg[r]}
          /\ Answer(r, "error")
          /\ UNCHANGED <<record, object>>
    /\ UNCHANGED <<closing, reclosed>>

ExportRequest(r) == kind[r] = "inhibit" /\ Export(r, "error")

ExportSession(r) == kind[r] = "monitor" /\ Export(r, "refused")

(* Close of a request or session object, which may be called again until   *)
(* the object is removed.  It releases what is recorded at the path then,  *)
CloseObject(p) ==
    /\ object[p] # None /\ ExecutorFree
    /\ closing[p] < MaxCloses
    /\ record' = [record EXCEPT ![p] = None]
    /\ closing' = [closing EXCEPT ![p] = @ + 1]
    /\ reclosed' = IF closing[p] = 0 THEN reclosed ELSE reclosed \cup {p}
    /\ UNCHANGED <<object, stranded>> /\ UNCHANGED taskVars

(* and then removes the object that is there, if one still is. *)
RemoveObject(p) ==
    /\ closing[p] > 0 /\ ExecutorFree
    /\ object' = [object EXCEPT ![p] = None]
    /\ closing' = [closing EXCEPT ![p] = @ - 1]
    /\ UNCHANGED <<record, stranded, reclosed>> /\ UNCHANGED taskVars

InhibitNext ==
    \/ \E r \in Requests : \/ Inhibit(r) \/ ApplyInhibit(r) \/ ExportRequest(r)
                          \/ CreateMonitor(r) \/ AddMonitor(r) \/ ExportSession(r)
    \/ \E p \in Paths : CloseObject(p) \/ RemoveObject(p)

-----------------------------------------------------------------------------
(* "error instead of a silently unbacked inhibition" (inhibit.rs:20): once *)
(* no handler is midway at a path, something is recorded there exactly if  *)
(* the object that ends it is exported, and by the same call; an           *)
(* inhibition without its object could never be released, and would count  *)
(* against the limit for ever.  The exceptions are those the code has:     *)
(* paths whose export failed outright, and paths closed a second time      *)
(* while the first Close was removing the object, where the second may     *)
(* release the record, or remove the object, of a call that came after.    *)
EndedByItsObject ==
    \A p \in Paths \ (stranded \cup reclosed) :
        \/ closing[p] > 0
        \/ \E r \in Requests : at[r] = "exporting" /\ arg[r] = p
        \/ record[p] = object[p]
=============================================================================
