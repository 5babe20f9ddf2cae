--------------------------- MODULE PortalServices ---------------------------
(***************************************************************************)
(* The request portals of the daemon together: calls of any of them, in    *)
(* any order and at once, on the files, directories and limits they share. *)
(***************************************************************************)
EXTENDS ConsentPortals, OpenWith, CapturePortal, Wallpaper, HandOff, InhibitRegistry

ASSUME ServicesAssumption ==
    /\ None \notin Requests \cup Kinds \cup Answers \cup {"first"} /\ "first" \notin Requests
    /\ \A k \in Kinds : MaxActive[k] \in Nat \ {0}
    /\ TerminalApps \subseteq Apps
    /\ \A t \in ContentTypes : Registered[t] \subseteq Apps
    /\ None \notin Groups \cup ContentTypes \cup Ids \cup Extensions /\ "missing" \notin Apps
    /\ InitialList \in Seq(Lines)
    /\ \A n \in 1..(Len(InitialList) - 1) : InitialList[n].ended
    /\ Oldest \in Nat /\ Newest \in Nat /\ Oldest <= Newest
    /\ Sessions \subseteq Paths
    /\ MaxMailers \in Nat \ {0} /\ MaxInhibit \in Nat \ {0} /\ MaxCloses \in Nat \ {0}

vars == <<taskVars, consentVars, openVars, captureVars, wallVars, handVars, inhibitVars>>

(* How far each portal still looks at the marker: a Close that comes later *)
(* has no effect.  Access looks while it polls the dialog and no more,     *)
(* OpenURI not at all once it launches without asking, Print and Email     *)
(* only at the start, and PreparePrint and Inhibit never.                  *)
Uncommitted(r) ==
    \/ at[r] = "queued" /\ kind[r] \notin {"prepare", "inhibit", "monitor"}
    \/ at[r] = "asking"
    \/ at[r] = "polled" /\ kind[r] # "access"
    \/ at[r] \in {"loading", "loaded"}
    \/ kind[r] \in {"screenshot", "pickcolor"} /\ at[r] # "done"

TypeOK ==
    /\ \A r \in Requests : kind[r] \in Kinds \cup {None} /\ (kind[r] = None <=> at[r] = "idle")
    /\ \A r \in Requests : answer[r] \in Answers \cup {None} /\ (answer[r] = None <=> at[r] # "done")
    /\ timely \subseteq closed /\ closed \subseteq Requests
    /\ entry \in Entry!Files(Requests, Requests \cup {None})
    /\ granted \in Requests \cup {None} /\ crossedEntries \in BOOLEAN
    /\ list \in List!Files(Requests, Seq(Lines)) /\ edit \in [Requests -> Seq(Lines)]
    /\ offered \in [Requests -> SUBSET Apps]
    /\ pick \in [Requests -> Apps \cup {None}]
    /\ remembered \in [ContentTypes -> Apps \cup {None}] /\ crossedLists \in BOOLEAN
    /\ shots \subseteq Requests
    /\ staged \in [Extensions -> Requests \cup {None}]
    /\ temporaries \subseteq Requests
    /\ shown \in Extensions \cup {None}
    /\ unremoved \subseteq spools /\ spools \subseteq Requests
    /\ mailers \subseteq Requests /\ mailerSlots \in 0..MaxMailers
    /\ record \in [Paths -> Requests \cup {None}] /\ object \in [Paths -> Requests \cup {None}]
    /\ closing \in [Paths -> 0..MaxCloses]
    /\ stranded \subseteq Paths /\ reclosed \subseteq Paths

Init ==
    /\ TaskInit
    /\ ConsentInit /\ OpenInit /\ CaptureInit /\ WallInit /\ HandInit /\ InhibitInit

Next ==
    \/ /\ \E r \in Requests : Dialog(r) \/ Close(r, Uncommitted(r))
       /\ UNCHANGED <<consentVars, openVars, captureVars, wallVars, handVars, inhibitVars>>
    \/ /\ \E r \in Requests : ConsentNext(r)
       /\ UNCHANGED <<openVars, captureVars, wallVars, handVars, inhibitVars>>
    \/ /\ \E r \in Requests : OpenNext(r)
       /\ UNCHANGED <<consentVars, captureVars, wallVars, handVars, inhibitVars>>
    \/ /\ \E r \in Requests : CaptureNext(r)
       /\ UNCHANGED <<consentVars, openVars, wallVars, handVars, inhibitVars>>
    \/ /\ \E r \in Requests : WallNext(r)
       /\ UNCHANGED <<consentVars, openVars, captureVars, handVars, inhibitVars>>
    \/ /\ \E r \in Requests : HandNext(r)
       /\ UNCHANGED <<consentVars, openVars, captureVars, wallVars, inhibitVars>>
    \/ /\ InhibitNext
       /\ UNCHANGED <<consentVars, openVars, captureVars, wallVars, handVars>>

Spec == Init /\ [][Next]_vars

-----------------------------------------------------------------------------
Status(r) == IF at[r] = "idle" THEN "idle" ELSE IF at[r] = "done" THEN answer[r] ELSE "open"

Contract == INSTANCE PortalRequest WITH
    Calls <- Requests,
    Handles <- Requests,
    status <- [r \in Requests |-> Status(r)],
    handle <- [r \in Requests |-> IF at[r] = "idle" THEN None ELSE r],
    cancelled <- timely

(* Each portal keeps the contract of PortalRequest: whatever chain of      *)
(* dialogs, compositor calls and file writes stands behind a method, a     *)
(* request closed while its task still looks at the marker does not        *)
(* succeed ("Request.Close wins a race with a completed child response",   *)
(* background.rs, dynamic_launcher.rs, app_chooser.rs, open_uri.rs), and   *)
(* every call is answered once.                                            *)
KeepsContract == Contract!ContractSpec
=============================================================================
