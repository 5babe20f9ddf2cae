------------------------------- MODULE HandOff -------------------------------
(***************************************************************************)
(* Print, Email and Secret: the request is handed to another program, lp,  *)
(* the user's mailer or the sigil daemon, with no dialog of the portal's.  *)
(***************************************************************************)
EXTENDS RequestTask

CONSTANT MaxMailers     \* MAX_ACTIVE_MAILERS

VARIABLES
    spools,         \* requests whose spool file exists
    unremoved,      \* history: those whose file the portal failed to remove,
                    \* or left because it could not read its length
    mailers,        \* requests whose mailer runs or is not yet reaped
    mailerSlots     \* ACTIVE_MAILERS

handVars == <<spools, unremoved, mailers, mailerSlots>>

HandInit == spools = {} /\ unremoved = {} /\ mailers = {} /\ mailerSlots = 0

-----------------------------------------------------------------------------
(* PreparePrint: an oversized title is refused before the request is       *)
(* registered, unbounded maps after; nothing looks at the marker.          *)
PrintJobs == {"fits", "title", "maps"}

PreparePrint(r) ==
    \E what \in PrintJobs : Arrive(r, "prepare", what, what # "title")

Prepare(r) ==
    /\ Queued(r, "prepare") /\ ExecutorFree
    /\ Answer(r, IF arg[r] = "fits" THEN "success" ELSE "refused")
    /\ UNCHANGED handVars

PrintFd(r) == Arrive(r, "print", None, TRUE)

PrintWorker(r) == Admit(r, "print", "spooling")

(* A file of the request's own is created, or cannot be.                   *)
OpenSpool(r) ==
    /\ at[r] = "spooling"
    /\ \/ Goto(r, "copying") /\ spools' = spools \cup {r}
       \/ Answer(r, "refused") /\ UNCHANGED spools
    /\ UNCHANGED <<unremoved, mailers, mailerSlots>>

(* The removal of a file may fail, which is at most logged.                *)
Unlink(r) ==
    \/ spools' = spools \ {r} /\ UNCHANGED unremoved
    \/ unremoved' = unremoved \cup {r} /\ UNCHANGED spools

(* The descriptor is copied; a copy that fails, is empty or too long is    *)
(* removed, one whose length cannot be read is left where it is.           *)
SpoolFd(r) ==
    /\ at[r] = "copying"
    /\ \/ Goto(r, "submitting") /\ UNCHANGED <<spools, unremoved>>
       \/ Answer(r, "refused") /\ Unlink(r)
       \/ Answer(r, "refused") /\ unremoved' = unremoved \cup {r} /\ UNCHANGED spools
    /\ UNCHANGED <<mailers, mailerSlots>>

(* Mutant: a failed submission returns before the file is removed. *)
SubmitLeaves(r) ==
    /\ at[r] = "submitting"
    /\ \/ Answer(r, "success") /\ Unlink(r)
       \/ Answer(r, "refused") /\ UNCHANGED <<spools, unremoved>>
    /\ UNCHANGED <<mailers, mailerSlots>>

(* lp takes the file or not, or does not start; the file is removed all    *)
(* the same.                                                               *)
LpAnswers == {"success", "refused"}

Submit(r) ==
    /\ at[r] = "submitting"
    /\ \E code \in LpAnswers : Answer(r, code)
    /\ Unlink(r)
    /\ UNCHANGED <<mailers, mailerSlots>>

-----------------------------------------------------------------------------
(* ComposeEmail runs in the method: no worker and no limit but the slots.  *)
EmailOptions == {"fit", "attachment", "oversized"}

ComposeEmail(r) ==
    \E options \in EmailOptions : Arrive(r, "email", options, TRUE)

Compose(r) ==
    /\ Queued(r, "email") /\ ExecutorFree
    /\ IF r \in closed THEN Answer(r, "cancelled") /\ UNCHANGED mailerSlots
       ELSE IF arg[r] # "fit" \/ mailerSlots >= MaxMailers
       THEN Answer(r, "refused") /\ UNCHANGED mailerSlots
       ELSE Goto(r, "mailing") /\ mailerSlots' = mailerSlots + 1
    /\ UNCHANGED <<spools, unremoved, mailers>>

(* Mutant: the slot is released by the guard and again by the reaper. *)
ReleaseMailerSlotTwice == mailerSlots' = mailerSlots - 2

ReleaseMailerSlot == mailerSlots' = mailerSlots - 1

(* The mailer starts and the reaper takes it, or one of the two fails; a   *)
(* mailer without a reaper is killed.                                      *)
SpawnMailer(r) ==
    /\ at[r] = "mailing"
    /\ \/ Answer(r, "refused") /\ ReleaseMailerSlot /\ UNCHANGED mailers
       \/ Answer(r, "success") /\ mailers' = mailers \cup {r} /\ UNCHANGED mailerSlots
    /\ UNCHANGED <<spools, unremoved>>

(* The reaper finds a mailer gone, long after its request was answered.    *)
Reap(r) ==
    /\ r \in mailers
    /\ mailers' = mailers \ {r}
    /\ ReleaseMailerSlot
    /\ UNCHANGED taskVars /\ UNCHANGED <<spools, unremoved>>

-----------------------------------------------------------------------------
(* RetrieveSecret runs in the method too, and asks sigil without a time    *)
(* limit: sigil may itself be waiting for the user to unlock it.           *)
RetrieveSecret(r) == Arrive(r, "secret", None, TRUE)

AskSigil(r) ==
    /\ Queued(r, "secret") /\ ExecutorFree
    /\ \/ r \in closed /\ Answer(r, "cancelled")
       \/ r \notin closed /\ Answer(r, "refused")
       \/ r \notin closed /\ Goto(r, "fetching")
    /\ UNCHANGED handVars

(* The secret, written to the application's descriptor or not; sigil is    *)
(* locked, or its user declined; or the exchange fails.                    *)
SigilAnswers == {"success", "cancelled", "refused"}

WriteSecret(r) ==
    /\ at[r] = "fetching"
    /\ \E response \in SigilAnswers : Answer(r, response)
    /\ UNCHANGED handVars

HandNext(r) ==
    \/ /\ PreparePrint(r) \/ PrintFd(r) \/ PrintWorker(r) \/ ComposeEmail(r) \/ RetrieveSecret(r)
       /\ UNCHANGED handVars
    \/ Prepare(r) \/ OpenSpool(r) \/ SpoolFd(r) \/ Submit(r)
    \/ Compose(r) \/ SpawnMailer(r) \/ Reap(r)
    \/ AskSigil(r) \/ WriteSecret(r)

-----------------------------------------------------------------------------
(* A document handed over for printing is on disk only while its request   *)
(* copies or submits it ("The caller deletes the file after submission",   *)
(* print.rs:241), whichever way the request ends: the exceptions are the   *)
(* files whose removal failed, and the one the code leaves behind when it  *)
(* cannot read the length of what it copied (print.rs:266).  And a         *)
(* mailer's slot is held exactly until it is reaped or fails to start: a   *)
(* leaked one would in the end refuse every mail.                          *)
NothingLeftBehind ==
    /\ spools = {r \in Requests : at[r] \in {"copying", "submitting"}} \cup unremoved
    /\ mailerSlots = Cardinality(mailers \cup {r \in Requests : at[r] = "mailing"})
    /\ mailerSlots <= MaxMailers
=============================================================================
