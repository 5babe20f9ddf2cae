--------------------------- MODULE ConsentPortals ---------------------------
(***************************************************************************)
(* The portals that ask one question and act on the answer: Account,       *)
(* Access, DynamicLauncher and Background.  Background also writes the     *)
(* application's autostart entry; the requests here are of one             *)
(* application, those of another use files of their own.                   *)
(***************************************************************************)
EXTENDS RequestTask

VARIABLES
    entry,          \* the autostart entry and its temporary, as a NamedTemp
    granted,        \* history: the request last told its autostart was set
    crossedEntries  \* history: two tasks wrote the entry at once

consentVars == <<entry, granted, crossedEntries>>

Entry == INSTANCE NamedTemp WITH Empty <- None

ConsentInit ==
    /\ entry = Entry!Holding(Requests, None)
    /\ granted = None
    /\ crossedEntries = FALSE

-----------------------------------------------------------------------------
(* Account.  A reason may be within its own limit and yet make the body    *)
(* longer than the prompter's contract allows.                             *)
Reasons == {"short", "unshowable", "oversized"}

GetUserInformation(r) ==
    \E reason \in Reasons : Arrive(r, "account", reason, reason # "oversized")

AccountWorker(r) == Admit(r, "account", "asking")

AccountRun(r) ==
    \/ Recheck(r, "account")
    \/ StillOpen(r, "account") /\ Answer(r, "success")

(* Access.  The texts are checked and one must not be blank; but a title   *)
(* alone leaves the body blank, and a subtitle and a body that fit may be  *)
(* too long together.                                                      *)
DialogTexts == {"fit", "unshowable", "blank"}

AccessDialog(r) ==
    \E texts \in DialogTexts : Arrive(r, "access", texts, texts # "blank")

AccessWorker(r) == Admit(r, "access", "asking")

(* The answer is relayed without another look at the marker. *)
AccessRun(r) == Affirmed(r, "access") /\ Answer(r, "success")

(* DynamicLauncher: the name may come back changed only if it is editable, *)
(* and not empty.                                                          *)
PrepareForms == {"editable", "fixed", "malformed"}

PrepareInstall(r) ==
    \E form \in PrepareForms :
        Arrive(r, "launcher", form, form # "malformed")

LauncherWorker(r) == Admit(r, "launcher", "asking")

NameAllowed(r, name) == name = "proposed" \/ (arg[r] = "editable" /\ name = "changed")

LauncherRun(r) ==
    \/ Recheck(r, "launcher")
    \/ StillOpen(r, "launcher") /\ \E name \in {"proposed", "changed", "empty"} :
            Answer(r, IF NameAllowed(r, name) THEN "success" ELSE "refused")

-----------------------------------------------------------------------------
(* Background.  Autostart without a command line is background only; the   *)
(* body is cut to fit the prompter's contract.                             *)
BackgroundWants == {"background", "autostart", "malformed"}

RequestBackground(r) ==
    \E wants \in BackgroundWants :
        Arrive(r, "background", wants, wants # "malformed")

BackgroundWorker(r) == Admit(r, "background", "asking")

EntryWriters == {r \in Requests : kind[r] = "background" /\ at[r] \in {"writing", "publishing"}}

(* With consent, the entry's temporary is opened; failing that, or without *)
(* autostart, the request still succeeds.                                  *)
BackgroundRun(r) ==
    \/ Recheck(r, "background") /\ UNCHANGED consentVars
    \/ /\ StillOpen(r, "background")
       /\ Answer(r, "success")
       /\ UNCHANGED consentVars
    \/ /\ StillOpen(r, "background")
       /\ arg[r] = "autostart"
       /\ Goto(r, "writing")
       /\ entry' = Entry!Open(entry, r)
       /\ crossedEntries' = (crossedEntries \/ EntryWriters # {})
       /\ UNCHANGED granted

(* The text, and the mode of whatever the temporary's name is by then.     *)
WriteEntry(r) ==
    /\ kind[r] = "background" /\ at[r] = "writing"
    /\ \/ Goto(r, "publishing") /\ entry' = Entry!Fill(entry, r, r)
       \/ Answer(r, "success") /\ entry' = Entry!Abandon(entry, r)
       \/ Answer(r, "success") /\ entry' = Entry!Fill(entry, r, r)
    /\ UNCHANGED <<granted, crossedEntries>>

(* Mutant: a write that failed is published all the same. *)
PublishEntryBlindly(r) ==
    /\ kind[r] = "background" /\ at[r] \in {"writing", "publishing"}
    /\ Entry!CanRename(entry)
    /\ Answer(r, "success")
    /\ entry' = Entry!Rename(entry)
    /\ granted' = r
    /\ UNCHANGED crossedEntries

(* The rename; another task's may have taken the temporary away.           *)
PublishEntry(r) ==
    /\ kind[r] = "background" /\ at[r] = "publishing"
    /\ Answer(r, "success")
    /\ \/ /\ Entry!CanRename(entry)
          /\ entry' = Entry!Rename(entry)
          /\ granted' = r
       \/ UNCHANGED <<entry, granted>>
    /\ UNCHANGED crossedEntries

ConsentNext(r) ==
    \/ /\ \/ GetUserInformation(r) \/ AccountWorker(r) \/ AccountRun(r)
          \/ AccessDialog(r) \/ AccessWorker(r) \/ AccessRun(r)
          \/ PrepareInstall(r) \/ LauncherWorker(r) \/ LauncherRun(r)
          \/ RequestBackground(r) \/ BackgroundWorker(r)
       /\ UNCHANGED consentVars
    \/ BackgroundRun(r) \/ WriteEntry(r) \/ PublishEntry(r)

-----------------------------------------------------------------------------
(* "Write the autostart entry under config_dir, atomically (temp file plus *)
(* rename)" (background.rs:251): as long as one request writes at a time,  *)
(* the entry is at every moment the whole text of the request last told    *)
(* that its autostart was set, whatever writes failed in between.  (When   *)
(* two write at once they share the temporary; the README says what then.) *)
AutostartAsGranted == ~crossedEntries => Entry!Contents(entry) = granted
=============================================================================
