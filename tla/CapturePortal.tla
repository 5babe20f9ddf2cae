---------------------------- MODULE CapturePortal ----------------------------
(***************************************************************************)
(* Screenshot and PickColor: compositor chrome asks the user, the          *)
(* compositor captures, and the picture is written to the cache.  Each     *)
(* task has a compositor connection of its own, opened at its first call.  *)
(***************************************************************************)
EXTENDS RequestTask

CONSTANTS
    Oldest, Newest,     \* protocol versions this client speaks
    Compositors         \* what a compositor may be: the versions it accepts

VARIABLES shots         \* requests whose picture is in the cache

captureVars == <<shots>>

CaptureInit == shots = {}

-----------------------------------------------------------------------------
(* The handshake offers the newest version first and one older after each  *)
(* refusal; the last refusal is final.  An answer newer than the offer     *)
(* counts as a refusal.                                                    *)
Negotiated(accepted) ==
    LET spoken == accepted \cap Oldest..Newest
    IN IF spoken = {} THEN None ELSE CHOOSE v \in spoken : \A w \in spoken : w <= v

(* A connection is used only with scoped control and a renewable lease.    *)
Connects == \E c \in Compositors : Negotiated(c.versions) # None /\ c.control /\ c.renewable

-----------------------------------------------------------------------------
(* interactive or an area target: the user picks a region; otherwise the   *)
(* frontend has asked for consent, or the user must confirm.               *)
ScreenshotModes == {"pick", "consented", "confirm", "badtarget"}

Screenshot(r) ==
    \E mode \in ScreenshotModes :
        Arrive(r, "screenshot", mode, mode # "badtarget")

PickColor(r) == Arrive(r, "pickcolor", None, TRUE)

CaptureWorker(r) ==
    \/ Admit(r, "pickcolor", "picking")
    \/ Admit(r, "screenshot", CASE arg[r] = "pick" -> "picking"
                                [] arg[r] = "confirm" -> "confirming"
                                [] OTHER -> "capturing")

(* The picker or the question in compositor chrome: dismissed, failed or   *)
(* of the wrong kind (and never asked again), or answered.  The marker is  *)
(* looked at once it is answered.                                          *)
Interact(r) ==
    /\ at[r] \in {"picking", "confirming"}
    /\ \/ Answer(r, "cancelled")
       \/ Answer(r, "refused")
       \/ /\ Connects
          /\ IF r \in closed THEN Answer(r, "cancelled")
             ELSE IF kind[r] = "pickcolor" THEN Answer(r, "success")
             ELSE Goto(r, "capturing")
    /\ UNCHANGED captureVars

(* The capture, and its one retry over a new connection when the first     *)
(* call failed.                                                            *)
Retry(r) == Connects /\ at[r] = "capturing" /\ Goto(r, "recapturing")

Capture(r) ==
    /\ at[r] \in {"capturing", "recapturing"}
    /\ \/ Connects /\ Goto(r, "saving")
       \/ Retry(r)
       \/ Answer(r, "refused")
    /\ UNCHANGED captureVars

(* The write is atomic and leaves nothing when it fails. *)
WriteCapture(r) ==
    /\ at[r] = "saving"
    /\ \/ Goto(r, "captured") /\ shots' = shots \cup {r}
       \/ Answer(r, "refused") /\ UNCHANGED shots

(* "A Close racing the capture wins over a completed result"; the picture  *)
(* stays in the cache.                                                     *)
ReportShot(r) ==
    /\ at[r] = "captured"
    /\ Answer(r, IF r \in closed THEN "cancelled" ELSE "success")
    /\ UNCHANGED captureVars

CaptureNext(r) ==
    \/ (Screenshot(r) \/ PickColor(r) \/ CaptureWorker(r)) /\ UNCHANGED captureVars
    \/ Interact(r) \/ Capture(r) \/ WriteCapture(r) \/ ReportShot(r)
=============================================================================
