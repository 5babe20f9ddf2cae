------------------------------ MODULE Wallpaper ------------------------------
(***************************************************************************)
(* The Wallpaper portal: an image is staged under current.<extension>, the *)
(* compositor is told its path and reads it from there for as long as it   *)
(* shows it, and the other staged files are pruned.                        *)
(***************************************************************************)
EXTENDS RequestTask

CONSTANT Extensions

VARIABLES
    staged,         \* per extension: the request whose image is in the file
    temporaries,    \* requests whose temporary is in the directory
    shown           \* compositor: the extension of the file it shows

wallVars == <<staged, temporaries, shown>>

WallInit ==
    /\ staged = [x \in Extensions |-> None]     \* clean_staging
    /\ temporaries = {}
    /\ shown = None

Ext(r) == arg[r].ext

(* A local file, wherever it is to be set, and a preview or none; None is  *)
(* an image that is not a local file, or an unknown place.                 *)
WallpaperRequests == [ext : Extensions \cup {None}, preview : BOOLEAN]

SetWallpaperUri(r) ==
    \E what \in WallpaperRequests : Arrive(r, "wallpaper", what, what.ext # None)

WallpaperWorker(r) == Admit(r, "wallpaper", "loading")

(* The image is read: missing, empty or too large, or good. *)
ReadImage(r) ==
    /\ at[r] = "loading"
    /\ \/ Answer(r, "refused")
       \/ Goto(r, IF arg[r].preview THEN "asking" ELSE "loaded")
    /\ UNCHANGED wallVars

(* Past the question, if any, the marker is looked at for the last time.   *)
StageImage(r) ==
    /\ at[r] = "loaded" \/ Affirmed(r, "wallpaper")
    /\ \/ r \in closed /\ Answer(r, "cancelled") /\ UNCHANGED wallVars
       \/ r \notin closed /\ Answer(r, "refused") /\ UNCHANGED wallVars
       \/ /\ r \notin closed
          /\ Goto(r, "staging")
          /\ temporaries' = temporaries \cup {r}
          /\ UNCHANGED <<staged, shown>>

(* The temporary is renamed over what was staged under the name, if it is  *)
(* still there; the directory may fail to sync after that.                 *)
CommitImage(r) ==
    /\ at[r] = "staging"
    /\ temporaries' = temporaries \ {r}
    /\ \/ /\ r \in temporaries
          /\ staged' = [staged EXCEPT ![Ext(r)] = r]
          /\ Goto(r, "applying") \/ Answer(r, "refused")
       \/ Answer(r, "refused") /\ UNCHANGED staged
    /\ UNCHANGED shown

(* ipc::set_wallpaper: no connection is an error, a failed call is tried   *)
(* again on a new one.  The compositor may have swapped though its answer  *)
(* was lost.                                                               *)
ApplyWallpaper(r) ==
    /\ at[r] \in {"applying", "reapplying"}
    /\ \/ Goto(r, "pruning") /\ shown' = Ext(r)
       \/ /\ Goto(r, IF at[r] = "applying" THEN "reapplying" ELSE "dropping")
          /\ shown' \in {shown, Ext(r)}
       \/ Goto(r, "dropping") /\ UNCHANGED shown
    /\ UNCHANGED <<staged, temporaries>>

(* Every other file in the directory goes, temporaries too. *)
PruneStaging(r) ==
    /\ at[r] = "pruning"
    /\ Answer(r, "success")
    /\ staged' = [x \in Extensions |-> IF x = Ext(r) THEN staged[x] ELSE None]
    /\ temporaries' = {}
    /\ UNCHANGED shown

(* The request's own file goes, whoever it holds the image of by now.      *)
DropStaged(r) ==
    /\ at[r] = "dropping"
    /\ Answer(r, "refused")
    /\ staged' = [staged EXCEPT ![Ext(r)] = None]
    /\ UNCHANGED <<temporaries, shown>>

WallNext(r) ==
    \/ (SetWallpaperUri(r) \/ WallpaperWorker(r)) /\ UNCHANGED wallVars
    \/ ReadImage(r) \/ StageImage(r) \/ CommitImage(r) \/ ApplyWallpaper(r)
    \/ PruneStaging(r) \/ DropStaged(r)

-----------------------------------------------------------------------------
(* "the file must outlive a successful reply" (wallpaper.rs:373): the file *)
(* of a wallpaper that was set is there for as long as the compositor      *)
(* shows it.                                                               *)
ShownIsStaged ==
    \A r \in Requests :
        kind[r] = "wallpaper" /\ answer[r] = "success" /\ shown = Ext(r)
            => staged[Ext(r)] # None
=============================================================================
