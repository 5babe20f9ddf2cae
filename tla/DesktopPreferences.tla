------------------------- MODULE DesktopPreferences -------------------------
(***************************************************************************)
(* The settings watcher and the notification daemon together: a change of  *)
(* the desktop's look reaches the cards on the screen through the          *)
(* manager's mutex, which AddNotification and RemoveNotification take on   *)
(* the executor thread (settings.rs:325, notification.rs:336).             *)
(***************************************************************************)
EXTENDS SettingsWatcher, NotificationDaemon

(* The appearance snapshot of a look is named by the look. *)
ASSUME LooksAreStyles == Styles = Looks

vars == <<watcherVars, notifyVars>>

Init == WatcherInit /\ NotifyInit

TypeOK == WatcherTypeOK /\ NotifyTypeOK

(* The watcher calls push_appearance, which reads the store under the      *)
(* mutex, and goes on when it returns.                                     *)
StartPush ==
    /\ watcher = "push"
    /\ PushAppearance(store.look)
    /\ watcher' = "pushing"
    /\ UNCHANGED <<compositor, channel, fetched, store, owed, client>>

FinishPush ==
    /\ watcher = "pushing"
    /\ op.at # "push"
    /\ watcher' = "emit"
    /\ UNCHANGED <<compositor, channel, fetched, store, owed, client, notifyVars>>

(* The bus name is requested once the store is primed. *)
Served == watcher # "prime"

Watcher == Watch /\ UNCHANGED notifyVars
Notifier == Served /\ Manager /\ UNCHANGED watcherVars

Next ==
    \/ Watcher \/ StartPush \/ FinishPush \/ Notifier
    \/ (Compositor \/ Client) /\ UNCHANGED notifyVars
    \/ (Daemon \/ Pump) /\ UNCHANGED watcherVars

Spec == Init /\ [][Next]_vars

-----------------------------------------------------------------------------
(* Once the watcher has pushed a look, a running daemon has, or will read, *)
(* that of the store, whatever exits and spawns lie between.               *)
StyleFollows ==
    op = Idle /\ child = "running" /\ watcher # "push" /\ appearance # NoStyle
        => FinalStyle = store.look
=============================================================================
