--------------------------- MODULE SettingsWatcher ---------------------------
(***************************************************************************)
(* The settings watcher (settings.rs): the daemon's copy of the            *)
(* compositor's desktop preferences, kept up to date by a thread that      *)
(* subscribes to changes on one connection and queries on another, and the *)
(* SettingChanged signals that keep a client's view in step.               *)
(*                                                                         *)
(* Preferences have a look, which prompters and notification cards render  *)
(* with, and a font, which stands for the keys that only clients read.     *)
(***************************************************************************)
EXTENDS Naturals

CONSTANTS
    Looks, Fonts,   \* values of the preferences
    MaxChanges,     \* bound: changes of the preferences
    MaxLosses,      \* bound: losses of the compositor
    None

ASSUME WatcherAssumption ==
    /\ None \notin Looks \cup Fonts
    /\ {MaxChanges, MaxLosses} \subseteq Nat

VARIABLES
    prefs,          \* the compositor's preferences
    up,             \* whether it can be reached
    subscribed,     \* the event connection is alive,
    events,         \* with so many SettingsChanged unread
    watcher,        \* where the startup, then the watcher thread is
    fetched,        \* the answer of its last query
    store,          \* SettingsStore
    owed,           \* keys whose SettingChanged has yet to be emitted
    view,           \* what a client knows,
    reading,        \* the answer to its ReadAll on its way, and
    overtaken,      \* history: whether a signal overtook that answer
    changes, losses \* bounds

compositor == <<prefs, up, changes, losses>>
channel == <<subscribed, events>>
thread == <<watcher, fetched, store, owed>>
client == <<view, reading, overtaken>>
watcherVars == <<compositor, channel, thread, client>>

Preferences == [look : Looks, font : Fonts]

ASSUME NoneIsNoPreference == None \notin Preferences

Keys == {"look", "font"}

WatcherTypeOK ==
    /\ prefs \in Preferences
    /\ up \in BOOLEAN /\ subscribed \in BOOLEAN
    /\ events \in 0..MaxChanges
    /\ watcher \in {"prime", "subscribe", "query", "replace", "push", "pushing", "emit",
                    "listen"}
    /\ fetched \in Preferences \cup {None}
    /\ store \in Preferences
    /\ owed \subseteq Keys
    /\ view \in Preferences \cup {None}
    /\ reading \in Preferences \cup {None}
    /\ overtaken \in BOOLEAN

(* The store starts with the default preferences. *)
WatcherInit ==
    /\ prefs \in Preferences
    /\ store \in Preferences
    /\ up = TRUE
    /\ subscribed = FALSE /\ events = 0
    /\ watcher = "prime" /\ fetched = None /\ owed = {}
    /\ view = None /\ reading = None /\ overtaken = FALSE
    /\ changes = 0 /\ losses = 0

-----------------------------------------------------------------------------
(* The compositor.                                                         *)

Change(p) ==
    /\ changes < MaxChanges
    /\ p # prefs
    /\ prefs' = p
    /\ changes' = changes + 1
    /\ events' = IF subscribed THEN events + 1 ELSE events
    /\ UNCHANGED <<up, losses, subscribed, thread, client>>

Lose ==
    /\ up
    /\ losses < MaxLosses
    /\ up' = FALSE
    /\ losses' = losses + 1
    /\ subscribed' = FALSE /\ events' = 0
    /\ UNCHANGED <<prefs, changes, thread, client>>

Recover ==
    /\ ~up
    /\ up' = TRUE
    /\ UNCHANGED <<prefs, changes, losses, channel, thread, client>>

-----------------------------------------------------------------------------
(* The daemon.                                                             *)

(* prime_store, before the bus name is requested. *)
Prime ==
    /\ watcher = "prime"
    /\ watcher' = "subscribe"
    /\ store' = IF up THEN prefs ELSE store
    /\ UNCHANGED <<compositor, channel, fetched, owed, client>>

(* Mutant: the first query precedes the subscription. *)
SubscribeLate ==
    /\ watcher = "subscribe"
    /\ up
    /\ \/ /\ fetched = None
          /\ fetched' = prefs
          /\ UNCHANGED <<channel, watcher>>
       \/ /\ fetched # None
          /\ subscribed' = TRUE /\ events' = 0
          /\ watcher' = "replace"
          /\ UNCHANGED fetched
    /\ UNCHANGED <<compositor, store, owed, client>>

(* watch_connection: subscribe on the first connection. *)
Subscribe ==
    /\ watcher = "subscribe"
    /\ up
    /\ subscribed' = TRUE /\ events' = 0
    /\ watcher' = "query"
    /\ UNCHANGED <<compositor, fetched, store, owed, client>>

Query ==
    /\ watcher = "query"
    /\ subscribed
    /\ fetched' = prefs
    /\ watcher' = "replace"
    /\ UNCHANGED <<compositor, channel, store, owed, client>>

(* Mutant: changes are computed against the new preferences. *)
ReplaceFirst ==
    /\ watcher = "replace"
    /\ store' = fetched
    /\ fetched' = None
    /\ owed' = {}
    /\ watcher' = IF fetched.look # store.look THEN "push" ELSE "emit"
    /\ UNCHANGED <<compositor, channel, client>>

(* update_and_emit: the store is replaced; a change of look goes to the    *)
(* notification daemon first, then every change is signalled.              *)
Replace ==
    /\ watcher = "replace"
    /\ store' = fetched
    /\ fetched' = None
    /\ owed' = {k \in Keys : fetched[k] # store[k]}
    /\ watcher' = IF fetched.look # store.look THEN "push" ELSE "emit"
    /\ UNCHANGED <<compositor, channel, client>>

Emit ==
    /\ watcher = "emit"
    /\ \/ /\ owed = {}
          /\ watcher' = "listen"
          /\ UNCHANGED <<owed, client>>
       \/ \E k \in owed :
             /\ owed' = owed \ {k}
             /\ view' = IF view = None THEN None ELSE [view EXCEPT ![k] = store[k]]
             /\ overtaken' = (overtaken \/ (reading # None /\ reading[k] # store[k]))
             /\ UNCHANGED <<watcher, reading>>
    /\ UNCHANGED <<compositor, channel, fetched, store>>

Listen ==
    /\ watcher = "listen"
    /\ events > 0
    /\ events' = events - 1
    /\ watcher' = "query"
    /\ UNCHANGED <<compositor, subscribed, fetched, store, owed, client>>

(* A lost connection is noticed at the next read, and opened again later.  *)
Reconnect ==
    /\ watcher \in {"query", "listen"}
    /\ ~subscribed
    /\ watcher' = "subscribe"
    /\ UNCHANGED <<compositor, channel, fetched, store, owed, client>>

(* ReadAll: the handler takes a snapshot, and its answer goes out later.   *)
ReadAll ==
    /\ watcher # "prime"
    /\ reading = None
    /\ reading' = store
    /\ overtaken' = FALSE
    /\ UNCHANGED <<compositor, channel, thread, view>>

ReadAllReply ==
    /\ reading # None
    /\ view' = reading
    /\ reading' = None
    /\ UNCHANGED <<compositor, channel, thread, overtaken>>

-----------------------------------------------------------------------------
Compositor == Lose \/ Recover \/ \E p \in Preferences : Change(p)

Watch == Prime \/ Subscribe \/ Query \/ Replace \/ Emit \/ Listen \/ Reconnect

Client == ReadAll \/ ReadAllReply

-----------------------------------------------------------------------------
(* A client that reads once and then follows the signals knows what ReadAll *)
(* would answer, whenever the watcher is not in the middle of an update,   *)
(* unless a signal overtook the answer to its read: the handler takes the  *)
(* snapshot and replies on another thread than the one that signals.       *)
ViewAgrees ==
    view # None /\ owed = {} /\ reading = None /\ ~overtaken => view = store

(* No change is missed (settings.rs:418 subscribes before it queries),     *)
(* wherever the compositor changes or is lost in between: when the watcher *)
(* waits on a live connection with nothing unread, the store is current.   *)
NoChangeMissed ==
    watcher = "listen" /\ subscribed /\ events = 0 => store = prefs
=============================================================================
