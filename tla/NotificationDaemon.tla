------------------------- MODULE NotificationDaemon -------------------------
(***************************************************************************)
(* The Notification portal (notification.rs): the manager, which runs one  *)
(* operation at a time under its mutex; the prompter it keeps running to   *)
(* show the cards, connected by a pipe for commands and one for events;    *)
(* the thread that pumps the events; and the table of live identifiers,    *)
(* shared by manager and pump.                                             *)
(*                                                                         *)
(* Left out: what is on a card, failures of try_wait, a pipe that is full, *)
(* and a daemon that closes its input without exiting.                     *)
(***************************************************************************)
EXTENDS Naturals, Sequences, FiniteSets, Lists

CONSTANTS
    Apps, Ids,
    Styles,         \* appearance snapshots
    MaxPerApp,      \* MAX_IDS_PER_APP
    MaxTotal,       \* MAX_TOTAL_IDS
    MaxAdds,        \* bound: AddNotification calls,
    MaxSpawns,      \* daemons spawned,
    MaxEvents,      \* and events in the pipe
    NoStyle

ASSUME NotificationAssumption ==
    /\ NoStyle \notin Styles
    /\ {MaxPerApp, MaxTotal} \subseteq Nat \ {0}
    /\ {MaxAdds, MaxSpawns, MaxEvents} \subseteq Nat

VARIABLES
    live,           \* LiveNotifications: identifiers by application, oldest first
    appearance,     \* DaemonManager::appearance
    child,          \* DaemonManager::daemon: no handle, running, or exited
    pump,           \* the pump thread of that handle runs
    op,             \* the operation that holds the manager's mutex
    sends,          \* its calls of send, the innermost last
    commands,       \* the pipe to the daemon
    cards,          \* what the daemon shows,
    style,          \* and with which appearance
    eventPipe,      \* the pipe from the daemon
    adds, spawns,   \* bounds
    stale,          \* history: keys left in the table by a failed write
    orphaned        \* history: keys that left the table although a newer card
                    \* of theirs is shown or on its way

manager == <<appearance, op>>
daemon == <<child, commands, cards, style>>
ghosts == <<stale, orphaned>>
notifyVars == <<live, manager, sends, daemon, pump, eventPipe, adds, spawns, ghosts>>

Key == [app : Apps, id : Ids]

Command ==
    [type : {"notify", "close"}, key : Key] \cup [type : {"appearance"}, style : Styles]

(* A call of send: what it writes, whether it is the second attempt, and   *)
(* where it is.                                                            *)
Send == [frame : Command, retry : BOOLEAN,
         at : {"ensure", "reap", "spawn", "prime", "write", "drop"}]

Op == [at : {"limit", "track", "evict", "deliver"}, key : Key, victim : Key, ok : BOOLEAN]
      \cup [at : {"push"}, ok : BOOLEAN]

Idle == [at |-> "idle"]

Members(s) == {s[i] : i \in DOMAIN s}

(* total: as long as no identifier is listed twice, their number. *)
Tracked == {k \in Key : k.id \in Members(live[k.app])}

NotifyTypeOK ==
    /\ live \in [Apps -> Seq(Ids)]
    /\ \A a \in Apps : Len(live[a]) <= MaxPerApp /\ Distinct(live[a])
    /\ Cardinality(Tracked) <= MaxTotal
    /\ appearance \in Styles \cup {NoStyle}
    /\ child \in {"none", "running", "exited"}
    /\ pump \in BOOLEAN
    /\ op \in Op \cup {Idle}
    /\ sends \in Seq(Send)
    /\ commands \in Seq(Command)
    /\ cards \subseteq Key
    /\ style \in Styles \cup {NoStyle}
    /\ eventPipe \in Seq(Key)

NotifyInit ==
    /\ live = [a \in Apps |-> <<>>]
    /\ appearance = NoStyle
    /\ child = "none" /\ pump = FALSE
    /\ op = Idle /\ sends = <<>>
    /\ commands = <<>> /\ cards = {} /\ style = NoStyle /\ eventPipe = <<>>
    /\ adds = 0 /\ spawns = 0
    /\ stale = {} /\ orphaned = {}

-----------------------------------------------------------------------------
(* The table.                                                              *)

(* track: an identifier in use keeps its position. *)
Track(k) ==
    IF k.id \in Members(live[k.app]) THEN live[k.app] ELSE Append(live[k.app], k.id)

(* remove: the first position that has the identifier. *)
Without(k) == [live EXCEPT ![k.app] = RemoveOne(live[k.app], k.id)]

Empty == [a \in Apps |-> <<>>]

-----------------------------------------------------------------------------
(* send.                                                                   *)

Begin(frame) == [frame |-> frame, retry |-> FALSE, at |-> "ensure"]

Top == sends[Len(sends)]
SendAt(at) == sends # <<>> /\ Top.at = at
SetTop(send) == sends' = [sends EXCEPT ![Len(sends)] = send]

(* send returns: to the operation, or to the ensure_daemon that primes a   *)
(* new daemon and takes no notice of the result.                           *)
Done(ok) ==
    IF Len(sends) = 1
    THEN /\ sends' = <<>>
         /\ op' = [op EXCEPT !.ok = ok]
    ELSE /\ sends' = [i \in 1..(Len(sends) - 1) |->
                         IF i = Len(sends) - 1 THEN [sends[i] EXCEPT !.at = "write"]
                                               ELSE sends[i]]
         /\ UNCHANGED op

(* Mutant: the identifiers of an exited daemon are kept. *)
EnsureKeeps ==
    /\ SendAt("ensure")
    /\ SetTop([Top EXCEPT !.at = CASE child = "running" -> "write"
                                   [] child = "exited" -> "reap"
                                   [] child = "none" -> "spawn"])
    /\ UNCHANGED <<live, manager, daemon, pump, eventPipe, adds, spawns, ghosts>>

(* ensure_daemon: a daemon found to have exited takes every identifier     *)
(* with it, also the one this operation has just entered.                  *)
Ensure ==
    /\ SendAt("ensure")
    /\ SetTop([Top EXCEPT !.at = CASE child = "running" -> "write"
                                   [] child = "exited" -> "reap"
                                   [] child = "none" -> "spawn"])
    /\ IF child = "exited"
       THEN /\ live' = Empty
            /\ stale' = {}
            /\ orphaned' = IF op.at \in {"evict", "deliver"} THEN {op.key} ELSE {}
       ELSE UNCHANGED <<live, ghosts>>
    /\ UNCHANGED <<manager, daemon, pump, eventPipe, adds, spawns>>

(* Drop of DaemonHandle: the child is reaped and the pump joined, which    *)
(* drains the pipe first.                                                  *)
DropHandle ==
    /\ ~pump
    /\ \/ SendAt("reap") /\ SetTop([Top EXCEPT !.at = "spawn"]) /\ UNCHANGED op
       \/ SendAt("drop") /\ ~Top.retry /\ UNCHANGED op
          /\ SetTop([Top EXCEPT !.at = "ensure", !.retry = TRUE])
       \/ SendAt("drop") /\ Top.retry /\ Done(FALSE)
    /\ child' = "none"
    /\ UNCHANGED <<live, appearance, commands, cards, style, pump, eventPipe, adds, spawns,
                   ghosts>>

(* A new daemon is told the appearance, if one is remembered, by a nested  *)
(* send.  A spawn may fail.                                                *)
Spawn ==
    /\ SendAt("spawn")
    /\ \/ /\ spawns < MaxSpawns
          /\ spawns' = spawns + 1
          /\ child' = "running" /\ pump' = TRUE
          /\ IF appearance = NoStyle
             THEN SetTop([Top EXCEPT !.at = "write"])
             ELSE sends' = Append([sends EXCEPT ![Len(sends)] = [Top EXCEPT !.at = "prime"]],
                                  Begin([type |-> "appearance", style |-> appearance]))
          /\ UNCHANGED op
       \/ /\ Done(FALSE)
          /\ UNCHANGED <<child, pump, spawns>>
    /\ UNCHANGED <<live, appearance, commands, cards, style, eventPipe, adds, ghosts>>

(* The frame is written; or the daemon has exited since, and its handle is *)
(* dropped while the table keeps its identifiers; or there is none, because *)
(* priming it failed.                                                      *)
Write ==
    /\ SendAt("write")
    /\ \/ /\ child = "running"
          /\ commands' = Append(commands, Top.frame)
          /\ Done(TRUE)
          /\ UNCHANGED stale
       \/ /\ child = "exited"
          /\ SetTop([Top EXCEPT !.at = "drop"])
          /\ stale' = stale \cup Tracked
          /\ UNCHANGED <<op, commands>>
       \/ /\ child = "none"
          /\ Done(FALSE)
          /\ UNCHANGED <<commands, stale>>
    /\ UNCHANGED <<live, appearance, child, cards, style, pump, eventPipe, adds, spawns,
                   orphaned>>

SendStep == Ensure \/ DropHandle \/ Spawn \/ Write

-----------------------------------------------------------------------------
(* The operations of the manager.                                          *)

OpAt(at) == op.at = at /\ sends = <<>>

AddNotification(k) ==
    /\ op = Idle
    /\ adds < MaxAdds
    /\ adds' = adds + 1
    /\ op' = [at |-> "limit", key |-> k, victim |-> k, ok |-> FALSE]
    /\ UNCHANGED <<live, appearance, sends, daemon, pump, eventPipe, spawns, ghosts>>

Limit ==
    /\ OpAt("limit")
    /\ op' = IF Cardinality(Tracked) >= MaxTotal THEN Idle ELSE [op EXCEPT !.at = "track"]
    /\ UNCHANGED <<live, appearance, sends, daemon, pump, eventPipe, adds, spawns, ghosts>>

(* Mutant: an application may have one identifier too many. *)
TrackOneMore ==
    /\ OpAt("track")
    /\ LET ids == Track(op.key)
           victim == [app |-> op.key.app, id |-> Head(ids)]
       IN IF Len(ids) > MaxPerApp + 1
          THEN /\ live' = [live EXCEPT ![op.key.app] = Tail(ids)]
               /\ op' = [op EXCEPT !.at = "evict", !.victim = victim]
               /\ sends' = <<Begin([type |-> "close", key |-> victim])>>
          ELSE /\ live' = [live EXCEPT ![op.key.app] = ids]
               /\ op' = [op EXCEPT !.at = "deliver"]
               /\ sends' = <<Begin([type |-> "notify", key |-> op.key])>>
    /\ UNCHANGED <<appearance, daemon, pump, eventPipe, adds, spawns, ghosts>>

(* Over the application's limit its oldest identifier goes, and its card   *)
(* is closed before the new one is sent.                                   *)
TrackNew ==
    /\ OpAt("track")
    /\ LET ids == Track(op.key)
           victim == [app |-> op.key.app, id |-> Head(ids)]
       IN IF Len(ids) > MaxPerApp
          THEN /\ live' = [live EXCEPT ![op.key.app] = Tail(ids)]
               /\ op' = [op EXCEPT !.at = "evict", !.victim = victim]
               /\ sends' = <<Begin([type |-> "close", key |-> victim])>>
          ELSE /\ live' = [live EXCEPT ![op.key.app] = ids]
               /\ op' = [op EXCEPT !.at = "deliver"]
               /\ sends' = <<Begin([type |-> "notify", key |-> op.key])>>
    /\ orphaned' = orphaned \ {op.key}
    /\ UNCHANGED <<appearance, daemon, pump, eventPipe, adds, spawns, stale>>

Evicted ==
    /\ OpAt("evict")
    /\ live' = Without(op.victim)
    /\ op' = [op EXCEPT !.at = "deliver"]
    /\ sends' = <<Begin([type |-> "notify", key |-> op.key])>>
    /\ UNCHANGED <<appearance, daemon, pump, eventPipe, adds, spawns, ghosts>>

Delivered ==
    /\ OpAt("deliver")
    /\ live' = IF op.ok THEN live ELSE Without(op.key)
    /\ op' = Idle
    /\ UNCHANGED <<appearance, sends, daemon, pump, eventPipe, adds, spawns, ghosts>>

(* Mutant: the identifier is forgotten and the card stays. *)
RemoveForgets(k) ==
    /\ op = Idle
    /\ k \in Tracked
    /\ live' = Without(k)
    /\ UNCHANGED <<manager, sends, daemon, pump, eventPipe, adds, spawns, ghosts>>

(* close: an identifier that is not in the table is a no-op, and a write   *)
(* that fails is ignored.                                                  *)
RemoveNotification(k) ==
    /\ op = Idle
    /\ k \in Tracked
    /\ live' = Without(k)
    /\ commands' = IF child = "running" THEN Append(commands, [type |-> "close", key |-> k])
                                        ELSE commands
    /\ UNCHANGED <<manager, sends, child, cards, style, pump, eventPipe, adds, spawns, ghosts>>

(* Mutant: the appearance is remembered only when there is a daemon. *)
PushForgets(new) ==
    /\ op = Idle
    /\ IF appearance = new \/ child = "none"
       THEN UNCHANGED <<manager, sends>>
       ELSE /\ appearance' = new
            /\ op' = [at |-> "push", ok |-> FALSE]
            /\ sends' = <<Begin([type |-> "appearance", style |-> new])>>
    /\ UNCHANGED <<live, daemon, pump, eventPipe, adds, spawns, ghosts>>

(* push_appearance: remembered, and sent if there is a daemon. *)
PushAppearance(new) ==
    /\ op = Idle
    /\ IF appearance = new
       THEN UNCHANGED <<manager, sends>>
       ELSE /\ appearance' = new
            /\ IF child = "none"
               THEN UNCHANGED <<op, sends>>
               ELSE /\ op' = [at |-> "push", ok |-> FALSE]
                    /\ sends' = <<Begin([type |-> "appearance", style |-> new])>>
    /\ UNCHANGED <<live, daemon, pump, eventPipe, adds, spawns, ghosts>>

Pushed ==
    /\ OpAt("push")
    /\ op' = Idle
    /\ UNCHANGED <<live, appearance, sends, daemon, pump, eventPipe, adds, spawns, ghosts>>

OpStep == Limit \/ TrackNew \/ Evicted \/ Delivered \/ Pushed

-----------------------------------------------------------------------------
(* The daemon and its pump.                                                *)

DaemonReads ==
    /\ child = "running" /\ commands # <<>>
    /\ commands' = Tail(commands)
    /\ LET c == Head(commands)
       IN \/ /\ c.type = "notify"
             /\ cards' = cards \cup {c.key}
             /\ UNCHANGED <<style, eventPipe>>
          \/ /\ c.type = "close"
             /\ cards' = cards \ {c.key}
             /\ eventPipe' = IF c.key \in cards THEN Append(eventPipe, c.key) ELSE eventPipe
             /\ UNCHANGED style
          \/ /\ c.type = "appearance"
             /\ style' = c.style
             /\ UNCHANGED <<cards, eventPipe>>
    /\ UNCHANGED <<live, manager, sends, child, pump, adds, spawns, ghosts>>

(* A card times out, is dismissed or acted upon. *)
CardCloses(k) ==
    /\ child = "running"
    /\ k \in cards
    /\ Len(eventPipe) < MaxEvents
    /\ cards' = cards \ {k}
    /\ eventPipe' = Append(eventPipe, k)
    /\ UNCHANGED <<live, manager, sends, child, commands, style, pump, adds, spawns, ghosts>>

DaemonExits ==
    /\ child = "running"
    /\ child' = "exited"
    /\ commands' = <<>> /\ cards' = {} /\ style' = NoStyle
    /\ UNCHANGED <<live, manager, sends, pump, eventPipe, adds, spawns, ghosts>>

(* A newer notification of the key is shown, on its way, or being sent. *)
Newer(k) ==
    \/ k \in cards
    \/ \E i \in DOMAIN commands : commands[i].type = "notify" /\ commands[i].key = k
    \/ op.at \in {"evict", "deliver"} /\ op.key = k

(* event_pump: Closed or ActionInvoked. *)
PumpEvent ==
    /\ pump /\ eventPipe # <<>>
    /\ LET k == Head(eventPipe)
       IN /\ live' = Without(k)
          /\ orphaned' = IF Newer(k) THEN orphaned \cup {k} ELSE orphaned
          /\ stale' = stale \ {k}
    /\ eventPipe' = Tail(eventPipe)
    /\ UNCHANGED <<manager, sends, daemon, pump, adds, spawns>>

PumpEnds ==
    /\ pump /\ eventPipe = <<>>
    /\ child # "running"
    /\ pump' = FALSE
    /\ UNCHANGED <<live, manager, sends, daemon, eventPipe, adds, spawns, ghosts>>

-----------------------------------------------------------------------------
Manager ==
    \/ SendStep \/ OpStep
    \/ \E k \in Key : AddNotification(k) \/ RemoveNotification(k)

Daemon == DaemonReads \/ DaemonExits \/ \E k \in Key : CardCloses(k)

Pump == PumpEvent \/ PumpEnds

-----------------------------------------------------------------------------
(* The table does not fill up with what is gone (notification.rs:461: "the *)
(* map only ever grows"): an identifier in it is shown, on its way, its    *)
(* end is on its way, or its daemon's exit is yet to be noticed.  The      *)
(* exceptions are those of a daemon that exited just before a write.       *)
NothingLeaks ==
    op = Idle => \A k \in Tracked \ stale :
        \/ child = "exited"
        \/ Newer(k)
        \/ \E i \in DOMAIN eventPipe : eventPipe[i] = k

(* A card on the screen can be withdrawn: RemoveNotification finds it in   *)
(* the table.  The exceptions are a card whose sending met a daemon that   *)
(* had exited, and one sent while the end of a former card of its key was  *)
(* on its way.                                                             *)
ShownIsTracked ==
    op = Idle => \A k \in cards \ orphaned :
        \/ k \in Tracked
        \/ \E i \in DOMAIN commands : commands[i].type = "close" /\ commands[i].key = k

(* The appearance the daemon will have when it has read its pipe. *)
Restyles == {i \in DOMAIN commands : commands[i].type = "appearance"}

FinalStyle ==
    IF Restyles = {} THEN style
    ELSE commands[CHOOSE i \in Restyles : \A j \in Restyles : j <= i].style
=============================================================================
