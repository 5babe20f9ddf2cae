----------------------- MODULE DesktopPreferencesProofs -----------------------
(***************************************************************************)
(* Proofs about DesktopPreferences, for any sets of preferences,           *)
(* applications and identifiers and any bounds.                            *)
(*                                                                         *)
(* First the settings watcher: no change is missed, and the signals keep a *)
(* client's view in step.  Both hold at rest only, so the invariant says   *)
(* what holds in the middle of an update: the answer of a query is current *)
(* unless an event is unread, and a client disagrees with the store only   *)
(* in keys whose signals are owed, or its answer was overtaken.            *)
(*                                                                         *)
(* Then the notification daemon: its table is bounded and does not fill up *)
(* with what is gone, every card can be withdrawn, and the cards have the  *)
(* look of the store.  Again these hold between operations; the invariant  *)
(* follows an operation through its sends, the nested ones that prime a    *)
(* new daemon included, and a frame through the pipe.                      *)
(***************************************************************************)
EXTENDS DesktopPreferences, ListProofs, FiniteSetTheorems, TLAPS

USE WatcherAssumption, NoneIsNoPreference

Bounded ==
    /\ changes \in 0..MaxChanges
    /\ events <= changes
    /\ watcher = "replace" => fetched # None
    /\ owed # {} => watcher \in {"push", "pushing", "emit"}
    /\ watcher = "prime" => view = None /\ reading = None

(* With nothing unread on a live connection, what was fetched is current.  *)
Fresh ==
    subscribed /\ events = 0 =>
        /\ watcher = "replace" => fetched = prefs
        /\ watcher \in {"push", "pushing", "emit", "listen"} => store = prefs

Agrees(p) == \A k \in Keys \ owed : p[k] = store[k]

InStep ==
    ~overtaken => IF reading # None THEN Agrees(reading) ELSE view # None => Agrees(view)

Inv == WatcherTypeOK /\ Bounded /\ Fresh /\ InStep

LEMMA PreferenceValues ==
    ASSUME NEW p \in Preferences, NEW q \in Preferences
    PROVE  /\ p # None
           /\ \A k \in Keys : /\ [p EXCEPT ![k] = q[k]] \in Preferences
                              /\ [p EXCEPT ![k] = q[k]][k] = q[k]
                              /\ \A j \in Keys \ {k} : [p EXCEPT ![k] = q[k]][j] = p[j]
           /\ (\A k \in Keys : p[k] = q[k]) => p = q
<1>1. p # None
  OBVIOUS
<1>2. ASSUME NEW k \in Keys
      PROVE  /\ [p EXCEPT ![k] = q[k]] \in Preferences
             /\ [p EXCEPT ![k] = q[k]][k] = q[k]
             /\ \A j \in Keys \ {k} : [p EXCEPT ![k] = q[k]][j] = p[j]
  <2>1. CASE k = "look"
    BY <2>1 DEF Preferences, Keys
  <2>2. CASE k = "font"
    BY <2>2 DEF Preferences, Keys
  <2>. QED  BY <2>1, <2>2 DEF Keys
<1>3. ASSUME \A k \in Keys : p[k] = q[k]
      PROVE  p = q
  <2>1. p.look = q.look /\ p.font = q.font
    BY <1>3 DEF Keys
  <2>. QED  BY <2>1 DEF Preferences
<1>. QED  BY <1>1, <1>2, <1>3

LEMMA InitInv == Init => Inv
<1>. SUFFICES ASSUME WatcherInit
              PROVE  Inv
  BY DEF Init
<1>0. MaxChanges \in Nat
  OBVIOUS
<1>1. WatcherTypeOK
  <2>1. up \in BOOLEAN /\ subscribed \in BOOLEAN
    BY DEF WatcherInit
  <2>2. overtaken \in BOOLEAN
    BY DEF WatcherInit
  <2>3. prefs \in Preferences /\ store \in Preferences /\ owed \subseteq Keys
    BY DEF WatcherInit
  <2>4. {fetched, view, reading} \subseteq Preferences \cup {None}
    BY DEF WatcherInit
  <2>5. events \in 0..MaxChanges /\ watcher = "prime"
    BY <1>0 DEF WatcherInit
  <2>. QED  BY <2>1, <2>2, <2>3, <2>4, <2>5 DEF WatcherTypeOK
<1>3. Bounded
  BY <1>0 DEF WatcherInit, Bounded
<1>2. Fresh /\ InStep
  BY DEF WatcherInit, Fresh, InStep
<1>. QED  BY <1>1, <1>2, <1>3 DEF Inv

LEMMA CompositorInv ==
    ASSUME Inv, Compositor
    PROVE  Inv'
<1>. USE DEF Inv
<1>1. ASSUME NEW p \in Preferences, Change(p)
      PROVE  Inv'
  BY <1>1 DEF Change, thread, client, WatcherTypeOK, Bounded, Fresh, InStep, Agrees
<1>2. CASE Lose
  <2>1. up' \in BOOLEAN /\ subscribed' \in BOOLEAN
    BY <1>2 DEF Lose
  <2>2. UNCHANGED <<prefs, changes, thread, client>> /\ ~subscribed' /\ events' = 0
    BY <1>2 DEF Lose
  <2>. QED
    BY <2>1, <2>2 DEF thread, client, WatcherTypeOK, Bounded, Fresh, InStep, Agrees
<1>3. CASE Recover
  <2>1. up' \in BOOLEAN
    BY <1>3 DEF Recover
  <2>2. UNCHANGED <<prefs, changes, channel, thread, client>>
    BY <1>3 DEF Recover
  <2>. QED
    BY <2>1, <2>2 DEF channel, thread, client, WatcherTypeOK, Bounded, Fresh, InStep, Agrees
<1>. QED  BY <1>1, <1>2, <1>3 DEF Compositor

LEMMA ClientInv ==
    ASSUME Inv, Client
    PROVE  Inv'
<1>. USE DEF Inv
<1>1. CASE ReadAll
  <2>1. store # None
    BY PreferenceValues DEF WatcherTypeOK
  <2>. QED
    BY <1>1, <2>1 DEF ReadAll, compositor, channel, thread, WatcherTypeOK, Bounded, Fresh,
                      InStep, Agrees
<1>2. CASE ReadAllReply
  BY <1>2 DEF ReadAllReply, compositor, channel, thread, WatcherTypeOK, Bounded, Fresh, InStep,
              Agrees
<1>. QED  BY <1>1, <1>2 DEF Client

LEMMA WatchInv ==
    ASSUME Inv, Watch
    PROVE  Inv'
<1>. USE DEF Inv
<1>1. CASE Prime
  <2>1. /\ store' \in Preferences
        /\ UNCHANGED <<compositor, channel, fetched, owed, client>>
        /\ watcher = "prime" /\ watcher' = "subscribe"
    BY <1>1 DEF Prime, WatcherTypeOK
  <2>2. WatcherTypeOK' /\ Bounded' /\ Fresh'
    BY <2>1 DEF compositor, channel, client, WatcherTypeOK, Bounded, Fresh
  <2>3. InStep'
    BY <2>1 DEF client, Bounded, InStep, Agrees
  <2>. QED  BY <2>2, <2>3
<1>2. CASE Subscribe
  <2>1. subscribed' \in BOOLEAN
    BY <1>2 DEF Subscribe
  <2>2. /\ UNCHANGED <<compositor, fetched, store, owed, client>>
        /\ watcher = "subscribe" /\ watcher' = "query" /\ events' = 0
    BY <1>2 DEF Subscribe
  <2>3. WatcherTypeOK'
    BY <2>1, <2>2 DEF compositor, client, WatcherTypeOK
  <2>. QED
    BY <2>2, <2>3 DEF compositor, client, WatcherTypeOK, Bounded, Fresh, InStep, Agrees
<1>3. CASE Query
  BY <1>3 DEF Query, compositor, channel, client, WatcherTypeOK, Bounded, Fresh, InStep, Agrees
<1>4. CASE Replace
  <2>0. fetched \in Preferences /\ owed' \subseteq Keys
    BY <1>4 DEF Replace, WatcherTypeOK, Bounded
  <2>1. WatcherTypeOK' /\ Bounded' /\ Fresh'
    <3>1. WatcherTypeOK'
      BY <1>4, <2>0 DEF Replace, compositor, channel, client, WatcherTypeOK
    <3>2. Bounded'
      BY <1>4, <2>0 DEF Replace, compositor, channel, Bounded
    <3>3. Fresh'
      BY <1>4, <2>0 DEF Replace, compositor, channel, Fresh
    <3>. QED  BY <3>1, <3>2, <3>3
  <2>2. owed = {}
    BY <1>4 DEF Replace, Bounded
  <2>3. ASSUME NEW p, Agrees(p)
        PROVE  Agrees(p)'
    BY <1>4, <2>2, <2>3 DEF Replace, Agrees
  <2>4. InStep'
    BY <1>4, <2>3 DEF Replace, client, InStep
  <2>. QED  BY <2>1, <2>4
<1>5. CASE Emit
  <2>1. CASE owed = {} /\ watcher' = "listen" /\ UNCHANGED <<owed, client>>
    BY <1>5, <2>1 DEF Emit, compositor, channel, client, WatcherTypeOK, Bounded, Fresh, InStep,
                      Agrees
  <2>2. ASSUME NEW k \in owed, watcher = "emit", owed' = owed \ {k},
               view' = IF view = None THEN None ELSE [view EXCEPT ![k] = store[k]],
               overtaken' = (overtaken \/ (reading # None /\ reading[k] # store[k])),
               UNCHANGED <<watcher, reading, compositor, channel, fetched, store>>
        PROVE  Inv'
    <3>1. k \in Keys
      BY <2>2 DEF WatcherTypeOK
    <3>2. ASSUME view # None
          PROVE  /\ view' \in Preferences /\ view' # None
                 /\ view'[k] = store[k]
                 /\ \A j \in Keys \ {k} : view'[j] = view[j]
      <4>1. view \in Preferences /\ store \in Preferences
        BY <3>2 DEF WatcherTypeOK
      <4>2. view' = [view EXCEPT ![k] = store[k]]
        BY <2>2, <3>2
      <4>3. view' \in Preferences
        BY <3>1, <4>1, <4>2, PreferenceValues
      <4>. QED  BY <3>1, <4>1, <4>2, <4>3, PreferenceValues
    <3>3. WatcherTypeOK' /\ Bounded' /\ Fresh'
      BY <2>2, <3>2 DEF compositor, channel, WatcherTypeOK, Bounded, Fresh
    <3>4. InStep'
      BY <2>2, <3>1, <3>2 DEF InStep, Agrees
    <3>. QED  BY <3>3, <3>4
  <2>. QED  BY <1>5, <2>1, <2>2 DEF Emit
<1>6. CASE Listen
  BY <1>6 DEF Listen, compositor, client, WatcherTypeOK, Bounded, Fresh, InStep, Agrees
<1>7. CASE Reconnect
  BY <1>7 DEF Reconnect, compositor, channel, client, WatcherTypeOK, Bounded, Fresh, InStep, Agrees
<1>. QED  BY <1>1, <1>2, <1>3, <1>4, <1>5, <1>6, <1>7 DEF Watch

LEMMA NextInv == Inv /\ [Next]_vars => Inv'
<1>. SUFFICES ASSUME Inv, [Next]_vars PROVE Inv'
  OBVIOUS
<1>1. CASE UNCHANGED watcherVars
  BY <1>1 DEF watcherVars, compositor, channel, thread, client, Inv, WatcherTypeOK, Bounded, Fresh,
              InStep, Agrees
<1>2. CASE StartPush \/ FinishPush
  <2>1. /\ UNCHANGED <<compositor, channel, fetched, store, owed, client>>
        /\ watcher \in {"push", "pushing"} /\ watcher' \in {"pushing", "emit"}
    BY <1>2 DEF StartPush, FinishPush
  <2>. QED
    BY <2>1 DEF compositor, channel, client, Inv, WatcherTypeOK, Bounded, Fresh, InStep, Agrees
<1>. QED
  BY <1>1, <1>2, CompositorInv, ClientInv, WatchInv DEF Next, Watcher, Notifier, vars

LEMMA InvCorrect == Spec => []Inv
  BY InitInv, NextInv, PTL DEF Spec

(* No change of the preferences is missed, wherever between subscribing,   *)
(* querying and reading it comes, and however often the compositor is lost *)
(* (settings.rs:418).                                                      *)
THEOREM NoChangeMissedCorrect == Spec => []NoChangeMissed
<1>1. Inv => NoChangeMissed
  BY DEF Inv, Fresh, NoChangeMissed
<1>. QED  BY <1>1, InvCorrect, PTL

(* A client that reads once and follows SettingChanged knows what is       *)
(* stored, unless a signal overtook the answer to its read (settings.rs,   *)
(* update_and_emit and ReadAll).                                           *)
THEOREM ViewCorrect == Spec => []ViewAgrees
<1>1. Inv => ViewAgrees
  <2>. SUFFICES ASSUME Inv, view # None, owed = {}, reading = None, ~overtaken
                PROVE  view = store
    BY DEF ViewAgrees
  <2>1. \A k \in Keys : view[k] = store[k]
    BY DEF Inv, InStep, Agrees
  <2>. QED  BY <2>1, PreferenceValues DEF Inv, WatcherTypeOK
<1>. QED  BY <1>1, InvCorrect, PTL

-----------------------------------------------------------------------------
USE NotificationAssumption

(* The notification daemon: types, the stack of sends, and the pipes.      *)

Types ==
    /\ appearance \in Styles \cup {NoStyle}
    /\ child \in {"none", "running", "exited"} /\ pump \in BOOLEAN
    /\ op \in Op \cup {Idle}
    /\ sends \in Seq(Send)
    /\ commands \in Seq(Command)
    /\ cards \subseteq Key /\ style \in Styles \cup {NoStyle}
    /\ eventPipe \in Seq(Key)

Table ==
    /\ live \in [Apps -> Seq(Ids)]
    /\ \A a \in Apps : Len(live[a]) <= MaxPerApp /\ Distinct(live[a])
    /\ IsFiniteSet(Tracked) /\ Cardinality(Tracked) <= MaxTotal
    /\ op.at = "track" => Cardinality(Tracked) < MaxTotal

Notifying(k) == [type |-> "notify", key |-> k]
Closing(k) == [type |-> "close", key |-> k]
Restyling == [type |-> "appearance", style |-> appearance]

(* The innermost send is the one at work, those around it wait for the     *)
(* appearance to reach a new daemon, and the outermost is the operation's. *)
Stack ==
    /\ \A i \in DOMAIN sends : (i < Len(sends)) <=> (sends[i].at = "prime")
    /\ \A i \in DOMAIN sends : i # 1 => sends[i].frame = Restyling /\ appearance # NoStyle
    /\ sends # <<>> =>
          /\ op.at \in {"evict", "deliver", "push"}
          /\ op.at = "evict" => sends[1].frame = Closing(op.victim)
          /\ op.at = "deliver" => sends[1].frame = Notifying(op.key)
          /\ op.at = "push" => sends[1].frame = Restyling /\ appearance # NoStyle

(* A daemon that is gone has emptied its pipe, a pump that is gone its own,*)
(* and a send that failed has left no daemon.                              *)
Pipes ==
    /\ child # "running" => commands = <<>> /\ cards = {}
    /\ child = "running" => pump
    /\ child = "none" => ~pump
    /\ ~pump => eventPipe = <<>>
    /\ SendAt("spawn") => child = "none"
    /\ SendAt("reap") \/ SendAt("drop") => child = "exited"
    /\ op.at \in {"evict", "deliver"} /\ sends = <<>> /\ ~op.ok => child = "none"

NotifyInv == Types /\ Table /\ Stack /\ Pipes

(* The steps of the manager and the daemon, the pushes of the settings     *)
(* watcher among them.                                                     *)
NotifyNext == Manager \/ Daemon \/ Pump \/ \E new \in Styles : PushAppearance(new)

-----------------------------------------------------------------------------
(* The table.                                                              *)

LEMMA Forgotten ==
    ASSUME NEW s \in Seq(Ids), NEW x, Distinct(s)
    PROVE  /\ RemoveOne(s, x) \in Seq(Ids) /\ Len(RemoveOne(s, x)) <= Len(s)
           /\ Distinct(RemoveOne(s, x))
           /\ Members(RemoveOne(s, x)) = Members(s) \ {x}
<1>. DEFINE r == RemoveOne(s, x)
            p == Position(s, x)
            n == Len(s)
<1>0. n \in Nat /\ DOMAIN s = 1..n
  OBVIOUS
<1>1. CASE x \notin Members(s)
  <2>1. r = s
    BY <1>1 DEF RemoveOne, Members
  <2>. QED  BY <1>0, <1>1, <2>1
<1>2. CASE x \in Members(s)
  <2>1. /\ r \in Seq(Ids) /\ Len(r) = n - 1 /\ p \in DOMAIN s /\ s[p] = x
        /\ \A j \in 1..(n - 1) : r[j] = IF j < p THEN s[j] ELSE s[j + 1]
    <3>. HIDE DEF r, p, n
    <3>1. PICK i \in DOMAIN s : s[i] = x
      BY <1>2 DEF Members
    <3>2. /\ RemoveOne(s, x) \in Seq(Ids) /\ Len(RemoveOne(s, x)) = Len(s) - 1
          /\ Position(s, x) \in DOMAIN s /\ s[Position(s, x)] = x
          /\ \A j \in 1..(Len(s) - 1) :
                RemoveOne(s, x)[j] = IF j < Position(s, x) THEN s[j] ELSE s[j + 1]
      BY <3>1, Removed, SMTT(30)
    <3>. QED  BY <3>2, Zenon DEF r, p, n
  <2>. HIDE DEF r, p, n
  <2>2. DOMAIN r = 1..(n - 1)
    BY <1>0, <2>1
  <2>. DEFINE at(j) == IF j < p THEN j ELSE j + 1
  <2>3. \A j \in DOMAIN r : at(j) \in DOMAIN s /\ at(j) # p /\ r[j] = s[at(j)]
    <3>1. \A j \in DOMAIN r : r[j] = IF j < p THEN s[j] ELSE s[j + 1]
      BY <2>1, <2>2
    <3>2. p \in Nat /\ \A j \in 1..(n - 1) : j \in 1..n /\ j + 1 \in 1..n
      BY <1>0, <2>1
    <3>3. \A j \in 1..(n - 1) : at(j) # p
      BY <3>2
    <3>. QED  BY <1>0, <2>2, <3>1, <3>2, <3>3
  <2>4. \A j, l \in DOMAIN r : at(j) = at(l) => j = l
    <3>1. p \in Nat /\ DOMAIN r \subseteq Nat
      BY <1>0, <2>1, <2>2
    <3>. QED  BY <3>1
  <2>5. \A i \in DOMAIN s : i # p => \E j \in DOMAIN r : i = at(j)
    <3>1. ASSUME NEW i \in DOMAIN s, i # p
          PROVE  \E j \in DOMAIN r : i = at(j)
      <4>1. CASE i < p
        <5>1. i \in DOMAIN r /\ at(i) = i
          BY <1>0, <2>1, <2>2, <4>1
        <5>. QED  BY <5>1
      <4>2. CASE i > p
        <5>1. i - 1 \in DOMAIN r /\ at(i - 1) = i
          BY <1>0, <2>1, <2>2, <4>2
        <5>. QED  BY <5>1
      <4>. QED  BY <1>0, <2>1, <3>1, <4>1, <4>2
    <3>. QED  BY <3>1
  <2>. HIDE DEF at
  <2>6. Distinct(r)
    BY <2>3, <2>4 DEF Distinct
  <2>7. ASSUME NEW y \in Members(r) PROVE y \in Members(s) \ {x}
    <3>1. PICK j \in DOMAIN r : r[j] = y
      BY DEF Members
    <3>2. s[at(j)] = y /\ at(j) \in DOMAIN s /\ at(j) # p
      BY <2>3, <3>1
    <3>3. y # x
      BY <2>1, <3>2 DEF Distinct
    <3>. QED  BY <3>2, <3>3 DEF Members
  <2>8. ASSUME NEW y \in Members(s), y # x PROVE y \in Members(r)
    <3>1. PICK i \in DOMAIN s : s[i] = y
      BY DEF Members
    <3>2. PICK j \in DOMAIN r : i = at(j)
      BY <2>1, <2>5, <2>8, <3>1
    <3>. QED  BY <2>3, <3>1, <3>2 DEF Members
  <2>9. Members(r) = Members(s) \ {x} /\ Len(r) <= n
    BY <1>0, <2>1, <2>7, <2>8
  <2>. QED  BY <2>1, <2>6, <2>9 DEF r, n
<1>. QED  BY <1>1, <1>2

(* The list of one application changes.                                    *)
LEMMA TrackedWith ==
    ASSUME Table, NEW a \in Apps, NEW ids \in Seq(Ids), live' = [live EXCEPT ![a] = ids]
    PROVE  /\ live' \in [Apps -> Seq(Ids)] /\ live'[a] = ids
           /\ \A b \in Apps \ {a} : live'[b] = live[b]
           /\ \A k \in Key : k \in Tracked' <=>
                 IF k.app = a THEN k.id \in Members(ids) ELSE k \in Tracked
<1>1. live' \in [Apps -> Seq(Ids)] /\ live'[a] = ids /\ \A b \in Apps \ {a} : live'[b] = live[b]
  BY DEF Table
<1>2. \A k \in Key : k.app \in Apps
  BY DEF Key
<1>. QED  BY <1>1, <1>2 DEF Tracked

LEMMA TableForgets ==
    ASSUME Table, NEW k \in Key, live' = Without(k), op'.at = "track" => op.at = "track"
    PROVE  Table' /\ Tracked' = Tracked \ {k}
<1>. DEFINE ids == RemoveOne(live[k.app], k.id)
<1>0. k.app \in Apps /\ k.id \in Ids /\ live[k.app] \in Seq(Ids) /\ Distinct(live[k.app])
  BY DEF Key, Table
<1>1. /\ ids \in Seq(Ids) /\ Len(ids) <= Len(live[k.app]) /\ Distinct(ids)
      /\ Members(ids) = Members(live[k.app]) \ {k.id}
  BY <1>0, Forgotten
<1>2. live' = [live EXCEPT ![k.app] = ids]
  BY DEF Without
<1>. HIDE DEF ids
<1>3. /\ live' \in [Apps -> Seq(Ids)] /\ live'[k.app] = ids
      /\ \A b \in Apps \ {k.app} : live'[b] = live[b]
      /\ \A j \in Key : j \in Tracked' <=>
            IF j.app = k.app THEN j.id \in Members(ids) ELSE j \in Tracked
  BY <1>0, <1>1, <1>2, TrackedWith
<1>4. \A j \in Key : (j.app = k.app /\ j.id = k.id) => j = k
  BY DEF Key
<1>5. \A j \in Key : j.app = k.app => (j \in Tracked <=> j.id \in Members(live[k.app]))
  BY DEF Tracked
<1>6. \A j \in Key : j \in Tracked' <=> (j \in Tracked /\ j # k)
  BY <1>1, <1>3, <1>4, <1>5
<1>7. Tracked' = Tracked \ {k}
  <2>1. Tracked' \subseteq Key /\ Tracked \subseteq Key
    BY DEF Tracked
  <2>. QED  BY <1>6, <2>1
<1>8. IsFiniteSet(Tracked') /\ Cardinality(Tracked') <= Cardinality(Tracked)
  BY <1>7, FS_Subset DEF Table
<1>9. Cardinality(Tracked) \in Nat /\ Cardinality(Tracked') \in Nat /\ MaxTotal \in Nat
  BY <1>8, FS_CardinalityType DEF Table
<1>10. \A a \in Apps : Len(live'[a]) <= MaxPerApp /\ Distinct(live'[a])
  <2>1. Len(ids) \in Nat /\ Len(live[k.app]) \in Nat /\ MaxPerApp \in Nat
    BY <1>0, <1>1
  <2>2. Len(ids) <= MaxPerApp
    BY <1>0, <1>1, <2>1 DEF Table
  <2>. QED  BY <1>1, <1>3, <2>2 DEF Table
<1>11. /\ Cardinality(Tracked') <= MaxTotal
       /\ op'.at = "track" => Cardinality(Tracked') < MaxTotal
  <2>1. Cardinality(Tracked) <= MaxTotal /\ (op.at = "track" => Cardinality(Tracked) < MaxTotal)
    BY DEF Table
  <2>2. op'.at = "track" => op.at = "track"
    OBVIOUS
  <2>. QED  BY <1>8, <1>9, <2>1, <2>2
<1>. QED  BY <1>3, <1>7, <1>8, <1>10, <1>11 DEF Table

LEMMA TableEmptied ==
    ASSUME live' = Empty
    PROVE  Table' /\ Tracked' = {}
<1>1. live' \in [Apps -> Seq(Ids)] /\ \A a \in Apps : live'[a] = <<>>
  BY DEF Empty
<1>2. Tracked' = {}
  <2>1. \A k \in Key : k.app \in Apps
    BY DEF Key
  <2>. QED  BY <1>1, <2>1 DEF Tracked, Members
<1>3. IsFiniteSet({}) /\ Cardinality({}) = 0
  BY FS_EmptySet
<1>4. \A a \in Apps : Len(live'[a]) <= MaxPerApp /\ Distinct(live'[a])
  BY <1>1 DEF Distinct
<1>5. 0 <= MaxTotal /\ 0 < MaxTotal
  OBVIOUS
<1>. QED  BY <1>1, <1>2, <1>3, <1>4, <1>5 DEF Table

LEMMA TableSame ==
    ASSUME Table, UNCHANGED live, op'.at = "track" => op.at = "track"
    PROVE  Table' /\ Tracked' = Tracked
<1>1. Tracked' = Tracked
  BY DEF Tracked
<1>. QED  BY <1>1 DEF Table

(* An identifier is entered, and the oldest goes when there are too many:  *)
(* never the one just entered.                                             *)
LEMMA TableTracks ==
    ASSUME Types, Table, TrackNew
    PROVE  /\ Table' /\ op.key \in Tracked' /\ Tracked' \subseteq Tracked \cup {op.key}
           /\ op'.at = "evict" => /\ op'.victim \in Key \ Tracked'
                                  /\ op' = [op EXCEPT !.at = "evict", !.victim = op'.victim]
                                  /\ sends' = <<Begin(Closing(op'.victim))>>
                                  /\ Tracked \ {op'.victim} \subseteq Tracked'
           /\ op'.at # "evict" => /\ op' = [op EXCEPT !.at = "deliver"]
                                  /\ sends' = <<Begin(Notifying(op.key))>>
                                  /\ Tracked \subseteq Tracked'
<1>. DEFINE k == op.key
            old == live[k.app]
            ids == Track(k)
            victim == [app |-> k.app, id |-> Head(ids)]
<1>1. op \in Op /\ op.at = "track" /\ k \in Key
  BY DEF TrackNew, OpAt, Types, Idle, Op
<1>2. k.app \in Apps /\ k.id \in Ids /\ old \in Seq(Ids) /\ Distinct(old) /\ Len(old) <= MaxPerApp
  BY <1>1 DEF Key, Table
<1>. HIDE DEF k
<1>3. /\ ids \in Seq(Ids) /\ Distinct(ids) /\ ids # <<>>
      /\ Members(ids) = Members(old) \cup {k.id}
      /\ Len(ids) <= MaxPerApp \/ (Len(ids) = MaxPerApp + 1 /\ Head(ids) # k.id)
  <2>1. CASE k.id \in Members(old)
    <3>1. ids = old
      BY <2>1 DEF Track
    <3>2. old # <<>>
      BY <2>1 DEF Members
    <3>. QED  BY <1>2, <2>1, <3>1, <3>2
  <2>2. CASE k.id \notin Members(old)
    <3>1. ids = Append(old, k.id)
      BY <2>2 DEF Track
    <3>2. /\ ids \in Seq(Ids) /\ Len(ids) = Len(old) + 1 /\ Len(old) \in Nat
          /\ ids[Len(old) + 1] = k.id /\ \A i \in 1..Len(old) : ids[i] = old[i]
          /\ DOMAIN ids = 1..(Len(old) + 1) /\ DOMAIN old = 1..Len(old)
      BY <1>2, <3>1
    <3>. HIDE DEF ids, old
    <3>3. \A i \in DOMAIN ids : i \in DOMAIN old \/ i = Len(old) + 1
      BY <3>2
    <3>4. \A i \in DOMAIN old : i \in DOMAIN ids /\ i # Len(old) + 1
      BY <3>2
    <3>5. Len(old) + 1 \in DOMAIN ids
      BY <3>2
    <3>6. \A i \in DOMAIN old : old[i] # k.id
      BY <2>2 DEF Members
    <3>7. Distinct(ids)
      BY <1>2, <3>2, <3>3, <3>6 DEF Distinct
    <3>8. Members(ids) = Members(old) \cup {k.id}
      BY <3>2, <3>3, <3>4, <3>5 DEF Members
    <3>9. Len(ids) <= MaxPerApp \/ Len(ids) = MaxPerApp + 1
      BY <1>2, <3>2
    <3>10. Len(ids) = MaxPerApp + 1 => Head(ids) # k.id
      <4>1. SUFFICES ASSUME Len(ids) = MaxPerApp + 1 PROVE Head(ids) # k.id
        OBVIOUS
      <4>2. 1 \in DOMAIN old
        BY <1>2, <3>2, <4>1
      <4>3. Head(ids) = ids[1]
        BY <3>2
      <4>. QED  BY <3>2, <3>6, <4>2, <4>3
    <3>11. ids # <<>>
      BY <3>2
    <3>. QED  BY <3>2, <3>7, <3>8, <3>9, <3>10, <3>11
  <2>. QED  BY <2>1, <2>2
<1>. HIDE DEF ids
<1>4. \A j \in Key : j.app = k.app => (j \in Tracked <=> j.id \in Members(old))
  BY DEF Tracked
<1>5. \A j \in Key : (j.app = k.app /\ j.id = k.id) => j = k
  BY <1>1 DEF Key
<1>. HIDE DEF old
<1>6. Cardinality(Tracked) < MaxTotal /\ IsFiniteSet(Tracked)
  BY <1>1 DEF Table
<1>7. IsFiniteSet(Tracked \cup {k}) /\ Cardinality(Tracked \cup {k}) <= MaxTotal
  <2>1. /\ IsFiniteSet(Tracked \cup {k})
        /\ Cardinality(Tracked \cup {k}) = IF k \in Tracked THEN Cardinality(Tracked)
                                                           ELSE Cardinality(Tracked) + 1
    BY <1>6, FS_AddElement
  <2>2. Cardinality(Tracked) \in Nat /\ MaxTotal \in Nat
    BY <1>6, FS_CardinalityType
  <2>. QED  BY <1>6, <2>1, <2>2
<1>8. ASSUME NEW new \in Seq(Ids), live' = [live EXCEPT ![k.app] = new], Distinct(new),
             Len(new) <= MaxPerApp, Members(new) \subseteq Members(ids), op'.at # "track"
      PROVE  /\ Table' /\ Tracked' \subseteq Tracked \cup {k}
             /\ \A j \in Key : j \in Tracked' <=>
                   IF j.app = k.app THEN j.id \in Members(new) ELSE j \in Tracked
  <2>1. /\ live' \in [Apps -> Seq(Ids)] /\ live'[k.app] = new
        /\ \A b \in Apps \ {k.app} : live'[b] = live[b]
        /\ \A j \in Key : j \in Tracked' <=>
              IF j.app = k.app THEN j.id \in Members(new) ELSE j \in Tracked
    BY <1>2, <1>8, TrackedWith
  <2>2. Tracked' \subseteq Key
    BY DEF Tracked
  <2>3. Tracked' \subseteq Tracked \cup {k}
    BY <1>3, <1>4, <1>5, <1>8, <2>1, <2>2
  <2>4. IsFiniteSet(Tracked') /\ Cardinality(Tracked') <= Cardinality(Tracked \cup {k})
    BY <1>7, <2>3, FS_Subset
  <2>5. Cardinality(Tracked') \in Nat /\ Cardinality(Tracked \cup {k}) \in Nat /\ MaxTotal \in Nat
    BY <1>7, <2>4, FS_CardinalityType
  <2>6. Cardinality(Tracked') <= MaxTotal
    BY <1>7, <2>4, <2>5
  <2>7. \A a \in Apps : Len(live'[a]) <= MaxPerApp /\ Distinct(live'[a])
    BY <1>8, <2>1 DEF Table
  <2>. QED  BY <1>8, <2>1, <2>3, <2>4, <2>6, <2>7 DEF Table
<1>9. CASE Len(ids) > MaxPerApp
  <2>1. /\ live' = [live EXCEPT ![k.app] = Tail(ids)]
        /\ op' = [op EXCEPT !.at = "evict", !.victim = victim]
        /\ sends' = <<Begin(Closing(victim))>>
    BY <1>9 DEF TrackNew, k, ids, Closing
  <2>2. Len(ids) = MaxPerApp + 1 /\ Head(ids) # k.id
    BY <1>3, <1>9
  <2>3. victim \in Key /\ victim # k /\ victim.app = k.app /\ victim.id = Head(ids)
    <3>1. Head(ids) \in Ids
      BY <1>3
    <3>. QED  BY <1>2, <2>2, <3>1 DEF Key
  <2>. HIDE DEF victim
  <2>4. op'.at = "evict" /\ op'.victim = victim
    BY <1>1, <2>1, <2>3 DEF Op
  <2>5. /\ Tail(ids) \in Seq(Ids) /\ Len(Tail(ids)) = Len(ids) - 1
        /\ \A i \in 1..(Len(ids) - 1) : Tail(ids)[i] = ids[i + 1]
        /\ DOMAIN Tail(ids) = 1..(Len(ids) - 1) /\ DOMAIN ids = 1..Len(ids) /\ Len(ids) \in Nat
        /\ Head(ids) = ids[1]
    BY <1>3
  <2>6. Distinct(Tail(ids))
    <3>1. \A i \in DOMAIN Tail(ids) : i + 1 \in DOMAIN ids /\ Tail(ids)[i] = ids[i + 1]
      BY <2>5
    <3>2. \A i, j \in DOMAIN Tail(ids) : i + 1 = j + 1 => i = j
      BY <2>5
    <3>. QED  BY <1>3, <3>1, <3>2 DEF Distinct
  <2>7. Members(Tail(ids)) \subseteq Members(ids)
    <3>1. \A i \in DOMAIN Tail(ids) : i + 1 \in DOMAIN ids /\ Tail(ids)[i] = ids[i + 1]
      BY <2>5
    <3>. QED  BY <3>1 DEF Members
  <2>8. \A x \in Members(ids) : x # Head(ids) => x \in Members(Tail(ids))
    <3>1. \A i \in DOMAIN ids : i # 1 => i - 1 \in DOMAIN Tail(ids) /\ Tail(ids)[i - 1] = ids[i]
      BY <2>5
    <3>2. ASSUME NEW x \in Members(ids), x # Head(ids)
          PROVE  x \in Members(Tail(ids))
      <4>1. PICK i \in DOMAIN ids : ids[i] = x
        BY DEF Members
      <4>2. i # 1
        BY <2>5, <3>2, <4>1
      <4>3. i - 1 \in DOMAIN Tail(ids) /\ Tail(ids)[i - 1] = x
        BY <3>1, <4>1, <4>2
      <4>. QED  BY <4>3, Zenon DEF Members
    <3>. QED  BY <3>2
  <2>9. Len(Tail(ids)) <= MaxPerApp
    BY <2>2, <2>5
  <2>10. /\ Table' /\ Tracked' \subseteq Tracked \cup {k}
         /\ \A j \in Key : j \in Tracked' <=>
               IF j.app = k.app THEN j.id \in Members(Tail(ids)) ELSE j \in Tracked
    BY <1>8, <2>1, <2>4, <2>5, <2>6, <2>7, <2>9
  <2>11. k \in Tracked'
    BY <1>1, <1>3, <2>2, <2>8, <2>10 DEF k
  <2>12. Tracked \ {victim} \subseteq Tracked'
    <3>1. ASSUME NEW j \in Tracked, j # victim PROVE j \in Tracked'
      <4>1. j \in Key
        BY DEF Tracked
      <4>2. CASE j.app = k.app
        <5>1. j.id # Head(ids)
          BY <2>3, <3>1, <4>1, <4>2 DEF Key
        <5>. QED  BY <1>3, <1>4, <2>8, <2>10, <4>1, <4>2, <5>1
      <4>. QED  BY <2>10, <4>1, <4>2
    <3>. QED  BY <3>1
  <2>13. victim \notin Tracked'
    <3>1. \A i \in DOMAIN Tail(ids) : i + 1 \in DOMAIN ids /\ i + 1 # 1 /\ Tail(ids)[i] = ids[i + 1]
      BY <2>5
    <3>2. 1 \in DOMAIN ids
      BY <1>3, <2>5
    <3>3. Head(ids) \notin Members(Tail(ids))
      BY <1>3, <2>5, <3>1, <3>2 DEF Members, Distinct
    <3>. QED  BY <2>3, <2>10, <3>3
  <2>. QED  BY <2>1, <2>3, <2>4, <2>10, <2>11, <2>12, <2>13 DEF k
<1>10. CASE ~(Len(ids) > MaxPerApp)
  <2>1. /\ live' = [live EXCEPT ![k.app] = ids] /\ op' = [op EXCEPT !.at = "deliver"]
        /\ sends' = <<Begin(Notifying(k))>>
    BY <1>10 DEF TrackNew, k, ids, Notifying
  <2>2. op'.at = "deliver"
    BY <1>1, <2>1 DEF Op
  <2>3. Len(ids) <= MaxPerApp
    BY <1>3, <1>10
  <2>4. /\ Table' /\ Tracked' \subseteq Tracked \cup {k}
        /\ \A j \in Key : j \in Tracked' <=>
              IF j.app = k.app THEN j.id \in Members(ids) ELSE j \in Tracked
    BY <1>3, <1>8, <2>1, <2>2, <2>3
  <2>5. k \in Tracked'
    BY <1>1, <1>3, <2>4 DEF k
  <2>6. Tracked \subseteq Tracked'
    <3>1. \A j \in Tracked : j \in Key
      BY DEF Tracked
    <3>. QED  BY <1>3, <1>4, <2>4, <3>1
  <2>. QED  BY <2>1, <2>2, <2>4, <2>5, <2>6 DEF k
<1>. QED  BY <1>9, <1>10

-----------------------------------------------------------------------------
(* The stack of sends.                                                     *)

LEMMA OpValues ==
    ASSUME op \in Op \cup {Idle}
    PROVE  /\ op = Idle <=> op.at = "idle"
           /\ op # Idle => op \in Op /\ op.ok \in BOOLEAN
           /\ op.at \in {"limit", "track", "evict", "deliver"} => op.key \in Key /\ op.victim \in Key
           /\ \A b \in BOOLEAN : op # Idle =>
                 /\ [op EXCEPT !.ok = b] \in Op /\ [op EXCEPT !.ok = b].at = op.at
                 /\ [op EXCEPT !.ok = b].ok = b
                 /\ op.at # "push" => /\ [op EXCEPT !.ok = b].key = op.key
                                      /\ [op EXCEPT !.ok = b].victim = op.victim
<1>1. CASE op = Idle
  BY <1>1 DEF Idle
<1>2. CASE op \in [at : {"limit", "track", "evict", "deliver"}, key : Key, victim : Key, ok : BOOLEAN]
  BY <1>2 DEF Op, Idle
<1>3. CASE op \in [at : {"push"}, ok : BOOLEAN]
  BY <1>3 DEF Op, Idle
<1>. QED  BY <1>1, <1>2, <1>3 DEF Op

LEMMA TopTyped ==
    ASSUME Types, sends # <<>>
    PROVE  /\ Len(sends) \in Nat \ {0} /\ Len(sends) \in DOMAIN sends /\ 1 \in DOMAIN sends
           /\ DOMAIN sends = 1..Len(sends)
           /\ Top = sends[Len(sends)] /\ Top \in Send
  BY DEF Types, Top

LEMMA TopMoves ==
    ASSUME Types, Stack, sends # <<>>, NEW t \in Send, SetTop(t), t.frame = Top.frame,
           t.at # "prime", UNCHANGED <<op, appearance>>
    PROVE  sends' \in Seq(Send) /\ sends' # <<>> /\ Top' = t /\ Stack'
<1>. DEFINE n == Len(sends)
<1>1. n \in Nat \ {0} /\ n \in DOMAIN sends /\ 1 \in DOMAIN sends /\ DOMAIN sends = 1..n /\ Top = sends[n]
  BY TopTyped
<1>2. sends' = [sends EXCEPT ![n] = t]
  BY DEF SetTop
<1>3. sends' \in Seq(Send) /\ Len(sends') = n
  BY <1>1, <1>2 DEF Types
<1>4. sends'[n] = t /\ \A i \in DOMAIN sends : i # n => sends'[i] = sends[i]
  BY <1>1, <1>2
<1>. HIDE DEF n
<1>5. DOMAIN sends' = DOMAIN sends /\ sends' # <<>>
  BY <1>1, <1>3
<1>6. Top' = t
  BY <1>3, <1>4 DEF Top
<1>7. \A i \in DOMAIN sends : sends'[i].frame = sends[i].frame
  BY <1>1, <1>4
<1>8. \A i \in DOMAIN sends' : (i < Len(sends')) <=> (sends'[i].at = "prime")
  BY <1>1, <1>3, <1>4, <1>5 DEF Stack, n
<1>9. Stack'
  BY <1>1, <1>5, <1>7, <1>8 DEF Stack, Restyling
<1>. QED  BY <1>3, <1>5, <1>6, <1>9

LEMMA Returns ==
    ASSUME Types, Stack, sends # <<>>, NEW b \in BOOLEAN, Done(b), UNCHANGED appearance
    PROVE  /\ sends' \in Seq(Send) /\ Stack' /\ op' \in Op /\ op'.at = op.at
           /\ op.at # "push" => op'.key = op.key /\ op'.victim = op.victim
           /\ \/ /\ sends' = <<>> /\ op'.ok = b
                 /\ op.at = "evict" => Top.frame = Closing(op.victim)
                 /\ op.at = "deliver" => Top.frame = Notifying(op.key)
                 /\ op.at = "push" => Top.frame = Restyling
              \/ /\ sends' # <<>> /\ Top'.at = "write" /\ op' = op
                 /\ Top.frame = Restyling
<1>. DEFINE n == Len(sends)
<1>1. n \in Nat \ {0} /\ n \in DOMAIN sends /\ DOMAIN sends = 1..n /\ Top = sends[n]
  BY TopTyped
<1>2. op # Idle /\ op \in Op
  BY OpValues DEF Stack, Types
<1>3. CASE n = 1
  <2>1. sends' = <<>> /\ op' = [op EXCEPT !.ok = b]
    BY <1>3 DEF Done
  <2>2. /\ op' \in Op /\ op'.at = op.at /\ op'.ok = b
        /\ op.at # "push" => op'.key = op.key /\ op'.victim = op.victim
    BY <1>2, <2>1, OpValues DEF Types
  <2>3. Stack'
    BY <2>1 DEF Stack
  <2>4. /\ op.at = "evict" => Top.frame = Closing(op.victim)
        /\ op.at = "deliver" => Top.frame = Notifying(op.key)
        /\ op.at = "push" => Top.frame = Restyling
    BY <1>1, <1>3 DEF Stack
  <2>. QED  BY <2>1, <2>2, <2>3, <2>4
<1>4. CASE n # 1
  <2>. DEFINE m == n - 1
              s == [i \in 1..m |-> IF i = m THEN [sends[i] EXCEPT !.at = "write"] ELSE sends[i]]
  <2>1. m \in Nat \ {0} /\ m \in DOMAIN sends /\ \A i \in 1..m : i \in DOMAIN sends /\ i < n
    BY <1>1, <1>4
  <2>2. sends' = s /\ op' = op
    BY <1>4 DEF Done
  <2>3. \A i \in DOMAIN sends : sends[i] \in Send
    BY DEF Types
  <2>4. \A i \in 1..m : (IF i = m THEN [sends[i] EXCEPT !.at = "write"] ELSE sends[i]) \in Send
    BY <2>1, <2>3 DEF Send
  <2>5. s \in Seq(Send) /\ Len(s) = m
    BY <2>1, <2>4
  <2>6. \A i \in 1..m : s[i] = IF i = m THEN [sends[i] EXCEPT !.at = "write"] ELSE sends[i]
    OBVIOUS
  <2>. HIDE DEF s
  <2>7. \A i \in 1..m : /\ s[i].frame = sends[i].frame
                        /\ i # m => s[i].at = sends[i].at
                        /\ i = m => s[i].at = "write"
    BY <2>1, <2>3, <2>6 DEF Send
  <2>8. DOMAIN s = 1..m /\ s # <<>> /\ 1 \in 1..m /\ m \in 1..m
    BY <2>1, <2>5
  <2>9. Top' = s[m]
    BY <2>2, <2>5 DEF Top
  <2>10. \A i \in 1..m : (i < m) <=> (s[i].at = "prime")
    <3>1. \A i \in 1..m : sends[i].at = "prime"
      BY <2>1 DEF Stack
    <3>. HIDE DEF m
    <3>2. \A i \in 1..m : (i < m) <=> (i # m)
      <4>1. m \in Nat
        BY <2>1
      <4>. QED  BY <4>1
    <3>3. ASSUME NEW i \in 1..m PROVE (i < m) <=> (s[i].at = "prime")
      <4>1. CASE i = m
        BY <2>7, <3>2, <4>1
      <4>2. CASE i # m
        BY <2>7, <3>1, <3>2, <4>2
      <4>. QED  BY <4>1, <4>2
    <3>. QED  BY <3>3
  <2>11. Stack'
    <3>1. \A i \in DOMAIN sends' : (i < Len(sends')) <=> (sends'[i].at = "prime")
      BY <2>2, <2>5, <2>8, <2>10
    <3>2. \A i \in DOMAIN sends' : i \in DOMAIN sends /\ sends'[i].frame = sends[i].frame
      BY <2>1, <2>2, <2>7, <2>8
    <3>3. 1 \in DOMAIN sends'
      BY <2>2, <2>8
    <3>. QED  BY <2>2, <3>1, <3>2, <3>3 DEF Stack, Restyling
  <2>12. Top.frame = Restyling
    BY <1>1, <1>4 DEF Stack
  <2>. QED  BY <1>2, <2>2, <2>5, <2>7, <2>8, <2>9, <2>11, <2>12
<1>. QED  BY <1>3, <1>4

LEMMA Nests ==
    ASSUME Types, Stack, sends # <<>>, appearance # NoStyle,
           sends' = Append([sends EXCEPT ![Len(sends)] = [Top EXCEPT !.at = "prime"]],
                           Begin(Restyling)),
           UNCHANGED <<op, appearance>>
    PROVE  /\ sends' \in Seq(Send) /\ sends' # <<>> /\ Stack'
           /\ Top'.at = "ensure" /\ Top'.frame = Restyling
<1>. DEFINE n == Len(sends)
            t == [Top EXCEPT !.at = "prime"]
            f == Begin(Restyling)
            u == [sends EXCEPT ![n] = t]
<1>1. n \in Nat \ {0} /\ n \in DOMAIN sends /\ 1 \in DOMAIN sends /\ DOMAIN sends = 1..n /\ Top = sends[n] /\ Top \in Send
  BY TopTyped
<1>2. t \in Send /\ t.frame = Top.frame /\ t.at = "prime"
  BY <1>1 DEF Send
<1>3. f \in Send /\ f.at = "ensure" /\ f.frame = Restyling
  BY DEF Types, Send, Restyling, Command, Begin
<1>. HIDE DEF t, f
<1>4. u \in Seq(Send) /\ Len(u) = n /\ u[n] = t /\ \A i \in 1..n : i # n => u[i] = sends[i]
  <2>1. u \in Seq(Send) /\ Len(u) = n
    BY <1>1, <1>2 DEF Types
  <2>2. u[n] = t /\ \A i \in 1..n : i # n => u[i] = sends[i]
    BY <1>1
  <2>. QED  BY <2>1, <2>2
<1>5. sends' = Append(u, f)
  BY DEF f, t
<1>. HIDE DEF u
<1>0. n = Len(sends)
  OBVIOUS
<1>. HIDE DEF n
<1>6. /\ sends' \in Seq(Send) /\ Len(sends') = n + 1 /\ sends'[n + 1] = f
      /\ \A i \in 1..n : sends'[i] = u[i]
  <2>. DEFINE v == Append(u, f)
  <2>1. /\ v \in Seq(Send) /\ Len(v) = Len(u) + 1 /\ v[Len(u) + 1] = f
        /\ \A i \in 1..Len(u) : v[i] = u[i]
    BY <1>3, <1>4, Appended
  <2>2. sends' = v /\ Len(u) = n
    BY <1>4, <1>5
  <2>. HIDE DEF v
  <2>. QED  BY <2>1, <2>2, Zenon
<1>7. DOMAIN sends' = 1..(n + 1) /\ sends' # <<>> /\ \A i \in 1..(n + 1) : i \in 1..n \/ i = n + 1
  BY <1>1, <1>6
<1>8. Top' = f
  BY <1>6 DEF Top
<1>9. \A i \in 1..n : sends'[i].frame = sends[i].frame
  <2>1. ASSUME NEW i \in 1..n PROVE sends'[i].frame = sends[i].frame
    <3>1. CASE i = n
      BY <1>1, <1>2, <1>4, <1>6, <3>1
    <3>2. CASE i # n
      BY <1>1, <1>4, <1>6, <3>2
    <3>. QED  BY <3>1, <3>2
  <2>. QED  BY <2>1
<1>10. \A i \in 1..n : sends'[i].at = "prime" /\ i < n + 1
  <2>1. ASSUME NEW i \in 1..n PROVE sends'[i].at = "prime" /\ i < n + 1
    <3>1. CASE i = n
      BY <1>1, <1>2, <1>4, <1>6, <3>1
    <3>2. CASE i # n
      <4>1. i \in DOMAIN sends /\ i < Len(sends) /\ i < n + 1
        BY <1>0, <1>1, <3>2
      <4>2. sends[i].at = "prime"
        BY <4>1 DEF Stack
      <4>. QED  BY <1>4, <1>6, <3>2, <4>1, <4>2
    <3>. QED  BY <3>1, <3>2
  <2>. QED  BY <2>1
<1>11. \A i \in DOMAIN sends' : (i < Len(sends')) <=> (sends'[i].at = "prime")
  BY <1>1, <1>3, <1>6, <1>7, <1>10
<1>12. Stack'
  <2>1. Restyling' = Restyling
    BY DEF Restyling
  <2>2. \A i \in DOMAIN sends' : i # 1 => sends'[i].frame = Restyling
    <3>1. ASSUME NEW i \in DOMAIN sends', i # 1 PROVE sends'[i].frame = Restyling
      <4>1. CASE i = n + 1
        BY <1>3, <1>6, <4>1
      <4>2. CASE i \in 1..n
        BY <1>1, <1>9, <3>1, <4>2 DEF Stack
      <4>. QED  BY <1>7, <3>1, <4>1, <4>2
    <3>. QED  BY <3>1
  <2>3. sends'[1].frame = sends[1].frame
    BY <1>1, <1>9
  <2>4. sends' # <<>> => /\ op'.at \in {"evict", "deliver", "push"}
                         /\ op'.at = "evict" => sends'[1].frame = Closing(op'.victim)
                         /\ op'.at = "deliver" => sends'[1].frame = Notifying(op'.key)
                         /\ op'.at = "push" => sends'[1].frame = Restyling /\ appearance' # NoStyle
    BY <2>3 DEF Stack
  <2>. QED  BY <1>11, <2>1, <2>2, <2>4 DEF Stack, Closing, Notifying
<1>. QED  BY <1>3, <1>6, <1>7, <1>8, <1>12

LEMMA Starts ==
    ASSUME NEW f \in Command, sends' = <<Begin(f)>>
    PROVE  /\ sends' \in Seq(Send) /\ sends' # <<>> /\ Len(sends') = 1 /\ DOMAIN sends' = {1}
           /\ Top' = [frame |-> f, retry |-> FALSE, at |-> "ensure"] /\ sends'[1] = Top'
<1>. DEFINE t == [frame |-> f, retry |-> FALSE, at |-> "ensure"]
<1>1. t \in Send
  BY DEF Send
<1>2. sends' = <<t>>
  BY DEF Begin
<1>. HIDE DEF t
<1>3. sends' \in Seq(Send) /\ Len(sends') = 1 /\ sends'[1] = t /\ DOMAIN sends' = {1}
  BY <1>1, <1>2
<1>4. Top' = t
  BY <1>3 DEF Top
<1>. QED  BY <1>3, <1>4 DEF t

-----------------------------------------------------------------------------
(* The steps of a send keep the invariant.                                 *)

LEMMA StackSame ==
    ASSUME Stack, UNCHANGED <<sends, op, appearance>>
    PROVE  Stack'
  BY DEF Stack, Restyling, Closing, Notifying

LEMMA StackStarts ==
    ASSUME NEW f \in Command, sends' = <<Begin(f)>>, op'.at \in {"evict", "deliver", "push"},
           op'.at = "evict" => f = Closing(op'.victim),
           op'.at = "deliver" => f = Notifying(op'.key),
           op'.at = "push" => f = Restyling' /\ appearance' # NoStyle
    PROVE  /\ Stack' /\ sends' \in Seq(Send) /\ sends' # <<>>
           /\ Top'.at = "ensure" /\ Top'.frame = f
<1>1. /\ sends' \in Seq(Send) /\ sends' # <<>> /\ Len(sends') = 1 /\ DOMAIN sends' = {1}
      /\ Top' = [frame |-> f, retry |-> FALSE, at |-> "ensure"] /\ sends'[1] = Top'
  BY Starts
<1>2. Top'.at = "ensure" /\ Top'.frame = f
  BY <1>1
<1>3. \A i \in DOMAIN sends' : (i < Len(sends')) <=> (sends'[i].at = "prime")
  BY <1>1, <1>2
<1>4. sends'[1].frame = f
  BY <1>1, <1>2
<1>5. Closing(op.victim)' = Closing(op'.victim) /\ Notifying(op.key)' = Notifying(op'.key)
  BY DEF Closing, Notifying
<1>6. Stack'
  BY <1>1, <1>3, <1>4, <1>5 DEF Stack
<1>. QED  BY <1>1, <1>2, <1>6

LEMMA EnsureStep ==
    ASSUME NotifyInv, Ensure
    PROVE  NotifyInv'
<1>. DEFINE t == [Top EXCEPT !.at = CASE child = "running" -> "write"
                                      [] child = "exited" -> "reap"
                                      [] child = "none" -> "spawn"]
<1>1. sends # <<>> /\ Top.at = "ensure" /\ SetTop(t) /\ UNCHANGED <<op, appearance>>
  BY DEF Ensure, SendAt, manager
<1>2. Top \in Send
  BY <1>1, TopTyped DEF NotifyInv
<1>3. /\ t \in Send /\ t.frame = Top.frame /\ t.at \in {"write", "reap", "spawn"}
      /\ t.at = "reap" => child = "exited"
      /\ t.at = "spawn" => child = "none"
  <2>1. child \in {"none", "running", "exited"}
    BY DEF NotifyInv, Types
  <2>. QED  BY <1>2, <2>1 DEF Send
<1>. HIDE DEF t
<1>4. sends' \in Seq(Send) /\ sends' # <<>> /\ Top' = t /\ Stack'
  BY <1>1, <1>3, TopMoves DEF NotifyInv
<1>5. UNCHANGED <<child, commands, cards, style, pump, eventPipe>>
  BY DEF Ensure, daemon
<1>6. Types'
  BY <1>1, <1>4, <1>5 DEF NotifyInv, Types, Op, Send, Command, Idle, Key
<1>7. Table'
  BY <1>1, TableEmptied, TableSame DEF NotifyInv, Ensure
<1>8. Pipes'
  BY <1>1, <1>3, <1>4, <1>5 DEF NotifyInv, Pipes, SendAt
<1>. QED  BY <1>4, <1>6, <1>7, <1>8 DEF NotifyInv

(* A send returns, while the daemon keeps its pipes or is gone.            *)
LEMMA ReturnStep ==
    ASSUME NotifyInv, sends # <<>>, NEW b \in BOOLEAN, Done(b), UNCHANGED <<appearance, live>>,
           ~b => child' = "none"
    PROVE  /\ sends' \in Seq(Send) /\ op' \in Op \cup {Idle} /\ Stack' /\ Table'
           /\ ~SendAt("spawn")' /\ ~SendAt("reap")' /\ ~SendAt("drop")'
           /\ (op'.at \in {"evict", "deliver"} /\ sends' = <<>> /\ ~op'.ok) => child' = "none"
<1>1. /\ sends' \in Seq(Send) /\ Stack' /\ op' \in Op /\ op'.at = op.at
      /\ \/ sends' = <<>> /\ op'.ok = b
         \/ sends' # <<>> /\ Top'.at = "write"
  BY Returns DEF NotifyInv
<1>2. Table'
  BY <1>1, TableSame DEF NotifyInv
<1>3. ~SendAt("spawn")' /\ ~SendAt("reap")' /\ ~SendAt("drop")'
  BY <1>1 DEF SendAt
<1>4. (op'.at \in {"evict", "deliver"} /\ sends' = <<>> /\ ~op'.ok) => child' = "none"
  BY <1>1
<1>. QED  BY <1>1, <1>2, <1>3, <1>4

LEMMA DropHandleStep ==
    ASSUME NotifyInv, DropHandle
    PROVE  NotifyInv'
<1>1. /\ sends # <<>> /\ Top.at \in {"reap", "drop"} /\ child' = "none" /\ ~pump
      /\ UNCHANGED <<live, appearance, commands, cards, style, pump, eventPipe>>
  BY DEF DropHandle, SendAt
<1>2. Top \in Send
  BY <1>1, TopTyped DEF NotifyInv
<1>3. commands = <<>> /\ cards = {} /\ eventPipe = <<>>
  BY <1>1 DEF NotifyInv, Pipes, SendAt
<1>4. /\ sends' \in Seq(Send) /\ op' \in Op \cup {Idle} /\ Stack' /\ Table'
      /\ ~SendAt("reap")' /\ ~SendAt("drop")'
  <2>1. CASE Done(FALSE)
    BY <1>1, <2>1, ReturnStep
  <2>2. ASSUME NEW t \in Send, SetTop(t), t.frame = Top.frame, t.at \in {"spawn", "ensure"},
               UNCHANGED op
        PROVE  /\ sends' \in Seq(Send) /\ op' \in Op \cup {Idle} /\ Stack' /\ Table'
               /\ ~SendAt("reap")' /\ ~SendAt("drop")'
    <3>1. sends' \in Seq(Send) /\ sends' # <<>> /\ Top' = t /\ Stack'
      BY <1>1, <2>2, TopMoves DEF NotifyInv
    <3>2. Table'
      BY <1>1, <2>2, TableSame DEF NotifyInv
    <3>3. op' \in Op \cup {Idle}
      BY <2>2 DEF NotifyInv, Types, Op, Idle, Key
    <3>4. ~SendAt("reap")' /\ ~SendAt("drop")'
      BY <2>2, <3>1 DEF SendAt
    <3>. QED  BY <3>1, <3>2, <3>3, <3>4
  <2>3. /\ [Top EXCEPT !.at = "spawn"] \in Send /\ [Top EXCEPT !.at = "spawn"].frame = Top.frame
        /\ [Top EXCEPT !.at = "spawn"].at = "spawn"
        /\ [Top EXCEPT !.at = "ensure", !.retry = TRUE] \in Send
        /\ [Top EXCEPT !.at = "ensure", !.retry = TRUE].frame = Top.frame
        /\ [Top EXCEPT !.at = "ensure", !.retry = TRUE].at = "ensure"
    BY <1>2 DEF Send
  <2>4. \/ SetTop([Top EXCEPT !.at = "spawn"]) /\ UNCHANGED op
        \/ SetTop([Top EXCEPT !.at = "ensure", !.retry = TRUE]) /\ UNCHANGED op
        \/ Done(FALSE)
    BY DEF DropHandle
  <2>. QED  BY <2>1, <2>2, <2>3, <2>4
<1>5. Types'
  BY <1>1, <1>4 DEF NotifyInv, Types, Command, Key
<1>6. Pipes'
  BY <1>1, <1>3, <1>4 DEF NotifyInv, Pipes
<1>. QED  BY <1>4, <1>5, <1>6 DEF NotifyInv

LEMMA SpawnStep ==
    ASSUME NotifyInv, Spawn
    PROVE  NotifyInv'
<1>1. /\ sends # <<>> /\ child = "none"
      /\ UNCHANGED <<live, appearance, commands, cards, style, eventPipe>>
  BY DEF Spawn, NotifyInv, Pipes, SendAt
<1>2. Top \in Send
  BY <1>1, TopTyped DEF NotifyInv
<1>3. CASE Done(FALSE) /\ UNCHANGED <<child, pump, spawns>>
  <2>1. /\ sends' \in Seq(Send) /\ op' \in Op \cup {Idle} /\ Stack' /\ Table'
        /\ ~SendAt("spawn")' /\ ~SendAt("reap")' /\ ~SendAt("drop")'
        /\ (op'.at \in {"evict", "deliver"} /\ sends' = <<>> /\ ~op'.ok) => child' = "none"
    BY <1>1, <1>3, ReturnStep
  <2>2. Types'
    BY <1>1, <1>3, <2>1 DEF NotifyInv, Types, Command, Key
  <2>3. Pipes'
    BY <1>1, <1>3, <2>1 DEF NotifyInv, Pipes
  <2>. QED  BY <2>1, <2>2, <2>3 DEF NotifyInv
<1>4. CASE ~(Done(FALSE) /\ UNCHANGED <<child, pump, spawns>>)
  <2>1. /\ child' = "running" /\ pump' = TRUE /\ UNCHANGED op
        /\ IF appearance = NoStyle
           THEN SetTop([Top EXCEPT !.at = "write"])
           ELSE sends' = Append([sends EXCEPT ![Len(sends)] = [Top EXCEPT !.at = "prime"]],
                                Begin(Restyling))
    BY <1>4 DEF Spawn, Restyling
  <2>2. /\ sends' \in Seq(Send) /\ sends' # <<>> /\ Stack' /\ Top'.at \in {"write", "ensure"}
    <3>1. CASE appearance = NoStyle
      <4>1. /\ [Top EXCEPT !.at = "write"] \in Send /\ [Top EXCEPT !.at = "write"].at = "write"
            /\ [Top EXCEPT !.at = "write"].frame = Top.frame
        BY <1>2 DEF Send
      <4>2. SetTop([Top EXCEPT !.at = "write"])
        BY <2>1, <3>1
      <4>. QED  BY <1>1, <2>1, <4>1, <4>2, TopMoves DEF NotifyInv
    <3>2. CASE appearance # NoStyle
      <4>1. sends' = Append([sends EXCEPT ![Len(sends)] = [Top EXCEPT !.at = "prime"]],
                            Begin(Restyling))
        BY <2>1, <3>2
      <4>. QED  BY <1>1, <2>1, <3>2, <4>1, Nests DEF NotifyInv
    <3>. QED  BY <3>1, <3>2
  <2>3. Types'
    BY <1>1, <2>1, <2>2 DEF NotifyInv, Types, Command, Key, Op, Idle
  <2>4. Pipes'
    BY <1>1, <2>1, <2>2 DEF NotifyInv, Pipes, SendAt
  <2>5. Table'
    BY <1>1, <2>1, TableSame DEF NotifyInv
  <2>. QED  BY <2>2, <2>3, <2>4, <2>5 DEF NotifyInv
<1>. QED  BY <1>3, <1>4

LEMMA WriteStep ==
    ASSUME NotifyInv, Write
    PROVE  NotifyInv'
<1>1. /\ sends # <<>>
      /\ UNCHANGED <<live, appearance, child, cards, style, pump, eventPipe>>
  BY DEF Write, SendAt
<1>2. Top \in Send /\ Top.frame \in Command
  BY <1>1, TopTyped DEF NotifyInv, Send
<1>3. CASE child = "running"
  <2>1. commands' = Append(commands, Top.frame) /\ Done(TRUE)
    BY <1>3 DEF Write
  <2>2. /\ sends' \in Seq(Send) /\ op' \in Op \cup {Idle} /\ Stack' /\ Table'
        /\ ~SendAt("spawn")' /\ ~SendAt("reap")' /\ ~SendAt("drop")'
        /\ (op'.at \in {"evict", "deliver"} /\ sends' = <<>> /\ ~op'.ok) => child' = "none"
    BY <1>1, <2>1, ReturnStep
  <2>3. commands' \in Seq(Command)
    BY <1>2, <2>1, Appended DEF NotifyInv, Types
  <2>4. Types'
    BY <1>1, <2>2, <2>3 DEF NotifyInv, Types, Command, Key
  <2>5. Pipes'
    BY <1>1, <1>3, <2>2 DEF NotifyInv, Pipes
  <2>. QED  BY <2>2, <2>4, <2>5 DEF NotifyInv
<1>4. CASE child = "exited"
  <2>1. SetTop([Top EXCEPT !.at = "drop"]) /\ UNCHANGED <<op, commands>>
    BY <1>4 DEF Write
  <2>2. /\ [Top EXCEPT !.at = "drop"] \in Send /\ [Top EXCEPT !.at = "drop"].at = "drop"
        /\ [Top EXCEPT !.at = "drop"].frame = Top.frame
    BY <1>2 DEF Send
  <2>3. sends' \in Seq(Send) /\ sends' # <<>> /\ Top'.at = "drop" /\ Stack'
    BY <1>1, <2>1, <2>2, TopMoves DEF NotifyInv
  <2>4. Types'
    BY <1>1, <2>1, <2>3 DEF NotifyInv, Types, Command, Key, Op, Idle
  <2>5. Pipes'
    BY <1>1, <1>4, <2>1, <2>3 DEF NotifyInv, Pipes, SendAt
  <2>6. Table'
    BY <1>1, <2>1, TableSame DEF NotifyInv
  <2>. QED  BY <2>3, <2>4, <2>5, <2>6 DEF NotifyInv
<1>5. CASE child = "none"
  <2>1. Done(FALSE) /\ UNCHANGED commands
    BY <1>5 DEF Write
  <2>2. /\ sends' \in Seq(Send) /\ op' \in Op \cup {Idle} /\ Stack' /\ Table'
        /\ ~SendAt("spawn")' /\ ~SendAt("reap")' /\ ~SendAt("drop")'
        /\ (op'.at \in {"evict", "deliver"} /\ sends' = <<>> /\ ~op'.ok) => child' = "none"
    BY <1>1, <1>5, <2>1, ReturnStep
  <2>3. Types'
    BY <1>1, <2>1, <2>2 DEF NotifyInv, Types, Command, Key
  <2>4. Pipes'
    BY <1>1, <1>5, <2>1, <2>2 DEF NotifyInv, Pipes
  <2>. QED  BY <2>2, <2>3, <2>4 DEF NotifyInv
<1>6. child \in {"none", "running", "exited"}
  BY DEF NotifyInv, Types
<1>. QED  BY <1>3, <1>4, <1>5, <1>6

-----------------------------------------------------------------------------
(* The operations, the daemon and its pump keep the invariant.             *)
LEMMA Quiet ==
    ASSUME NotifyInv, op.at \notin {"evict", "deliver", "push"}
    PROVE  sends = <<>>
  BY DEF NotifyInv, Stack

LEMMA SendsSame ==
    ASSUME UNCHANGED sends
    PROVE  /\ SendAt("spawn")' <=> SendAt("spawn")
           /\ SendAt("reap")' <=> SendAt("reap")
           /\ SendAt("drop")' <=> SendAt("drop")
  BY DEF SendAt, Top

LEMMA Idles ==
    /\ Idle.at = "idle"
    /\ \A o \in Op : o.at # "idle" /\ o # Idle /\ o.ok \in BOOLEAN
    /\ \A o \in Op : o.at # "push" => o.key \in Key /\ o.victim \in Key
    /\ \A o \in Op, at \in {"limit", "track", "evict", "deliver"} : o.at # "push" =>
          LET p == [o EXCEPT !.at = at]
          IN  p \in Op /\ p.at = at /\ p.key = o.key /\ p.victim = o.victim /\ p.ok = o.ok
  BY DEF Idle, Op

(* The daemon and its pipes stay as they are.                              *)
LEMMA DaemonSame ==
    ASSUME NotifyInv, UNCHANGED <<daemon, pump, eventPipe>>, Stack', Table',
           sends' \in Seq(Send), op' \in Op \cup {Idle}, appearance' \in Styles \cup {NoStyle},
           SendAt("spawn")' => child = "none",
           (SendAt("reap") \/ SendAt("drop"))' => child = "exited",
           (op'.at \in {"evict", "deliver"} /\ sends' = <<>> /\ ~op'.ok) => child = "none"
    PROVE  NotifyInv'
<1>1. UNCHANGED <<child, commands, cards, style, pump, eventPipe>>
  BY DEF daemon
<1>2. Types'
  BY <1>1 DEF NotifyInv, Types, Command, Key
<1>3. Pipes'
  BY <1>1 DEF NotifyInv, Pipes
<1>. QED  BY <1>2, <1>3 DEF NotifyInv

LEMMA AddStep ==
    ASSUME NotifyInv, NEW k \in Key, AddNotification(k)
    PROVE  NotifyInv'
<1>1. /\ op = Idle /\ op' = [at |-> "limit", key |-> k, victim |-> k, ok |-> FALSE]
      /\ UNCHANGED <<live, appearance, sends, daemon, pump, eventPipe>>
  BY DEF AddNotification
<1>2. op' \in Op /\ op'.at = "limit"
  BY <1>1 DEF Op
<1>3. sends = <<>> /\ sends' = <<>>
  BY <1>1, Quiet, Idles
<1>4. Stack'
  BY <1>3 DEF Stack
<1>5. Table'
  BY <1>1, <1>2, TableSame DEF NotifyInv
<1>6. ~SendAt("spawn")' /\ ~SendAt("reap")' /\ ~SendAt("drop")'
  BY <1>3 DEF SendAt
<1>. QED  BY <1>1, <1>2, <1>3, <1>4, <1>5, <1>6, DaemonSame DEF NotifyInv, Types

LEMMA LimitStep ==
    ASSUME NotifyInv, Limit
    PROVE  NotifyInv'
<1>1. /\ op.at = "limit" /\ sends = <<>> /\ sends' = <<>>
      /\ op' = IF Cardinality(Tracked) >= MaxTotal THEN Idle ELSE [op EXCEPT !.at = "track"]
      /\ UNCHANGED <<live, appearance, daemon, pump, eventPipe>>
  BY DEF Limit, OpAt
<1>2. op \in Op /\ op.at # "push"
  BY <1>1, Idles DEF NotifyInv, Types
<1>3. /\ op' \in Op \cup {Idle} /\ op'.at \in {"idle", "track"}
      /\ op'.at = "track" => ~(Cardinality(Tracked) >= MaxTotal)
  BY <1>1, <1>2, Idles
<1>4. Stack'
  BY <1>1 DEF Stack
<1>5. Table'
  <2>1. Tracked' = Tracked
    BY <1>1 DEF Tracked
  <2>2. Cardinality(Tracked) \in Nat /\ MaxTotal \in Nat
    BY FS_CardinalityType DEF NotifyInv, Table
  <2>. QED  BY <1>1, <1>3, <2>1, <2>2 DEF NotifyInv, Table
<1>6. ~SendAt("spawn")' /\ ~SendAt("reap")' /\ ~SendAt("drop")'
  BY <1>1 DEF SendAt
<1>. QED  BY <1>1, <1>3, <1>4, <1>5, <1>6, DaemonSame DEF NotifyInv, Types

LEMMA CommandValues ==
    ASSUME NEW k \in Key
    PROVE  /\ Notifying(k) \in Command /\ Closing(k) \in Command
           /\ Notifying(k).type = "notify" /\ Notifying(k).key = k
           /\ Closing(k).type = "close" /\ Closing(k).key = k
  BY DEF Notifying, Closing, Command

LEMMA TrackStep ==
    ASSUME NotifyInv, TrackNew
    PROVE  /\ NotifyInv' /\ op'.key = op.key /\ op'.at \in {"evict", "deliver"}
           /\ op.at = "track" /\ op.key \in Key /\ sends' # <<>>
           /\ ~SendAt("reap")' /\ ~SendAt("drop")'
<1>1. /\ op.at = "track" /\ sends = <<>>
      /\ UNCHANGED <<appearance, daemon, pump, eventPipe>>
  BY DEF TrackNew, OpAt
<1>2. op \in Op /\ op.at # "push" /\ op.key \in Key
  BY <1>1, Idles DEF NotifyInv, Types
<1>3. /\ Table'
      /\ op'.at = "evict" => /\ op'.victim \in Key
                             /\ op' = [op EXCEPT !.at = "evict", !.victim = op'.victim]
                             /\ sends' = <<Begin(Closing(op'.victim))>>
      /\ op'.at # "evict" => /\ op' = [op EXCEPT !.at = "deliver"]
                             /\ sends' = <<Begin(Notifying(op.key))>>
  BY TableTracks DEF NotifyInv
<1>4. CASE op'.at = "evict"
  <2>1. op' \in Op /\ op'.key = op.key
    <3>1. op \in [at : {"limit", "track", "evict", "deliver"}, key : Key, victim : Key, ok : BOOLEAN]
      BY <1>2 DEF Op
    <3>2. PICK v \in Key : op' = [op EXCEPT !.at = "evict", !.victim = v]
      BY <1>3, <1>4
    <3>. QED  BY <3>1, <3>2 DEF Op
  <2>2. /\ Stack' /\ sends' \in Seq(Send) /\ sends' # <<>> /\ Top'.at = "ensure"
    BY <1>3, <1>4, CommandValues, StackStarts
  <2>3. ~SendAt("spawn")' /\ ~SendAt("reap")' /\ ~SendAt("drop")'
    BY <2>2 DEF SendAt
  <2>4. NotifyInv'
    BY <1>1, <1>3, <2>1, <2>2, <2>3, DaemonSame DEF NotifyInv, Types
  <2>. QED  BY <1>1, <1>2, <1>4, <2>1, <2>2, <2>3, <2>4
<1>5. CASE op'.at # "evict"
  <2>1. op' \in Op /\ op'.key = op.key /\ op'.at = "deliver"
    <3>1. op' = [op EXCEPT !.at = "deliver"]
      BY <1>3, <1>5
    <3>. QED  BY <1>2, <3>1, Idles
  <2>2. /\ Stack' /\ sends' \in Seq(Send) /\ sends' # <<>> /\ Top'.at = "ensure"
    BY <1>2, <1>3, <1>5, <2>1, CommandValues, StackStarts
  <2>3. ~SendAt("spawn")' /\ ~SendAt("reap")' /\ ~SendAt("drop")'
    BY <2>2 DEF SendAt
  <2>4. NotifyInv'
    BY <1>1, <1>3, <2>1, <2>2, <2>3, DaemonSame DEF NotifyInv, Types
  <2>. QED  BY <1>1, <1>2, <2>1, <2>2, <2>3, <2>4
<1>. QED  BY <1>4, <1>5

LEMMA EvictedStep ==
    ASSUME NotifyInv, Evicted
    PROVE  /\ NotifyInv' /\ op.at = "evict" /\ op.key \in Key /\ op.victim \in Key
           /\ Tracked' = Tracked \ {op.victim}
           /\ op'.at = "deliver" /\ op'.key = op.key /\ op'.ok = op.ok
           /\ sends' = <<Begin(Notifying(op.key))>> /\ sends' # <<>> /\ Top'.at = "ensure"
<1>1. /\ op.at = "evict" /\ sends = <<>> /\ live' = Without(op.victim)
      /\ op' = [op EXCEPT !.at = "deliver"]
      /\ sends' = <<Begin(Notifying(op.key))>>
      /\ UNCHANGED <<appearance, daemon, pump, eventPipe>>
  BY DEF Evicted, OpAt, Notifying
<1>2. op \in Op /\ op.at # "push" /\ op.key \in Key /\ op.victim \in Key
  BY <1>1, Idles DEF NotifyInv, Types
<1>3. op' \in Op /\ op'.at = "deliver" /\ op'.key = op.key /\ op'.ok = op.ok
  BY <1>1, <1>2, Idles
<1>4. Table' /\ Tracked' = Tracked \ {op.victim}
  BY <1>1, <1>2, <1>3, TableForgets DEF NotifyInv
<1>5. /\ Stack' /\ sends' \in Seq(Send) /\ sends' # <<>> /\ Top'.at = "ensure"
  BY <1>1, <1>2, <1>3, CommandValues, StackStarts
<1>6. ~SendAt("spawn")' /\ ~SendAt("reap")' /\ ~SendAt("drop")'
  BY <1>5 DEF SendAt
<1>7. NotifyInv'
  BY <1>1, <1>3, <1>4, <1>5, <1>6, DaemonSame DEF NotifyInv, Types
<1>. QED  BY <1>1, <1>2, <1>3, <1>4, <1>5, <1>7

LEMMA DeliveredStep ==
    ASSUME NotifyInv, Delivered
    PROVE  /\ NotifyInv' /\ op.at = "deliver" /\ op.key \in Key /\ sends = <<>>
           /\ Tracked' = IF op.ok THEN Tracked ELSE Tracked \ {op.key}
           /\ op.ok \in BOOLEAN
<1>1. /\ op.at = "deliver" /\ sends = <<>> /\ sends' = <<>> /\ op' = Idle
      /\ live' = IF op.ok THEN live ELSE Without(op.key)
      /\ UNCHANGED <<appearance, daemon, pump, eventPipe>>
  BY DEF Delivered, OpAt
<1>2. op \in Op /\ op.key \in Key /\ op.ok \in BOOLEAN
  BY <1>1, Idles DEF NotifyInv, Types
<1>3. op'.at = "idle"
  BY <1>1, Idles
<1>4. Table' /\ Tracked' = IF op.ok THEN Tracked ELSE Tracked \ {op.key}
  BY <1>1, <1>2, <1>3, TableForgets, TableSame DEF NotifyInv
<1>5. Stack'
  BY <1>1 DEF Stack
<1>6. ~SendAt("spawn")' /\ ~SendAt("reap")' /\ ~SendAt("drop")'
  BY <1>1 DEF SendAt
<1>7. NotifyInv'
  BY <1>1, <1>3, <1>4, <1>5, <1>6, DaemonSame DEF NotifyInv, Types
<1>. QED  BY <1>1, <1>2, <1>4, <1>7

LEMMA RemoveStep ==
    ASSUME NotifyInv, NEW k \in Key, RemoveNotification(k)
    PROVE  NotifyInv' /\ Tracked' = Tracked \ {k} /\ sends = <<>>
<1>1. /\ op = Idle /\ live' = Without(k)
      /\ commands' = IF child = "running" THEN Append(commands, Closing(k)) ELSE commands
      /\ UNCHANGED <<appearance, op, sends, child, cards, style, pump, eventPipe>>
  BY DEF RemoveNotification, manager, Closing
<1>2. op'.at = "idle" /\ op.at = "idle" /\ sends = <<>>
  BY <1>1, Quiet, Idles
<1>3. Table' /\ Tracked' = Tracked \ {k}
  BY <1>1, <1>2, TableForgets DEF NotifyInv
<1>4. commands' \in Seq(Command)
  BY <1>1, CommandValues, Appended DEF NotifyInv, Types
<1>5. Stack'
  BY <1>1, StackSame DEF NotifyInv
<1>6. Types'
  BY <1>1, <1>4 DEF NotifyInv, Types
<1>7. Pipes'
  BY <1>1, <1>2, SendsSame DEF NotifyInv, Pipes
<1>. QED  BY <1>2, <1>3, <1>5, <1>6, <1>7 DEF NotifyInv

LEMMA PushStep ==
    ASSUME NotifyInv, NEW new \in Styles, PushAppearance(new)
    PROVE  /\ NotifyInv' /\ Tracked' = Tracked /\ op.at = "idle" /\ op'.at \in {"idle", "push"}
           /\ ~SendAt("reap")' /\ ~SendAt("drop")'
<1>1. /\ op = Idle /\ op.at = "idle" /\ UNCHANGED <<live, daemon, pump, eventPipe>>
      /\ sends = <<>> /\ op \in Op \cup {Idle} /\ Idle \in Op \cup {Idle}
  BY Quiet, Idles DEF PushAppearance
<1>0. Tracked' = Tracked
  BY <1>1 DEF Tracked
<1>2. CASE UNCHANGED <<op, sends>>
  <2>1. appearance' \in Styles \cup {NoStyle}
    BY <1>2 DEF PushAppearance, NotifyInv, Types, manager
  <2>2. Stack' /\ Table'
    BY <1>1, <1>2, TableSame DEF Stack, NotifyInv
  <2>3. ~SendAt("spawn")' /\ ~SendAt("reap")' /\ ~SendAt("drop")'
    BY <1>1, <1>2 DEF SendAt
  <2>4. sends' \in Seq(Send)
    BY <1>2 DEF NotifyInv, Types
  <2>. QED  BY <1>0, <1>1, <1>2, <2>1, <2>2, <2>3, <2>4, DaemonSame
<1>3. CASE ~UNCHANGED <<op, sends>>
  <2>1. /\ appearance' = new /\ op' = [at |-> "push", ok |-> FALSE]
        /\ sends' = <<Begin([type |-> "appearance", style |-> new])>>
    BY <1>3 DEF PushAppearance, manager
  <2>2. op' \in Op /\ op'.at = "push"
    BY <2>1 DEF Op
  <2>3. [type |-> "appearance", style |-> new] \in Command
    BY DEF Command
  <2>4. [type |-> "appearance", style |-> new] = Restyling' /\ appearance' # NoStyle
    BY <2>1 DEF Restyling
  <2>5. Stack' /\ sends' \in Seq(Send) /\ sends' # <<>> /\ Top'.at = "ensure"
    BY <2>1, <2>2, <2>3, <2>4, StackStarts
  <2>6. Table'
    BY <1>1, <2>2, TableSame DEF NotifyInv
  <2>7. ~SendAt("spawn")' /\ ~SendAt("reap")' /\ ~SendAt("drop")'
    BY <2>5 DEF SendAt
  <2>. QED  BY <1>0, <1>1, <2>1, <2>2, <2>5, <2>6, <2>7, DaemonSame
<1>. QED  BY <1>2, <1>3

LEMMA PushedStep ==
    ASSUME NotifyInv, Pushed
    PROVE  NotifyInv'
<1>1. /\ op.at = "push" /\ op' = Idle /\ sends = <<>> /\ sends' = <<>> /\ op'.at = "idle"
      /\ UNCHANGED <<live, appearance, daemon, pump, eventPipe>>
  BY Idles DEF Pushed, OpAt
<1>2. Stack' /\ Table'
  BY <1>1, TableSame DEF Stack, NotifyInv
<1>3. ~SendAt("spawn")' /\ ~SendAt("reap")' /\ ~SendAt("drop")'
  BY <1>1 DEF SendAt
<1>. QED  BY <1>1, <1>2, <1>3, DaemonSame DEF NotifyInv, Types

LEMMA ReadStep ==
    ASSUME NotifyInv, DaemonReads
    PROVE  NotifyInv'
<1>1. /\ child = "running" /\ commands # <<>> /\ commands' = Tail(commands)
      /\ UNCHANGED <<live, appearance, op, sends, child, pump>>
  BY DEF DaemonReads, manager
<1>2. Head(commands) \in Command /\ commands' \in Seq(Command)
  BY <1>1 DEF NotifyInv, Types
<1>3. cards' \subseteq Key /\ style' \in Styles \cup {NoStyle} /\ eventPipe' \in Seq(Key)
  <2>. DEFINE c == Head(commands)
  <2>1. /\ c.type \in {"notify", "close"} => c.key \in Key
        /\ c.type = "appearance" => c.style \in Styles
    BY <1>2 DEF Command
  <2>. HIDE DEF c
  <2>2. cards \subseteq Key /\ style \in Styles \cup {NoStyle} /\ eventPipe \in Seq(Key)
    BY DEF NotifyInv, Types
  <2>3. CASE c.type = "notify" /\ cards' = cards \cup {c.key} /\ UNCHANGED <<style, eventPipe>>
    BY <2>1, <2>2, <2>3
  <2>4. CASE /\ c.type = "close" /\ cards' = cards \ {c.key} /\ UNCHANGED style
             /\ eventPipe' = IF c.key \in cards THEN Append(eventPipe, c.key) ELSE eventPipe
    <3>1. c.key \in Key
      BY <2>1, <2>4
    <3>2. Append(eventPipe, c.key) \in Seq(Key)
      BY <2>2, <3>1, Appended
    <3>. QED  BY <2>2, <2>4, <3>2
  <2>5. CASE c.type = "appearance" /\ style' = c.style /\ UNCHANGED <<cards, eventPipe>>
    BY <2>1, <2>2, <2>5
  <2>6. \/ c.type = "notify" /\ cards' = cards \cup {c.key} /\ UNCHANGED <<style, eventPipe>>
        \/ /\ c.type = "close" /\ cards' = cards \ {c.key} /\ UNCHANGED style
           /\ eventPipe' = IF c.key \in cards THEN Append(eventPipe, c.key) ELSE eventPipe
        \/ c.type = "appearance" /\ style' = c.style /\ UNCHANGED <<cards, eventPipe>>
    BY DEF DaemonReads, c
  <2>. QED  BY <2>3, <2>4, <2>5, <2>6
<1>4. Types'
  BY <1>1, <1>2, <1>3 DEF NotifyInv, Types
<1>5. Stack' /\ Table'
  BY <1>1, StackSame, TableSame DEF NotifyInv
<1>6. Pipes'
  BY <1>1, SendsSame DEF NotifyInv, Pipes
<1>. QED  BY <1>4, <1>5, <1>6 DEF NotifyInv

LEMMA CloseStep ==
    ASSUME NotifyInv, NEW k \in Key, CardCloses(k)
    PROVE  NotifyInv'
<1>1. /\ child = "running" /\ cards' = cards \ {k} /\ eventPipe' = Append(eventPipe, k)
      /\ UNCHANGED <<live, appearance, op, sends, child, commands, style, pump>>
  BY DEF CardCloses, manager
<1>2. eventPipe' \in Seq(Key)
  BY <1>1, Appended DEF NotifyInv, Types
<1>3. Types'
  BY <1>1, <1>2 DEF NotifyInv, Types
<1>4. Stack' /\ Table'
  BY <1>1, StackSame, TableSame DEF NotifyInv
<1>5. Pipes'
  BY <1>1, SendsSame DEF NotifyInv, Pipes
<1>. QED  BY <1>3, <1>4, <1>5 DEF NotifyInv

LEMMA ExitStep ==
    ASSUME NotifyInv, DaemonExits
    PROVE  NotifyInv'
<1>1. /\ child = "running" /\ child' = "exited" /\ commands' = <<>> /\ cards' = {}
      /\ style' = NoStyle /\ UNCHANGED <<live, appearance, op, sends, pump, eventPipe>>
  BY DEF DaemonExits, manager
<1>2. Types'
  BY <1>1 DEF NotifyInv, Types
<1>3. Stack' /\ Table'
  BY <1>1, StackSame, TableSame DEF NotifyInv
<1>4. Pipes'
  BY <1>1, SendsSame DEF NotifyInv, Pipes
<1>. QED  BY <1>2, <1>3, <1>4 DEF NotifyInv

LEMMA PumpEventStep ==
    ASSUME NotifyInv, PumpEvent
    PROVE  NotifyInv' /\ Head(eventPipe) \in Key /\ Tracked' = Tracked \ {Head(eventPipe)}
<1>1. /\ pump /\ eventPipe # <<>> /\ live' = Without(Head(eventPipe))
      /\ eventPipe' = Tail(eventPipe)
      /\ UNCHANGED <<appearance, op, sends, child, commands, cards, style, pump>>
  BY DEF PumpEvent, manager, daemon
<1>2. Head(eventPipe) \in Key /\ eventPipe' \in Seq(Key)
  BY <1>1 DEF NotifyInv, Types
<1>3. Types'
  BY <1>1, <1>2 DEF NotifyInv, Types
<1>4. Stack'
  BY <1>1, StackSame DEF NotifyInv
<1>5. Table' /\ Tracked' = Tracked \ {Head(eventPipe)}
  BY <1>1, <1>2, TableForgets DEF NotifyInv
<1>6. Pipes'
  BY <1>1, SendsSame DEF NotifyInv, Pipes
<1>. QED  BY <1>2, <1>3, <1>4, <1>5, <1>6 DEF NotifyInv

LEMMA PumpEndStep ==
    ASSUME NotifyInv, PumpEnds
    PROVE  NotifyInv'
<1>1. /\ eventPipe = <<>> /\ child # "running" /\ pump' = FALSE
      /\ UNCHANGED <<live, appearance, op, sends, child, commands, cards, style, eventPipe>>
  BY DEF PumpEnds, manager, daemon
<1>2. Types'
  BY <1>1 DEF NotifyInv, Types
<1>3. Stack' /\ Table'
  BY <1>1, StackSame, TableSame DEF NotifyInv
<1>4. Pipes'
  BY <1>1, SendsSame DEF NotifyInv, Pipes
<1>. QED  BY <1>2, <1>3, <1>4 DEF NotifyInv

LEMMA NotifyStep ==
    ASSUME NotifyInv, [NotifyNext]_notifyVars
    PROVE  NotifyInv'
<1>1. CASE UNCHANGED notifyVars
  <2>1. UNCHANGED <<live, appearance, op, sends, child, commands, cards, style, pump, eventPipe>>
    BY <1>1 DEF notifyVars, manager, daemon
  <2>2. Types'
    BY <2>1 DEF NotifyInv, Types
  <2>3. Stack' /\ Table'
    BY <2>1, StackSame, TableSame DEF NotifyInv
  <2>4. Pipes'
    BY <2>1, SendsSame DEF NotifyInv, Pipes
  <2>. QED  BY <2>2, <2>3, <2>4 DEF NotifyInv
<1>2. CASE NotifyNext
  BY <1>2, EnsureStep, DropHandleStep, SpawnStep, WriteStep, AddStep, LimitStep, TrackStep,
     EvictedStep, DeliveredStep, RemoveStep, PushStep, PushedStep, ReadStep, CloseStep, ExitStep,
     PumpEventStep, PumpEndStep
     DEF NotifyNext, Manager, SendStep, OpStep, Daemon, Pump
<1>. QED  BY <1>1, <1>2

-----------------------------------------------------------------------------
(* The pipes.                                                              *)

(* A card of the key is announced in the pipe, or on the screen.           *)
Announced(k) == Notifying(k) \in Members(commands)
Showing(k) == k \in cards \/ Announced(k)

(* ... or its end is on its way.                                           *)
Pending(k) == Showing(k) \/ k \in Members(eventPipe)

(* The pipe closes the card of the key, and does not open it again.        *)
Withdrawn(k) ==
    \E i \in DOMAIN commands :
        /\ commands[i] = Closing(k)
        /\ \A j \in DOMAIN commands : j > i => commands[j] # Notifying(k)

LEMMA MembersAppended ==
    ASSUME NEW S, NEW s \in Seq(S), NEW x \in S
    PROVE  Members(Append(s, x)) = Members(s) \cup {x}
<1>. DEFINE t == Append(s, x)
<1>1. /\ t \in Seq(S) /\ Len(t) = Len(s) + 1 /\ t[Len(s) + 1] = x
      /\ \A i \in 1..Len(s) : t[i] = s[i]
  BY Appended
<1>. HIDE DEF t
<1>2. /\ Len(s) \in Nat /\ DOMAIN s = 1..Len(s) /\ DOMAIN t = 1..(Len(s) + 1)
  BY <1>1
<1>3. /\ \A i \in DOMAIN s : i \in DOMAIN t /\ t[i] = s[i]
      /\ \A i \in DOMAIN t : i \in DOMAIN s \/ i = Len(s) + 1
      /\ Len(s) + 1 \in DOMAIN t
  BY <1>1, <1>2
<1>4. Members(t) = Members(s) \cup {x}
  BY <1>1, <1>3 DEF Members
<1>. QED  BY <1>4 DEF t

LEMMA MembersTails ==
    ASSUME NEW S, NEW s \in Seq(S), s # <<>>
    PROVE  Members(s) = Members(Tail(s)) \cup {Head(s)}
<1>. DEFINE t == Tail(s)
<1>1. /\ Head(s) = s[1] /\ 1 \in DOMAIN s
      /\ \A i \in DOMAIN t : i + 1 \in DOMAIN s /\ t[i] = s[i + 1]
      /\ \A i \in DOMAIN s : i # 1 => i - 1 \in DOMAIN t /\ t[i - 1] = s[i]
  BY Tails
<1>. HIDE DEF t
<1>2. Members(t) \cup {Head(s)} \subseteq Members(s)
  BY <1>1 DEF Members
<1>3. ASSUME NEW x \in Members(s) PROVE x \in Members(t) \cup {Head(s)}
  <2>1. PICK i \in DOMAIN s : s[i] = x
    BY DEF Members
  <2>2. CASE i = 1
    BY <1>1, <2>1, <2>2
  <2>3. CASE i # 1
    <3>1. i - 1 \in DOMAIN t /\ t[i - 1] = x
      BY <1>1, <2>1, <2>3
    <3>. QED  BY <3>1, Zenon DEF Members
  <2>. QED  BY <2>2, <2>3
<1>4. Members(s) = Members(t) \cup {Head(s)}
  BY <1>2, <1>3
<1>. QED  BY <1>4 DEF t

LEMMA CommandKinds ==
    ASSUME NEW c \in Command
    PROVE  /\ c.type \in {"notify", "close", "appearance"}
           /\ c.type \in {"notify", "close"} => c.key \in Key
           /\ c.type = "notify" => c = Notifying(c.key)
           /\ c.type = "close" => c = Closing(c.key)
           /\ c.type = "appearance" => c.style \in Styles
           /\ \A k \in Key : /\ c = Notifying(k) => c.type = "notify" /\ c.key = k
                             /\ c = Closing(k) => c.type = "close" /\ c.key = k
  BY DEF Command, Notifying, Closing

LEMMA NotMixed ==
    ASSUME NEW j, NEW k
    PROVE  /\ Notifying(j) # Closing(k) /\ Restyling # Notifying(k) /\ Restyling # Closing(k)
           /\ Notifying(j) = Notifying(k) => j = k
<1>1. /\ Notifying(j).type = "notify" /\ Closing(k).type = "close" /\ Restyling.type = "appearance"
      /\ Notifying(k).type = "notify" /\ Notifying(j).key = j /\ Notifying(k).key = k
  BY DEF Notifying, Closing, Restyling
<1>2. "notify" # "close" /\ "appearance" # "notify" /\ "appearance" # "close"
  OBVIOUS
<1>. QED  BY <1>1, <1>2, Zenon

LEMMA WithdrawnKept ==
    ASSUME commands \in Seq(Command), NEW c \in Command, commands' = Append(commands, c), NEW k,
           \/ c = Closing(k)
           \/ Withdrawn(k) /\ c # Notifying(k)
    PROVE  Withdrawn(k)'
<1>. DEFINE n == Len(commands)
<1>1. /\ commands' \in Seq(Command) /\ Len(commands') = n + 1 /\ commands'[n + 1] = c
      /\ \A i \in 1..n : commands'[i] = commands[i]
  BY Appended
<1>2. n \in Nat /\ DOMAIN commands = 1..n
  OBVIOUS
<1>3. DOMAIN commands' = 1..(n + 1)
  BY <1>1
<1>4. Closing(k)' = Closing(k) /\ Notifying(k)' = Notifying(k)
  BY DEF Closing, Notifying
<1>. HIDE DEF n
<1>5. CASE c = Closing(k)
  <2>1. n + 1 \in DOMAIN commands' /\ \A j \in DOMAIN commands' : ~(j > n + 1)
    BY <1>2, <1>3
  <2>. QED  BY <1>1, <1>4, <1>5, <2>1 DEF Withdrawn
<1>6. CASE Withdrawn(k) /\ c # Notifying(k)
  <2>1. PICK i \in DOMAIN commands :
           /\ commands[i] = Closing(k)
           /\ \A j \in DOMAIN commands : j > i => commands[j] # Notifying(k)
    BY <1>6 DEF Withdrawn
  <2>2. i \in DOMAIN commands' /\ commands'[i] = Closing(k)
    BY <1>1, <1>2, <1>3, <2>1
  <2>3. \A j \in DOMAIN commands' : j > i => commands'[j] # Notifying(k)
    <3>1. \A j \in DOMAIN commands' : j \in 1..n \/ j = n + 1
      BY <1>2, <1>3
    <3>. QED  BY <1>1, <1>2, <1>6, <2>1, <3>1
  <2>. QED  BY <1>4, <2>2, <2>3, Zenon DEF Withdrawn
<1>. QED  BY <1>5, <1>6

LEMMA WithdrawnRead ==
    ASSUME commands \in Seq(Command), commands # <<>>, commands' = Tail(commands), NEW k,
           Withdrawn(k)
    PROVE  Withdrawn(k)' \/ (Head(commands) = Closing(k) /\ ~Announced(k)')
<1>1. /\ Head(commands) = commands[1] /\ DOMAIN commands = 1..Len(commands)
      /\ Len(commands) \in Nat
      /\ \A i \in DOMAIN commands' : /\ i + 1 \in DOMAIN commands /\ i + 1 # 1
                                     /\ commands'[i] = commands[i + 1]
      /\ \A i \in DOMAIN commands : i # 1 => /\ i - 1 \in DOMAIN commands'
                                             /\ commands'[i - 1] = commands[i]
  BY Tails
<1>2. PICK i \in DOMAIN commands :
         /\ commands[i] = Closing(k)
         /\ \A j \in DOMAIN commands : j > i => commands[j] # Notifying(k)
  BY DEF Withdrawn
<1>3. Closing(k)' = Closing(k) /\ Notifying(k)' = Notifying(k)
  BY DEF Closing, Notifying
<1>4. CASE i = 1
  <2>1. \A j \in DOMAIN commands' : commands'[j] # Notifying(k)
    <3>1. \A j \in DOMAIN commands' : j + 1 > 1
      BY <1>1
    <3>. QED  BY <1>1, <1>2, <1>4, <3>1
  <2>2. ~Announced(k)'
    BY <1>3, <2>1 DEF Announced, Members
  <2>. QED  BY <1>1, <1>2, <1>4, <2>2
<1>5. CASE i # 1
  <2>1. i - 1 \in DOMAIN commands' /\ commands'[i - 1] = Closing(k)
    BY <1>1, <1>2, <1>5
  <2>2. \A j \in DOMAIN commands' : j > i - 1 => commands'[j] # Notifying(k)
    <3>1. \A j \in DOMAIN commands' : j > i - 1 => j + 1 > i
      BY <1>1
    <3>. QED  BY <1>1, <1>2, <3>1
  <2>. QED  BY <1>3, <2>1, <2>2, Zenon DEF Withdrawn
<1>. QED  BY <1>4, <1>5

-----------------------------------------------------------------------------
(* What is in the table and what is on the screen.                         *)

Safe(k) == child = "exited" \/ Pending(k)

(* AddNotification is at work on the key, and has not sent it.             *)
Underway(k) ==
    /\ op.at \in {"evict", "deliver"} /\ op.key = k
    /\ (op.at = "deliver" /\ sends = <<>>) => ~op.ok

(* What is in the table is, or will be, on the screen.  A handle is dropped*)
(* only when the table is empty or all of it is stale.                     *)
Leak ==
    /\ SendAt("reap") \/ SendAt("drop") => Tracked \subseteq stale
    /\ \A k \in Tracked \ stale : Safe(k) \/ Underway(k)

(* What is on the screen, or announced, is in the table.                   *)
Shown ==
    /\ op.at = "evict" => op.victim \notin Tracked
    /\ op.at \in {"evict", "deliver"} => op.key \in Tracked \cup orphaned
    /\ \A k \in Key : Showing(k) => \/ k \in Tracked \cup orphaned
                                    \/ Withdrawn(k)
                                    \/ op.at = "evict" /\ sends # <<>> /\ op.victim = k

CardInv == NotifyInv /\ Leak /\ Shown

(* Without a daemon there are no cards.                                    *)
LEMMA NoneShown ==
    ASSUME NotifyInv, child # "running"
    PROVE  \A k : ~Showing(k)
  BY DEF NotifyInv, Pipes, Showing, Announced, Members

LEMMA TrackedKeys == Tracked \subseteq Key
  BY DEF Tracked

LEMMA OpKey ==
    ASSUME op \in Op \cup {Idle}, op.at \in {"evict", "deliver"}
    PROVE  op.key \in Key /\ op.victim \in Key
  BY Idles

(* The cards and the pipes are as they were.                               *)
LEMMA PipesSame ==
    ASSUME UNCHANGED <<commands, cards, eventPipe>>
    PROVE  \A k : /\ Showing(k)' <=> Showing(k)
                  /\ Pending(k)' <=> Pending(k)
                  /\ Withdrawn(k)' <=> Withdrawn(k)
  BY DEF Showing, Pending, Announced, Withdrawn, Members, Closing, Notifying

LEMMA EnsureCards ==
    ASSUME CardInv, Ensure
    PROVE  Leak' /\ Shown'
<1>1. /\ sends # <<>> /\ sends' # <<>> /\ UNCHANGED <<op, child, commands, cards, eventPipe>>
  BY TopTyped DEF Ensure, SendAt, SetTop, manager, daemon, CardInv, NotifyInv
<1>2. CASE child = "exited"
  <2>1. Tracked' = {} /\ orphaned' = IF op.at \in {"evict", "deliver"} THEN {op.key} ELSE {}
    BY <1>2, TableEmptied DEF Ensure
  <2>2. Leak'
    BY <2>1 DEF Leak
  <2>3. \A k : ~Showing(k)'
    BY <1>1, <1>2, NoneShown, PipesSame DEF CardInv
  <2>4. Shown'
    BY <1>1, <2>1, <2>3 DEF Shown
  <2>. QED  BY <2>2, <2>4
<1>3. CASE child # "exited"
  <2>1. Tracked' = Tracked /\ UNCHANGED <<stale, orphaned>>
    BY <1>3 DEF Ensure, ghosts, Tracked
  <2>2. ~SendAt("reap")' /\ ~SendAt("drop")'
    <3>. DEFINE t == [Top EXCEPT !.at = CASE child = "running" -> "write"
                                          [] child = "exited" -> "reap"
                                          [] child = "none" -> "spawn"]
    <3>1. sends' = [sends EXCEPT ![Len(sends)] = t]
      BY DEF Ensure, SetTop
    <3>2. Top \in Send /\ Len(sends) \in DOMAIN sends /\ child \in {"none", "running", "exited"}
      BY <1>1, TopTyped DEF CardInv, NotifyInv, Types
    <3>3. t.at \in {"write", "spawn"}
      BY <1>3, <3>2 DEF Send
    <3>. HIDE DEF t
    <3>4. Len(sends') = Len(sends) /\ sends'[Len(sends)] = t
      BY <3>1, <3>2
    <3>. QED  BY <3>3, <3>4 DEF SendAt, Top
  <2>3. Leak'
    BY <1>1, <2>1, <2>2, PipesSame DEF Leak, Safe, Underway, CardInv
  <2>4. Shown'
    BY <1>1, <2>1, PipesSame DEF Shown, CardInv
  <2>. QED  BY <2>3, <2>4
<1>. QED  BY <1>2, <1>3

LEMMA DropCards ==
    ASSUME CardInv, DropHandle
    PROVE  Leak' /\ Shown'
<1>1. /\ sends # <<>>
      /\ SendAt("reap") \/ SendAt("drop")
      /\ child' = "none" /\ UNCHANGED <<live, appearance, commands, cards, eventPipe, stale, orphaned>>
  BY DEF DropHandle, ghosts, SendAt
<1>2. Tracked' = Tracked /\ Tracked \subseteq stale
  BY <1>1 DEF Tracked, CardInv, Leak
<1>3. child = "exited"
  BY <1>1 DEF CardInv, NotifyInv, Pipes
<1>4. \A k : ~Showing(k)'
  BY <1>1, <1>3, NoneShown, PipesSame DEF CardInv
<1>5. Leak'
  BY <1>1, <1>2 DEF Leak
<1>6. /\ op'.at = op.at
      /\ op.at \in {"evict", "deliver"} => op'.key = op.key /\ op'.victim = op.victim
  <2>1. CASE UNCHANGED op
    BY <2>1
  <2>2. CASE Done(FALSE)
    BY <1>1, <2>2, Returns DEF CardInv, NotifyInv
  <2>. QED  BY <2>1, <2>2 DEF DropHandle
<1>7. Shown'
  BY <1>1, <1>2, <1>4, <1>6 DEF Shown, CardInv
<1>. QED  BY <1>5, <1>7

LEMMA SpawnCards ==
    ASSUME CardInv, Spawn, ~SendAt("reap")', ~SendAt("drop")'
    PROVE  Leak' /\ Shown'
<1>1. /\ sends # <<>> /\ child = "none"
      /\ UNCHANGED <<live, appearance, commands, cards, eventPipe, stale, orphaned>>
  BY DEF Spawn, ghosts, SendAt, CardInv, NotifyInv, Pipes
<1>2. Tracked' = Tracked
  BY <1>1 DEF Tracked
<1>4. \A k : /\ ~Showing(k)'
             /\ Pending(k)' <=> Pending(k)
  BY <1>1, NoneShown, PipesSame DEF CardInv
<1>5. /\ op'.at = op.at
      /\ op.at \in {"evict", "deliver"} => op'.key = op.key /\ op'.victim = op.victim
      /\ sends' # <<>> \/ op'.ok = FALSE
  <2>1. CASE UNCHANGED op /\ sends' # <<>>
    BY <2>1
  <2>2. CASE Done(FALSE)
    BY <1>1, <2>2, Returns DEF CardInv, NotifyInv
  <2>3. ASSUME ~Done(FALSE) PROVE UNCHANGED op /\ sends' # <<>>
    <3>1. Len(sends) \in Nat \ {0} /\ Len(sends) \in DOMAIN sends /\ sends \in Seq(Send)
      BY <1>1, TopTyped DEF CardInv, NotifyInv, Types
    <3>2. CASE SetTop([Top EXCEPT !.at = "write"])
      <4>1. sends' = [sends EXCEPT ![Len(sends)] = [Top EXCEPT !.at = "write"]]
        BY <3>2 DEF SetTop
      <4>2. DOMAIN sends' = DOMAIN sends /\ DOMAIN sends # {}
        BY <3>1, <4>1
      <4>3. sends' # <<>>
        BY <4>2
      <4>. QED  BY <2>3, <4>3 DEF Spawn
    <3>3. CASE appearance # NoStyle
      BY <1>1, <2>3, <3>3, Nests DEF Spawn, Restyling, CardInv, NotifyInv
    <3>. QED  BY <2>3, <3>2, <3>3 DEF Spawn
  <2>. QED  BY <2>1, <2>2, <2>3
<1>6. Leak'
  BY <1>1, <1>2, <1>4, <1>5 DEF Leak, Safe, Underway, CardInv
<1>7. Shown'
  <2>1. op'.at = "evict" => op'.victim \notin Tracked'
    BY <1>2, <1>5 DEF Shown, CardInv
  <2>2. op'.at \in {"evict", "deliver"} => op'.key \in Tracked' \cup orphaned'
    BY <1>1, <1>2, <1>5 DEF Shown, CardInv
  <2>. QED  BY <1>4, <2>1, <2>2 DEF Shown
<1>. QED  BY <1>6, <1>7

(* A frame goes into the pipe.                                             *)
LEMMA Appears ==
    ASSUME NotifyInv, NEW c \in Command, commands' = Append(commands, c),
           UNCHANGED <<cards, eventPipe>>
    PROVE  \A k : /\ Showing(k)' <=> (Showing(k) \/ c = Notifying(k))
                  /\ Pending(k)' <=> (Pending(k) \/ c = Notifying(k))
                  /\ (Withdrawn(k) /\ c # Notifying(k)) => Withdrawn(k)'
                  /\ c = Closing(k) => Withdrawn(k)'
<1>1. commands \in Seq(Command)
  BY DEF NotifyInv, Types
<1>2. Members(commands)' = Members(commands) \cup {c}
  <2>1. Members(Append(commands, c)) = Members(commands) \cup {c}
    BY <1>1, MembersAppended
  <2>2. Members(commands)' = Members(commands')
    BY DEF Members
  <2>. QED  BY <2>1, <2>2
<1>3. Members(eventPipe)' = Members(eventPipe) /\ \A k : Notifying(k)' = Notifying(k)
  BY DEF Members, Notifying
<1>4. \A k : Showing(k)' <=> (Showing(k) \/ c = Notifying(k))
  BY <1>2, <1>3 DEF Showing, Announced
<1>5. \A k : Pending(k)' <=> (Pending(k) \/ c = Notifying(k))
  BY <1>3, <1>4 DEF Pending
<1>6. \A k : /\ (Withdrawn(k) /\ c # Notifying(k)) => Withdrawn(k)'
             /\ c = Closing(k) => Withdrawn(k)'
  BY <1>1, WithdrawnKept
<1>. QED  BY <1>4, <1>5, <1>6

LEMMA WriteCards ==
    ASSUME CardInv, Write
    PROVE  Leak' /\ Shown'
<1>1. /\ sends # <<>> /\ SendAt("write") /\ UNCHANGED <<live, appearance, child, cards, eventPipe, orphaned>>
  BY DEF Write, SendAt
<1>2. Tracked' = Tracked
  BY <1>1 DEF Tracked
<1>3. Top \in Send /\ Top.frame \in Command
  BY <1>1, TopTyped DEF CardInv, NotifyInv, Send
<1>4. CASE child = "running"
  <2>1. commands' = Append(commands, Top.frame) /\ Done(TRUE) /\ stale' = stale
    BY <1>4 DEF Write
  <2>2. \A k : /\ Showing(k)' <=> (Showing(k) \/ Top.frame = Notifying(k))
               /\ Pending(k)' <=> (Pending(k) \/ Top.frame = Notifying(k))
               /\ (Withdrawn(k) /\ Top.frame # Notifying(k)) => Withdrawn(k)'
               /\ Top.frame = Closing(k) => Withdrawn(k)'
    BY <1>1, <1>3, <2>1, Appears DEF CardInv
  <2>3. /\ op'.at = op.at /\ op' \in Op
        /\ op.at # "push" => op'.key = op.key /\ op'.victim = op.victim
        /\ \/ /\ sends' = <<>>
              /\ op.at = "evict" => Top.frame = Closing(op.victim)
              /\ op.at = "deliver" => Top.frame = Notifying(op.key)
              /\ op.at = "push" => Top.frame = Restyling
           \/ sends' # <<>> /\ Top'.at = "write" /\ op' = op /\ Top.frame = Restyling
    BY <1>1, <2>1, Returns DEF CardInv, NotifyInv
  <2>4. op.at \in {"evict", "deliver", "push"}
    BY <1>1 DEF CardInv, NotifyInv, Stack
  <2>5. ~SendAt("reap")' /\ ~SendAt("drop")'
    BY <2>3 DEF SendAt
  <2>6. Leak'
    <3>1. ASSUME NEW k \in Tracked \ stale PROVE Safe(k)' \/ Underway(k)'
      <4>1. CASE Safe(k)
        BY <1>1, <1>4, <2>2, <4>1 DEF Safe
      <4>2. CASE Underway(k)
        <5>1. CASE sends' = <<>> /\ op.at = "deliver"
          BY <2>2, <2>3, <4>2, <5>1 DEF Safe, Underway
        <5>2. CASE ~(sends' = <<>> /\ op.at = "deliver")
          BY <2>3, <4>2, <5>2 DEF Underway
        <5>. QED  BY <5>1, <5>2
      <4>. QED  BY <4>1, <4>2 DEF Leak, CardInv
    <3>. QED  BY <1>2, <2>1, <2>5, <3>1 DEF Leak
  <2>7. \A k : Top.frame = Notifying(k) => op.at = "deliver" /\ op.key = k
    <3>1. ASSUME NEW k, Top.frame = Notifying(k) PROVE op.at = "deliver" /\ op.key = k
      <4>1. /\ Top.frame # Restyling /\ Top.frame # Closing(op.victim)
            /\ Top.frame = Notifying(op.key) => op.key = k
        BY <3>1, NotMixed
      <4>. QED  BY <2>3, <2>4, <4>1
    <3>. QED  BY <3>1
  <2>8. Shown'
    <3>1. op'.at = "evict" => op'.victim \notin Tracked'
      BY <1>2, <2>3 DEF Shown, CardInv
    <3>2. op'.at \in {"evict", "deliver"} => op'.key \in Tracked' \cup orphaned'
      BY <1>1, <1>2, <2>3 DEF Shown, CardInv
    <3>3. ASSUME NEW k \in Key, Showing(k)'
          PROVE  \/ k \in Tracked' \cup orphaned'
                 \/ Withdrawn(k)'
                 \/ op'.at = "evict" /\ sends' # <<>> /\ op'.victim = k
      <4>1. CASE Top.frame = Notifying(k)
        BY <1>1, <1>2, <2>7, <4>1 DEF Shown, CardInv
      <4>2. CASE Top.frame # Notifying(k)
        <5>1. Showing(k)
          BY <2>2, <3>3, <4>2
        <5>2. \/ k \in Tracked \cup orphaned
              \/ Withdrawn(k)
              \/ op.at = "evict" /\ sends # <<>> /\ op.victim = k
          BY <5>1 DEF Shown, CardInv
        <5>. QED  BY <1>1, <1>2, <2>2, <2>3, <4>2, <5>2
      <4>. QED  BY <4>1, <4>2
    <3>. QED  BY <3>1, <3>2, <3>3 DEF Shown
  <2>. QED  BY <2>6, <2>8
<1>5. CASE child = "exited"
  <2>1. stale' = stale \cup Tracked /\ UNCHANGED <<op, commands>>
    BY <1>5 DEF Write
  <2>2. Leak'
    BY <1>2, <2>1 DEF Leak
  <2>3. \A k : ~Showing(k)'
    BY <1>1, <1>5, <2>1, NoneShown, PipesSame DEF CardInv
  <2>4. Shown'
    BY <1>1, <1>2, <2>1, <2>3 DEF Shown, CardInv
  <2>. QED  BY <2>2, <2>4
<1>6. CASE child = "none"
  <2>1. Done(FALSE) /\ UNCHANGED <<commands, stale>>
    BY <1>6 DEF Write
  <2>2. /\ op'.at = op.at
        /\ op.at # "push" => op'.key = op.key /\ op'.victim = op.victim
        /\ \/ sends' = <<>> /\ op'.ok = FALSE
           \/ sends' # <<>> /\ Top'.at = "write"
    BY <1>1, <2>1, Returns DEF CardInv, NotifyInv
  <2>3. ~SendAt("reap")' /\ ~SendAt("drop")'
    BY <2>2 DEF SendAt
  <2>4. \A k : /\ ~Showing(k)'
               /\ Pending(k)' <=> Pending(k)
    BY <1>1, <1>6, <2>1, NoneShown, PipesSame DEF CardInv
  <2>5. Leak'
    BY <1>1, <1>2, <2>1, <2>2, <2>3, <2>4 DEF Leak, Safe, Underway, CardInv
  <2>6. Shown'
    BY <1>1, <1>2, <2>2, <2>4 DEF Shown, CardInv
  <2>. QED  BY <2>5, <2>6
<1>7. child \in {"none", "running", "exited"}
  BY DEF CardInv, NotifyInv, Types
<1>. QED  BY <1>4, <1>5, <1>6, <1>7

-----------------------------------------------------------------------------
(* The same, step by step.                                                 *)
LEMMA OtherCards ==
    ASSUME CardInv, UNCHANGED <<live, child, commands, cards, eventPipe, stale, orphaned>>,
           op.at \notin {"evict", "deliver"}, op'.at \notin {"evict", "deliver"},
           ~SendAt("reap")', ~SendAt("drop")'
    PROVE  Leak' /\ Shown'
<1>1. Tracked' = Tracked
  BY DEF Tracked
<1>2. \A k : /\ Showing(k)' <=> Showing(k)
             /\ Pending(k)' <=> Pending(k)
             /\ Withdrawn(k)' <=> Withdrawn(k)
  BY PipesSame
<1>3. Leak'
  BY <1>1, <1>2 DEF CardInv, Leak, Safe, Underway
<1>4. Shown'
  BY <1>1, <1>2 DEF CardInv, Shown
<1>. QED  BY <1>3, <1>4

LEMMA OperationCards ==
    ASSUME CardInv,
           \/ \E k \in Key : AddNotification(k)
           \/ Limit
           \/ \E new \in Styles : PushAppearance(new)
           \/ Pushed
    PROVE  Leak' /\ Shown'
<1>1. UNCHANGED <<live, child, commands, cards, eventPipe, stale, orphaned>>
  BY DEF AddNotification, Limit, PushAppearance, Pushed, daemon, ghosts
<1>2. CASE \E new \in Styles : PushAppearance(new)
  BY <1>1, <1>2, PushStep, OtherCards DEF CardInv
<1>3. CASE ~(\E new \in Styles : PushAppearance(new))
  <2>1. UNCHANGED sends
    BY <1>3 DEF AddNotification, Limit, Pushed
  <2>2. op.at \in {"idle", "limit", "push"}
    BY <1>3, Idles DEF AddNotification, Limit, Pushed, OpAt
  <2>3. ~SendAt("reap")' /\ ~SendAt("drop")'
    <3>1. sends = <<>>
      BY <1>3, <2>2, Quiet DEF Limit, Pushed, OpAt, CardInv, AddNotification, Idle
    <3>. QED  BY <2>1, <3>1 DEF SendAt
  <2>4. op'.at \notin {"evict", "deliver"}
    <3>1. CASE \E k \in Key : AddNotification(k)
      BY <3>1 DEF AddNotification
    <3>2. CASE Pushed
      BY <3>2, Idles DEF Pushed
    <3>3. CASE Limit
      <4>1. op \in Op /\ op.at # "push"
        BY <3>3, Idles DEF Limit, OpAt, CardInv, NotifyInv, Types
      <4>. QED  BY <3>3, <4>1, Idles DEF Limit
    <3>. QED  BY <1>3, <3>1, <3>2, <3>3
  <2>. QED  BY <1>1, <2>2, <2>3, <2>4, OtherCards
<1>. QED  BY <1>2, <1>3

LEMMA TrackCards ==
    ASSUME CardInv, TrackNew
    PROVE  Leak' /\ Shown'
<1>1. /\ op'.key = op.key /\ op'.at \in {"evict", "deliver"} /\ sends' # <<>>
      /\ op.at = "track" /\ op.key \in Key /\ ~SendAt("reap")' /\ ~SendAt("drop")'
  BY TrackStep DEF CardInv
<1>2. /\ op.key \in Tracked' /\ Tracked' \subseteq Tracked \cup {op.key}
      /\ op'.at = "evict" => op'.victim \in Key \ Tracked' /\ Tracked \ {op'.victim} \subseteq Tracked'
      /\ op'.at # "evict" => Tracked \subseteq Tracked'
  BY TableTracks DEF CardInv, NotifyInv
<1>3. UNCHANGED <<child, commands, cards, eventPipe, stale>> /\ orphaned' = orphaned \ {op.key}
  BY DEF TrackNew, daemon
<1>4. \A k : /\ Showing(k)' <=> Showing(k)
             /\ Pending(k)' <=> Pending(k)
             /\ Withdrawn(k)' <=> Withdrawn(k)
  BY <1>3, PipesSame
<1>5. Leak'
  <2>1. ASSUME NEW k \in Tracked' \ stale' PROVE Safe(k)' \/ Underway(k)'
    <3>1. CASE k = op.key
      BY <1>1, <3>1 DEF Underway
    <3>2. CASE k # op.key
      BY <1>1, <1>2, <1>3, <1>4, <2>1, <3>2 DEF CardInv, Leak, Safe, Underway
    <3>. QED  BY <3>1, <3>2
  <2>. QED  BY <1>1, <2>1 DEF Leak
<1>6. Shown'
  <2>1. ASSUME NEW k \in Key, Showing(k)'
        PROVE  \/ k \in Tracked' \cup orphaned'
               \/ Withdrawn(k)'
               \/ op'.at = "evict" /\ sends' # <<>> /\ op'.victim = k
    <3>1. k \in Tracked \cup orphaned \/ Withdrawn(k)
      BY <1>1, <1>4, <2>1 DEF CardInv, Shown
    <3>. QED  BY <1>1, <1>2, <1>3, <1>4, <3>1
  <2>2. op'.key \in Tracked' \cup orphaned' /\ (op'.at = "evict" => op'.victim \notin Tracked')
    BY <1>1, <1>2
  <2>. QED  BY <2>1, <2>2 DEF Shown
<1>. QED  BY <1>5, <1>6

LEMMA EvictedCards ==
    ASSUME CardInv, Evicted
    PROVE  Leak' /\ Shown'
<1>1. /\ op.at = "evict" /\ op.key \in Key /\ op.victim \in Key
      /\ Tracked' = Tracked \ {op.victim}
      /\ op'.at = "deliver" /\ op'.key = op.key /\ sends' # <<>> /\ Top'.at = "ensure"
  BY EvictedStep DEF CardInv
<1>2. sends = <<>> /\ UNCHANGED <<child, commands, cards, eventPipe, stale, orphaned>>
  BY DEF Evicted, OpAt, daemon, ghosts
<1>3. \A k : /\ Showing(k)' <=> Showing(k)
             /\ Pending(k)' <=> Pending(k)
             /\ Withdrawn(k)' <=> Withdrawn(k)
  BY <1>2, PipesSame
<1>4. Tracked' = Tracked
  BY <1>1 DEF CardInv, Shown
<1>5. Leak'
  BY <1>1, <1>2, <1>3, <1>4 DEF CardInv, Leak, Safe, Underway, SendAt
<1>6. Shown'
  BY <1>1, <1>2, <1>3, <1>4 DEF CardInv, Shown
<1>. QED  BY <1>5, <1>6

LEMMA DeliveredCards ==
    ASSUME CardInv, Delivered
    PROVE  Leak' /\ Shown'
<1>1. /\ op.at = "deliver" /\ op.key \in Key /\ sends = <<>>
      /\ Tracked' = IF op.ok THEN Tracked ELSE Tracked \ {op.key}
      /\ op.ok \in BOOLEAN
  BY DeliveredStep DEF CardInv
<1>2. /\ UNCHANGED <<sends, child, commands, cards, eventPipe, stale, orphaned>>
      /\ op'.at = "idle"
  BY Idles DEF Delivered, daemon, ghosts
<1>3. \A k : /\ Showing(k)' <=> Showing(k)
             /\ Pending(k)' <=> Pending(k)
             /\ Withdrawn(k)' <=> Withdrawn(k)
  BY <1>2, PipesSame
<1>4. ~SendAt("reap")' /\ ~SendAt("drop")'
  BY <1>1, <1>2 DEF SendAt
<1>5. CASE op.ok
  <2>1. Leak'
    BY <1>1, <1>2, <1>3, <1>4, <1>5 DEF CardInv, Leak, Safe, Underway
  <2>2. Shown'
    BY <1>1, <1>2, <1>3, <1>5 DEF CardInv, Shown
  <2>. QED  BY <2>1, <2>2
<1>6. CASE ~op.ok
  <2>1. child # "running"
    BY <1>1, <1>6 DEF CardInv, NotifyInv, Pipes
  <2>2. \A k : ~Showing(k)
    BY <2>1, NoneShown DEF CardInv
  <2>3. Leak'
    BY <1>1, <1>2, <1>3, <1>4, <1>6 DEF CardInv, Leak, Safe, Underway
  <2>4. Shown'
    BY <1>2, <1>3, <2>2 DEF Shown
  <2>. QED  BY <2>3, <2>4
<1>. QED  BY <1>1, <1>5, <1>6

LEMMA RemoveCards ==
    ASSUME CardInv, NEW k \in Key, RemoveNotification(k)
    PROVE  Leak' /\ Shown'
<1>1. Tracked' = Tracked \ {k} /\ sends = <<>>
  BY RemoveStep DEF CardInv
<1>2. /\ op.at = "idle" /\ op' = op /\ UNCHANGED <<sends, child, cards, eventPipe, stale, orphaned>>
      /\ commands' = IF child = "running" THEN Append(commands, Closing(k)) ELSE commands
  BY Idles DEF RemoveNotification, manager, ghosts, Closing
<1>3. ~SendAt("reap")' /\ ~SendAt("drop")'
  BY <1>1, <1>2 DEF SendAt
<1>4. CASE child = "running"
  <2>1. \A j : /\ Showing(j)' <=> (Showing(j) \/ Closing(k) = Notifying(j))
               /\ Pending(j)' <=> (Pending(j) \/ Closing(k) = Notifying(j))
               /\ (Withdrawn(j) /\ Closing(k) # Notifying(j)) => Withdrawn(j)'
               /\ Closing(k) = Closing(j) => Withdrawn(j)'
    BY <1>2, <1>4, CommandValues, Appears DEF CardInv
  <2>2. \A j : Closing(k) # Notifying(j)
    BY NotMixed
  <2>3. Withdrawn(k)'
    BY <2>1
  <2>4. Leak'
    BY <1>1, <1>2, <1>3, <2>1 DEF CardInv, Leak, Safe, Underway
  <2>5. Shown'
    BY <1>1, <1>2, <2>1, <2>2, <2>3 DEF CardInv, Shown
  <2>. QED  BY <2>4, <2>5
<1>5. CASE child # "running"
  <2>1. \A j : /\ Showing(j)' <=> Showing(j)
               /\ Pending(j)' <=> Pending(j)
    BY <1>2, <1>5, PipesSame
  <2>2. \A j : ~Showing(j)
    BY <1>5, NoneShown DEF CardInv
  <2>3. Leak'
    BY <1>1, <1>2, <1>3, <2>1 DEF CardInv, Leak, Safe, Underway
  <2>4. Shown'
    BY <1>2, <2>1, <2>2 DEF Shown
  <2>. QED  BY <2>3, <2>4
<1>. QED  BY <1>4, <1>5

LEMMA ReadCards ==
    ASSUME CardInv, DaemonReads
    PROVE  Leak' /\ Shown'
<1>. DEFINE c == Head(commands)
<1>1. /\ commands # <<>> /\ commands' = Tail(commands)
      /\ UNCHANGED <<live, op, sends, child, stale, orphaned>>
  BY DEF DaemonReads, manager, ghosts
<1>2. /\ commands \in Seq(Command) /\ c \in Command /\ eventPipe \in Seq(Key) /\ cards \subseteq Key
  BY <1>1 DEF CardInv, NotifyInv, Types
<1>3. Tracked' = Tracked
  BY <1>1 DEF Tracked
<1>4. Members(commands) = Members(commands)' \cup {c}
  <2>1. Members(commands)' = Members(Tail(commands))
    BY <1>1 DEF Members
  <2>. QED  BY <1>1, <1>2, <2>1, MembersTails
<1>5. \/ c = Notifying(c.key) /\ cards' = cards \cup {c.key} /\ UNCHANGED eventPipe
      \/ /\ c = Closing(c.key) /\ c.key \in Key /\ cards' = cards \ {c.key}
         /\ eventPipe' = IF c.key \in cards THEN Append(eventPipe, c.key) ELSE eventPipe
      \/ c.type = "appearance" /\ UNCHANGED <<cards, eventPipe>>
  <2>1. /\ c.type = "notify" => c = Notifying(c.key)
        /\ c.type = "close" => c = Closing(c.key) /\ c.key \in Key
    BY <1>2, CommandKinds
  <2>. QED  BY <2>1 DEF DaemonReads
<1>. HIDE DEF c
<1>6. \A k : Notifying(k)' = Notifying(k)
  BY DEF Notifying
<1>7. \A k : Announced(k) <=> (Announced(k)' \/ c = Notifying(k))
  BY <1>4, <1>6 DEF Announced
<1>8. Members(eventPipe) \subseteq Members(eventPipe)' /\ cards \subseteq cards' \cup Members(eventPipe)'
  <2>1. CASE UNCHANGED eventPipe /\ cards \subseteq cards'
    BY <2>1 DEF Members
  <2>2. CASE /\ c.key \in Key /\ cards' = cards \ {c.key}
             /\ eventPipe' = IF c.key \in cards THEN Append(eventPipe, c.key) ELSE eventPipe
    <3>1. CASE c.key \in cards
      <4>1. Members(Append(eventPipe, c.key)) = Members(eventPipe) \cup {c.key}
        BY <1>2, <2>2, MembersAppended
      <4>2. Members(eventPipe)' = Members(eventPipe) \cup {c.key}
        BY <2>2, <3>1, <4>1 DEF Members
      <4>. QED  BY <2>2, <4>2
    <3>2. CASE c.key \notin cards
      <4>1. UNCHANGED eventPipe /\ cards' = cards
        BY <2>2, <3>2
      <4>. QED  BY <4>1 DEF Members
    <3>. QED  BY <3>1, <3>2
  <2>. QED  BY <1>5, <2>1, <2>2
<1>9. \A k : c = Notifying(k) => k \in cards'
  <2>1. \A k : /\ c = Notifying(k) => c.type = "notify" /\ c.key = k
               /\ Closing(k).type = "close"
    BY DEF Notifying, Closing
  <2>. QED  BY <1>5, <2>1
<1>10. \A k : Pending(k) => Pending(k)'
  BY <1>7, <1>8, <1>9 DEF Pending, Showing
<1>11. \A k : Showing(k)' => Showing(k)
  BY <1>5, <1>7 DEF Showing
<1>12. \A k : Showing(k)' /\ Withdrawn(k) => Withdrawn(k)'
  <2>1. ASSUME NEW k, Showing(k)', Withdrawn(k) PROVE Withdrawn(k)'
    <3>1. Withdrawn(k)' \/ (c = Closing(k) /\ ~Announced(k)')
      BY <1>1, <1>2, <2>1, WithdrawnRead DEF c
    <3>2. c = Closing(k) => k \notin cards'
      <4>1. /\ \A j : Closing(k) # Notifying(j)
            /\ Closing(k).key = k /\ Closing(k).type = "close"
        BY NotMixed DEF Closing
      <4>. QED  BY <1>5, <4>1
    <3>. QED  BY <2>1, <3>1, <3>2 DEF Showing
  <2>. QED  BY <2>1
<1>13. Leak'
  BY <1>1, <1>3, <1>10, SendsSame DEF CardInv, Leak, Safe, Underway
<1>14. Shown'
  BY <1>1, <1>3, <1>11, <1>12 DEF CardInv, Shown
<1>. QED  BY <1>13, <1>14

LEMMA CloseCards ==
    ASSUME CardInv, NEW k \in Key, CardCloses(k)
    PROVE  Leak' /\ Shown'
<1>1. /\ cards' = cards \ {k} /\ eventPipe' = Append(eventPipe, k)
      /\ UNCHANGED <<live, op, sends, child, commands, stale, orphaned>>
  BY DEF CardCloses, manager, ghosts
<1>2. Tracked' = Tracked
  BY <1>1 DEF Tracked
<1>3. Members(eventPipe)' = Members(eventPipe) \cup {k}
  <2>1. Members(Append(eventPipe, k)) = Members(eventPipe) \cup {k}
    BY MembersAppended DEF CardInv, NotifyInv, Types
  <2>. QED  BY <1>1, <2>1 DEF Members
<1>4. \A j : /\ Announced(j)' <=> Announced(j)
             /\ Withdrawn(j)' <=> Withdrawn(j)
  BY <1>1 DEF Announced, Withdrawn, Members, Notifying, Closing
<1>5. \A j : /\ Pending(j) => Pending(j)'
             /\ Showing(j)' => Showing(j)
  BY <1>1, <1>3, <1>4 DEF Pending, Showing
<1>6. Leak'
  BY <1>1, <1>2, <1>5, SendsSame DEF CardInv, Leak, Safe, Underway
<1>7. Shown'
  BY <1>1, <1>2, <1>4, <1>5 DEF CardInv, Shown
<1>. QED  BY <1>6, <1>7

LEMMA ExitCards ==
    ASSUME CardInv, DaemonExits
    PROVE  Leak' /\ Shown'
<1>1. /\ child = "running" /\ child' = "exited" /\ commands' = <<>> /\ cards' = {}
      /\ UNCHANGED <<live, op, sends, stale, orphaned>>
  BY DEF DaemonExits, manager, ghosts
<1>2. Tracked' = Tracked
  BY <1>1 DEF Tracked
<1>3. \A k : ~Showing(k)'
  BY <1>1 DEF Showing, Announced, Members
<1>4. Leak'
  BY <1>1, <1>2, SendsSame DEF CardInv, Leak, Safe
<1>5. Shown'
  BY <1>1, <1>2, <1>3 DEF CardInv, Shown
<1>. QED  BY <1>4, <1>5

LEMMA PumpCards ==
    ASSUME CardInv, PumpEvent
    PROVE  Leak' /\ Shown'
<1>. DEFINE k == Head(eventPipe)
<1>1. k \in Key /\ Tracked' = Tracked \ {k}
  BY PumpEventStep DEF CardInv
<1>2. /\ eventPipe # <<>> /\ eventPipe' = Tail(eventPipe) /\ stale' = stale \ {k}
      /\ orphaned' = IF Newer(k) THEN orphaned \cup {k} ELSE orphaned
      /\ UNCHANGED <<op, sends, child, commands, cards>>
  BY DEF PumpEvent, manager, daemon
<1>3. Members(eventPipe) = Members(eventPipe)' \cup {k}
  <2>1. Members(eventPipe) = Members(Tail(eventPipe)) \cup {k}
    BY <1>2, MembersTails DEF CardInv, NotifyInv, Types
  <2>. QED  BY <1>2, <2>1 DEF Members
<1>. HIDE DEF k
<1>4. \A j : /\ Announced(j)' <=> Announced(j)
             /\ Withdrawn(j)' <=> Withdrawn(j)
  BY <1>2 DEF Announced, Withdrawn, Members, Notifying, Closing
<1>5. \A j : Showing(j)' <=> Showing(j)
  BY <1>2, <1>4 DEF Showing
<1>6. \A j : (Pending(j) /\ j # k) => Pending(j)'
  BY <1>3, <1>5 DEF Pending
<1>7. Leak'
  BY <1>1, <1>2, <1>6, SendsSame DEF CardInv, Leak, Safe, Underway
<1>8. (Showing(k) \/ (op.at \in {"evict", "deliver"} /\ op.key = k)) => k \in orphaned'
  <2>1. Announced(k) => \E i \in DOMAIN commands : commands[i].type = "notify" /\ commands[i].key = k
    <3>1. Notifying(k).type = "notify" /\ Notifying(k).key = k
      BY DEF Notifying
    <3>. QED  BY <3>1, Zenon DEF Announced, Members
  <2>2. (Showing(k) \/ (op.at \in {"evict", "deliver"} /\ op.key = k)) => Newer(k)
    BY <2>1 DEF Newer, Showing
  <2>. QED  BY <1>2, <2>2
<1>9. Shown'
  BY <1>1, <1>2, <1>4, <1>5, <1>8 DEF CardInv, Shown
<1>. QED  BY <1>7, <1>9

LEMMA PumpEndCards ==
    ASSUME CardInv, PumpEnds
    PROVE  Leak' /\ Shown'
<1>1. UNCHANGED <<live, op, sends, child, commands, cards, eventPipe, stale, orphaned>>
  BY DEF PumpEnds, manager, daemon, ghosts
<1>2. Tracked' = Tracked
  BY <1>1 DEF Tracked
<1>3. Leak' /\ Shown'
  BY <1>1, <1>2, PipesSame, SendsSame DEF CardInv, Leak, Shown, Safe, Underway
<1>. QED  BY <1>3

LEMMA CardStep ==
    ASSUME CardInv, [NotifyNext]_notifyVars
    PROVE  CardInv'
<1>1. NotifyInv'
  BY NotifyStep DEF CardInv
<1>2. Leak' /\ Shown'
  <2>1. CASE UNCHANGED notifyVars
    <3>1. UNCHANGED <<live, op, sends, child, commands, cards, eventPipe, stale, orphaned>>
      BY <2>1 DEF notifyVars, manager, daemon, ghosts
    <3>2. Tracked' = Tracked
      BY <3>1 DEF Tracked
    <3>. QED
      BY <3>1, <3>2, PipesSame, SendsSame DEF CardInv, Leak, Shown, Safe, Underway
  <2>2. CASE Spawn
    <3>1. ~SendAt("reap")' /\ ~SendAt("drop")'
      <4>1. child' # "exited"
        BY <2>2 DEF CardInv, NotifyInv, Pipes, Spawn
      <4>. QED  BY <1>1, <4>1 DEF NotifyInv, Pipes
    <3>. QED  BY <2>2, <3>1, SpawnCards
  <2>3. CASE NotifyNext /\ ~Spawn
    BY <2>3, EnsureCards, DropCards, WriteCards, OperationCards, TrackCards, EvictedCards,
       DeliveredCards, RemoveCards, ReadCards, CloseCards, ExitCards, PumpCards, PumpEndCards
       DEF NotifyNext, Manager, SendStep, OpStep, Daemon, Pump
  <2>. QED  BY <2>1, <2>2, <2>3
<1>. QED  BY <1>1, <1>2 DEF CardInv

-----------------------------------------------------------------------------
(* The style that a daemon with the style t will have when it has read the *)
(* pipe p: that of the last appearance in it, or t.                        *)
RestylesOf(p) == {i \in DOMAIN p : p[i].type = "appearance"}

IsFinal(v, p, t) ==
    \/ RestylesOf(p) = {} /\ v = t
    \/ \E i \in RestylesOf(p) : (\A j \in RestylesOf(p) : j <= i) /\ v = p[i].style

Final(p, t) ==
    IF RestylesOf(p) = {} THEN t
    ELSE p[CHOOSE i \in RestylesOf(p) : \A j \in RestylesOf(p) : j <= i].style

LEMMA FinalDefined ==
    ASSUME NEW p \in Seq(Command), NEW t
    PROVE  IsFinal(Final(p, t), p, t) /\ \A v : IsFinal(v, p, t) => v = Final(p, t)
<1>. DEFINE R == RestylesOf(p)
            greatest(i) == i \in R /\ \A j \in R : j <= i
<1>1. R \subseteq DOMAIN p /\ DOMAIN p = 1..Len(p) /\ Len(p) \in Nat
  BY DEF RestylesOf
<1>2. \A i, j : greatest(i) /\ greatest(j) => i = j
  BY <1>1
<1>3. CASE R = {}
  BY <1>3 DEF IsFinal, Final
<1>4. CASE R # {}
  <2>1. R \in SUBSET (0..Len(p))
    BY <1>1
  <2>2. \E i \in R : \A j \in R : j <= i
    <3>. HIDE DEF R
    <3>. QED  BY <1>1, <1>4, <2>1, GreatestNumber
  <2>. DEFINE g == CHOOSE i \in R : \A j \in R : j <= i
  <2>3. g \in R /\ \A j \in R : j <= g
    BY <2>2, Zenon
  <2>4. Final(p, t) = p[g].style
    BY <1>4 DEF Final
  <2>. HIDE DEF g
  <2>. QED  BY <1>2, <1>4, <2>3, <2>4 DEF IsFinal
<1>. QED  BY <1>3, <1>4

LEMMA FinalAppended ==
    ASSUME NEW p \in Seq(Command), NEW c \in Command, NEW t
    PROVE  Final(Append(p, c), t) = IF c.type = "appearance" THEN c.style ELSE Final(p, t)
<1>. DEFINE n == Len(p)
            q == Append(p, c)
<1>1. /\ q \in Seq(Command) /\ Len(q) = n + 1 /\ q[n + 1] = c
      /\ \A i \in 1..n : q[i] = p[i]
  BY Appended
<1>2. n \in Nat /\ DOMAIN p = 1..n
  OBVIOUS
<1>. HIDE DEF q
<1>3. DOMAIN q = 1..(n + 1)
  BY <1>1
<1>. HIDE DEF n
<1>4. /\ RestylesOf(p) \subseteq 1..n
      /\ RestylesOf(q) = IF c.type = "appearance" THEN RestylesOf(p) \cup {n + 1} ELSE RestylesOf(p)
  <2>1. \A i \in 1..(n + 1) : i \in 1..n \/ i = n + 1
    BY <1>2
  <2>2. \A i \in 1..n : i \in 1..(n + 1) /\ i # n + 1
    BY <1>2
  <2>3. n + 1 \in 1..(n + 1)
    BY <1>2
  <2>4. RestylesOf(p) = {i \in 1..n : p[i].type = "appearance"}
    BY <1>2 DEF RestylesOf
  <2>5. RestylesOf(q) = {i \in 1..(n + 1) : q[i].type = "appearance"}
    BY <1>3 DEF RestylesOf
  <2>6. \A i \in 1..(n + 1) : q[i].type = "appearance" <=>
           (i \in RestylesOf(p) \/ (i = n + 1 /\ c.type = "appearance"))
    BY <1>1, <2>1, <2>2, <2>4
  <2>7. \A i : i \in RestylesOf(q) <=> (i \in RestylesOf(p) \/ (i = n + 1 /\ c.type = "appearance"))
    BY <2>1, <2>2, <2>3, <2>4, <2>5, <2>6
  <2>. QED  BY <2>4, <2>7
<1>5. CASE c.type = "appearance"
  <2>1. \A j \in RestylesOf(q) : j <= n + 1
    BY <1>2, <1>4, <1>5
  <2>2. n + 1 \in RestylesOf(q) /\ c.style = q[n + 1].style
    BY <1>1, <1>4, <1>5
  <2>3. IsFinal(c.style, q, t)
    BY <2>1, <2>2, Zenon DEF IsFinal
  <2>4. c.style = Final(q, t)
    BY <1>1, <2>3, FinalDefined
  <2>. QED  BY <1>5, <2>4 DEF q
<1>6. CASE c.type # "appearance"
  <2>1. RestylesOf(q) = RestylesOf(p) /\ \A i \in RestylesOf(p) : q[i] = p[i]
    BY <1>1, <1>4, <1>6
  <2>2. IsFinal(Final(p, t), p, t)
    BY FinalDefined
  <2>3. IsFinal(Final(p, t), q, t)
    BY <2>1, <2>2 DEF IsFinal
  <2>4. Final(p, t) = Final(q, t)
    BY <1>1, <2>3, FinalDefined
  <2>. QED  BY <1>6, <2>4 DEF q
<1>. QED  BY <1>5, <1>6

LEMMA FinalRead ==
    ASSUME NEW p \in Seq(Command), p # <<>>, NEW t
    PROVE  Final(Tail(p), IF Head(p).type = "appearance" THEN Head(p).style ELSE t) = Final(p, t)
<1>. DEFINE c == Head(p)
            q == Tail(p)
            u == IF c.type = "appearance" THEN c.style ELSE t
<1>1. /\ q \in Seq(Command) /\ c = p[1] /\ 1 \in DOMAIN p
      /\ DOMAIN p = 1..Len(p) /\ Len(p) \in Nat
      /\ \A i \in DOMAIN q : i + 1 \in DOMAIN p /\ i + 1 # 1 /\ q[i] = p[i + 1]
      /\ \A i \in DOMAIN p : i # 1 => i - 1 \in DOMAIN q /\ q[i - 1] = p[i]
  BY Tails
<1>. HIDE DEF c, q
<1>2. /\ RestylesOf(p) \subseteq DOMAIN p /\ RestylesOf(q) \subseteq DOMAIN q
      /\ 1 \in RestylesOf(p) <=> c.type = "appearance"
      /\ \A i \in RestylesOf(p) : i # 1 => i - 1 \in RestylesOf(q) /\ q[i - 1] = p[i]
      /\ \A i \in RestylesOf(q) : i + 1 \in RestylesOf(p) /\ i + 1 # 1
  BY <1>1 DEF RestylesOf
<1>3. u = IF c.type = "appearance" THEN c.style ELSE t
  OBVIOUS
<1>. HIDE DEF u
<1>4. RestylesOf(q) \subseteq Nat \ {0}
  <2>1. DOMAIN q = 1..Len(q)
    BY <1>1
  <2>. QED  BY <1>2, <2>1
<1>5. ASSUME NEW v, IsFinal(v, p, t) PROVE IsFinal(v, q, u)
  <2>1. CASE RestylesOf(p) = {} /\ v = t
    <3>1. RestylesOf(q) = {} /\ u = t
      BY <1>2, <1>3, <2>1
    <3>. QED  BY <2>1, <3>1 DEF IsFinal
  <2>2. ASSUME NEW i \in RestylesOf(p), \A j \in RestylesOf(p) : j <= i, v = p[i].style
        PROVE  IsFinal(v, q, u)
    <3>1. CASE i = 1
      <4>1. RestylesOf(q) = {}
        <5>1. \A j \in RestylesOf(q) : j \in Nat \ {0} /\ j + 1 <= 1
          BY <1>2, <1>4, <2>2, <3>1
        <5>. QED  BY <5>1
      <4>2. u = v
        BY <1>1, <1>2, <1>3, <2>2, <3>1
      <4>. QED  BY <4>1, <4>2 DEF IsFinal
    <3>2. CASE i # 1
      <4>1. i - 1 \in RestylesOf(q) /\ q[i - 1] = p[i]
        BY <1>2, <2>2, <3>2
      <4>2. \A j \in RestylesOf(q) : j <= i - 1
        <5>1. \A j \in RestylesOf(q) : j \in Nat /\ j + 1 <= i
          BY <1>2, <1>4, <2>2
        <5>2. i \in Nat
          BY <1>1, <1>2
        <5>. QED  BY <5>1, <5>2
      <4>3. v = q[i - 1].style
        BY <2>2, <4>1
      <4>. QED  BY <4>1, <4>2, <4>3, Zenon DEF IsFinal
    <3>. QED  BY <3>1, <3>2
  <2>. QED  BY <1>5, <2>1, <2>2 DEF IsFinal
<1>6. IsFinal(Final(p, t), q, u)
  BY <1>5, FinalDefined
<1>7. Final(p, t) = Final(q, u)
  BY <1>1, <1>6, FinalDefined
<1>. QED  BY <1>7 DEF u, q, c

LEMMA FinalStyleIs ==
    /\ FinalStyle = Final(commands, style)
    /\ FinalStyle' = Final(commands', style')
  BY DEF FinalStyle, Restyles, Final, RestylesOf

-----------------------------------------------------------------------------
(* A running daemon has, or will have, the remembered appearance, unless a *)
(* send is about to write it.                                              *)
Styled ==
    child = "running" /\ appearance # NoStyle =>
        FinalStyle = appearance \/ (sends # <<>> /\ Top.frame = Restyling)

(* What is remembered is the look of the store, from the first push on and *)
(* except before a push.                                                   *)
Pushes ==
    appearance # NoStyle => /\ watcher # "prime"
                            /\ watcher # "push" => appearance = store.look

LEMMA StyledSame ==
    ASSUME Styled, UNCHANGED <<appearance, commands, style>>, child' = "running" => child = "running",
           sends # <<>> => sends' # <<>> /\ Top'.frame = Top.frame
    PROVE  Styled'
<1>1. FinalStyle' = FinalStyle
  BY FinalStyleIs
<1>2. Restyling' = Restyling
  BY DEF Restyling
<1>. QED  BY <1>1, <1>2 DEF Styled

LEMMA EnsureStyles ==
    ASSUME NotifyInv, Styled, Ensure
    PROVE  Styled'
<1>. DEFINE t == [Top EXCEPT !.at = CASE child = "running" -> "write"
                                      [] child = "exited" -> "reap"
                                      [] child = "none" -> "spawn"]
<1>1. sends # <<>> /\ SetTop(t) /\ UNCHANGED <<op, appearance, child, commands, style>>
  BY DEF Ensure, SendAt, manager, daemon
<1>2. Top \in Send /\ child \in {"none", "running", "exited"}
  BY <1>1, TopTyped DEF NotifyInv, Types
<1>3. t \in Send /\ t.frame = Top.frame /\ t.at # "prime"
  BY <1>2 DEF Send
<1>. HIDE DEF t
<1>4. sends' # <<>> /\ Top' = t
  BY <1>1, <1>3, TopMoves DEF NotifyInv
<1>. QED  BY <1>1, <1>3, <1>4, StyledSame

LEMMA SpawnStyles ==
    ASSUME NotifyInv, Styled, Spawn
    PROVE  Styled'
<1>1. child = "none" /\ sends # <<>> /\ UNCHANGED appearance
  BY DEF Spawn, NotifyInv, Pipes, SendAt
<1>2. CASE child' # "running"
  BY <1>2 DEF Styled
<1>3. CASE child' = "running" /\ appearance # NoStyle
  <2>1. /\ sends' = Append([sends EXCEPT ![Len(sends)] = [Top EXCEPT !.at = "prime"]],
                           Begin(Restyling))
        /\ UNCHANGED op
    BY <1>1, <1>3 DEF Spawn, Restyling
  <2>2. sends' # <<>> /\ Top'.frame = Restyling
    BY <1>1, <1>3, <2>1, Nests DEF NotifyInv
  <2>3. Restyling' = Restyling
    BY <1>1 DEF Restyling
  <2>. QED  BY <2>2, <2>3 DEF Styled
<1>4. CASE appearance = NoStyle
  BY <1>1, <1>4 DEF Styled
<1>. QED  BY <1>2, <1>3, <1>4

LEMMA WriteStyles ==
    ASSUME NotifyInv, Styled, Write
    PROVE  Styled'
<1>1. sends # <<>> /\ UNCHANGED <<appearance, child, style>>
  BY DEF Write, SendAt
<1>2. CASE child # "running"
  BY <1>1, <1>2 DEF Styled
<1>3. CASE child = "running" /\ appearance # NoStyle
  <2>1. commands' = Append(commands, Top.frame) /\ Done(TRUE)
    BY <1>3 DEF Write
  <2>2. Top.frame \in Command /\ commands \in Seq(Command) /\ appearance \in Styles
    BY <1>1, <1>3, TopTyped DEF NotifyInv, Types, Send
  <2>3. FinalStyle' = IF Top.frame.type = "appearance" THEN Top.frame.style ELSE FinalStyle
    BY <1>1, <2>1, <2>2, FinalAppended, FinalStyleIs
  <2>4. Top.frame = Restyling \/ Top.frame.type # "appearance"
    <3>1. /\ \/ op.at = "evict" /\ Top.frame = Closing(op.victim)
             \/ op.at = "deliver" /\ Top.frame = Notifying(op.key)
             \/ Top.frame = Restyling
      <4>1. op.at \in {"evict", "deliver", "push"}
        BY <1>1 DEF NotifyInv, Stack
      <4>2. \/ /\ op.at = "evict" => Top.frame = Closing(op.victim)
               /\ op.at = "deliver" => Top.frame = Notifying(op.key)
               /\ op.at = "push" => Top.frame = Restyling
            \/ Top.frame = Restyling
        BY <1>1, <2>1, Returns DEF NotifyInv
      <4>. QED  BY <4>1, <4>2
    <3>. QED  BY <3>1 DEF Closing, Notifying
  <2>5. Restyling.type = "appearance" /\ Restyling.style = appearance
    BY DEF Restyling
  <2>6. FinalStyle' = appearance
    BY <1>3, <2>3, <2>4, <2>5 DEF Styled
  <2>. QED  BY <1>1, <2>6 DEF Styled
<1>4. CASE appearance = NoStyle
  BY <1>1, <1>4 DEF Styled
<1>. QED  BY <1>2, <1>3, <1>4

LEMMA RemoveStyles ==
    ASSUME NotifyInv, Styled, NEW k \in Key, RemoveNotification(k)
    PROVE  Styled'
<1>1. /\ commands' = IF child = "running" THEN Append(commands, Closing(k)) ELSE commands
      /\ UNCHANGED <<appearance, sends, child, style>>
  BY DEF RemoveNotification, manager, Closing
<1>2. commands \in Seq(Command)
  BY DEF NotifyInv, Types
<1>3. child = "running" => FinalStyle' = FinalStyle
  BY <1>1, <1>2, CommandValues, FinalAppended, FinalStyleIs
<1>4. Top' = Top /\ Restyling' = Restyling
  BY <1>1 DEF Top, Restyling
<1>. QED  BY <1>1, <1>3, <1>4 DEF Styled

LEMMA PushStyles ==
    ASSUME NotifyInv, Styled, NEW new \in Styles, PushAppearance(new)
    PROVE  Styled' /\ appearance' = new
<1>1. UNCHANGED <<child, commands, style>>
  BY DEF PushAppearance, daemon
<1>2. appearance' = new
  BY DEF PushAppearance, manager
<1>3. CASE appearance = new
  <2>1. UNCHANGED <<appearance, sends>>
    BY <1>3 DEF PushAppearance, manager
  <2>2. Top' = Top
    BY <2>1 DEF Top
  <2>. QED  BY <1>1, <1>2, <2>1, <2>2, StyledSame
<1>4. CASE appearance # new /\ child = "none"
  BY <1>1, <1>2, <1>4 DEF Styled
<1>5. CASE appearance # new /\ child # "none"
  <2>1. sends' = <<Begin([type |-> "appearance", style |-> new])>>
    BY <1>5 DEF PushAppearance
  <2>2. [type |-> "appearance", style |-> new] \in Command
    BY DEF Command
  <2>3. sends' # <<>> /\ Top' = [frame |-> [type |-> "appearance", style |-> new], retry |-> FALSE, at |-> "ensure"]
    BY <2>1, <2>2, Starts
  <2>4. Top'.frame = Restyling'
    BY <1>2, <2>3 DEF Restyling
  <2>. QED  BY <1>2, <2>3, <2>4 DEF Styled
<1>. QED  BY <1>3, <1>4, <1>5

LEMMA ReadStyles ==
    ASSUME NotifyInv, Styled, DaemonReads
    PROVE  Styled'
<1>. DEFINE c == Head(commands)
<1>1. commands # <<>> /\ commands' = Tail(commands) /\ UNCHANGED <<appearance, sends, child>>
  BY DEF DaemonReads, manager
<1>2. commands \in Seq(Command)
  BY DEF NotifyInv, Types
<1>3. style' = IF c.type = "appearance" THEN c.style ELSE style
  BY DEF DaemonReads
<1>4. FinalStyle' = FinalStyle
  BY <1>1, <1>2, <1>3, FinalRead, FinalStyleIs
<1>5. Top' = Top /\ Restyling' = Restyling
  BY <1>1 DEF Top, Restyling
<1>. QED  BY <1>1, <1>4, <1>5 DEF Styled

LEMMA StyleStep ==
    ASSUME NotifyInv, Styled, [Manager \/ Daemon \/ Pump]_notifyVars
    PROVE  Styled' /\ UNCHANGED appearance
<1>0. UNCHANGED appearance
  BY DEF Manager, SendStep, OpStep, Daemon, Pump, Ensure, DropHandle, Spawn, Write, Limit, TrackNew,
         Evicted, Delivered, Pushed, AddNotification, RemoveNotification, DaemonReads, DaemonExits,
         CardCloses, PumpEvent, PumpEnds, notifyVars, manager
<1>1. CASE DropHandle \/ DaemonExits
  <2>1. child' = "none" \/ child' = "exited"
    BY <1>1, Zenon DEF DropHandle, DaemonExits
  <2>2. child' # "running"
    BY <2>1
  <2>3. Styled'
    BY <2>2, Zenon DEF Styled
  <2>. QED  BY <1>0, <2>3
<1>2. CASE \/ OpStep \/ Pump \/ UNCHANGED notifyVars
           \/ \E k \in Key : AddNotification(k)
  <2>1. UNCHANGED <<child, commands, style>>
    BY <1>2 DEF OpStep, Limit, TrackNew, Evicted, Delivered, Pushed, Pump, PumpEvent, PumpEnds,
                AddNotification, daemon, notifyVars
  <2>2. sends = <<>> \/ UNCHANGED sends
    BY <1>2 DEF OpStep, Limit, TrackNew, Evicted, Delivered, Pushed, OpAt, Pump, PumpEvent, PumpEnds,
                AddNotification, notifyVars
  <2>3. UNCHANGED sends => Top' = Top
    BY DEF Top
  <2>. QED  BY <1>0, <2>1, <2>2, <2>3, StyledSame
<1>3. CASE \E k \in Key : CardCloses(k)
  <2>1. UNCHANGED <<child, commands, style, sends>>
    BY <1>3 DEF CardCloses
  <2>2. Top' = Top
    BY <2>1 DEF Top
  <2>. QED  BY <1>0, <2>1, <2>2, StyledSame
<1>. QED
  BY <1>0, <1>1, <1>2, <1>3, EnsureStyles, SpawnStyles, WriteStyles, RemoveStyles, ReadStyles
     DEF Manager, SendStep, Daemon

-----------------------------------------------------------------------------
PreferenceInv == Inv /\ CardInv /\ Styled /\ Pushes

LEMMA PreferenceInit == Init => PreferenceInv
<1>. SUFFICES ASSUME Init PROVE PreferenceInv
  OBVIOUS
<1>1. Inv
  BY InitInv
<1>2. /\ live = Empty /\ appearance = NoStyle /\ child = "none" /\ pump = FALSE
      /\ op = Idle /\ op.at = "idle" /\ sends = <<>> /\ commands = <<>> /\ cards = {}
      /\ style = NoStyle /\ eventPipe = <<>>
  BY Idles DEF Init, NotifyInit, Empty
<1>3. Types
  <2>1. <<>> \in Seq(Send) /\ <<>> \in Seq(Command) /\ <<>> \in Seq(Key)
    OBVIOUS
  <2>. QED  BY <1>2, <2>1 DEF Types
<1>4. Table /\ Tracked = {}
  <2>1. live \in [Apps -> Seq(Ids)] /\ \A a \in Apps : live[a] = <<>>
    BY <1>2 DEF Empty
  <2>2. Tracked = {}
    <3>1. \A k \in Key : k.app \in Apps
      BY DEF Key
    <3>. QED  BY <2>1, <3>1 DEF Tracked, Members
  <2>3. IsFiniteSet({}) /\ Cardinality({}) = 0
    BY FS_EmptySet
  <2>4. \A a \in Apps : Len(live[a]) <= MaxPerApp /\ Distinct(live[a])
    BY <2>1 DEF Distinct
  <2>5. 0 <= MaxTotal
    OBVIOUS
  <2>. QED  BY <1>2, <2>1, <2>2, <2>3, <2>4, <2>5 DEF Table
<1>5. Stack
  BY <1>2 DEF Stack
<1>6. ~SendAt("spawn") /\ ~SendAt("reap") /\ ~SendAt("drop")
  BY <1>2 DEF SendAt
<1>7. Pipes
  BY <1>2, <1>6 DEF Pipes
<1>8. Leak
  BY <1>4, <1>6 DEF Leak
<1>9. Shown
  <2>1. \A k : ~Showing(k)
    BY <1>2 DEF Showing, Announced, Members
  <2>. QED  BY <1>2, <2>1 DEF Shown
<1>. QED  BY <1>1, <1>2, <1>3, <1>4, <1>5, <1>7, <1>8, <1>9
             DEF PreferenceInv, CardInv, NotifyInv, Styled, Pushes

LEMMA PreferenceNext == PreferenceInv /\ [Next]_vars => PreferenceInv'
<1>. SUFFICES ASSUME PreferenceInv, [Next]_vars PROVE PreferenceInv'
  OBVIOUS
<1>1. Inv'
  BY NextInv DEF PreferenceInv
<1>2. CASE StartPush
  <2>1. /\ store.look \in Styles /\ PushAppearance(store.look)
        /\ watcher = "push" /\ watcher' = "pushing" /\ store' = store
    BY <1>2, LooksAreStyles DEF StartPush, PreferenceInv, Inv, WatcherTypeOK, Preferences
  <2>2. [NotifyNext]_notifyVars
    BY <2>1 DEF NotifyNext
  <2>3. CardInv'
    BY <2>2, CardStep DEF PreferenceInv
  <2>4. Styled' /\ appearance' = store.look
    BY <2>1, PushStyles DEF PreferenceInv, CardInv
  <2>5. Pushes'
    BY <2>1, <2>4 DEF Pushes
  <2>. QED  BY <1>1, <2>3, <2>4, <2>5 DEF PreferenceInv
<1>3. CASE ~StartPush
  <2>1. [Manager \/ Daemon \/ Pump]_notifyVars
    BY <1>3 DEF Next, Watcher, Notifier, FinishPush, vars
  <2>2. [NotifyNext]_notifyVars
    BY <2>1 DEF NotifyNext
  <2>3. CardInv' /\ Styled' /\ UNCHANGED appearance
    BY <2>1, <2>2, CardStep, StyleStep DEF PreferenceInv, CardInv
  <2>4. Pushes'
    <3>1. CASE Watch
      <4>1. /\ watcher' # "prime" \/ watcher = "prime"
            /\ watcher' # "push" => (store' = store \/ watcher = "prime" \/
                                     (watcher = "replace" /\ store'.look = store.look))
            /\ watcher = "push" => FALSE
        BY <3>1 DEF Watch, Prime, Subscribe, Query, Replace, Emit, Listen, Reconnect
      <4>. QED  BY <2>3, <4>1 DEF PreferenceInv, Pushes
    <3>2. CASE ~Watch
      <4>1. store' = store /\ (watcher' = watcher \/ (watcher = "pushing" /\ watcher' = "emit"))
        BY <1>3, <3>2 DEF Next, Watcher, Notifier, FinishPush, vars, watcherVars, thread, client,
                          Compositor, Client, Lose, Recover, Change, ReadAll, ReadAllReply
      <4>. QED  BY <2>3, <4>1 DEF PreferenceInv, Pushes
    <3>. QED  BY <3>1, <3>2
  <2>. QED  BY <1>1, <2>3, <2>4 DEF PreferenceInv
<1>. QED  BY <1>2, <1>3

LEMMA PreferenceCorrect == Spec => []PreferenceInv
  BY PreferenceInit, PreferenceNext, PTL DEF Spec

(* Every variable has its type; an application has at most its number of   *)
(* identifiers in the table, each once, and all applications together at   *)
(* most theirs (notification.rs:262, track and the check before it).       *)
THEOREM TypeCorrect == Spec => []TypeOK
<1>1. PreferenceInv => TypeOK
  BY DEF PreferenceInv, Inv, CardInv, NotifyInv, Types, Table, TypeOK, NotifyTypeOK
<1>. QED  BY <1>1, PreferenceCorrect, PTL

(* The table does not fill up with what is gone (notification.rs:461).     *)
THEOREM NothingLeaksCorrect == Spec => []NothingLeaks
<1>1. PreferenceInv => NothingLeaks
  <2>. SUFFICES ASSUME PreferenceInv, op = Idle, NEW k \in Tracked \ stale
                PROVE  \/ child = "exited"
                       \/ Newer(k)
                       \/ \E i \in DOMAIN eventPipe : eventPipe[i] = k
    BY DEF NothingLeaks
  <2>1. op.at = "idle"
    BY Idles
  <2>2. Safe(k)
    BY <2>1 DEF PreferenceInv, CardInv, Leak, Underway
  <2>3. Announced(k) => \E i \in DOMAIN commands : commands[i].type = "notify" /\ commands[i].key = k
    <3>1. Notifying(k).type = "notify" /\ Notifying(k).key = k
      BY DEF Notifying
    <3>. QED  BY <3>1, Zenon DEF Announced, Members
  <2>4. k \in Members(eventPipe) => \E i \in DOMAIN eventPipe : eventPipe[i] = k
    BY DEF Members
  <2>. QED  BY <2>2, <2>3, <2>4, Zenon DEF Safe, Pending, Showing, Newer
<1>. QED  BY <1>1, PreferenceCorrect, PTL

(* A card on the screen can be withdrawn (notification.rs, close): its     *)
(* identifier is in the table, or its end is already in the pipe.          *)
THEOREM ShownIsTrackedCorrect == Spec => []ShownIsTracked
<1>1. PreferenceInv => ShownIsTracked
  <2>. SUFFICES ASSUME PreferenceInv, op = Idle, NEW k \in cards \ orphaned
                PROVE  \/ k \in Tracked
                       \/ \E i \in DOMAIN commands : commands[i].type = "close" /\ commands[i].key = k
    BY DEF ShownIsTracked
  <2>1. op.at # "evict"
    BY Idles
  <2>2. k \in Key /\ Showing(k)
    BY DEF PreferenceInv, CardInv, NotifyInv, Types, Showing
  <2>3. k \in Tracked \/ Withdrawn(k)
    BY <2>1, <2>2 DEF PreferenceInv, CardInv, Shown
  <2>4. Closing(k).type = "close" /\ Closing(k).key = k
    BY DEF Closing
  <2>. QED  BY <2>3, <2>4, Zenon DEF Withdrawn
<1>. QED  BY <1>1, PreferenceCorrect, PTL

(* A change of look reaches the cards, whatever exits and spawns lie       *)
(* between (notification.rs, push_appearance and ensure_daemon).           *)
THEOREM StyleFollowsCorrect == Spec => []StyleFollows
<1>1. PreferenceInv => StyleFollows
  <2>. SUFFICES ASSUME PreferenceInv, op = Idle, child = "running", watcher # "push",
                       appearance # NoStyle
                PROVE  FinalStyle = store.look
    BY DEF StyleFollows
  <2>1. sends = <<>>
    BY Quiet, Idles DEF PreferenceInv, CardInv
  <2>. QED  BY <2>1 DEF PreferenceInv, Styled, Pushes
<1>. QED  BY <1>1, PreferenceCorrect, PTL
=============================================================================
