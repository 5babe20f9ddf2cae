---------------------------- MODULE RestoreStore ----------------------------
(***************************************************************************)
(* ScreenCast restore tokens: the store (persist.rs) behind its mutex, the *)
(* SelectSources tasks that validate, prune and issue, the atomic write of *)
(* the token file (files.rs), the watcher that drops the tokens of a bus   *)
(* name that vanished (lib.rs), and restarts of the daemon or the machine. *)
(*                                                                         *)
(* A token is named by the call that issued it.  What a user agrees to is  *)
(* an application and a source; the cursor mode goes with the token.       *)
(***************************************************************************)
EXTENDS Naturals, Sequences, FiniteSets, Lists

CONSTANTS
    Calls,          \* SelectSources calls; each is made at most once
    Lasting,        \* those with persist_mode 1, the others have mode 2
    Apps,           \* application identities
    Owners,         \* D-Bus unique names of callers
    Connectors,     \* outputs of the compositor
    Desktop,        \* the whole desktop as a source
    MaxDisk,        \* MAX_DISK_TOKENS
    MaxMemory,      \* MAX_MEMORY_TOKENS_PER_OWNER
    MaxRestarts,    \* bound: restarts of the daemon
    None

Sources == Connectors \cup {Desktop}
Selection == [app : Apps, source : Sources]

(* What the task inside write_atomic is at. *)
Writing == [at : {"rename", "sync"}, call : Calls]

ASSUME StoreAssumption ==
    /\ None \notin Calls \cup Apps \cup Owners \cup Sources \cup Selection \cup Writing
    /\ Desktop \notin Connectors
    /\ Lasting \subseteq Calls
    /\ MaxDisk \in Nat \ {0}
    /\ MaxMemory \in Nat \ {0}
    /\ MaxRestarts \in Nat

VARIABLES
    disk,           \* mode-1 entries, oldest first, as the daemon has them
    memory,         \* mode-2 entries of each owner, oldest first
    file,           \* the token file's entries; durable: what a power loss
    durable,        \* leaves of it.  A missing file is empty.
    writer,         \* the task inside write_atomic, which holds the mutex
    pc,             \* where each call is
    req,            \* its application, sender and restore token
    seen,           \* the outputs it enumerated
    armed,          \* the selection it is about to arm its session with,
    grant,          \* and the token that goes with it
    gone,           \* owners that left the bus
    dropped,        \* owners whose departure the watcher has handled
    restarts,
    issued,         \* history: tokens in the order they were issued
    consent,        \* history: what the user of a call agreed to remember
    acked,          \* history: tokens whose write succeeded
    evicted, pruned,\* history: tokens the daemon removed from disk; a restart
                    \* forgets those that are back, and evictions of tokens
                    \* whose write had never succeeded
    erased          \* history: tokens that a list whose write succeeded did
                    \* not have any more

stores == <<disk, memory, file, durable>>
calls == <<pc, req, seen, armed, grant>>
world == <<gone, dropped, restarts>>
ghosts == <<issued, consent, acked, evicted, pruned, erased>>
vars == <<stores, writer, calls, world, ghosts>>

Entry == [token : Calls, app : Apps, source : Sources]
Entries == Seq(Entry)

Range(s) == {s[i] : i \in DOMAIN s}
Tokens(s) == {e.token : e \in Range(s)}

Request == [app : Apps, owner : Owners, token : Calls \cup {None}]

TypeOK ==
    /\ disk \in Entries /\ Len(disk) <= MaxDisk
    /\ memory \in [Owners -> Entries]
    /\ \A o \in Owners : Len(memory[o]) <= MaxMemory
    /\ file \in Entries /\ Len(file) <= MaxDisk
    /\ durable \in Entries /\ Len(durable) <= MaxDisk
    /\ writer \in Writing \cup {None}
    /\ pc \in [Calls -> {"idle", "validating", "pruning", "asking", "issuing",
                         "arming", "done"}]
    /\ req \in [Calls -> Request \cup {None}]
    /\ seen \in [Calls -> SUBSET Connectors]
    /\ armed \in [Calls -> Selection \cup {None}]
    /\ grant \in [Calls -> Calls \cup {None}]
    /\ dropped \subseteq gone /\ gone \subseteq Owners
    /\ restarts \in 0..MaxRestarts

Init ==
    /\ disk = <<>>
    /\ memory = [o \in Owners |-> <<>>]
    /\ file = <<>>
    /\ durable = <<>>
    /\ writer = None
    /\ pc = [k \in Calls |-> "idle"]
    /\ req = [k \in Calls |-> None]
    /\ seen = [k \in Calls |-> {}]
    /\ armed = [k \in Calls |-> None]
    /\ grant = [k \in Calls |-> None]
    /\ gone = {}
    /\ dropped = {}
    /\ restarts = 0
    /\ issued = <<>>
    /\ consent = [k \in Calls |-> None]
    /\ acked = {}
    /\ evicted = {}
    /\ pruned = {}
    /\ erased = {}

-----------------------------------------------------------------------------
(* The operations of the store.                                            *)

Servable(k, source) == source = Desktop \/ source \in seen[k]

(* memory.values(), then disk: tokens are random, so at most one matches.  *)
Found(t) ==
    {e \in (UNION {Range(memory[o]) : o \in Owners}) \cup Range(disk) : e.token = t}

(* Mutant: any application may present the token. *)
ValidForAll(k) == {e \in Found(req[k].token) : Servable(k, e.source)}

(* validate: the token, for its application, with a servable source. *)
Valid(k) == {e \in Found(req[k].token) : e.app = req[k].app /\ Servable(k, e.source)}

(* Mutant: the list is cut at the bound. *)
PushTruncates(s, e, max) ==
    LET t == Append(s, e)
    IN IF Len(t) > max THEN SubSeq(t, 1, max) ELSE t

(* Mutant: the bound is checked before the entry is added. *)
PushUnbounded(s, e, max) ==
    IF Len(s) > max THEN SubSeq(Append(s, e), 2, Len(s) + 1) ELSE Append(s, e)

(* Appends, and drains the front of the list down to the bound. *)
Push(s, e, max) ==
    LET t == Append(s, e)
    IN IF Len(t) > max THEN SubSeq(t, Len(t) - max + 1, Len(t)) ELSE t

Retained(k) == Filter(disk, {e \in Range(disk) : Servable(k, e.source)})

Goto(k, to) == pc' = [pc EXCEPT ![k] = to]

(* A task ends, with what it knew. *)
Finish(K) ==
    /\ pc' = [k \in Calls |-> IF k \in K THEN "done" ELSE pc[k]]
    /\ req' = [k \in Calls |-> IF k \in K THEN None ELSE req[k]]
    /\ seen' = [k \in Calls |-> IF k \in K THEN {} ELSE seen[k]]
    /\ armed' = [k \in Calls |-> IF k \in K THEN None ELSE armed[k]]
    /\ grant' = [k \in Calls |-> IF k \in K THEN None ELSE grant[k]]

-----------------------------------------------------------------------------
(* A SelectSources task.                                                   *)

(* A task that presents a token lists the outputs: those of the moment, or *)
(* none when the enumeration fails for any reason.                         *)
Begin(k, r, list) ==
    /\ pc[k] = "idle"
    /\ r.owner \notin gone
    /\ r.token \in Range(issued) \cup {None}
    /\ r.token = None => list = {}
    /\ req' = [req EXCEPT ![k] = r]
    /\ seen' = [seen EXCEPT ![k] = list]
    /\ Goto(k, IF r.token = None THEN "asking" ELSE "validating")
    /\ UNCHANGED <<stores, writer, armed, grant, world, ghosts>>

Validate(k) ==
    /\ pc[k] = "validating"
    /\ writer = None
    /\ IF Valid(k) = {}
       THEN UNCHANGED <<armed, grant>>
       ELSE \E e \in Valid(k) :
                /\ armed' = [armed EXCEPT ![k] = [app |-> req[k].app, source |-> e.source]]
                /\ grant' = [grant EXCEPT ![k] = e.token]
    /\ Goto(k, "pruning")
    /\ UNCHANGED <<stores, writer, req, seen, world, ghosts>>

AfterPrune(k) == IF armed[k] = None THEN "asking" ELSE "arming"

(* prune takes the mutex anew; it writes only if it removed something.     *)
Prune(k) ==
    /\ pc[k] = "pruning"
    /\ writer = None
    /\ \/ /\ Retained(k) = disk
          /\ Goto(k, AfterPrune(k))
          /\ UNCHANGED <<disk, writer, pruned>>
       \/ /\ Retained(k) # disk
          /\ disk' = Retained(k)
          /\ pruned' = pruned \cup (Tokens(disk) \ Tokens(Retained(k)))
          /\ writer' = [at |-> "rename", call |-> k]
          /\ UNCHANGED pc
    /\ UNCHANGED <<memory, file, durable, req, seen, armed, grant, world, issued,
                   consent, acked, evicted, erased>>

(* The chooser, the window pick and the confirmation: no selection at all, *)
(* one that is not to be remembered or is a window, or one to be           *)
(* remembered.                                                             *)
Ask(k) ==
    /\ pc[k] = "asking"
    /\ \/ Finish({k}) /\ UNCHANGED consent
       \/ /\ Goto(k, "arming")
          /\ UNCHANGED <<req, seen, armed, grant, consent>>
       \/ \E s \in Sources :
             LET selection == [app |-> req[k].app, source |-> s]
             IN /\ armed' = [armed EXCEPT ![k] = selection]
                /\ consent' = [consent EXCEPT ![k] = selection]
                /\ Goto(k, "issuing")
                /\ UNCHANGED <<req, seen, grant>>
    /\ UNCHANGED <<stores, writer, world, issued, acked, evicted, pruned, erased>>

(* issue: mode 1 is kept in the list and written while the mutex is held;  *)
(* without a data directory there is no token.  Mode 2 is memory only.     *)
Issue(k) ==
    /\ pc[k] = "issuing"
    /\ writer = None
    /\ LET e == [token |-> k, app |-> armed[k].app, source |-> armed[k].source]
           o == req[k].owner
       IN \/ /\ k \in Lasting
             /\ Goto(k, "arming")
             /\ UNCHANGED <<disk, memory, writer, grant, issued, evicted>>
          \/ /\ k \in Lasting
             /\ disk' = Push(disk, e, MaxDisk)
             /\ evicted' = evicted \cup ((Tokens(disk) \cup {k}) \ Tokens(Push(disk, e, MaxDisk)))
             /\ writer' = [at |-> "rename", call |-> k]
             /\ grant' = [grant EXCEPT ![k] = k]
             /\ issued' = Append(issued, k)
             /\ UNCHANGED <<memory, pc>>
          \/ /\ k \notin Lasting
             /\ memory' = [memory EXCEPT ![o] = Push(memory[o], e, MaxMemory)]
             /\ grant' = [grant EXCEPT ![k] = k]
             /\ issued' = Append(issued, k)
             /\ Goto(k, "arming")
             /\ UNCHANGED <<disk, writer, evicted>>
    /\ UNCHANGED <<file, durable, req, seen, armed, world, consent, acked, pruned, erased>>

(* mark_selected: the session is armed, or it or the request is gone; the  *)
(* token stays in the store either way.                                    *)
Arm(k) ==
    /\ pc[k] = "arming"
    /\ Finish({k})
    /\ UNCHANGED <<stores, writer, world, ghosts>>

-----------------------------------------------------------------------------
(* write_atomic.  The list cannot change while its writer holds the mutex. *)

Written(k) ==
    /\ writer' = None
    /\ Goto(k, IF pc[k] = "pruning" THEN AfterPrune(k) ELSE "arming")

(* Any step may fail; the failure is logged and the task goes on. *)
WriteFails ==
    /\ writer # None
    /\ Written(writer.call)
    /\ UNCHANGED <<stores, req, seen, armed, grant, world, ghosts>>

(* A temporary file is written and synced, and takes the place of the old. *)
Rename ==
    /\ writer # None /\ writer.at = "rename"
    /\ file' = disk
    /\ writer' = [writer EXCEPT !.at = "sync"]
    /\ UNCHANGED <<disk, memory, durable, calls, world, ghosts>>

Lapsed == (Range(issued) \cap Lasting) \ Tokens(disk)

(* Mutant: the directory is not synced. *)
SyncNothing ==
    /\ writer # None /\ writer.at = "sync"
    /\ acked' = acked \cup Tokens(disk)
    /\ erased' = erased \cup Lapsed
    /\ Written(writer.call)
    /\ UNCHANGED <<stores, req, seen, armed, grant, world, issued, consent, evicted,
                   pruned>>

(* The directory is synced: the write is durable and has succeeded. *)
SyncDir ==
    /\ writer # None /\ writer.at = "sync"
    /\ durable' = file
    /\ acked' = acked \cup Tokens(disk)
    /\ erased' = erased \cup Lapsed
    /\ Written(writer.call)
    /\ UNCHANGED <<disk, memory, file, req, seen, armed, grant, world, issued, consent,
                   evicted, pruned>>

-----------------------------------------------------------------------------
(* The bus, the compositor, and restarts.                                  *)

OwnerLeaves(o) ==
    /\ o \notin gone
    /\ gone' = gone \cup {o}
    /\ UNCHANGED <<stores, writer, calls, dropped, restarts, ghosts>>

(* The watcher receives NameOwnerChanged: drop_owner. *)
DropOwner(o) ==
    /\ o \in gone \ dropped
    /\ writer = None
    /\ memory' = [memory EXCEPT ![o] = <<>>]
    /\ dropped' = dropped \cup {o}
    /\ UNCHANGED <<disk, file, durable, writer, calls, gone, restarts, ghosts>>

(* The file system makes a rename durable by itself sooner or later. *)
Flush ==
    /\ durable # file
    /\ durable' = file
    /\ UNCHANGED <<disk, memory, file, writer, calls, world, ghosts>>

(* The daemon dies, with the machine or alone, and is started again: load  *)
(* reads the file, or an empty store when it cannot.                       *)
Restart(powerLoss, readable) ==
    /\ restarts < MaxRestarts
    /\ restarts' = restarts + 1
    /\ file' = IF powerLoss THEN durable ELSE file
    /\ disk' = IF readable THEN file' ELSE <<>>
    /\ memory' = [o \in Owners |-> <<>>]
    /\ writer' = None
    /\ Finish({k \in Calls : pc[k] # "idle"})
    /\ dropped' = gone
    /\ acked' = IF readable THEN acked ELSE {}
    /\ evicted' = (evicted \cap acked') \ Tokens(disk')
    /\ pruned' = pruned \ Tokens(disk')
    /\ UNCHANGED <<durable, gone, issued, consent, erased>>

-----------------------------------------------------------------------------
Task(k) ==
    \/ \E r \in Request, list \in SUBSET Connectors : Begin(k, r, list)
    \/ Validate(k) \/ Prune(k) \/ Ask(k) \/ Issue(k) \/ Arm(k)

Write == Rename \/ SyncDir \/ WriteFails

Environment ==
    \/ \E o \in Owners : OwnerLeaves(o) \/ DropOwner(o)
    \/ Flush
    \/ \E powerLoss, readable \in BOOLEAN : Restart(powerLoss, readable)

Next == (\E k \in Calls : Task(k)) \/ Write \/ Environment

Spec == Init /\ [][Next]_vars

-----------------------------------------------------------------------------
Age(t) == CHOOSE i \in DOMAIN issued : issued[i] = t

(* A session is armed without a dialog only with what a user of the same   *)
(* application agreed to remember (persist.rs:57 "bound to the application *)
(* it was issued for"), across evictions, restarts and concurrent tasks.   *)
RestoredAsConsented ==
    \A k \in Calls : armed[k] # None =>
        /\ grant[k] # None => consent[grant[k]] = armed[k]
        /\ armed[k].app = req[k].app

(* persist.rs:31 "the oldest are evicted first": what was evicted is older *)
(* than everything that is still there, whatever was pruned, lost or       *)
(* loaded in between.  A token whose write failed and that was evicted     *)
(* before a restart is no exception to the rule: the restart, which brings *)
(* back the older file, has lost it anyway.                                *)
OldestEvictedFirst ==
    \A e \in evicted, t \in Tokens(disk) : Age(e) < Age(t)

(* Once a write has succeeded, its tokens survive every restart, a power   *)
(* loss included, until they are evicted or pruned (persist.rs:9 "until    *)
(* revoked"), or an unreadable file empties the store.                     *)
AckedSurvives ==
    acked \ (evicted \cup pruned) \subseteq Tokens(durable) \cap Tokens(file) \cap Tokens(disk)

(* And the other way round: a token that a successful write no longer had, *)
(* evicted (persist.rs:31), pruned as not servable any more (persist.rs:171)*)
(* or lost with an unreadable file, is gone for good: no write that fails, *)
(* no power loss and no restart brings it back into the list validate      *)
(* reads, or into a file that a later restart may load.                    *)
ErasedStaysErased ==
    erased \cap (Tokens(disk) \cup Tokens(file) \cup Tokens(durable)) = {}
=============================================================================
