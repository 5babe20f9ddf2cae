# A TLA+ development of xdg-desktop-portal-atrium

The repository is a backend for `xdg-desktop-portal`: a D-Bus daemon
(`atrium-portal`) that implements the portal interfaces for the Atrium
compositor.  It shows dialogs through short-lived prompter processes, asks the
compositor for captures and window picks over a private socket, and streams
screen casts through PipeWire.  This directory holds the TLA+ modules that model
it, the TLC configurations that check them and the TLAPS proofs about them.
Paths below are relative to `src/crates/`; `X` stands for
`xdg-desktop-portal-atrium/src`.

To check a module, `tlc -config <run>.cfg <module>.tla`; to check the proofs,
`tlapm` with each `<module>Proofs.tla`.

## 1. The system

One process, many threads:

  - the **zbus executor**, one thread that runs every D-Bus handler; a handler
    yields only at an `await`;
  - one **worker thread per interface**, behind a bounded `sync_channel` of 128
    jobs (`X/lib.rs:171-188`), which spawns
  - one **task thread per admitted request**, at most 16 at a time for a file
    chooser or a cast, each of which may own
  - one **prompter child process**, supervised by a 20 ms polling loop; and
  - one **cast thread per screen cast**, with a PipeWire loop of its own;
  - a **watcher** of `NameOwnerChanged`, a settings watcher, and the event pump
    of the resident notification prompter.

### Inventory

| Component | State it keeps | Operations | What is hard | What makes it correct |
|---|---|---|---|---|
| Request runtime (`atrium-portal-runtime/src/lib.rs`) | exported request objects, the tracker's `active` and `closed` sets | `register`, `dispatch`, `finish`, `Request.Close` | Close dispatched to an object that is finished, or whose handle was given out again, before the Close runs | one open call per handle; one answer per call; no success after a timely Close; no marker inherited by a later call |
| Interface workers (`X/file_chooser.rs` and nine like it) | the job channel, the count of active tasks | take a job, refuse over the limit, spawn | leaked or lost counts; a dialog left open for ever | the count is exact; nobody waits behind somebody else's dialog |
| Prompter supervision (`X/prompter.rs`) | the child, its pipes | write the request, poll for cancellation and exit, terminate, parse | a child that does not read, never exits, or crashes; Close racing the answer | no dialog outlives its request; Close ends it; a crash is code 2 |
| ScreenCast portal (`X/screencast.rs`) | the dispatcher's queue, per-call progress | `CreateSession`, `SelectSources`, `Start`, the dispatcher, `close_session` | five kinds of thread over one registry; sessions that go while their Start negotiates | no producer without an owner; a cast only on the session that reserved it |
| Cast sessions (`X/session.rs`) | `SessionRegistry`: path to `CastSession` | `insert`, `mark_sources_selected`, `reserve_start`, `clear_start`, `mark_started`, `remove`, `Session.Close` | paths chosen by the frontend, used again | session and live-cast limits; one producer per session |
| Cast thread (`X/cast/mod.rs`) | phase, start report, stop socket | negotiate, report, stop, end, error, teardown | blocking reports to the dispatcher that joins it | an ended cast closes its session; it always exits once stopped |
| Cast frame loop (`X/cast/state.rs`, `publish.rs`, `frame.rs`, `copy.rs`, `format.rs`, `meta.rs`) | buffer slots, pending and published frames, stream generation | acquire, copy, publish, reclaim, resume, restart | slots shared by compositor, cast and PipeWire; messages of the previous generation | a slot has one owner; it is given back once |
| Restore store (`X/persist.rs`) | tokens on disk and in memory | `load`, `issue`, `validate`, `drop_owner`, `prune`, `write_disk` | failed writes, crashes, owners that leave while a grant is decided | a token is valid as long as its mode says, for its application only |
| IPC client (`atrium-portal-ipc/src`, `X/ipc.rs`) | connection, negotiated protocol, messages set aside, leases | connect with downgrade, request/response, restart of a stream, lease renewal, retry | stream events that overtake a reply; a socket that stays silent; retry of something already done | a slot is in one place; what is set aside is handed out; no effect twice |
| Settings (`X/settings.rs`) | the last values | `Read`, `ReadAll`, `watch_loop`, `update_and_emit` | change between query and subscription; reconnection | the last signal agrees with what is read |
| Inhibit (`X/inhibit.rs`) | the records of inhibitions and monitors, their exported objects | `Inhibit`, `CreateMonitor`, `Close` | the record is made before its object and goes before it | an inhibition lasts as long as its object |
| Notification (`X/notification.rs`) | live identifiers, the daemon child | notify, close, events, restart of the daemon | the daemon dying with notifications shown; events of the previous daemon | identifiers in the table are shown, or their daemon is gone |
| Account, Access, DynamicLauncher (`X/account.rs`, `access.rs`, `dynamic_launcher.rs`) | none | one dialog and its answer | Close racing the answer; a text the method lets through and the dialog refuses | no success after a timely Close |
| Background (`X/background.rs`) | the autostart entry and its temporary | one dialog, then open, write and rename | a write that fails half way; two writers with one temporary | the entry is whole, and the one last granted |
| AppChooser, OpenURI (`X/app_chooser.rs`, `open_uri.rs`, `apps.rs`) | `mimeapps.list` and its temporary | candidates, dialog, launch, `set_default_app` | an edit of a file the user also edits; two editors with one temporary | the default is the one last remembered, other lines stay |
| Screenshot, PickColor (`X/screenshot.rs`) | pictures in the cache | chrome, capture, one retry, write | a Close at any of these points; a connection that goes in between | no success after a timely Close |
| Wallpaper (`X/wallpaper.rs`) | one staged file per image type, temporaries | load, dialog, stage, apply, prune | two requests that stage, prune and drop in one directory | what the compositor shows is on disk |
| Print, Email (`X/print.rs`, `email.rs`) | spool files, the slots of mailers | spool and submit; spawn a mailer, reap it | every way out of a submission or a spawn | nothing is left behind |
| Secret (`atrium-portal-secret/src`) | none, but it holds the executor | ask sigil, write the secret | sigil waiting for its own user | one answer |
| Prompter contract (`atrium-portal-prompter`), Lockdown, startup | none worth a model | data types, constants, wiring | | |

Components interact through D-Bus calls into the executor, jobs sent to a
worker's channel, one-slot reply channels back to the handler, the registry and
the tracker behind mutexes, sockets and exit status of child processes, and, for
casts, `SessionEnded` jobs sent by a cast thread to the dispatcher that may at
that moment be joining it.

The hazards that follow from this are listed, each at its line and with the
property that covers it, in `PROJECT.json`.

## 2. What is modelled

### SessionRegistry and ScreenCast

`SessionRegistry.tla` holds `session.rs` as operators.  Every method of the
registry runs under one mutex, so each is a guard (`CanReserve`) and a function
from registry to registry (`ReserveStart`).  A session also carries `id`, the
call that created it: the code has no such field and no guard reads it, the
properties use it to tell apart the sessions that use one path.

`ScreenCast.tla` composes the registry with every thread that touches it.

| Variable | In the code |
|---|---|
| `sessions`, `objects` | `SessionRegistry` and the object server's `SessionIface` objects |
| `queue` | the dispatcher's `sync_channel` of `CastJob` |
| `pc`, `path`, `app`, `reply` | where each method call is: in a handler, in the channel, in a task thread, answered |
| `closedReq` | the request tracker's markers, by call |
| `cast`, `completed`, `stopped` | a cast thread's phase, its start report, its stop socket closed |
| `reserved` | what `reserve_start` returned to each Start |
| `worker` | the dispatcher: receiving, joining a cast, about to emit `Closed`, about to unexport |
| `blocked` | a `Session.Close` inside its blocking `send` on the executor thread |
| `closedSig` | history: the sessions whose `Closed` signal was emitted |

An action is what one thread does between two points where another can act: a
mutex released, an `await`, a channel operation, a join.  CreateSession is
therefore three actions (arrive, insert in the registry, export), Start is five,
and `close_session` is four (detach and stop, join, emit, unexport).  A handler
that blocks in `send` blocks the executor, which guards every other handler
with `blocked = None`.  All the ways a step can fail are alternatives of its
action: no thread, no object, refused, timed out.

The environment: a client makes each call at most once, at any time, with any
path and application, and may close any request in flight.  The frontend derives
the path of a session from a token the application chooses, so a path may be given
to a new session at any time, also while an older session has it, has just lost it,
or has left something behind that will act on it.  What the frontend does not do is
send SelectSources, Start or Close to a path while a CreateSession for it has not
returned (`Creating`): it hands out the session only then.

The code names everything by path, and what is still under way for an older session
of a path, a request in a task, a cast thread, a Close in the queue or at the
dispatcher (`InUse`), is taken for the newer one's.  `overlapped` has the
sessions that were made at such a moment.  Three properties except exactly these,
and hold of every other session of a path that is used again.

### RequestDispatch and PortalRequest

`PortalRequest.tla` is the contract of one prompting interface, with no queue,
thread or process in it: a handle names one open call, a call is answered once,
and a call cancelled in time never succeeds.  `RequestDispatch.tla` is the
machinery: the handlers on the executor (`Arrive`, `Return`), `Request.Close` in
two steps (`CloseArrive` finds the object, `CloseMark` runs later), the worker
(`WorkerTake` increments the count, `WorkerAdmit` spawns or refuses), a task
thread (`TaskBegin`, `TaskWrite`, `TaskPoll`, `TaskPollError`, `TaskCheck`,
`TaskSucceed`, `TaskExit`) and the prompter.  `file_chooser.rs` is the interface followed; the
others have the same worker.

`served` stands for the exported request objects and for the tracker's `active`
set at once: the code inserts into and removes from both with no `await` in
between, so no other handler sees them differ.  The executor starts handlers in
the order their messages came, so a Close sent before a call with the same
handle has run before that call arrives (the second conjunct of `Arrive`).
A job's task may find the request already closed: the code reads the marker at
the start, in every turn of the polling loop, and once more before it answers,
and each read is a step of its own.  `dispatch` has one more way to fail, a worker
that is gone (`lib.rs:156`), which is not reached and not in `Arrive`: the worker
receives until every sender is dropped, the interface holds one for as long as the
process lives, nothing in the loop panics, and a worker that cannot be spawned ends
`run` at startup.

### RestoreStore

`RestoreStore.tla` holds the tokens that let an application share again without
asking: the store (`persist.rs`), the tasks of `SelectSources` that use it
(`screencast.rs:551-751`), the write of the token file (`files.rs`), and the
watcher of bus names (`lib.rs:118-151`).

| Variable | In the code |
|---|---|
| `disk`, `memory` | the two halves of `RestoreStore`, oldest first |
| `file`, `durable` | the token file as a reader sees it, and as a power loss leaves it |
| `writer` | the task inside `write_atomic`, which holds the store's mutex |
| `pc`, `req`, `seen`, `armed`, `grant` | a task's progress, its arguments, the outputs it enumerated, the selection it is about to arm, the token that goes with it |
| `gone`, `dropped` | owners that left the bus, and those the watcher has handled |
| `issued`, `consent`, `acked`, `evicted`, `pruned`, `erased` | history; `erased` are the tokens that a list which was written no longer had |

A task takes the mutex three times, in `Validate`, `Prune` and `Issue`, and other
tasks run in between.  A write is `Rename` and `SyncDir` with the mutex held, and
may fail before either.  `Restart` reads the file back, after a power loss its
durable content, or nothing if the file cannot be read.  The two lists and the
operators on them (`Filter`, for the code's `retain`) are sequences; `Lists.tla` has
what several modules need of them.

### CastStream

`CastStream.tla` is the frame loop of one cast.  All of it runs on the cast
thread's PipeWire loop, so a callback is one action, and the compositor, PipeWire
and the consumer act between any two.

| Variable | In the code |
|---|---|
| `gen` | `Transport::stream_id`: a restart makes a new one |
| `kind`, `offered`, `optIn` | `announced`, `offered_modifier`, `dmabuf` |
| `binding`, `inFlight` | `slot_bindings`: `pool` and `in_flight` of each slot |
| `latest`, `pending` | `LatestFrame` and its flag |
| `mode`, `takesDmabuf` | `Negotiation` |
| `stash` | `StreamData::pool`, the unbound buffers dequeued earlier |
| `buf`, `patch` | PipeWire's pool: where a buffer is, and whose memory `add_buffer` gave it |
| `ring`, `wire`, `frozen` | the compositor: slots it may write, messages not yet read, a geometry change it announced |

`Receive` is the IPC source (a frame, a geometry change, or either of a
superseded stream), `Fixate` is `param_changed(Format)` with the restart of
`sync_transport`, `AddBuffer` and `RemoveBuffer` are the callbacks, and `Process`
is the process callback with its three cases.  A slot's release is part of the
step that sends it: the compositor reads its socket in order, so it can only use
the slot later than in the model.  Left out are failed restarts and teardown,
which end the cast, pixels and metadata, descriptors sent with each frame
(protocol 24), frames that `validate_frame` rejects, buffers without data blocks
and the order of the stash (any of its buffers may be taken).

### SettingsWatcher, NotificationDaemon and DesktopPreferences

`SettingsWatcher.tla` is the daemon's copy of the compositor's preferences: the
query before the bus name is requested (`Prime`), then a thread that subscribes,
queries, replaces the store and signals what changed (`Subscribe`, `Query`,
`Replace`, `Emit`, `Listen`), over again when the connection is lost
(`Reconnect`).  A client reads everything once (`ReadAll`, `ReadAllReply`) and
follows the signals.  A preference is a look, which cards are rendered with, or a
font, which stands for the keys only clients read.

`NotificationDaemon.tla` is `DaemonManager` with the resident prompter it keeps.

| Variable | In the code |
|---|---|
| `live` | `LiveNotifications`, which manager and event pump share |
| `appearance`, `child`, `pump` | `DaemonManager::appearance` and `::daemon`, and the handle's pump thread |
| `op` | the method that holds the manager's mutex, and where it is |
| `sends` | its calls of `send`: a `send` may spawn a daemon, which is primed by a nested `send` |
| `commands`, `eventPipe` | the pipes to and from the daemon |
| `cards`, `style` | what the daemon shows |
| `stale`, `orphaned` | history: the exceptions named below |

The daemon may exit between any two steps of a `send`; the manager notices in
`Ensure` (the table is cleared) or in `Write` (it is not).  The table has one list
per application, oldest first (`RemoveOne` of `Lists`), and the look a daemon ends
with is the last one in its pipe (`FinalStyle`).  `DesktopPreferences.tla`
composes the two: the watcher pushes a new look through the manager's mutex, for
which it competes with AddNotification and RemoveNotification.

### StreamClient

`StreamClient.tla` is the connection of one cast: the client library
(`atrium-portal-ipc/src/client.rs`) as the cast thread uses it
(`X/cast/mod.rs`, `X/cast/state.rs`), and the server of
`atrium-portal-ipc/src/testing.rs` with the frame lane of a real compositor.

| Variable | In the code |
|---|---|
| `pc` | the cast thread: which reply it reads for, its loop, or a read that has begun (`"next"`) |
| `pending` | `Client::pending`, what `start_output_stream` and `stop_output_stream` set aside while they read for their reply |
| `current`, `held` | `Transport::stream_id` and the slots between delivery and release |
| `requests`, `wire` | the two directions of the socket; a frame without a slot is followed by its descriptor |
| `lane`, `slotted`, `free`, `frozen`, `starting` | the compositor: its lane registered before the reply to the start is written, its slots |
| `misread` | history: the exception named below |

Requests are answered in order by one thread and stream events are written by
another, so a frame may overtake the reply to the start of its own stream, and an
end may follow the reply to its stop.  `NextPending` runs when the socket is
readable, as in the code, which is why what was set aside waits for something to
arrive.  Release is the sum of the ways `publish.rs` and `state.rs` give a slot
back; CastStream has them one by one.

### PortalServices and its components

`PortalServices.tla` composes the request portals that `RequestDispatch` does not
follow, on the files, directories and limits they share.  `RequestTask.tla` is
what they have in common, in steps larger than those of `RequestDispatch`:
arrival, admission, a poll of the marker, the dialog's outcome, the last look at
the marker, the answer.  Every write, call or spawn after that is a step of its
own.  One variable, `at`, is where a request is; `kind` is its method.

| Module | State | In the code |
|---|---|---|
| `RequestTask` | `kind`, `arg`, `at`, `answer`, `closed`, `timely` | a request and its marker; `timely` is history: closed while the code still looks at the marker, which `Uncommitted` says of each portal |
| `NamedTemp` | a file, its temporary, their inodes | the open, write and rename of `X/background.rs` and `X/apps.rs`, whose temporaries have a name fixed for the process |
| `ConsentPortals` | `entry`, `granted` | Account, Access, DynamicLauncher, and Background with its autostart entry |
| `OpenWith` | `list`, `offered`, `edit`, `pick`, `remembered` | AppChooser and OpenURI; a line of `mimeapps.list` is a group header, a key with its ids, or neither, with or without a newline after it; `Update` is `update_default_applications`, what each line becomes (`Edited`) and where a new key goes (`InsertAfter`, `RunTogether`) |
| `CapturePortal` | `shots` | Screenshot and PickColor; the handshake's downgrade (`Negotiated`) and the one retry of `X/ipc.rs` |
| `Wallpaper` | `staged`, `temporaries`, `shown` | the staging directory and the file the compositor shows |
| `HandOff` | `spools`, `mailers`, `mailerSlots` | Print, Email and Secret; `unremoved` is history: the exception named below |
| `InhibitRegistry` | `record`, `object`, `closing` | `X/inhibit.rs`: the registry and the exported objects, which may be closed again while a Close awaits their removal; `stranded` and `reclosed` are history: the exceptions named below |

ComposeEmail and RetrieveSecret run in the handler and block the executor;
`ExecutorFree` keeps every other handler, `Request.Close` included, from running
meanwhile.  Simplified are: each request has a handle of its own (RequestDispatch
has the handles); the requests of Background are of one application, those of
another use other files; the empty line written before a new group of
`mimeapps.list` is left out, and a last line without a newline loses its last id to
the key written behind it, also where a `;` would have closed that id; no
`mimeapps.list` but the user's holds a default, and the
order in which applications are listed is not modelled; desktop files do not
change; a wallpaper's own file is always removed when the code removes it; and the
session of an Inhibit monitor and the request of an inhibition have paths of
different kinds (`Sessions`).

## 3. The runs

| Run | What it asks | Result |
|---|---|---|
| `sc_sessions` | two sessions on two paths or on one, two SelectSources, two Starts, Close: `TypeOK`, `NoOrphanProducer`, `ReservationBacked`, `OneProducerPerSession`, `InstalledWhereReserved`, `ObjectBacked` | holds |
| `sc_live` | fair threads, room in the queue: `DispatcherResponsive`, `StartReturns`, `EndedSessionCloses` | holds |
| `sc_full_queue` | the same `DispatcherResponsive` with a queue of one | violated |
| `rd_requests` | two calls, two handles, two Closes, queue and limit of one: the invariants of the request runtime, `KeepsContract`, `NoHeadOfLineBlocking`, `CancelledReturns` | holds |
| `rs_store` | two calls that store tokens on disk, one in memory, two applications, restarts, failing writes: `TypeOK`, `RestoredAsConsented`, `OldestEvictedFirst`, `AckedSurvives`, `ErasedStaysErased` | holds |
| `cs_frames` | two slots, two buffers, one restart of the stream, one pause: `NothingStale`, `ExclusiveUnlessRepublished`, `NoSlotLost`, `ReturnedIsReleased` | holds |
| `cs_resume` | `InFlightReserved` across a pause with a frame at the consumer | violated |
| `np_cards` | the watcher and the manager together; two AddNotification calls, one card per application, two daemons, one change of the preferences and one loss of the compositor: `TypeOK`, `NothingLeaks`, `ShownIsTracked`, `StyleFollows`, `ViewAgrees`, `NoChangeMissed` | holds |
| `ip_stream` | the cast of a connector, one restart by either side, frames and an end before, between and after replies: `SlotsConserved`, `SetAsideIsDelivered` | holds |
| `ip_quiet` | `EndsForCause`, in a period without frames after a slot was released | violated |
| `ps_services` | two requests of any of fifteen methods: `TypeOK`, `AutostartAsGranted`, `DefaultsAsRemembered`, `NothingLeftBehind`, `EndedByItsObject`, `KeepsContract` | holds |
| `ps_wallpaper` | `ShownIsStaged`, two wallpaper requests | violated |

**Bounds.** Two of each kind of call are enough for every race the properties
are about: two Starts for one session, a Start and a Close, a SessionEnded and a
Close, a call and the next call with its handle.  A queue of one or two makes
"full" reachable with those calls; the code's 128 differs only in how many
clients it takes.  The limits (16 tasks, 64 sessions, the live casts) are one or
two for the same reason.  In `sc_sessions` the limit on live casts is two, so that it
is the guard of each session, and not the limit, that keeps a second producer out;
and both sessions may have the same path, the second made at any moment of the first.  In `sc_live` the queue has four places: the model sends
at most four jobs, so `send` never blocks, and the run shows that nothing else
stops the dispatcher; `sc_full_queue` shows that `send` does.
`rs_store` has tables of one entry, so that two tokens are enough for an eviction
between any two steps of another call, one owner, and one restart.  `cs_frames`
has two slots and buffers, so a slot may be with the consumer while the other is
on the wire or pending, three buffers added, so a removed one is replaced, and two
streams: what is stale is stale after one restart.  `WireCap`, `MaxGen`, `MaxAdds`,
`MaxPauses` and `MaxRestarts` only bound the environment.
`np_cards` has one card per application, so that the second call evicts, and a
second daemon, so that one is spawned after an exit; at startup the store may
already differ from the compositor, so a change and a loss give two updates.
`MaxChanges`, `MaxLosses`, `MaxSpawns` and `MaxEvents` bound the environment.
`ip_stream` has two slots, so that one is rendered while the other is on its way
back, two streams, for one restart, and two frames of each; `ip_quiet` needs no
more.  `ps_services` has two requests, which is every pair of methods at once and
every interleaving of two tasks that share a file; the workers of Account and
Access run one task, so that their limit is met, one mailer and one inhibition are
enough to be one too many for the second request, and two paths let the second
take the first's or its own.  `MaxCloses` is two, a Close and one more while the first
awaits the removal.  Its `mimeapps.list` has a line of each kind, and its
compositors speak an old range of the protocol, a newer one that reaches past the
client's, or none of it.
Symmetry is used in safety runs only.  The view of `sc_sessions`
leaves out `reply`, which no action reads and no property of the run mentions,
except `TypeOK`, whose conjunct on `reply` holds of every value actions assign.

**Fairness.** Weak fairness of each thread's own steps: threads of a process are
scheduled, and a join or a blocking send returns once it can.  Nothing is
assumed of the client, of the user in front of a dialog, of a prompter process or
of the compositor.  What ends a negotiation the compositor never answers is
`START_TIMEOUT`, the third alternative of `StartWait`.  A step that only an error
makes possible is not owed: `TaskPollError`, the failure of `try_wait`, is an action
of its own, outside the fair ones, so that it never stands in for the user's answer.  `CastThread` is fair only
in what the thread does by itself (see the stop socket, report, tear down).
`ReturnedIsReleased` assumes that a cycle which stays wanted is run: the keepalive
timer triggers one every interval while the stream is Streaming
(`X/cast/mod.rs:783`).  In `ip_stream` the compositor answers what it is asked, and
a loop that can read does; `SetAsideIsDelivered` also assumes that the lease timer
fires although the loop always has something else to do (strong fairness of
`RenewLease`), which PipeWire's loop gives every source that is ready.

### Where the code and its documentation disagree

  - `sc_full_queue`.  `close_session` joins the cast thread on the dispatcher,
    and a cast thread that has ended by itself sends `SessionEnded` with a
    blocking `send` on the dispatcher's bounded queue.  With the queue full each
    waits for the other.  `X/screencast.rs:398` promises that close and end
    events remain responsive.
  - `cs_resume`.  On every transition to Streaming the latest frame is marked
    pending again, also one that was published from its slot.  The next cycle
    reclaims the buffer that the pause flushed, which releases the slot to the
    compositor, and then queues the same buffer: the slot is marked `in_flight`,
    with the consumer, while the compositor may draw into it, which
    `X/cast/state.rs:57` rules out.  `ExclusiveUnlessRepublished` shows that this
    is the only way.

  - `ip_quiet`.  The answer to the release of a slot makes the socket readable;
    `next_stream_message` skips it and waits for a stream event in a blocking read,
    with the PipeWire loop, and its lease timer, behind it.  When the screen is
    still for `IPC_TIMEOUT` the read fails, and the source ends the cast.
    `X/cast/mod.rs:621` says that the lease timer keeps the connection alive across
    quiet periods.

  - `ps_wallpaper`.  A request that the compositor does not accept removes the file
    staged under its name, which by then replaced that of the wallpaper on show, of
    the same type, or is that of another request.  The comment at
    `X/wallpaper.rs:373` says that a file outlives a successful reply.  (The one at
    `:391`, on keeping a previous wallpaper, is about a file of a different name,
    which is indeed kept.)  Two overlapping requests reach the same through `prune`.

More were met while modelling and have no run of their own.

Screen casts and their tokens:

  - `mark_started` finds the session by path (`X/session.rs:182`).  Where a path is
    given to a new session while a Start of the closed one still negotiates, that
    Start installs its cast on the new session, whose user selected nothing, and a
    Start of the new session may then run a second producer.  `overlapped` has these
    sessions; without that exception `InstalledWhereReserved` is violated by the
    calls of `sc_sessions`, and `OneProducerPerSession` by three Starts.
  - `run_cast` looks up the position of a connector after its stream was started,
    and `enumerate_outputs` takes the next message for its answer
    (`atrium-portal-ipc/src/client.rs:250`): a frame that comes first is lost, its
    slot is never released (`misread`), and a frame in memory leaves its descriptor
    to be read as a message, which ends the cast.
  - `Deliver` ends the cast for any `StreamEnded`, also that of a stream a restart
    has superseded.
  - A mode-1 token is reported to the application although its write failed
    (`X/persist.rs:96-140` logs the failure and returns the token); it is gone
    after a restart.  `AckedSurvives` speaks of writes that succeeded.  Such a token
    may push an older one out of the list and be lost while the older, which is still
    in the file, is read back by a restart: after one, `OldestEvictedFirst` speaks
    of evicted tokens that had been written, and not of those the file brought back.
  - A mode-2 token issued after the watcher handled its owner's departure stays
    until the daemon ends; `X/lib.rs:343` says such tokens live exactly as long
    as the connection.  `DropOwner` and `Issue` have this order of events.
  - A failed enumeration of outputs is an empty list, and `prune` then deletes
    every token of a connector, of all applications.  `X/screencast.rs:754`
    describes the failure as yielding no chooser entries.
  - `Closed` may be emitted while a Start task still owns a live producer of the
    session, because `cast_thread` is `None` until `mark_started`; comments in
    `session.rs:207` and `cast/mod.rs:152` say the signal follows the teardown.
    The producer is stopped later: `NoOrphanProducer` holds.
  - Close jobs carry a path.  A second Close job left in the queue may remove the
    registry entry of the next session of that path between its insert and its
    export, and leaves an object that no Close can remove.  Such a session is
    `overlapped`, and `ObjectBacked` excepts its object.

Notifications and settings:

  - The watcher pushes the look when an update changes the store, and the store was
    primed at startup, so its first update finds no change.  Until the look
    changes, a daemon is told none, and renders with its own fallback;
    `notify.rs:114` says it is told after it starts.  `StyleFollows` shows that this
    is the only way.
  - When the daemon exits between `try_wait` and the write, its handle is dropped
    and the table keeps the identifiers of its cards (`X/notification.rs:445`),
    which the comment at line 461 sets out to prevent.  `stale` has these.
  - A notification that meets a daemon found to have exited was entered in the
    table before the table is cleared: its card is shown and cannot be withdrawn.
    So is one sent while the Closed event of its former card is on its way.
    `orphaned` has both.
  - `send` calls its case of no daemon after `ensure_daemon` impossible
    (`X/notification.rs:428`); it occurs when priming a new daemon fails.
  - `push_appearance` says "no spawn" (`X/notification.rs:338`), and respawns when
    the daemon has exited.
  - A SettingChanged signal may overtake the answer to a ReadAll, whose snapshot
    is older; a client that applies both keeps the older value.  `overtaken`.


Requests and their dialogs:

  - A request that does not fit in a pipe is written before the polling loop
    starts.  While the prompter does not read, `Request.Close` does nothing.
    The model has these calls as `LargeCalls`; `CancelledReturns` leaves them out.
  - The preview of a response that is not JSON is cut at byte 256 of a string
    (`X/prompter.rs:277`); where that is not a character boundary the slice panics,
    the task dies, and the call ends with a D-Bus error.  ADR 0002, line 42, says
    that a crash maps to response code 2.  `TaskPoll` has both outcomes.
  - After the prompter exits its output is read to the end (`X/prompter.rs:237`): a
    process it left behind with the pipes open holds the task.
  - Access does not look at the marker after the dialog (`X/access.rs:211`), which
    the other portals do: a Close that races the answer is lost.
  - An Access dialog with a title only, or with a subtitle and a body that are long
    together, is accepted by the method and refused by the prompter; so is an
    Account reason that is long.  `Showable`.
  - RetrieveSecret waits for sigil on the executor's thread
    (`atrium-portal-secret/src/portal.rs:84`), and sigil may be waiting for the user:
    no other method of the daemon runs meanwhile, its own `Request.Close` included.
    ComposeEmail and the logind call of Inhibit hold the thread, too, but not for
    long.

Files and limits:

  - Two requests that write an application's autostart entry at once share a
    temporary; one may rename what the other has half written.  The comment at
    `X/background.rs:251` says "atomically".  `AutostartAsGranted` speaks of one
    writer at a time; `crossedEntries` has the others.
  - Two requests that edit `mimeapps.list` at once lose an update in the same way;
    `crossedLists`.
  - Where the list ends inside `[Default Applications]`, without a key of the content
    type and without a newline, the new key is glued to the last line
    (`X/apps/mimeapps.rs:57`): the pick is not recorded, and that line loses its last
    id, or is a group header no more.  `X/apps.rs:339` promises to preserve every
    unrelated line; the branch for a list without the group does end the last line
    first.  `RunTogether` has this; `ps_services` starts from a list whose last line
    is ended, and `DefaultsCorrect` has that as its hypothesis.
  - A list that grows past the limit on what is read is ignored from then on; `OpenWith`
    has no such limit.
  - A default that needs a terminal makes OpenURI refuse instead of ask.
  - `apps/exec.rs:15` says that SIGCHLD is ignored process-wide; nothing does it, and
    an application that has exited stays a zombie.
  - A screenshot that is cancelled after it was written stays in the cache (`shots`).
  - An error of `metadata` in `spool_fd` (`X/print.rs:266`) returns before the spool
    file is removed, and a removal that fails (`:356`) is only logged.  Both leave the
    document on disk for good; `unremoved` has these files, and `NothingLeftBehind`
    excepts them.
  - When the export of an inhibition's object fails outright, the record stays, and
    counts against the limit for good; `stranded`.
  - Close of an inhibition or monitor may be called again while the first awaits the
    removal of the object (`X/inhibit.rs:409`).  It then releases the record of a call
    that came to the path in between, or removes its object; `reclosed`.

## 4. What is proved

Eight modules hold the theorems.  Each is about the specification of the module
it extends, for every value of the constants that module's assumptions allow: any
number of calls, paths, handles, slots and applications, any capacities and
limits.

| Module | Theorems | Assumptions |
|---|---|---|
| `ScreenCastProofs` | `TypeCorrect`, `NoOrphanCorrect`, `ReservationCorrect`, `InstalledCorrect`, `OneProducerCorrect`, `ObjectCorrect` | `RegistryAssumption`, `ScreenCastAssumption` (kinds of calls are disjoint, capacities are positive); `NoneIsNoSession`, `NoneIsNoReservation` (`None` is not a record) |
| `RequestDispatchProofs` | `TypeCorrect`, `CountCorrect`, `NoFalseCancelCorrect`, `NoDialogCorrect`, `ContractKept` | `DispatchAssumption` (`None` names nothing else, capacities are positive) |
| `PortalServicesProofs` | `TypeCorrect`, `ContractKept`, `NothingLeftCorrect`, `EndedCorrect`, `AutostartCorrect`; with `AllEnded(InitialList)` as its hypothesis: `DefaultsCorrect` | `ServicesAssumption` (`None` and the first inode name nothing else, `"missing"` no application, limits are numbers, the list at the start is a sequence of lines of which all but the last are ended) |
| `RestoreStoreProofs` | `TypeCorrect`, `IssuedCorrect`, `ConsentCorrect`, `AckedCorrect`, `EvictionCorrect`, `ErasedCorrect` | `StoreAssumption` (`None` names nothing else, `Desktop` is no connector, bounds are positive) |
| `CastStreamProofs` | `TypeCorrect`, `NothingStaleCorrect`, `ExclusiveCorrect`, `NoSlotLostCorrect` | `StreamAssumption` (`None` names no slot, buffer or frame, bounds are numbers) |
| `DesktopPreferencesProofs` | `TypeCorrect`, `NothingLeaksCorrect`, `ShownIsTrackedCorrect`, `StyleFollowsCorrect`, `NoChangeMissedCorrect`, `ViewCorrect` | `WatcherAssumption`, `NotificationAssumption` (limits are positive, `None` names nothing else); `LooksAreStyles` (a daemon renders with the looks the compositor has); `NoneIsNoPreference` (`None` is not a record) |
| `StreamClientProofs` | `ConservedCorrect` | `StreamAssumption` of that module (`NoSlot` is no slot, bounds are numbers) |
| `ListProofs` | no theorem of a specification: what `Filter` and `RemoveOne` return, which the proofs about lists cite | none |

**ScreenCast.**  `TypeOK` is not inductive.  A job taken from the queue moves its
call to a task thread, and the handler that later reads the call's path needs it
to be one.  `Inv` therefore adds `Arrived`, a call that has left `idle` has a path
and, for a request, an application, and a cast thread belongs to a Start that
arrived; and `QueueOK`, a request in the queue is in state `queued` and waits
there once, so that taking it cannot move a call that is already in a thread.

`NoOrphanCorrect` then goes by who owns a running cast.  Three steps change
that: `StartInstall` passes it from its task to a session, or stops it; a
session that is dropped, by `CloseDetach` or by the roll-back of `CreateExport`,
stops what it held; and a Start that gives up has stopped it first.  Marking a
session (`SelectKeepsCast`, `ReserveKeepsCast`, `ClearKeepsCast`) keeps its cast,
and `InstallTakesOver` shows that a cast which another replaces is stopped.

`ReservationCorrect` rests on this: a Start leaves the states that back its
reservation only by a step that clears or installs at its own path, and nothing
else sets the mark.  It holds even when paths are used again because the claim
ties the mark to the session that was reserved.

The other three theorems say that a session and its cast agree, for every session
that is not `overlapped`.  The code finds sessions by path, so the argument is that the
path of such a session means that session for as long as anything acts on it.
`AgreeInv` has the parts.  `Named` and `Reserving`: a session, the cast it holds, and
the reservation of a Start go back to one path, and to a CreateSession that inserted.
`Sound`: a Start that is past its reservation, on the path of such a session, is
the one that reserved it and holds the selection it still has.  `Only`: there is no
second one.  `CreateInsert` is the step that could break both, because it puts
another session under a Start that is still going; then something acts on the path,
and the new session is `overlapped`.  `Unique` counts the Starts that reserved one
session and may have a cast; with `NoOrphanCorrect`, by which a producer nobody stopped
is in a session or with its Start, `OneProducerCorrect` follows.

`ObjectCorrect` is about the moment between insert and export.  `Exporting`
says that nothing acts on the path of a session that is then not `overlapped`: no task,
no cast, no job of the dispatcher, no blocked Close.  Its export is therefore the first
thing to happen to it, and it cannot be closed before.

**RequestDispatch.**  The code keeps four records of one call, which no lock
spans: the reply awaited on the executor, the object and the tracker's markers,
the job in the channel, the task thread.  `Inv` says how they agree at every
moment.  `Progress`: a call with a job or an undecided task is open and
unanswered, and its prompter runs only under supervision.  `OneCallPerHandle`: an
open call has its object to itself, and only such objects are marked.  `Marked`: a
call closed in time keeps its marker until its task has looked at it.  `Meant`: a
Close that is about to run is at the handle of the call it was meant for, and of
no other open one; this is where the order in which the executor starts handlers
is used.  `JobsOK`: a job waits in one place, its task not yet begun.  `Counted`:
what the worker found when it compared the count with the limit still bounds it
when it spawns, because tasks only leave in between.

`TaskMoves` does the steps of a task that keep it undecided once for all of them.
`ContractKept` maps every step to one of `PortalRequest` or to a stutter: `Arrive`
to the contract's call, `CloseMark` to its Close, `Return` to its answer; that an
answer is never a success after a timely Close is `Marked`.

**PortalServices.**  For the task, every action of every portal is one of four
kinds of step: a request begins, moves on, is answered, or is marked as closed
(`Begins`, `Moves`, `Replies`, `Marks`).  One lemma per portal shows that its
actions keep to the rules of their kind, above all that a request closed in time
moves only to places before the last look at its marker.  `TaskInv` and the
refinement of `PortalRequest` follow once for all portals.

The other theorems are about the state of one portal: `HandInv` for spool files
and slots, `EndInv` for records and objects, `EntryInv` for the autostart entry.
The actions of the other portals leave that state alone, and move no request into
or out of the places the invariant speaks of (`HandFrame`, `EndFrame`,
`EntryFrame`).  `EndInv` adds, of every path that is neither `stranded` nor `reclosed`,
who is between recording and exporting: that request's record is at its path, where
there is no object, or one whose Close has already released.  `EntryInv` adds that the
temporary is never the file the entry names, being a new file or one a failed write left
behind, and that it holds the text of the one writer once that has written.

`ListInv` says the same of `mimeapps.list`, where the one writer's text must also be
its own edit of the list as it still is.  What an edit changes is a fact about lines
alone (`Records`): the default of its type becomes the pick, and no other key of any
type or group changes, because the lines around an insertion keep their groups.  It
needs the last line to be ended, and gives it back ended.  `TypeCorrect` rests on
`CallInv`: a request past its arrival has an argument its portal accepts, and is only
in places its own portal has, so what it names is in its domain wherever it is used.

**CastStream.**  The argument is that of a token: a slot is in the compositor's
ring, on the wire, waiting to be published, or with the consumer.  `Conserved`,
somewhere, gives `NoSlotLost`; `Exclusive`, in one place only, gives
`ExclusiveUnlessRepublished`, and breaks exactly where a resumed cast marks a
published frame pending again.  `Messages` says what the wire may carry, because
frames of an old stream are read after the new one has begun; `BuffersLive`, that
a bound buffer is in the pool, is what makes the removal of a buffer release its
slot.

**StreamClient.**  `SlotsConserved` speaks of a client that knows the live stream;
`Conserved` says the same of the compositor's stream, also before the client has
read the answer to its start and while frames of that stream are set aside.  When
that answer is read, nothing of the stream may be held already, and when a frame is
delivered, its stream must be the client's.  Both come from `Outstanding` and
`Settled`: one start at a time is asked for, accepted or answered, its answer
names the newest stream, and in the loop there is none.  `Known` makes a new stream
begin with no message about it; `Followed` is why dropping the descriptor behind
a frame drops nothing else.  A place in a socket or a buffer is a message that
occurs at most once (`Has`, `Once`); the theorem counts them at the end.

**RestoreStore.**  `Filter` keeps the order of a list and invents nothing
(`ListProofs`), so every prune, drop and eviction leaves a part of the list in its
order.  `IssuedOK` is what that is good for: a token is in a list only if a call
issued it, once, and the lists on disk and in the file are in the order of issue,
also a file that a failed write or a power loss has left behind.
`ConsentOK` says of every list what `RestoredAsConsented` says of a call that
restores: each token carries what the user of the call that issued it agreed to; and
a call about to issue is about to arm just that.  What `Validate` takes out of a list
therefore stays right while others evict and prune.
`WritesOK` relates the list in memory, the file and its durable copy.  `AckedKept`: a
token that was acknowledged and is in the first is in the second, and one in the
second is in the third, because the directory is synced with the mutex still held.
`EvictedOlder`: what was evicted is older than what is left, in the list, and, as far
as it was written, in either file a restart may load.
`ErasedCorrect` is the converse of `AckedKept`.  A successful write leaves the same
list in memory, in the file and on the platter (`WritesOK`), so at that moment what it
lacks is in none of the three; from then on each of them is only replaced by another
(a rename, a sync, a restart), loses tokens, or receives a token that no call had
issued before (`IssuedOK`).

**DesktopPreferences.**  The last two theorems of the module speak of a watcher at
rest.  `Fresh` says in the middle of an update what it answered to: with nothing
unread on a live connection, the answer fetched, or the store once it is replaced,
is current, because every later change is an event on a subscription that preceded
the query.  `InStep` says that a client, or the answer on its way to it, disagrees
with the store only in keys whose signals are owed, unless a signal overtook the
answer.

The notification daemon's properties hold between operations, and an operation is a
stack of sends, of which the innermost runs.  `Stack` says which stacks there are (all
but the innermost prime the daemon they spawned, all but the outermost send it the
look), and
`Pipes` what may be in the pipes of a daemon, or of none.  With these, `Leak` and
`Shown` are `NothingLeaks` and `ShownIsTracked` in the middle of an operation, where
the identifier being sent is in the table without a card, and the one being evicted
has a card without being in the table.  `Styled` says that a daemon's look, after all that is in its pipe, is
the manager's, except while a push or a priming is still on the stack, and `Pushes`
that the manager's look is the store's, except while the watcher is on its way to
push it; `StyleFollowsCorrect` joins the two.

**Induction over data.**  The prover has no induction rule it can instantiate with a
property of ours.  What works through a list in the modules with theorems is therefore either
a quantified definition (`RemoveOne`, `FinalStyle`, `Update`), or a recursive function
like the one in `Filter`, and a lemma about that is proved by least counterexample: a
set of numbers below the length, of which `LeastNumber` gives the first
(`FilterDefined`, `KeepsNext`, `Filtered`).

Only model-checked is liveness under fairness, which is out of the prover's reach:
`DispatcherResponsive`, `StartReturns`, `EndedSessionCloses`,
`NoHeadOfLineBlocking`, `CancelledReturns`, `ReturnedIsReleased` and
`SetAsideIsDelivered`.  Every safety property of a run that passes is a theorem.

## 5. What is left

Not modelled, and why:

  - the codecs of the wire protocol and of D-Bus values, the parsing of desktop
    files, MIME types and globs, the expansion of Exec lines, format tables, pixel
    copies and metadata, URI and PNG encoding: transformations of data without
    state, for which the tests of the repository are the right tool;
  - the options of FileChooser and the encoding of its results, and the limits of
    the prompter's contract where no portal depends on them: one long list of
    independent checks, each with a test;
  - the wording and layout of dialogs, which the prompter process shows;
  - Lockdown, whose answers are constants.
