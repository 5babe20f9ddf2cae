---------------------------- MODULE StreamClient ----------------------------
(***************************************************************************)
(* The connection of one screen cast to the compositor: the client         *)
(* (client.rs) as the cast thread uses it (cast/mod.rs, cast/state.rs),    *)
(* and the compositor's side of the socket, after the server the           *)
(* repository keeps to test against (testing.rs).  Requests are answered   *)
(* in order by one thread; frames and stream events are written by         *)
(* another, in between.                                                    *)
(*                                                                         *)
(* The handshake has succeeded.  A frame is its stream and, where the      *)
(* stream has dmabuf slots, its slot; any other frame is followed on the   *)
(* socket by a descriptor.  Geometry and pixels are left out.              *)
(***************************************************************************)
EXTENDS Naturals, Sequences, FiniteSets

CONSTANTS
    Slots,          \* slots of a dmabuf stream
    Connector,      \* whether the source names a connector, whose position is looked up
    MaxStreams,     \* bound: streams started,
    MaxFrames,      \* frames written per stream,
    WireCap,        \* and messages of streams unread on the socket
    NoSlot

ASSUME StreamAssumption ==
    /\ NoSlot \notin Slots
    /\ Connector \in BOOLEAN
    /\ {MaxStreams, MaxFrames, WireCap} \subseteq Nat

VARIABLES
    pc,             \* where the cast thread is
    current,        \* Transport::stream_id
    held,           \* slots of the current stream between delivery and release
    misread,        \* history: those whose frame Lookup took for its answer
    pending,        \* Client::pending
    ended,          \* why the cast ended
    requests,       \* the socket towards the compositor
    wire,           \* and from it
    lane,           \* the compositor: the stream with a delivery lane,
    slotted,        \* whether it has slots,
    free,           \* those it may render into,
    frozen,         \* whether it waits for a restart,
    starting,       \* a start whose reply is yet to be written
    streams, frames \* bounds

client == <<pc, current, held, misread, pending, ended>>
compositor == <<lane, slotted, free, frozen, starting, streams, frames>>
vars == <<client, requests, wire, compositor>>

Stream == 1..MaxStreams
Reasons == {"stopped", "compositor", "refused", "read failed"}

Request ==
    [type : {"Start", "Enumerate", "Renew"}]
    \cup [type : {"Stop"}, stream : Stream]
    \cup [type : {"Release"}, stream : Stream, slot : Slots]

Event ==
    [type : {"Frame"}, stream : Stream, slot : Slots \cup {NoSlot}]
    \cup [type : {"Ended", "Geometry"}, stream : Stream]
    \cup {[type |-> "Renewed"]}

Message ==
    Event
    \cup [type : {"Descriptor", "Outputs", "Released", "Error"}]
    \cup [type : {"Started"}, stream : Stream]
    \cup [type : {"Stopped"}, stream : Stream]

(* The cast thread has connected and sent StreamOutputStart. *)
Init ==
    /\ pc = "start" /\ current = 0 /\ held = {} /\ misread = {} /\ pending = <<>> /\ ended = "no"
    /\ requests = <<[type |-> "Start"]>>
    /\ wire = <<>>
    /\ lane = 0 /\ slotted = FALSE /\ free = {} /\ frozen = FALSE /\ starting = FALSE
    /\ streams = 0 /\ frames = 0

-----------------------------------------------------------------------------
(* The compositor.                                                         *)

Serving(type) == requests # <<>> /\ ~starting /\ Head(requests).type = type

Write(m) == wire' = Append(wire, m)

(* The lane is registered before the reply is written. *)
ServeStart ==
    /\ Serving("Start")
    /\ requests' = Tail(requests)
    /\ \/ /\ streams < MaxStreams
          /\ streams' = streams + 1
          /\ lane' = streams + 1
          /\ slotted' \in BOOLEAN
          /\ free' = IF slotted' THEN Slots ELSE {}
          /\ frozen' = FALSE /\ starting' = TRUE /\ frames' = 0
          /\ UNCHANGED wire
       \/ /\ Write([type |-> "Error"])
          /\ UNCHANGED compositor
    /\ UNCHANGED client

ReplyStarted ==
    /\ starting
    /\ starting' = FALSE
    /\ Write([type |-> "Started", stream |-> streams])
    /\ UNCHANGED <<client, requests, lane, slotted, free, frozen, streams, frames>>

ServeStop ==
    /\ Serving("Stop")
    /\ requests' = Tail(requests)
    /\ lane' = IF lane = Head(requests).stream THEN 0 ELSE lane
    /\ Write([type |-> "Stopped", stream |-> Head(requests).stream])
    /\ UNCHANGED <<client, slotted, free, frozen, starting, streams, frames>>

ServeRelease ==
    /\ Serving("Release")
    /\ requests' = Tail(requests)
    /\ free' = IF lane = Head(requests).stream THEN free \cup {Head(requests).slot} ELSE free
    /\ Write([type |-> "Released"])
    /\ UNCHANGED <<client, lane, slotted, frozen, starting, streams, frames>>

ServeOther ==
    /\ \/ Serving("Enumerate") /\ (Write([type |-> "Outputs"]) \/ Write([type |-> "Error"]))
       \/ Serving("Renew") /\ Write([type |-> "Renewed"])
    /\ requests' = Tail(requests)
    /\ UNCHANGED <<client, compositor>>

Unread == Len(SelectSeq(wire, LAMBDA m : m.type \in {"Frame", "Ended", "Geometry"}))

PushFrame ==
    /\ lane # 0 /\ ~frozen
    /\ frames < MaxFrames /\ Unread < WireCap
    /\ frames' = frames + 1
    /\ \/ /\ slotted
          /\ \E s \in free :
                /\ free' = free \ {s}
                /\ Write([type |-> "Frame", stream |-> lane, slot |-> s])
       \/ /\ ~slotted
          /\ wire' = wire \o <<[type |-> "Frame", stream |-> lane, slot |-> NoSlot],
                               [type |-> "Descriptor"]>>
          /\ UNCHANGED free
    /\ UNCHANGED <<client, requests, lane, slotted, frozen, starting, streams>>

(* No further frames until the stream is restarted. *)
ChangeGeometry ==
    /\ lane # 0 /\ ~frozen
    /\ streams < MaxStreams
    /\ frozen' = TRUE
    /\ Write([type |-> "Geometry", stream |-> lane])
    /\ UNCHANGED <<client, requests, lane, slotted, free, starting, streams, frames>>

EndStream ==
    /\ lane # 0
    /\ lane' = 0
    /\ Write([type |-> "Ended", stream |-> lane])
    /\ UNCHANGED <<client, requests, slotted, free, frozen, starting, streams, frames>>

-----------------------------------------------------------------------------
(* The client.                                                             *)

Send(r) == requests' = Append(requests, r)

(* end_cast, and the returns of run_cast that report a failed start. *)
End(why) == pc' = "ended" /\ ended' = why

(* read_msg takes a message; stream_message takes the descriptor behind a  *)
(* frame as well.                                                          *)
AfterHeader == Tail(wire)
AfterMessage ==
    IF Head(wire).type = "Frame" /\ Head(wire).slot = NoSlot THEN Tail(Tail(wire)) ELSE Tail(wire)

IsEvent(m) == m.type \in {"Frame", "Ended", "Geometry", "Renewed"}

(* stream_message fails on an error, and on what is no message. *)
Unreadable(m) == m.type \in {"Error", "Descriptor"}
Failure(m) == IF m.type = "Error" THEN "refused" ELSE "read failed"

(* Mutant: what precedes a reply is discarded. *)
DiscardUntilReply(reply) ==
    /\ wire # <<>>
    /\ Head(wire).type # reply
    /\ \/ /\ Unreadable(Head(wire))
          /\ End(Failure(Head(wire)))
          /\ UNCHANGED pending
       \/ /\ ~Unreadable(Head(wire))
          /\ UNCHANGED <<pending, pc, ended>>
    /\ wire' = AfterMessage
    /\ UNCHANGED <<current, held, misread, requests, compositor>>

(* start_output_stream and stop_output_stream, until the reply: stream     *)
(* events are buffered, and other replies skipped.                         *)
BufferUntilReply(reply) ==
    /\ wire # <<>>
    /\ Head(wire).type # reply
    /\ \/ /\ Unreadable(Head(wire))
          /\ End(Failure(Head(wire)))
          /\ UNCHANGED pending
       \/ /\ ~Unreadable(Head(wire))
          /\ pending' = IF IsEvent(Head(wire)) THEN Append(pending, Head(wire)) ELSE pending
          /\ UNCHANGED <<pc, ended>>
    /\ wire' = AfterMessage
    /\ UNCHANGED <<current, held, misread, requests, compositor>>

ReplyIs(reply) == wire # <<>> /\ Head(wire).type = reply

(* run_cast: the first stream, and the lookup of the connector's position. *)
Start ==
    /\ pc = "start"
    /\ \/ BufferUntilReply("Started")
       \/ /\ ReplyIs("Started")
          /\ current' = Head(wire).stream
          /\ wire' = AfterMessage
          /\ IF Connector THEN pc' = "lookup" /\ Send([type |-> "Enumerate"])
                          ELSE pc' = "loop" /\ UNCHANGED requests
          /\ UNCHANGED <<held, misread, pending, ended, compositor>>

(* enumerate_outputs takes the next message for its reply; a failed lookup *)
(* is ignored.                                                             *)
Lookup ==
    /\ pc = "lookup"
    /\ wire # <<>>
    /\ wire' = AfterHeader
    /\ pc' = "loop"
    /\ misread' = {s \in Slots : Head(wire) = [type |-> "Frame", stream |-> current, slot |-> s]}
    /\ UNCHANGED <<current, held, pending, ended, requests, compositor>>

(* The IPC source: one stream event. *)
Deliver(m) ==
    \/ /\ m.type = "Frame"
       /\ held' = IF m.stream = current /\ m.slot # NoSlot THEN held \cup {m.slot} ELSE held
       /\ pc' = "loop"
       /\ UNCHANGED <<ended, requests>>
    \/ /\ m.type = "Geometry"
       /\ IF m.stream = current
          THEN pc' = "stop" /\ Send([type |-> "Stop", stream |-> current])
          ELSE pc' = "loop" /\ UNCHANGED requests
       /\ UNCHANGED <<held, ended>>
    \/ /\ m.type = "Renewed"
       /\ pc' = "loop"
       /\ UNCHANGED <<held, ended, requests>>
    \/ /\ m.type = "Ended"
       /\ End("compositor")
       /\ UNCHANGED <<held, requests>>

(* next_stream_message, called when the socket is readable: a buffered     *)
(* event first.                                                            *)
NextPending ==
    /\ pc = "loop" /\ wire # <<>>
    /\ pending # <<>>
    /\ pending' = Tail(pending)
    /\ Deliver(Head(pending))
    /\ UNCHANGED <<current, misread, wire, compositor>>

(* Otherwise it reads until there is an event, and skips replies. *)
NextMessage ==
    /\ \/ pc = "loop" /\ pending = <<>>
       \/ pc = "next"
    /\ wire # <<>>
    /\ \/ /\ IsEvent(Head(wire))
          /\ Deliver(Head(wire))
       \/ /\ Unreadable(Head(wire))
          /\ End(Failure(Head(wire)))
          /\ UNCHANGED <<held, requests>>
       \/ /\ ~IsEvent(Head(wire)) /\ ~Unreadable(Head(wire))
          /\ pc' = "next"
          /\ UNCHANGED <<held, ended, requests>>
    /\ wire' = AfterMessage
    /\ UNCHANGED <<current, misread, pending, compositor>>

(* A read that gets nothing for IPC_TIMEOUT fails.  The compositor answers *)
(* in time: this happens only when there is nothing to be answered.        *)
ReadTimeout ==
    /\ pc = "next"
    /\ wire = <<>> /\ requests = <<>> /\ ~starting
    /\ End("read failed")
    /\ UNCHANGED <<current, held, misread, pending, requests, wire, compositor>>

(* publish, reclaim, replace_latest: a slot goes back. *)
Release ==
    /\ pc = "loop"
    /\ \E s \in held :
          /\ held' = held \ {s}
          /\ Send([type |-> "Release", stream |-> current, slot |-> s])
    /\ UNCHANGED <<pc, current, misread, pending, ended, wire, compositor>>

(* sync_transport: the consumer fixated a format of the other transport. *)
SyncTransport ==
    /\ pc = "loop"
    /\ streams < MaxStreams
    /\ pc' = "stop"
    /\ Send([type |-> "Stop", stream |-> current])
    /\ UNCHANGED <<current, held, misread, pending, ended, wire, compositor>>

StopForRestart ==
    /\ pc = "stop"
    /\ \/ BufferUntilReply("Stopped")
       \/ /\ ReplyIs("Stopped")
          /\ wire' = AfterMessage
          /\ IF Head(wire).stream = current
             THEN pc' = "restart" /\ Send([type |-> "Start"]) /\ UNCHANGED ended
             ELSE End("read failed") /\ UNCHANGED requests
          /\ UNCHANGED <<current, held, misread, pending, compositor>>

(* swap_restarted: the slots of the superseded stream died with it. *)
Restart ==
    /\ pc = "restart"
    /\ \/ BufferUntilReply("Started")
       \/ /\ ReplyIs("Started")
          /\ current' = Head(wire).stream
          /\ wire' = AfterMessage
          /\ held' = {} /\ misread' = {}
          /\ pc' = "loop"
          /\ UNCHANGED <<pending, ended, requests, compositor>>

(* Mutant: the timer is not armed. *)
RenewNever ==
    /\ FALSE
    /\ UNCHANGED vars

(* The lease timer: every half of the lease's life, which is long after    *)
(* the last renewal was answered.                                          *)
RenewLease ==
    /\ pc = "loop"
    /\ \A i \in DOMAIN requests : requests[i].type # "Renew"
    /\ \A i \in DOMAIN wire : wire[i].type # "Renewed"
    /\ Send([type |-> "Renew"])
    /\ UNCHANGED <<client, wire, compositor>>

(* The stop socket. *)
Stop ==
    /\ pc = "loop"
    /\ End("stopped")
    /\ UNCHANGED <<current, held, misread, pending, requests, wire, compositor>>

-----------------------------------------------------------------------------
Serve == ServeStart \/ ReplyStarted \/ ServeStop \/ ServeRelease \/ ServeOther
Push == PushFrame \/ ChangeGeometry \/ EndStream

Read ==
    \/ Start \/ Lookup \/ StopForRestart \/ Restart
    \/ NextPending \/ NextMessage \/ ReadTimeout

Next == Serve \/ Push \/ Read \/ Release \/ SyncTransport \/ RenewLease \/ Stop

Spec == Init /\ [][Next]_vars

(* The compositor answers, the loop dispatches a readable socket, and the  *)
(* timer fires: also when the loop always has something else to do.        *)
FairSpec ==
    /\ Spec
    /\ WF_vars(Serve) /\ WF_vars(Read) /\ SF_vars(RenewLease)

-----------------------------------------------------------------------------
InLoop == pc \in {"loop", "next"} /\ lane = current

Occupied(s) ==
    LET Frame(m) == m.type = "Frame" /\ m.stream = current /\ m.slot = s
    IN Cardinality({i \in DOMAIN wire : Frame(wire[i])})
       + Cardinality({i \in DOMAIN pending : Frame(pending[i])})
       + Cardinality({i \in DOMAIN requests :
                         /\ requests[i].type = "Release"
                         /\ requests[i].stream = current /\ requests[i].slot = s})
       + Cardinality({s} \cap held)
       + Cardinality({s} \cap free)

(* A slot of the live stream is in one place: with the compositor, on its  *)
(* way in a frame, set aside because the frame overtook a reply            *)
(* (client.rs:374), with the cast, or on its way back.  One that is        *)
(* nowhere is never rendered into again, one in two places is overwritten  *)
(* while it is shown.  A frame that overtakes the answer to the connector  *)
(* lookup (client.rs:250) is the exception the code has.                   *)
SlotsConserved ==
    InLoop /\ slotted => \A s \in Slots : Occupied(s) = IF s \in misread THEN 0 ELSE 1

(* What was set aside during a restart is handed out in the end, although  *)
(* the socket may stay silent after it and is what the loop waits for: the *)
(* answer to the next lease renewal wakes the loop (cast/mod.rs:637, :767).*)
SetAsideIsDelivered == (pending # <<>>) ~> (pending = <<>> \/ pc = "ended")

(* "The lease timer keeps the scoped connection alive across quiet         *)
(* periods" (cast/mod.rs:622): a cast ends because its owner stops it, or  *)
(* the compositor ends its stream or refuses a request.                    *)
EndsForCause == ended # "read failed"
=============================================================================
