----------------------------- MODULE CastStream -----------------------------
(***************************************************************************)
(* The frame loop of one cast (cast/state.rs, publish.rs, copy.rs and the  *)
(* stream listener of cast/mod.rs): frames of the compositor's stream,     *)
(* slots of its dmabuf ring bound to PipeWire pool buffers, the latest     *)
(* frame, and the restarts of the stream on another transport or geometry. *)
(* All of the portal's steps run on the cast thread's main loop, so each   *)
(* callback is one action; the compositor, PipeWire and the consumer act   *)
(* between any two of them.                                                *)
(*                                                                         *)
(* Left out: pixels, metadata, streams that send a descriptor per dmabuf   *)
(* frame (protocol 24), and failed restarts, which end the cast            *)
(* (ScreenCast has its end and teardown).                                  *)
(***************************************************************************)
EXTENDS Naturals, Sequences, FiniteSets

CONSTANTS
    Slots,          \* dmabuf slots of a stream
    Buffers,        \* PipeWire pool buffers
    WireCap,        \* bound: messages on the compositor's socket
    MaxGen,         \* bound: streams started for this cast
    MaxAdds,        \* bound: buffers added to the pool
    MaxPauses,      \* bound: pauses of the consumer
    None

Frame == [gen : 1..MaxGen, slot : Slots \cup {None}]

ASSUME StreamAssumption ==
    /\ None \notin Slots \cup Buffers \cup Frame
    /\ {WireCap, MaxAdds, MaxPauses} \subseteq Nat /\ MaxGen \in Nat \ {0}

VARIABLES
    gen,            \* Transport: stream_id,
    kind,           \* announced: the modifier of its slots, or sealed memfds,
    offered,        \* offered_modifier,
    optIn,          \* dmabuf: the stream was asked for dmabufs,
    binding,        \* the pool buffer of each slot, and
    inFlight,       \* the slots whose buffer is with the consumer
    latest,         \* the latest frame, and
    pending,        \* whether it is yet to be pushed to PipeWire
    mode,           \* Negotiation: the delivery mode, and
    takesDmabuf,    \* whether consumer_data_types allows it
    stash,          \* unbound buffers dequeued earlier
    buf,            \* PipeWire's pool: where each buffer is
    patch,          \* the memory add_buffer gave it
    streaming,      \* the PipeWire stream is Streaming
    ring,           \* the compositor's ring: slots it may write
    wire,           \* its messages that have not been read
    frozen,         \* it announced a change of geometry and waits
    adds, pauses,   \* bounds
    republished     \* history: a slot frame was marked pending again

transport == <<gen, kind, offered, optIn, binding, inFlight>>
frames == <<latest, pending>>
pool == <<stash, buf, patch>>
negotiation == <<mode, takesDmabuf>>
vars == <<transport, frames, pool, negotiation, streaming, ring, wire, frozen,
          adds, pauses, republished>>

(* Slots of the linear modifier can be memory-mapped, tiled ones cannot.   *)
Modifiers == {"linear", "tiled"}

HasSlots == kind # "memfd"

Message == [type : {"frame"}, frame : Frame] \cup [type : {"geometry"}, gen : 1..MaxGen]

TypeOK ==
    /\ gen \in 1..MaxGen
    /\ kind \in Modifiers \cup {"memfd"}
    /\ offered \in Modifiers \cup {None}
    /\ optIn \in BOOLEAN
    /\ binding \in [Slots -> Buffers \cup {None}]
    /\ inFlight \subseteq Slots
    /\ latest \in Frame \cup {None}
    /\ pending \in BOOLEAN
    /\ mode \in {"Shm", "Dmabuf"}
    /\ takesDmabuf \in BOOLEAN
    /\ stash \subseteq Buffers
    /\ buf \in [Buffers -> {"absent", "free", "held", "queued"}]
    /\ patch \in [Buffers -> Frame \cup {None}]
    /\ streaming \in BOOLEAN
    /\ ring \subseteq Slots
    /\ wire \in Seq(Message) /\ Len(wire) <= WireCap
    /\ frozen \in BOOLEAN
    /\ adds \in 0..MaxAdds
    /\ pauses \in 0..MaxPauses

Unbound == [s \in Slots |-> None]

(* The modifier offered to the consumer is that of the stream's slots.     *)
Offer(to) == IF to \in Modifiers THEN to ELSE None

Init ==
    /\ gen = 1
    /\ kind \in Modifiers \cup {"memfd"}
    /\ offered = Offer(kind)
    /\ optIn = TRUE
    /\ binding = Unbound
    /\ inFlight = {}
    /\ latest = None
    /\ pending = FALSE
    /\ mode = "Shm"
    /\ takesDmabuf = TRUE
    /\ stash = {}
    /\ buf = [b \in Buffers |-> "absent"]
    /\ patch = [b \in Buffers |-> None]
    /\ streaming = FALSE
    /\ ring = Slots
    /\ wire = <<>>
    /\ frozen = FALSE
    /\ adds = 0
    /\ pauses = 0
    /\ republished = FALSE

-----------------------------------------------------------------------------
(* The compositor.                                                         *)

SendFrame(slot) ==
    /\ ~frozen
    /\ Len(wire) < WireCap
    /\ IF HasSlots THEN slot \in ring ELSE slot = None
    /\ wire' = Append(wire, [type |-> "frame", frame |-> [gen |-> gen, slot |-> slot]])
    /\ ring' = ring \ {slot}
    /\ UNCHANGED <<transport, frames, pool, negotiation, streaming, frozen, adds,
                   pauses, republished>>

SendGeometry ==
    /\ ~frozen
    /\ gen < MaxGen
    /\ Len(wire) < WireCap
    /\ wire' = Append(wire, [type |-> "geometry", gen |-> gen])
    /\ frozen' = TRUE
    /\ UNCHANGED <<transport, frames, pool, negotiation, streaming, ring, adds,
                   pauses, republished>>

-----------------------------------------------------------------------------
(* The IPC source.                                                         *)

(* Mutant: the frame of the old stream is kept across a switch. *)
SwapKeepsFrame(to) ==
    /\ gen' = gen + 1
    /\ kind' = to
    /\ binding' = Unbound
    /\ inFlight' = {}
    /\ ring' = Slots
    /\ frozen' = FALSE
    /\ UNCHANGED frames

(* swap_restarted: the whole transport is replaced and the frame cleared.  *)
(* Slots of the old stream die with it, so nothing is released.            *)
Swap(to) ==
    /\ gen' = gen + 1
    /\ kind' = to
    /\ binding' = Unbound
    /\ inFlight' = {}
    /\ latest' = None
    /\ pending' = FALSE
    /\ ring' = Slots
    /\ frozen' = FALSE

(* Mutant: every superseded frame is released, whatever its payload. *)
ReplaceReleasesAny(frame) ==
    /\ latest' = frame
    /\ pending' = TRUE
    /\ ring' = IF pending /\ latest # None THEN ring \cup {latest.slot} ELSE ring

(* replace_latest: a frame that was never published gives its slot back.   *)
Replace(frame) ==
    /\ latest' = frame
    /\ pending' = TRUE
    /\ ring' = IF pending /\ latest # None /\ HasSlots
               THEN ring \cup ({latest.slot} \ {None}) ELSE ring

(* restart_stream_geometry: same opt-in, and the offer follows the stream. *)
RestartStreamGeometry ==
    \E to \in IF optIn THEN Modifiers \cup {"memfd"} ELSE {"memfd"} :
        Swap(to) /\ offered' = Offer(to) /\ UNCHANGED optIn

(* A frame or a geometry change of a superseded stream is ignored.         *)
Receive ==
    /\ wire # <<>>
    /\ wire' = Tail(wire)
    /\ LET msg == Head(wire)
       IN \/ /\ msg.type = "frame"
             /\ msg.frame.gen = gen
             /\ Replace(msg.frame)
             /\ UNCHANGED <<transport, frozen>>
          \/ /\ msg.type = "geometry"
             /\ msg.gen = gen
             /\ RestartStreamGeometry
          \/ /\ \/ msg.type = "frame" /\ msg.frame.gen # gen
                \/ msg.type = "geometry" /\ msg.gen # gen
             /\ UNCHANGED <<transport, frames, ring, frozen>>
    /\ UNCHANGED <<pool, negotiation, streaming, adds, pauses, republished>>

-----------------------------------------------------------------------------
(* Format and buffers.                                                     *)

(* param_changed(Format): sync_transport restarts the stream when it       *)
(* cannot serve the fixated format, then the delivery mode follows.        *)
Fixate(modifier) ==
    LET want == modifier # None /\ modifier = offered
        needs == IF want THEN ~HasSlots ELSE kind = "tiled"
    IN /\ \/ /\ needs
             /\ gen < MaxGen
             /\ \E to \in IF want THEN Modifiers \cup {"memfd"} ELSE {"memfd"} : Swap(to)
             /\ optIn' = want
          \/ /\ ~needs
             /\ UNCHANGED <<gen, kind, optIn, binding, inFlight, frames, ring, frozen>>
       /\ mode' = IF kind' = modifier THEN "Dmabuf" ELSE "Shm"
       /\ UNCHANGED <<offered, takesDmabuf, pool, streaming, wire, adds, pauses,
                      republished>>

(* param_changed(Buffers): the peer's data types. *)
AcceptTypes(dmabuf) ==
    /\ takesDmabuf' = dmabuf
    /\ UNCHANGED <<transport, frames, pool, mode, streaming, ring, wire, frozen, adds,
                   pauses, republished>>

Forwarding == mode = "Dmabuf" /\ takesDmabuf

(* Slot tables of a stream without slots are empty. *)
Bindable == IF HasSlots THEN {s \in Slots : binding[s] = None} ELSE {}

(* add_buffer: onto the next unbound slot, or onto memory of the portal's. *)
AddBuffer(b) ==
    /\ buf[b] = "absent"
    /\ adds < MaxAdds
    /\ adds' = adds + 1
    /\ buf' = [buf EXCEPT ![b] = "free"]
    /\ \/ /\ Forwarding
          /\ \E s \in Bindable :
                /\ binding' = [binding EXCEPT ![s] = b]
                /\ patch' = [patch EXCEPT ![b] = [gen |-> gen, slot |-> s]]
       \/ /\ ~Forwarding \/ Bindable = {}
          /\ patch' = [patch EXCEPT ![b] = [gen |-> gen, slot |-> None]]
          /\ UNCHANGED binding
    /\ UNCHANGED <<gen, kind, offered, optIn, inFlight, frames, negotiation, stash, streaming,
                   ring, wire, frozen, pauses, republished>>

(* remove_buffer: out of the stash, its slot unbound, and released if the  *)
(* consumer abandoned it.                                                  *)
RemoveBuffer(b) ==
    /\ buf[b] # "absent"
    /\ buf' = [buf EXCEPT ![b] = "absent"]
    /\ patch' = [patch EXCEPT ![b] = None]
    /\ stash' = stash \ {b}
    /\ LET bound == {s \in Slots : binding[s] = b}
       IN /\ binding' = [s \in Slots |-> IF s \in bound THEN None ELSE binding[s]]
          /\ inFlight' = inFlight \ bound
          /\ ring' = ring \cup (inFlight \cap bound)
    /\ UNCHANGED <<gen, kind, offered, optIn, frames, negotiation, streaming, wire,
                   frozen, adds, pauses, republished>>

-----------------------------------------------------------------------------
(* The process callback.                                                   *)

Free == {b \in Buffers : buf[b] = "free"}
Bound == {binding[s] : s \in Slots} \ {None}

(* reclaim_returned_buffers: slots whose buffer came back are released,    *)
(* unbound buffers join the stash.                                         *)
Returned == {s \in inFlight : binding[s] \in Free}
Stashed == stash \cup (Free \ Bound)

(* A buffer of the stash can take a copy if its memory is the portal's.    *)
Fits(b) == patch[b].slot = None

(* The pool after reclaiming, with the buffers of q queued. *)
Queue(q) ==
    /\ buf' = [b \in Buffers |-> IF b \in q THEN "queued"
                                 ELSE IF b \in Free THEN "held" ELSE buf[b]]
    /\ stash' = Stashed \ q

(* copy_into_pool: queued, or no buffer is free, or the frame is dropped   *)
(* because it cannot be mapped or the buffer cannot hold it.               *)
Copied(q) == q = {} \/ \E b \in Stashed : Fits(b) /\ q = {b}

(* Nothing is pending: the buffers are reclaimed all the same. *)
ProcessIdle ==
    /\ ~pending \/ latest = None
    /\ Queue({})
    /\ inFlight' = inFlight \ Returned
    /\ ring' = ring \cup Returned
    /\ pending' = FALSE

(* A memfd frame that finds the pool empty stays pending.                  *)
ProcessDescriptor ==
    /\ pending /\ latest # None /\ latest.slot = None
    /\ \E q \in SUBSET Stashed : Copied(q) /\ Queue(q)
    /\ inFlight' = inFlight \ Returned
    /\ ring' = ring \cup Returned
    /\ pending' \in {FALSE, Stashed = {}}

(* Mutant: a slot whose pixels were copied is not released. *)
PublishSlotKeeps(s) ==
    /\ pending' = FALSE
    /\ \/ /\ s \in inFlight \ Returned
          /\ Queue({})
          /\ inFlight' = inFlight \ Returned
          /\ ring' = ring \cup Returned
       \/ /\ s \notin inFlight \ Returned
          /\ Forwarding /\ binding[s] # None
          /\ Queue({binding[s]})
          /\ inFlight' = (inFlight \ Returned) \cup {s}
          /\ ring' = ring \cup Returned
       \/ /\ s \notin inFlight \ Returned
          /\ ~(Forwarding /\ binding[s] # None)
          /\ \E q \in SUBSET Stashed : Copied(q) /\ Queue(q)
          /\ inFlight' = inFlight \ Returned
          /\ ring' = ring \cup Returned

(* Mutant: the slot of a queued buffer is released at once, too. *)
PublishSlotReleasesAlways(s) ==
    /\ pending' = FALSE
    /\ \/ /\ s \in inFlight \ Returned
          /\ Queue({})
          /\ inFlight' = inFlight \ Returned
          /\ ring' = ring \cup Returned
       \/ /\ s \notin inFlight \ Returned
          /\ Forwarding /\ binding[s] # None
          /\ Queue({binding[s]})
          /\ inFlight' = (inFlight \ Returned) \cup {s}
          /\ ring' = ring \cup Returned \cup {s}
       \/ /\ s \notin inFlight \ Returned
          /\ ~(Forwarding /\ binding[s] # None)
          /\ \E q \in SUBSET Stashed : Copied(q) /\ Queue(q)
          /\ inFlight' = inFlight \ Returned
          /\ ring' = ring \cup Returned \cup {s}

(* publish_slot: dropped when the slot is still with the consumer, queued  *)
(* as the buffer bound to it, or copied and released at once; pixels that  *)
(* cannot be mapped are dropped and released.                              *)
PublishSlot(s) ==
    /\ pending' = FALSE
    /\ \/ /\ s \in inFlight \ Returned
          /\ Queue({})
          /\ inFlight' = inFlight \ Returned
          /\ ring' = ring \cup Returned
       \/ /\ s \notin inFlight \ Returned
          /\ Forwarding /\ binding[s] # None
          /\ Queue({binding[s]})
          /\ inFlight' = (inFlight \ Returned) \cup {s}
          /\ ring' = ring \cup Returned
       \/ /\ s \notin inFlight \ Returned
          /\ ~(Forwarding /\ binding[s] # None)
          /\ \E q \in SUBSET Stashed : Copied(q) /\ (kind = "linear" \/ q = {}) /\ Queue(q)
          /\ inFlight' = inFlight \ Returned
          /\ ring' = ring \cup Returned \cup {s}

ProcessSlot ==
    /\ pending /\ latest # None /\ latest.slot # None
    /\ PublishSlot(latest.slot)

Process ==
    /\ ProcessIdle \/ ProcessDescriptor \/ ProcessSlot
    /\ UNCHANGED <<gen, kind, offered, optIn, binding, latest, patch, negotiation,
                   streaming, wire, frozen, adds, pauses, republished>>

(* Mutant: the timer looks at the pending frame only. *)
NeedsCyclePending == pending

(* A cycle is triggered by the arrival of a frame, by Streaming, and by    *)
(* the keepalive timer while a frame is pending or a slot is in flight.    *)
NeedsCycle == pending \/ inFlight # {}

Cycle == streaming /\ NeedsCycle /\ Process

-----------------------------------------------------------------------------
(* PipeWire and the consumer.                                              *)

Return(b) ==
    /\ buf[b] = "queued"
    /\ buf' = [buf EXCEPT ![b] = "free"]
    /\ UNCHANGED <<transport, frames, negotiation, stash, patch, streaming, ring, wire,
                   frozen, adds, pauses, republished>>

(* A pause flushes queued buffers back. *)
Pause ==
    /\ streaming
    /\ pauses < MaxPauses
    /\ pauses' = pauses + 1
    /\ streaming' = FALSE
    /\ buf' = [b \in Buffers |-> IF buf[b] = "queued" THEN "free" ELSE buf[b]]
    /\ UNCHANGED <<transport, frames, negotiation, stash, patch, ring, wire, frozen,
                   adds, republished>>

(* state_changed(Streaming): the latest frame is republished. *)
Stream ==
    /\ ~streaming
    /\ streaming' = TRUE
    /\ pending' = (pending \/ latest # None)
    /\ republished' = \/ republished
                      \/ ~pending /\ latest # None /\ latest.slot # None
    /\ UNCHANGED <<transport, latest, pool, negotiation, ring, wire, frozen, adds, pauses>>

-----------------------------------------------------------------------------
Compositor == SendGeometry \/ \E slot \in Slots \cup {None} : SendFrame(slot)

PipeWire ==
    \/ \E modifier \in Modifiers \cup {None} : Fixate(modifier)
    \/ \E dmabuf \in BOOLEAN : AcceptTypes(dmabuf)
    \/ \E b \in Buffers : AddBuffer(b) \/ RemoveBuffer(b) \/ Return(b)
    \/ Pause
    \/ Stream

Next == Compositor \/ Receive \/ Cycle \/ PipeWire

Spec == Init /\ [][Next]_vars

(* The cast thread's main loop serves its timer. *)
FairSpec == Spec /\ WF_vars(Cycle)

-----------------------------------------------------------------------------
(* state.rs:57: "The slot's buffer is with the consumer; the compositor    *)
(* must not reuse the slot until the release goes out".                    *)
InFlightReserved == inFlight \cap ring = {}

(* Unless a resumed cast marked a published slot frame pending again, a    *)
(* slot the compositor may write is neither with the consumer nor waiting  *)
(* to be published: of all the paths that release a slot only the          *)
(* republication of mod.rs:429 gives it to two parties.                    *)
ExclusiveUnlessRepublished ==
    republished \/ /\ InFlightReserved
                   /\ \A s \in ring : ~(pending /\ latest # None /\ latest.slot = s)

(* state.rs:255: a slot without a release path would shrink the ring for   *)
(* good: a slot the compositor has handed out is on the wire, waits to be  *)
(* published, or is with the consumer.                                     *)
NoSlotLost ==
    HasSlots =>
        \A s \in Slots \ ring :
            \/ s \in inFlight
            \/ pending /\ latest # None /\ latest.slot = s
            \/ \E i \in DOMAIN wire :
                  /\ wire[i].type = "frame"
                  /\ wire[i].frame = [gen |-> gen, slot |-> s]

(* state.rs:418: "Frames of the superseded stream must never be            *)
(* published", neither as the latest frame nor through a pool buffer that  *)
(* still shows the descriptor of another slot or another stream.           *)
NothingStale ==
    /\ latest # None => latest.gen = gen
    /\ \A s \in Slots : binding[s] # None =>
          patch[binding[s]] = [gen |-> gen, slot |-> s]

(* A slot whose buffer came back is released, on a static screen too       *)
(* (mod.rs:784 "in-flight slot buffers needing reclaim upon consumer       *)
(* return"), unless the stream does not run.                               *)
ReturnedIsReleased ==
    \A s \in Slots : s \in Returned ~> (s \notin Returned \/ ~streaming)
=============================================================================
