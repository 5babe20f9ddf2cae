--------------------------- MODULE CastStreamProofs ---------------------------
(***************************************************************************)
(* Proofs about CastStream, for any slots, buffers and bounds: nothing of  *)
(* a superseded stream is shown, no slot is given to two parties unless a  *)
(* resumed cast republished one, and no slot is lost.                      *)
(*                                                                         *)
(* The argument is that of a token: a slot is in the compositor's ring, on *)
(* the wire, waiting to be published or with the consumer.  That it is in  *)
(* at least one of these places is NoSlotLost; that it is in at most one   *)
(* is Exclusive, which holds up to the first republication.  Both need     *)
(* what a message on the wire may say, as frames of an old stream are      *)
(* still read after the new one has begun.                                 *)
(***************************************************************************)
EXTENDS CastStream, TLAPS

USE StreamAssumption

Carries(i, s) == wire[i].type = "frame" /\ wire[i].frame = [gen |-> gen, slot |-> s]
OnWire(s) == \E i \in DOMAIN wire : Carries(i, s)
Waiting(s) == pending /\ latest # None /\ latest.slot = s

(* Bound buffers are in the pool. *)
BuffersLive == \A s \in Slots : binding[s] # None => buf[binding[s]] # "absent"

(* Messages are of this stream or an older one, a geometry is announced    *)
(* only where a restart is within the bound, and frames of a stream that   *)
(* announced slots, and only those, have one.                              *)
Sensible(m) ==
    /\ m.type = "frame" => /\ m.frame.gen <= gen
                           /\ m.frame.gen = gen => (m.frame.slot # None <=> HasSlots)
    /\ m.type = "geometry" => m.gen < MaxGen

Messages == \A i \in DOMAIN wire : Sensible(wire[i])

LatestSlot == latest # None => (latest.slot # None <=> HasSlots)

(* Nobody has what another has. *)
Exclusive ==
    /\ InFlightReserved
    /\ \A s \in Slots : Waiting(s) => s \notin ring /\ s \notin inFlight
    /\ \A i \in DOMAIN wire, s \in Slots : Carries(i, s) =>
          /\ s \notin ring /\ s \notin inFlight /\ ~Waiting(s)
          /\ \A j \in DOMAIN wire : Carries(j, s) => j = i

(* Somebody has it. *)
Conserved == HasSlots => \A s \in Slots : s \in ring \/ s \in inFlight \/ Waiting(s) \/ OnWire(s)

Inv ==
    /\ TypeOK
    /\ BuffersLive
    /\ NothingStale
    /\ Messages
    /\ LatestSlot
    /\ republished \/ Exclusive
    /\ Conserved

LEMMA InitInv == Init => Inv
<1>. SUFFICES ASSUME Init PROVE Inv
  OBVIOUS
<1>. USE DEF Init
<1>1. TypeOK
  <2>1. /\ gen \in 1..MaxGen /\ offered \in Modifiers \cup {None}
        /\ adds \in 0..MaxAdds /\ pauses \in 0..MaxPauses
    BY DEF Offer
  <2>2. wire \in Seq(Message) /\ Len(wire) <= WireCap
    OBVIOUS
  <2>3. /\ binding \in [Slots -> Buffers \cup {None}]
        /\ buf \in [Buffers -> {"absent", "free", "held", "queued"}]
        /\ patch \in [Buffers -> Frame \cup {None}]
    BY DEF Unbound
  <2>. QED  BY <2>1, <2>2, <2>3 DEF TypeOK
<1>2. BuffersLive /\ NothingStale /\ LatestSlot
  BY DEF BuffersLive, NothingStale, LatestSlot, Unbound
<1>3. Messages
  BY DEF Messages
<1>4. Exclusive /\ Conserved
  BY DEF Exclusive, InFlightReserved, Waiting, Conserved
<1>. QED  BY <1>1, <1>2, <1>3, <1>4 DEF Inv

-----------------------------------------------------------------------------
(* The wire.                                                               *)

LEMMA Appended ==
    ASSUME TypeOK, NEW m, wire' = Append(wire, m)
    PROVE  /\ DOMAIN wire' = DOMAIN wire \cup {Len(wire) + 1} /\ Len(wire) + 1 \notin DOMAIN wire
           /\ \A i \in DOMAIN wire : wire'[i] = wire[i]
           /\ wire'[Len(wire) + 1] = m
<1>1. wire \in Seq(Message) /\ DOMAIN wire = 1..Len(wire) /\ Len(wire) \in Nat
  BY DEF TypeOK
<1>. QED  BY <1>1

LEMMA Read ==
    ASSUME TypeOK, wire # <<>>, wire' = Tail(wire)
    PROVE  /\ 1 \in DOMAIN wire /\ Head(wire) = wire[1]
           /\ \A i \in DOMAIN wire' : i + 1 \in DOMAIN wire /\ wire'[i] = wire[i + 1] /\ i \in Nat \ {0}
           /\ \A i \in DOMAIN wire : i # 1 => i - 1 \in DOMAIN wire' /\ wire'[i - 1] = wire[i]
<1>1. wire \in Seq(Message) /\ DOMAIN wire = 1..Len(wire) /\ Len(wire) \in Nat \ {0}
  BY DEF TypeOK
<1>2. DOMAIN wire' = 1..(Len(wire) - 1) /\ \A i \in 1..(Len(wire) - 1) : wire'[i] = wire[i + 1]
  BY <1>1
<1>. QED  BY <1>1, <1>2

LEMMA SendFrameInv ==
    ASSUME Inv, NEW slot \in Slots \cup {None}, SendFrame(slot)
    PROVE  Inv'
<1>. DEFINE m == [type |-> "frame", frame |-> [gen |-> gen, slot |-> slot]]
<1>. USE DEF Inv
<1>1. /\ UNCHANGED <<gen, kind, offered, optIn, binding, inFlight, latest, pending, stash, buf,
                     patch, mode, takesDmabuf, streaming, frozen, adds, pauses, republished>>
      /\ wire' = Append(wire, m) /\ ring' = ring \ {slot} /\ Len(wire) < WireCap
      /\ IF HasSlots THEN slot \in ring ELSE slot = None
  BY DEF SendFrame, transport, frames, pool, negotiation
<1>2. /\ DOMAIN wire' = DOMAIN wire \cup {Len(wire) + 1} /\ Len(wire) + 1 \notin DOMAIN wire
      /\ \A i \in DOMAIN wire : wire'[i] = wire[i]
      /\ wire'[Len(wire) + 1] = m
  BY <1>1, Appended
<1>3. m \in Message /\ gen \in Nat
  BY DEF TypeOK, Message, Frame
<1>4. TypeOK'
  <2>1. wire' \in Seq(Message) /\ Len(wire') <= WireCap
    BY <1>1, <1>3 DEF TypeOK
  <2>. QED  BY <1>1, <2>1 DEF TypeOK
<1>5. BuffersLive' /\ NothingStale' /\ LatestSlot'
  BY <1>1 DEF BuffersLive, NothingStale, LatestSlot, HasSlots
<1>6. Messages'
  <2>1. Sensible(m)'
    BY <1>1, <1>3 DEF Sensible, HasSlots, TypeOK
  <2>2. \A i \in DOMAIN wire : Sensible(wire[i])'
    BY <1>1, <1>2 DEF Messages, Sensible, HasSlots
  <2>3. wire'[Len(wire) + 1] = m'
    BY <1>1, <1>2
  <2>. QED  BY <1>2, <2>1, <2>2, <2>3 DEF Messages
<1>7. \A s : Waiting(s)' <=> Waiting(s)
  BY <1>1 DEF Waiting
<1>8. ASSUME NEW s \in Slots
      PROVE  \A i \in DOMAIN wire' : Carries(i, s)' <=> IF i \in DOMAIN wire THEN Carries(i, s) ELSE s = slot
  BY <1>1, <1>2 DEF Carries
<1>9. republished' \/ Exclusive'
  <2>. SUFFICES ASSUME Exclusive PROVE Exclusive'
    BY <1>1
  <2>1. InFlightReserved' /\ \A s \in Slots : Waiting(s)' => s \notin ring' /\ s \notin inFlight'
    BY <1>1, <1>7 DEF Exclusive, InFlightReserved
  <2>2. ASSUME NEW i \in DOMAIN wire', NEW s \in Slots, Carries(i, s)'
        PROVE  /\ s \notin ring' /\ s \notin inFlight' /\ ~Waiting(s)'
               /\ \A j \in DOMAIN wire' : Carries(j, s)' => j = i
    <3>1. CASE i \in DOMAIN wire
      <4>1. /\ Carries(i, s) /\ s \notin ring /\ s # slot
            /\ \A j \in DOMAIN wire : Carries(j, s) => j = i
        BY <1>1, <1>8, <2>2, <3>1 DEF Exclusive
      <4>. QED  BY <1>1, <1>7, <1>8, <3>1, <4>1 DEF Exclusive
    <3>2. CASE i \notin DOMAIN wire
      <4>1. s = slot /\ s \in ring
        BY <1>1, <1>8, <2>2, <3>2
      <4>2. s \notin inFlight /\ ~Waiting(s) /\ \A j \in DOMAIN wire : ~Carries(j, s)
        BY <4>1 DEF Exclusive, InFlightReserved
      <4>. QED  BY <1>1, <1>2, <1>7, <1>8, <2>2, <3>2, <4>1, <4>2
    <3>. QED  BY <3>1, <3>2
  <2>. QED  BY <2>1, <2>2 DEF Exclusive
<1>10. Conserved'
  <2>. SUFFICES ASSUME HasSlots, NEW s \in Slots
                PROVE  s \in ring' \/ s \in inFlight' \/ Waiting(s)' \/ OnWire(s)'
    BY <1>1 DEF Conserved, HasSlots
  <2>1. s = slot => OnWire(s)'
    BY <1>2, <1>8 DEF OnWire
  <2>2. OnWire(s) => OnWire(s)'
    BY <1>2, <1>8 DEF OnWire
  <2>. QED  BY <1>1, <1>7, <2>1, <2>2 DEF Conserved
<1>. QED  BY <1>4, <1>5, <1>6, <1>9, <1>10

LEMMA SendGeometryInv ==
    ASSUME Inv, SendGeometry
    PROVE  Inv'
<1>. DEFINE m == [type |-> "geometry", gen |-> gen]
<1>. USE DEF Inv
<1>1. /\ UNCHANGED <<gen, kind, offered, optIn, binding, inFlight, latest, pending, stash, buf,
                     patch, mode, takesDmabuf, streaming, ring, adds, pauses, republished>>
      /\ wire' = Append(wire, m) /\ frozen' = TRUE /\ gen < MaxGen /\ Len(wire) < WireCap
  BY DEF SendGeometry, transport, frames, pool, negotiation
<1>2. /\ DOMAIN wire' = DOMAIN wire \cup {Len(wire) + 1} /\ Len(wire) + 1 \notin DOMAIN wire
      /\ \A i \in DOMAIN wire : wire'[i] = wire[i]
      /\ wire'[Len(wire) + 1] = m
  BY <1>1, Appended
<1>3. m \in Message /\ gen \in Nat
  BY DEF TypeOK, Message
<1>4. TypeOK'
  <2>1. wire' \in Seq(Message) /\ Len(wire') <= WireCap
    BY <1>1, <1>3 DEF TypeOK
  <2>. QED  BY <1>1, <2>1 DEF TypeOK
<1>5. BuffersLive' /\ NothingStale' /\ LatestSlot'
  BY <1>1 DEF BuffersLive, NothingStale, LatestSlot, HasSlots
<1>6. Messages'
  <2>1. Sensible(m)'
    BY <1>1, <1>3 DEF Sensible
  <2>2. \A i \in DOMAIN wire : Sensible(wire[i])'
    BY <1>1, <1>2 DEF Messages, Sensible, HasSlots
  <2>3. wire'[Len(wire) + 1] = m'
    BY <1>1, <1>2
  <2>. QED  BY <1>2, <2>1, <2>2, <2>3 DEF Messages
<1>7. \A s : Waiting(s)' <=> Waiting(s)
  BY <1>1 DEF Waiting
<1>8. \A s \in Slots, i \in DOMAIN wire' : Carries(i, s)' <=> i \in DOMAIN wire /\ Carries(i, s)
  BY <1>1, <1>2 DEF Carries
<1>9. Exclusive => Exclusive'
  BY <1>1, <1>2, <1>7, <1>8 DEF Exclusive, InFlightReserved
<1>10. Conserved'
  <2>1. \A s \in Slots : OnWire(s) => OnWire(s)'
    BY <1>2, <1>8 DEF OnWire
  <2>. QED  BY <1>1, <1>7, <2>1 DEF Conserved, HasSlots
<1>. QED  BY <1>1, <1>4, <1>5, <1>6, <1>9, <1>10

-----------------------------------------------------------------------------
(* A switch to another stream: nothing is held, and nothing on the wire is *)
(* of the new one.                                                         *)

Remains == \A i \in DOMAIN wire' : \E j \in DOMAIN wire : wire'[i] = wire[j]

LEMMA SwapInv ==
    ASSUME Inv, NEW to \in Modifiers \cup {"memfd"}, Swap(to), gen < MaxGen, Remains,
           wire' \in Seq(Message), Len(wire') <= WireCap,
           offered' \in Modifiers \cup {None}, optIn' \in BOOLEAN, mode' \in {"Shm", "Dmabuf"},
           UNCHANGED <<pool, takesDmabuf, streaming, adds, pauses, republished>>
    PROVE  Inv'
<1>. USE DEF Inv
<1>1. /\ gen' = gen + 1 /\ gen \in 1..MaxGen /\ kind' = to /\ binding' = Unbound /\ inFlight' = {}
      /\ latest' = None /\ pending' = FALSE /\ ring' = Slots /\ frozen' = FALSE
      /\ UNCHANGED <<stash, buf, patch>>
  BY DEF Swap, pool, TypeOK
<1>2. TypeOK'
  <2>1. gen' \in 1..MaxGen /\ binding' \in [Slots -> Buffers \cup {None}]
    BY <1>1 DEF Unbound
  <2>. QED  BY <1>1, <2>1 DEF TypeOK
<1>3. BuffersLive' /\ NothingStale' /\ LatestSlot'
  BY <1>1 DEF BuffersLive, NothingStale, LatestSlot, Unbound
<1>4. \A j \in DOMAIN wire : wire[j] \in Message
  BY DEF TypeOK
<1>5. ASSUME NEW i \in DOMAIN wire'
      PROVE  /\ wire'[i].type = "frame" => wire'[i].frame.gen <= gen
             /\ wire'[i].type = "geometry" => wire'[i].gen < MaxGen
  BY DEF Remains, Messages, Sensible
<1>6. Messages'
  <2>1. ASSUME NEW i \in DOMAIN wire'
        PROVE  Sensible(wire[i])'
    <3>1. wire'[i].type = "frame" => wire'[i].frame.gen \in Nat
      BY <1>4 DEF Remains, Message, Frame
    <3>. QED  BY <1>1, <1>5, <3>1 DEF Sensible
  <2>. QED  BY <2>1 DEF Messages
<1>7. \A i \in DOMAIN wire', s \in Slots : ~Carries(i, s)'
  BY <1>1, <1>5 DEF Carries
<1>8. Exclusive' /\ Conserved'
  BY <1>1, <1>7 DEF Exclusive, InFlightReserved, Conserved, Waiting
<1>. QED  BY <1>2, <1>3, <1>6, <1>8

LEMMA ReceiveInv ==
    ASSUME Inv, Receive
    PROVE  Inv'
<1>. DEFINE msg == wire[1]
<1>. USE DEF Inv
<1>1. /\ wire # <<>> /\ wire' = Tail(wire)
      /\ UNCHANGED <<stash, buf, patch, mode, takesDmabuf, streaming, adds, pauses, republished>>
  BY DEF Receive, pool, negotiation
<1>2. /\ 1 \in DOMAIN wire /\ Head(wire) = msg
      /\ \A i \in DOMAIN wire' : i + 1 \in DOMAIN wire /\ wire'[i] = wire[i + 1] /\ i \in Nat \ {0}
      /\ \A i \in DOMAIN wire : i # 1 => i - 1 \in DOMAIN wire' /\ wire'[i - 1] = wire[i]
  BY <1>1, Read
<1>3. msg \in Message /\ wire' \in Seq(Message) /\ Len(wire') <= WireCap /\ DOMAIN wire \subseteq Nat
  BY <1>1, <1>2 DEF TypeOK
<1>4. Remains
  BY <1>2 DEF Remains
<1>5. CASE msg.type = "geometry" /\ msg.gen = gen /\ RestartStreamGeometry
  <2>1. PICK to \in Modifiers \cup {"memfd"} : Swap(to) /\ offered' = Offer(to) /\ UNCHANGED optIn
    BY <1>5 DEF RestartStreamGeometry
  <2>2. gen < MaxGen
    BY <1>2, <1>5 DEF Messages, Sensible
  <2>3. offered' \in Modifiers \cup {None}
    BY <2>1 DEF Offer
  <2>. QED  BY <1>1, <1>3, <1>4, <2>1, <2>2, <2>3, SwapInv DEF pool, TypeOK
<1>6. ASSUME UNCHANGED <<transport, frozen>>
      PROVE  /\ UNCHANGED <<gen, kind, offered, optIn, binding, inFlight>>
             /\ BuffersLive' /\ Messages'
             /\ \A s, i : i \in DOMAIN wire' => (Carries(i, s)' <=> Carries(i + 1, s))
             /\ \A s \in Slots : OnWire(s) => OnWire(s)' \/ Carries(1, s)
  <2>1. UNCHANGED <<gen, kind, offered, optIn, binding, inFlight>>
    BY <1>6 DEF transport
  <2>2. BuffersLive' /\ Messages'
    BY <1>1, <1>2, <2>1 DEF BuffersLive, Messages, Sensible, HasSlots
  <2>3. \A s, i : i \in DOMAIN wire' => (Carries(i, s)' <=> Carries(i + 1, s))
    BY <1>2, <2>1 DEF Carries
  <2>4. \A s \in Slots : OnWire(s) => OnWire(s)' \/ Carries(1, s)
    <3>. SUFFICES ASSUME NEW s \in Slots, NEW i \in DOMAIN wire, Carries(i, s), i # 1
                  PROVE  OnWire(s)'
      BY DEF OnWire
    <3>1. i - 1 \in DOMAIN wire' /\ Carries(i - 1 + 1, s)
      BY <1>2, <1>3
    <3>. QED  BY <2>3, <3>1 DEF OnWire
  <2>. QED  BY <2>1, <2>2, <2>3, <2>4
<1>7. CASE msg.type = "frame" /\ msg.frame.gen = gen /\ Replace(msg.frame) /\ UNCHANGED <<transport, frozen>>
  <2>1. /\ latest' = msg.frame /\ pending' = TRUE
        /\ ring' = IF pending /\ latest # None /\ HasSlots
                   THEN ring \cup ({latest.slot} \ {None}) ELSE ring
    BY <1>7 DEF Replace
  <2>2. msg.frame \in Frame /\ msg.frame = [gen |-> gen, slot |-> msg.frame.slot]
    BY <1>3, <1>7 DEF Message, Frame
  <2>3. msg.frame.slot \in Slots \cup {None} /\ (msg.frame.slot # None <=> HasSlots) /\ msg.frame # None
    <3>1. msg.frame.slot \in Slots \cup {None}
      BY <2>2 DEF Frame
    <3>2. msg.frame.slot # None <=> HasSlots
      BY <1>2, <1>7 DEF Messages, Sensible
    <3>3. msg.frame # None
      BY <2>2
    <3>. QED  BY <3>1, <3>2, <3>3
  <2>4. latest # None => latest.slot \in Slots \cup {None}
    BY DEF TypeOK, Frame
  <2>5. TypeOK'
    BY <1>1, <1>3, <1>6, <1>7, <2>1, <2>2, <2>4 DEF TypeOK
  <2>6. NothingStale' /\ LatestSlot'
    BY <1>1, <1>6, <1>7, <2>1, <2>3 DEF NothingStale, LatestSlot, HasSlots
  <2>7. \A s \in Slots : Waiting(s)' <=> s = msg.frame.slot
    BY <2>1, <2>3 DEF Waiting
  <2>8. \A s \in Slots : Carries(1, s) <=> s = msg.frame.slot
    BY <1>7, <2>2 DEF Carries
  <2>9. \A s \in Slots : s \in ring' <=> s \in ring \/ (Waiting(s) /\ HasSlots)
    BY <2>1 DEF Waiting
  <2>10. Exclusive => Exclusive'
    <3>. SUFFICES ASSUME Exclusive PROVE Exclusive'
      OBVIOUS
    <3>1. InFlightReserved'
      BY <1>6, <1>7, <2>1, <2>9 DEF Exclusive, InFlightReserved, TypeOK
    <3>2. \A s \in Slots : Carries(1, s) => /\ s \notin ring' /\ s \notin inFlight
                                            /\ \A i \in DOMAIN wire' : ~Carries(i + 1, s)
      BY <1>2, <2>9 DEF Exclusive
    <3>3. \A s \in Slots, i \in DOMAIN wire' : Carries(i + 1, s) =>
             /\ s \notin ring' /\ s \notin inFlight
             /\ \A j \in DOMAIN wire' : Carries(j + 1, s) => j = i
      BY <1>2, <2>9 DEF Exclusive
    <3>. QED  BY <1>6, <1>7, <2>7, <2>8, <3>1, <3>2, <3>3 DEF Exclusive
  <2>11. Conserved'
    BY <1>6, <1>7, <2>7, <2>8, <2>9 DEF Conserved, HasSlots
  <2>. QED  BY <1>1, <1>6, <1>7, <2>5, <2>6, <2>10, <2>11
<1>8. CASE /\ \/ msg.type = "frame" /\ msg.frame.gen # gen
              \/ msg.type = "geometry" /\ msg.gen # gen
           /\ UNCHANGED <<transport, frames, ring, frozen>>
  <2>1. UNCHANGED <<latest, pending, ring, frozen>>
    BY <1>8 DEF frames
  <2>2. TypeOK'
    BY <1>1, <1>3, <1>6, <1>8, <2>1 DEF TypeOK
  <2>3. NothingStale' /\ LatestSlot'
    BY <1>1, <1>6, <1>8, <2>1 DEF NothingStale, LatestSlot, HasSlots
  <2>4. \A s \in Slots : ~Carries(1, s)
    BY <1>8 DEF Carries
  <2>5. \A s : Waiting(s)' <=> Waiting(s)
    BY <2>1 DEF Waiting
  <2>6. Exclusive => Exclusive'
    <3>. SUFFICES ASSUME Exclusive PROVE Exclusive'
      OBVIOUS
    <3>1. \A s \in Slots, i \in DOMAIN wire' : Carries(i + 1, s) =>
             /\ s \notin ring /\ s \notin inFlight /\ ~Waiting(s)
             /\ \A j \in DOMAIN wire' : Carries(j + 1, s) => j = i
      BY <1>2 DEF Exclusive
    <3>. QED  BY <1>6, <1>8, <2>1, <2>5, <3>1 DEF Exclusive, InFlightReserved
  <2>7. Conserved'
    BY <1>6, <1>8, <2>1, <2>4, <2>5 DEF Conserved, HasSlots
  <2>. QED  BY <1>1, <1>6, <1>8, <2>2, <2>3, <2>6, <2>7
<1>. QED  BY <1>2, <1>5, <1>7, <1>8 DEF Receive

-----------------------------------------------------------------------------
(* PipeWire.                                                               *)

(* What a step leaves alone that touches neither the stream nor its wire.  *)
LEMMA SameWire ==
    ASSUME UNCHANGED <<gen, kind, wire>>
    PROVE  /\ HasSlots' = HasSlots
           /\ Messages => Messages'
           /\ \A i, s : Carries(i, s)' <=> Carries(i, s)
           /\ \A s : OnWire(s)' <=> OnWire(s)
<1>1. \A i, s : Carries(i, s)' <=> Carries(i, s)
  BY DEF Carries
<1>. QED  BY <1>1 DEF HasSlots, Messages, Sensible, OnWire

LEMMA FixateInv ==
    ASSUME Inv, NEW modifier \in Modifiers \cup {None}, Fixate(modifier)
    PROVE  Inv'
<1>. USE DEF Inv
<1>1. /\ mode' \in {"Shm", "Dmabuf"} /\ UNCHANGED <<offered, takesDmabuf, pool, streaming, wire,
                                                    adds, pauses, republished>>
      /\ \/ /\ gen < MaxGen /\ optIn' \in BOOLEAN
            /\ \E to \in Modifiers \cup {"memfd"} : Swap(to)
         \/ UNCHANGED <<gen, kind, optIn, binding, inFlight, frames, ring, frozen>>
  BY DEF Fixate
<1>2. CASE /\ gen < MaxGen /\ optIn' \in BOOLEAN
           /\ \E to \in Modifiers \cup {"memfd"} : Swap(to)
  <2>1. Remains
    BY <1>1 DEF Remains
  <2>. QED  BY <1>1, <1>2, <2>1, SwapInv DEF TypeOK
<1>3. CASE UNCHANGED <<gen, kind, optIn, binding, inFlight, frames, ring, frozen>>
  <2>1. UNCHANGED <<latest, pending, stash, buf, patch>>
    BY <1>1, <1>3 DEF frames, pool
  <2>2. TypeOK'
    BY <1>1, <1>3, <2>1 DEF TypeOK
  <2>. QED
    BY <1>1, <1>3, <2>1, <2>2, SameWire
    DEF BuffersLive, NothingStale, LatestSlot, Exclusive, InFlightReserved, Conserved, Waiting
<1>. QED  BY <1>1, <1>2, <1>3

LEMMA AcceptTypesInv ==
    ASSUME Inv, NEW dmabuf \in BOOLEAN, AcceptTypes(dmabuf)
    PROVE  Inv'
<1>. USE DEF Inv
<1>1. /\ takesDmabuf' = dmabuf
      /\ UNCHANGED <<gen, kind, offered, optIn, binding, inFlight, latest, pending, stash, buf,
                     patch, mode, streaming, ring, wire, frozen, adds, pauses, republished>>
  BY DEF AcceptTypes, transport, frames, pool
<1>2. TypeOK'
  BY <1>1 DEF TypeOK
<1>. QED
  BY <1>1, <1>2, SameWire
  DEF BuffersLive, NothingStale, LatestSlot, Exclusive, InFlightReserved, Conserved, Waiting

LEMMA AddBufferInv ==
    ASSUME Inv, NEW b \in Buffers, AddBuffer(b)
    PROVE  Inv'
<1>. USE DEF Inv
<1>1. /\ UNCHANGED <<gen, kind, offered, optIn, inFlight, latest, pending, mode, takesDmabuf, stash,
                     streaming, ring, wire, frozen, pauses, republished>>
      /\ buf[b] = "absent" /\ buf' = [buf EXCEPT ![b] = "free"]
      /\ adds < MaxAdds /\ adds' = adds + 1
  BY DEF AddBuffer, frames, negotiation
<1>2. PICK s \in Slots \cup {None} :
         /\ patch' = [patch EXCEPT ![b] = [gen |-> gen, slot |-> s]]
         /\ IF s = None THEN binding' = binding
            ELSE binding[s] = None /\ binding' = [binding EXCEPT ![s] = b]
  BY DEF AddBuffer, Bindable
<1>3. TypeOK'
  <2>1. [gen |-> gen, slot |-> s] \in Frame
    BY DEF Frame, TypeOK
  <2>2. /\ patch' \in [Buffers -> Frame \cup {None}]
        /\ buf' \in [Buffers -> {"absent", "free", "held", "queued"}]
        /\ binding' \in [Slots -> Buffers \cup {None}]
        /\ adds' \in 0..MaxAdds
    BY <1>1, <1>2, <2>1 DEF TypeOK
  <2>. QED  BY <1>1, <2>2 DEF TypeOK
<1>4. \A t \in Slots : binding[t] # b
  BY <1>1 DEF BuffersLive
<1>5. /\ \A t \in Slots : binding'[t] = IF t = s THEN b ELSE binding[t]
      /\ \A c \in Buffers \ {b} : buf'[c] = buf[c] /\ patch'[c] = patch[c]
      /\ buf'[b] = "free" /\ patch'[b] = [gen |-> gen, slot |-> s]
  BY <1>1, <1>2 DEF TypeOK
<1>6. \A t \in Slots : binding[t] \in Buffers \cup {None}
  BY DEF TypeOK
<1>7. BuffersLive' /\ NothingStale'
  BY <1>1, <1>4, <1>5, <1>6 DEF BuffersLive, NothingStale
<1>. QED
  BY <1>1, <1>3, <1>7, SameWire
  DEF LatestSlot, Exclusive, InFlightReserved, Conserved, Waiting

LEMMA RemoveBufferInv ==
    ASSUME Inv, NEW b \in Buffers, RemoveBuffer(b)
    PROVE  Inv'
<1>. DEFINE bound == {s \in Slots : binding[s] = b}
<1>. USE DEF Inv
<1>1. /\ UNCHANGED <<gen, kind, offered, optIn, latest, pending, mode, takesDmabuf, streaming, wire,
                     frozen, adds, pauses, republished>>
      /\ buf' = [buf EXCEPT ![b] = "absent"] /\ patch' = [patch EXCEPT ![b] = None]
      /\ stash' = stash \ {b}
      /\ binding' = [s \in Slots |-> IF s \in bound THEN None ELSE binding[s]]
      /\ inFlight' = inFlight \ bound /\ ring' = ring \cup (inFlight \cap bound)
  BY DEF RemoveBuffer, frames, negotiation
<1>2. TypeOK'
  BY <1>1 DEF TypeOK
<1>3. BuffersLive' /\ NothingStale'
  BY <1>1 DEF BuffersLive, NothingStale, TypeOK
<1>4. \A s : Waiting(s)' <=> Waiting(s)
  BY <1>1 DEF Waiting
<1>5. Exclusive => Exclusive'
  <2>1. \A s \in Slots : s \in ring' \/ s \in inFlight' => s \in ring \/ s \in inFlight
    BY <1>1
  <2>. QED  BY <1>1, <1>4, <2>1, SameWire DEF Exclusive, InFlightReserved
<1>6. Conserved'
  BY <1>1, <1>4, SameWire DEF Conserved
<1>. QED  BY <1>1, <1>2, <1>3, <1>5, <1>6, SameWire DEF LatestSlot

LEMMA ConsumerInv ==
    ASSUME Inv, Pause \/ \E b \in Buffers : Return(b)
    PROVE  Inv'
<1>. USE DEF Inv
<1>1. /\ UNCHANGED <<gen, kind, offered, optIn, binding, inFlight, latest, pending, mode, takesDmabuf,
                     stash, patch, ring, wire, frozen, adds, republished>>
      /\ streaming' = streaming \/ streaming' = FALSE
      /\ pauses' = pauses \/ (pauses < MaxPauses /\ pauses' = pauses + 1)
  BY DEF Pause, Return, transport, frames, negotiation
<1>2. \A b \in Buffers : buf'[b] = buf[b] \/ buf'[b] = "free"
  BY DEF Pause, Return, TypeOK
<1>3. buf' \in [Buffers -> {"absent", "free", "held", "queued"}]
  BY DEF Pause, Return, TypeOK
<1>4. TypeOK'
  <2>1. streaming' \in BOOLEAN
    BY <1>1 DEF TypeOK
  <2>2. pauses' \in 0..MaxPauses
    BY <1>1 DEF TypeOK
  <2>. QED  BY <1>1, <1>3, <2>1, <2>2 DEF TypeOK
<1>5. BuffersLive'
  BY <1>1, <1>2 DEF BuffersLive, TypeOK
<1>. QED
  BY <1>1, <1>4, <1>5, SameWire
  DEF NothingStale, LatestSlot, Exclusive, InFlightReserved, Conserved, Waiting

LEMMA StreamInv ==
    ASSUME Inv, Stream
    PROVE  Inv'
<1>. USE DEF Inv
<1>1. /\ UNCHANGED <<gen, kind, offered, optIn, binding, inFlight, latest, mode, takesDmabuf,
                     stash, buf, patch, ring, wire, frozen, adds, pauses>>
      /\ streaming' = TRUE
      /\ pending' = (pending \/ latest # None)
      /\ republished' = \/ republished
                        \/ ~pending /\ latest # None /\ latest.slot # None
  BY DEF Stream, transport, pool, negotiation
<1>2. TypeOK'
  BY <1>1 DEF TypeOK
<1>3. \A s \in Slots : Waiting(s) => Waiting(s)'
  BY <1>1 DEF Waiting
<1>4. ~(republished') => \A s \in Slots : Waiting(s)' => Waiting(s)
  BY <1>1 DEF Waiting
<1>5. republished' \/ Exclusive'
  BY <1>1, <1>4, SameWire DEF Exclusive, InFlightReserved
<1>6. Conserved'
  BY <1>1, <1>3, SameWire DEF Conserved
<1>. QED
  BY <1>1, <1>2, <1>5, <1>6, SameWire DEF BuffersLive, NothingStale, LatestSlot

-----------------------------------------------------------------------------
(* The process callback: slots whose buffer came back go to the ring, and  *)
(* the slot of the frame goes to the ring or to the consumer.              *)

LEMMA Queues ==
    ASSUME TypeOK, NEW q \in SUBSET Buffers, Queue(q)
    PROVE  /\ buf' \in [Buffers -> {"absent", "free", "held", "queued"}]
           /\ stash' \subseteq Buffers
           /\ \A b \in Buffers : buf'[b] = "absent" => buf[b] = "absent"
<1>1. stash' \subseteq Buffers
  BY DEF Queue, Stashed, Free, TypeOK
<1>2. buf' \in [Buffers -> {"absent", "free", "held", "queued"}]
  BY DEF Queue, Free, TypeOK
<1>3. \A b \in Buffers : buf'[b] = "absent" => buf[b] = "absent"
  BY DEF Queue, Free, TypeOK
<1>. QED  BY <1>1, <1>2, <1>3

LEMMA ProcessInv ==
    ASSUME Inv, Process
    PROVE  Inv'
<1>. USE DEF Inv
<1>1. /\ UNCHANGED <<gen, kind, offered, optIn, binding, latest, patch, mode, takesDmabuf,
                     streaming, wire, frozen, adds, pauses, republished>>
      /\ ProcessIdle \/ ProcessDescriptor \/ ProcessSlot
  BY DEF Process, negotiation
<1>2. PICK q \in SUBSET Buffers : Queue(q)
  <2>1. Stashed \subseteq Buffers
    BY DEF Stashed, Free, TypeOK
  <2>2. CASE ProcessIdle
    BY <2>2 DEF ProcessIdle
  <2>3. CASE ProcessDescriptor
    BY <2>1, <2>3 DEF ProcessDescriptor
  <2>4. CASE ProcessSlot
    <3>1. latest.slot \in Slots
      BY <2>4 DEF ProcessSlot, TypeOK, Frame
    <3>. QED  BY <2>1, <2>4, <3>1 DEF ProcessSlot, PublishSlot, TypeOK
  <2>. QED  BY <1>1, <2>2, <2>3, <2>4
<1>3. \/ /\ pending' \in {pending, FALSE} /\ \A s \in Slots : ~Waiting(s)
         /\ inFlight' = inFlight \ Returned /\ ring' = ring \cup Returned
      \/ \E s \in Slots :
            /\ Waiting(s) /\ pending' = FALSE
            /\ \/ /\ s \in inFlight \ Returned
                  /\ inFlight' = inFlight \ Returned /\ ring' = ring \cup Returned
               \/ /\ inFlight' = (inFlight \ Returned) \cup {s} /\ ring' = ring \cup Returned
               \/ /\ inFlight' = inFlight \ Returned /\ ring' = ring \cup Returned \cup {s}
  <2>1. CASE ProcessIdle
    BY <2>1 DEF ProcessIdle, Waiting
  <2>2. CASE ProcessDescriptor
    <3>1. pending' \in BOOLEAN /\ pending = TRUE
      BY <2>2 DEF ProcessDescriptor, TypeOK
    <3>. QED  BY <2>2, <3>1 DEF ProcessDescriptor, Waiting
  <2>3. CASE ProcessSlot
    <3>1. latest.slot \in Slots /\ Waiting(latest.slot)
      BY <2>3 DEF ProcessSlot, TypeOK, Frame, Waiting
    <3>. QED  BY <2>3, <3>1 DEF ProcessSlot, PublishSlot
  <2>. QED  BY <1>1, <2>1, <2>2, <2>3
<1>4. Returned \subseteq inFlight /\ inFlight \subseteq Slots
  BY DEF Returned, TypeOK
<1>5. TypeOK' /\ BuffersLive'
  <2>1. /\ buf' \in [Buffers -> {"absent", "free", "held", "queued"}]
        /\ stash' \subseteq Buffers
        /\ \A b \in Buffers : buf'[b] = "absent" => buf[b] = "absent"
    BY <1>2, Queues
  <2>2. pending' \in BOOLEAN /\ inFlight' \subseteq Slots /\ ring' \subseteq Slots
    BY <1>3, <1>4 DEF TypeOK
  <2>. QED  BY <1>1, <2>1, <2>2 DEF TypeOK, BuffersLive
<1>6. \A s \in Slots : Waiting(s)' => Waiting(s)
  <2>1. pending' => pending
    BY <1>3 DEF TypeOK
  <2>. QED  BY <1>1, <2>1 DEF Waiting
<1>7. \A s, t : Waiting(s) /\ Waiting(t) => s = t
  BY DEF Waiting
<1>8. Exclusive => Exclusive'
  <2>. SUFFICES ASSUME Exclusive PROVE Exclusive'
    OBVIOUS
  <2>1. InFlightReserved'
    <3>1. \A t : t \in inFlight => t \notin ring
      BY DEF Exclusive, InFlightReserved
    <3>2. \A s \in Slots : Waiting(s) => s \notin ring /\ s \notin inFlight
      BY DEF Exclusive
    <3>3. \A t : t \in inFlight' => t \notin ring'
      <4>1. CASE inFlight' = inFlight \ Returned /\ ring' = ring \cup Returned
        BY <3>1, <4>1
      <4>2. ASSUME NEW s \in Slots, Waiting(s),
                   \/ inFlight' = (inFlight \ Returned) \cup {s} /\ ring' = ring \cup Returned
                   \/ inFlight' = inFlight \ Returned /\ ring' = ring \cup Returned \cup {s}
            PROVE  \A t : t \in inFlight' => t \notin ring'
        BY <1>4, <3>1, <3>2, <4>2
      <4>. QED  BY <1>3, <4>1, <4>2
    <3>. QED  BY <3>3 DEF InFlightReserved
  <2>2. \A s \in Slots : Waiting(s)' => s \notin ring' /\ s \notin inFlight'
    <3>1. \A s \in Slots : pending' = FALSE => ~Waiting(s)'
      BY DEF Waiting
    <3>. QED  BY <1>3, <1>4, <1>6, <3>1 DEF Exclusive
  <2>3. \A i \in DOMAIN wire, s \in Slots : Carries(i, s) => s \notin ring' /\ s \notin inFlight'
    <3>1. \A t : t \in ring' \/ t \in inFlight' =>
                 t \in ring \/ t \in inFlight \/ (t \in Slots /\ Waiting(t))
      BY <1>3, <1>4
    <3>. QED  BY <3>1 DEF Exclusive
  <2>. QED  BY <1>1, <1>6, <2>1, <2>2, <2>3, SameWire DEF Exclusive
<1>9. Conserved'
  <2>1. \A s \in Slots : s \in ring \/ s \in inFlight => s \in ring' \/ s \in inFlight'
    BY <1>3
  <2>2. \A s \in Slots : Waiting(s) => s \in ring' \/ s \in inFlight'
    BY <1>3, <1>7
  <2>. QED  BY <1>1, <2>1, <2>2, SameWire DEF Conserved
<1>. QED
  BY <1>1, <1>5, <1>8, <1>9, SameWire DEF NothingStale, LatestSlot

-----------------------------------------------------------------------------
LEMMA NextInv == Inv /\ [Next]_vars => Inv'
<1>. SUFFICES ASSUME Inv, [Next]_vars PROVE Inv'
  OBVIOUS
<1>1. CASE Compositor
  BY <1>1, SendFrameInv, SendGeometryInv DEF Compositor
<1>2. CASE Receive
  BY <1>2, ReceiveInv
<1>3. CASE Cycle
  BY <1>3, ProcessInv DEF Cycle
<1>4. CASE PipeWire
  BY <1>4, FixateInv, AcceptTypesInv, AddBufferInv, RemoveBufferInv, ConsumerInv, StreamInv
  DEF PipeWire
<1>5. CASE UNCHANGED vars
  <2>. USE DEF Inv
  <2>1. UNCHANGED <<gen, kind, offered, optIn, binding, inFlight, latest, pending, stash, buf,
                    patch, mode, takesDmabuf, streaming, ring, wire, frozen, adds, pauses,
                    republished>>
    BY <1>5 DEF vars, transport, frames, pool, negotiation
  <2>2. TypeOK'
    BY <2>1 DEF TypeOK
  <2>. QED
    BY <2>1, <2>2, SameWire
    DEF BuffersLive, NothingStale, LatestSlot, Exclusive, InFlightReserved, Conserved, Waiting
<1>. QED  BY <1>1, <1>2, <1>3, <1>4, <1>5 DEF Next

LEMMA InvCorrect == Spec => []Inv
<1>. QED  BY InitInv, NextInv, PTL DEF Spec

(* Every variable of CastStream keeps its type. *)
THEOREM TypeCorrect == Spec => []TypeOK
<1>. QED  BY InvCorrect, PTL DEF Inv

(* "Frames of the superseded stream must never be published"               *)
(* (state.rs:418), whatever geometry changes and restarts of the transport *)
(* meet on the wire and in PipeWire's pool.                                *)
THEOREM NothingStaleCorrect == Spec => []NothingStale
<1>. QED  BY InvCorrect, PTL DEF Inv

(* A slot of the compositor's ring is with nobody else (state.rs:57),      *)
(* until a resumed cast republishes a slot's frame (mod.rs:429).           *)
THEOREM ExclusiveCorrect == Spec => []ExclusiveUnlessRepublished
<1>1. Inv => ExclusiveUnlessRepublished
  BY DEF Inv, Exclusive, ExclusiveUnlessRepublished, Waiting, TypeOK
<1>. QED  BY <1>1, InvCorrect, PTL

(* No path through the frame loop loses a slot (state.rs:255). *)
THEOREM NoSlotLostCorrect == Spec => []NoSlotLost
<1>1. Inv => NoSlotLost
  BY DEF Inv, Conserved, NoSlotLost, Waiting, OnWire, Carries
<1>. QED  BY <1>1, InvCorrect, PTL
=============================================================================
