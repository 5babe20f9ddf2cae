-------------------------- MODULE StreamClientProofs --------------------------
(***************************************************************************)
(* Proof about StreamClient, for any slots and bounds: no message that     *)
(* overtakes another, and no restart, loses or doubles a slot.             *)
(*                                                                         *)
(* A slot of the compositor's stream is at home in one of six places.  The *)
(* claim is kept about that stream also while the client has yet to learn  *)
(* of it; this needs that one start is outstanding at a time, and that its *)
(* answer is about the newest stream.                                      *)
(***************************************************************************)
EXTENDS StreamClient, FiniteSetTheorems, TLAPS

USE StreamAssumption

Has(q, m) == \E i \in DOMAIN q : q[i] = m
Once(q, m) == \A i, j \in DOMAIN q : q[i] = m /\ q[j] = m => i = j

FrameOf(s) == [type |-> "Frame", stream |-> lane, slot |-> s]
ReleaseOf(s) == [type |-> "Release", stream |-> lane, slot |-> s]
StartRequest == [type |-> "Start"]
StartReply == [type |-> "Started", stream |-> streams]

Typed ==
    /\ wire \in Seq(Message) /\ pending \in Seq(Event) /\ requests \in Seq(Request)
    /\ held \subseteq Slots /\ misread \subseteq Slots /\ free \subseteq Slots
    /\ streams \in 0..MaxStreams /\ lane \in 0..MaxStreams
    /\ current \in 0..MaxStreams
    /\ pc # "start" => current \in Stream
    /\ starting \in BOOLEAN

(* Nothing is of a stream that has not begun, and a frame without a slot   *)
(* has its descriptor behind it.                                           *)
Known ==
    /\ lane <= streams /\ current <= streams
    /\ \A m \in Message : Has(wire, m) /\ m.type = "Frame" => m.stream <= streams
    /\ \A m \in Event : Has(pending, m) /\ m.type = "Frame" => m.stream <= streams
    /\ \A r \in Request : Has(requests, r) /\ r.type = "Release" => r.stream <= streams

Followed ==
    \A i \in DOMAIN wire :
        wire[i].type = "Frame" /\ wire[i].slot = NoSlot =>
            i + 1 \in DOMAIN wire /\ wire[i + 1].type = "Descriptor"

(* One start is outstanding: asked for, accepted or answered. *)
Outstanding ==
    /\ Once(requests, StartRequest) /\ Once(wire, StartReply)
    /\ Has(requests, StartRequest) => ~starting /\ ~Has(wire, StartReply)
    /\ starting => ~Has(wire, StartReply)
    /\ starting \/ Has(wire, StartReply) => lane \in {0, streams} /\ current < streams
    /\ \A m \in Message : Has(wire, m) /\ m.type = "Started" => m = StartReply

(* The client asks for one when it has no other. *)
Settled ==
    /\ pc \notin {"start", "restart"} =>
          /\ ~Has(requests, StartRequest) /\ ~starting /\ ~Has(wire, StartReply)
          /\ lane \in {0, current}
    /\ pc = "start" => held = {}
    /\ pc \in {"start", "lookup"} => misread = {}

(* The slot is in one of the places. *)
InOne(s) ==
    LET W == Has(wire, FrameOf(s))
        P == Has(pending, FrameOf(s))
        R == Has(requests, ReleaseOf(s))
        H == lane = current /\ s \in held
        M == lane = current /\ s \in misread
        F == s \in free
    IN /\ W \/ P \/ R \/ H \/ M \/ F
       /\ W => ~(P \/ R \/ H \/ M \/ F)
       /\ P => ~(R \/ H \/ M \/ F)
       /\ R => ~(H \/ M \/ F)
       /\ H => ~(M \/ F)
       /\ M => ~F
       /\ Once(wire, FrameOf(s)) /\ Once(pending, FrameOf(s)) /\ Once(requests, ReleaseOf(s))

Conserved == lane # 0 /\ slotted => \A s \in Slots : InOne(s)

Inv == pc # "ended" => Typed /\ Known /\ Followed /\ Outstanding /\ Settled /\ Conserved

Rules == Typed /\ Known /\ Followed /\ Outstanding /\ Settled /\ Conserved

-----------------------------------------------------------------------------
(* Sequences and messages.                                                 *)

LEMMA Appending ==
    ASSUME NEW S, NEW q \in Seq(S), NEW x \in S
    PROVE  /\ Append(q, x) \in Seq(S)
           /\ \A m : Has(Append(q, x), m) <=> Has(q, m) \/ x = m
           /\ \A m : Once(q, m) /\ (x = m => ~Has(q, m)) => Once(Append(q, x), m)
<1>1. /\ DOMAIN q = 1..Len(q) /\ Len(q) \in Nat
      /\ DOMAIN Append(q, x) = 1..(Len(q) + 1)
      /\ \A i \in 1..Len(q) : Append(q, x)[i] = q[i]
      /\ Append(q, x)[Len(q) + 1] = x
  OBVIOUS
<1>2. \A i \in DOMAIN Append(q, x) : i \in DOMAIN q \/ i = Len(q) + 1
  BY <1>1
<1>3. \A m : Has(Append(q, x), m) <=> Has(q, m) \/ x = m
  BY <1>1, <1>2 DEF Has
<1>4. \A m : Once(q, m) /\ (x = m => ~Has(q, m)) => Once(Append(q, x), m)
  BY <1>1, <1>2 DEF Has, Once
<1>. QED  BY <1>3, <1>4

LEMMA Taking ==
    ASSUME NEW S, NEW q \in Seq(S), q # <<>>
    PROVE  /\ Tail(q) \in Seq(S) /\ Head(q) \in S
           /\ \A m : Has(q, m) <=> Head(q) = m \/ Has(Tail(q), m)
           /\ \A m : Once(q, m) => Once(Tail(q), m) /\ (Head(q) = m => ~Has(Tail(q), m))
<1>1. /\ DOMAIN q = 1..Len(q) /\ Len(q) \in Nat \ {0}
      /\ DOMAIN Tail(q) = 1..(Len(q) - 1)
      /\ \A i \in 1..(Len(q) - 1) : Tail(q)[i] = q[i + 1]
      /\ Head(q) = q[1]
  OBVIOUS
<1>2. \A i \in DOMAIN Tail(q) : i + 1 \in DOMAIN q /\ i + 1 # 1 /\ Tail(q)[i] = q[i + 1]
  BY <1>1
<1>3. \A i \in DOMAIN q : i = 1 \/ (i - 1 \in DOMAIN Tail(q) /\ Tail(q)[i - 1] = q[i])
  BY <1>1
<1>4. 1 \in DOMAIN q
  BY <1>1
<1>5. ASSUME NEW m
      PROVE  Has(q, m) <=> Head(q) = m \/ Has(Tail(q), m)
  BY <1>1, <1>2, <1>3, <1>4 DEF Has
<1>6. ASSUME NEW m, Once(q, m)
      PROVE  Once(Tail(q), m) /\ (Head(q) = m => ~Has(Tail(q), m))
  <2>1. Once(Tail(q), m)
    BY <1>1, <1>2, <1>6 DEF Once
  <2>2. Head(q) = m => ~Has(Tail(q), m)
    BY <1>1, <1>2, <1>4, <1>6 DEF Once, Has
  <2>. QED  BY <2>1, <2>2
<1>7. Tail(q) \in Seq(S) /\ Head(q) \in S
  OBVIOUS
<1>. QED  BY <1>5, <1>6, <1>7

LEMMA Kinds ==
    /\ \A m \in Event : m \in Message
    /\ \A m \in Message : m.type = "Frame" =>
          /\ m.stream \in Stream /\ m.slot \in Slots \cup {NoSlot}
          /\ m = [type |-> "Frame", stream |-> m.stream, slot |-> m.slot]
    /\ \A m \in Message : m.type = "Started" =>
          m.stream \in Stream /\ m = [type |-> "Started", stream |-> m.stream]
    /\ \A m \in Message : m.type = "Descriptor" => m = [type |-> "Descriptor"]
    /\ \A m \in Message : IsEvent(m) => m \in Event
    /\ \A r \in Request : r.type = "Release" =>
          r.stream \in Stream /\ r.slot \in Slots
          /\ r = [type |-> "Release", stream |-> r.stream, slot |-> r.slot]
    /\ \A r \in Request : r.type = "Start" => r = StartRequest
    /\ \A r \in Request : r.type = "Stop" => r.stream \in Stream
<1>1. \A m \in Event : m \in Message
  BY DEF Message
<1>2. \A m \in Message : m.type = "Frame" =>
          /\ m.stream \in Stream /\ m.slot \in Slots \cup {NoSlot}
          /\ m = [type |-> "Frame", stream |-> m.stream, slot |-> m.slot]
  BY DEF Message, Event
<1>3. \A m \in Message : m.type = "Started" =>
          m.stream \in Stream /\ m = [type |-> "Started", stream |-> m.stream]
  BY DEF Message, Event
<1>4. \A m \in Message : m.type = "Descriptor" => m = [type |-> "Descriptor"]
  BY DEF Message, Event
<1>5. \A m \in Message : IsEvent(m) => m \in Event
  BY DEF Message, Event, IsEvent
<1>6. \A r \in Request : r.type = "Release" =>
          r.stream \in Stream /\ r.slot \in Slots
          /\ r = [type |-> "Release", stream |-> r.stream, slot |-> r.slot]
  BY DEF Request
<1>7. \A r \in Request : r.type = "Start" => r = StartRequest
  BY DEF Request, StartRequest
<1>8. \A r \in Request : r.type = "Stop" => r.stream \in Stream
  BY DEF Request
<1>. QED  BY <1>1, <1>2, <1>3, <1>4, <1>5, <1>6, <1>7, <1>8

LEMMA InitInv == Init => Inv
<1>. SUFFICES ASSUME Init PROVE Inv
  OBVIOUS
<1>1. Typed
  <2>1. requests \in Seq(Request)
    BY DEF Init, Request
  <2>2. wire \in Seq(Message) /\ pending \in Seq(Event)
    BY DEF Init
  <2>3. starting \in BOOLEAN
    BY DEF Init
  <2>4. /\ held \subseteq Slots /\ misread \subseteq Slots /\ free \subseteq Slots
        /\ streams \in 0..MaxStreams /\ lane \in 0..MaxStreams
        /\ current \in 0..MaxStreams /\ pc = "start"
    BY DEF Init
  <2>. QED  BY <2>1, <2>2, <2>3, <2>4 DEF Typed
<1>2. Known /\ Followed /\ Settled /\ Conserved
  BY DEF Init, Known, Followed, Settled, Conserved, Has, Request
<1>3. Outstanding
  BY DEF Init, Outstanding, Once, Has
<1>. QED  BY <1>1, <1>2, <1>3 DEF Inv

(* A message more on the wire, which is no frame without its descriptor.   *)
LEMMA Written ==
    ASSUME Typed, NEW m \in Message, wire' = Append(wire, m),
           m.type = "Frame" => m.slot # NoSlot
    PROVE  /\ wire' \in Seq(Message)
           /\ \A x : Has(wire', x) <=> Has(wire, x) \/ m = x
           /\ \A x : Once(wire, x) /\ (m = x => ~Has(wire, x)) => Once(wire', x)
           /\ Followed => Followed'
<1>1. wire \in Seq(Message)
  BY DEF Typed
<1>2. /\ DOMAIN wire = 1..Len(wire) /\ Len(wire) \in Nat
      /\ DOMAIN wire' = 1..(Len(wire) + 1)
      /\ \A i \in 1..Len(wire) : wire'[i] = wire[i]
      /\ wire'[Len(wire) + 1] = m
  BY <1>1
<1>3. Followed => Followed'
  BY <1>2 DEF Followed
<1>. QED  BY <1>1, <1>3, Appending

(* The client has read a message, and the descriptor of a frame without a  *)
(* slot, except when it looks for the answer to its lookup.                *)
LEMMA ReadOff ==
    ASSUME Typed, Followed, wire # <<>>, wire' = AfterMessage \/ wire' = AfterHeader
    PROVE  /\ wire' \in Seq(Message) /\ Head(wire) \in Message
           /\ \A x : x # [type |-> "Descriptor"] =>
                 (Has(wire, x) <=> Head(wire) = x \/ Has(wire', x))
           /\ \A x : Once(wire, x) => Once(wire', x) /\ (Head(wire) = x => ~Has(wire', x))
           /\ \A x : Has(wire', x) => Has(wire, x)
           /\ Followed'
<1>. DEFINE t == Tail(wire)
<1>1. wire \in Seq(Message)
  BY DEF Typed
<1>2. /\ t \in Seq(Message) /\ Head(wire) \in Message
      /\ \A x : Has(wire, x) <=> Head(wire) = x \/ Has(t, x)
      /\ \A x : Once(wire, x) => Once(t, x) /\ (Head(wire) = x => ~Has(t, x))
  BY <1>1, Taking
<1>3. /\ DOMAIN wire = 1..Len(wire) /\ Len(wire) \in Nat \ {0} /\ Head(wire) = wire[1]
      /\ Len(t) = Len(wire) - 1 /\ DOMAIN t = 1..Len(t)
      /\ \A i \in DOMAIN t : t[i] = wire[i + 1]
  BY <1>1
<1>4. \A i \in DOMAIN t :
          t[i].type = "Frame" /\ t[i].slot = NoSlot =>
              i + 1 \in DOMAIN t /\ t[i + 1].type = "Descriptor"
  BY <1>3 DEF Followed
<1>5. CASE wire' = t
  BY <1>2, <1>4, <1>5 DEF Followed
<1>6. CASE wire' = Tail(t) /\ Head(wire).type = "Frame" /\ Head(wire).slot = NoSlot
  <2>1. t # <<>> /\ t[1].type = "Descriptor" /\ Head(t) = t[1]
    <3>1. 1 \in DOMAIN wire /\ 2 \in DOMAIN wire /\ wire[2].type = "Descriptor"
      BY <1>3, <1>6 DEF Followed
    <3>. QED  BY <1>2, <1>3, <3>1
  <2>2. /\ wire' \in Seq(Message) /\ Head(t) \in Message
        /\ \A x : Has(t, x) <=> Head(t) = x \/ Has(wire', x)
        /\ \A x : Once(t, x) => Once(wire', x) /\ (Head(t) = x => ~Has(wire', x))
    BY <1>2, <1>6, <2>1, Taking
  <2>3. Head(t) = [type |-> "Descriptor"]
    BY <2>1, <2>2, Kinds
  <2>4. /\ DOMAIN wire' = 1..(Len(t) - 1) /\ Len(t) \in Nat \ {0}
        /\ \A i \in 1..(Len(t) - 1) : wire'[i] = t[i + 1]
    BY <1>2, <1>6, <2>1
  <2>5. Followed'
    <3>1. DOMAIN t = 1..Len(t)
      BY <1>3
    <3>2. ASSUME NEW i \in DOMAIN wire', wire'[i].type = "Frame", wire'[i].slot = NoSlot
          PROVE  i + 1 \in DOMAIN wire' /\ wire'[i + 1].type = "Descriptor"
      <4>1. i \in Nat /\ i + 1 \in DOMAIN t /\ wire'[i] = t[i + 1]
        BY <2>4, <3>1
      <4>2. i + 1 + 1 \in DOMAIN t /\ t[i + 1 + 1].type = "Descriptor"
        BY <1>4, <3>2, <4>1
      <4>. QED  BY <2>4, <3>1, <4>1, <4>2
    <3>. QED  BY <3>2 DEF Followed
  <2>. QED  BY <1>2, <2>2, <2>3, <2>5
<1>. QED  BY <1>5, <1>6 DEF AfterMessage, AfterHeader

(* The claims about requests and set-aside events, when one is added.      *)
LEMMA Asked ==
    ASSUME Typed, NEW r \in Request, Send(r)
    PROVE  /\ requests' \in Seq(Request)
           /\ \A x : Has(requests', x) <=> Has(requests, x) \/ r = x
           /\ \A x : Once(requests, x) /\ (r = x => ~Has(requests, x)) => Once(requests', x)
  BY Appending DEF Typed, Send

LEMMA Served ==
    ASSUME Typed, NEW type, Serving(type), requests' = Tail(requests)
    PROVE  /\ requests' \in Seq(Request) /\ Head(requests) \in Request /\ Head(requests).type = type
           /\ ~starting
           /\ \A x : Has(requests, x) <=> Head(requests) = x \/ Has(requests', x)
           /\ \A x : Once(requests, x) =>
                 Once(requests', x) /\ (Head(requests) = x => ~Has(requests', x))
  BY Taking DEF Typed, Serving

LEMMA SameNames ==
    ASSUME UNCHANGED lane
    PROVE  \A s : FrameOf(s)' = FrameOf(s) /\ ReleaseOf(s)' = ReleaseOf(s)
  BY DEF FrameOf, ReleaseOf

-----------------------------------------------------------------------------
(* The compositor.                                                         *)

(* A message which is no frame and no answer to a start, and no other      *)
(* change than that the stream may end.                                    *)
LEMMA QuietWrite ==
    ASSUME Rules, NEW m \in Message, m.type \notin {"Frame", "Started"}, Write(m),
           UNCHANGED <<client, free, slotted, starting, streams>>, lane' \in {lane, 0},
           requests' \in Seq(Request),
           \A x : Has(requests', x) => Has(requests, x),
           \A x : Once(requests, x) => Once(requests', x),
           \A s \in Slots : Has(requests, ReleaseOf(s)) => Has(requests', ReleaseOf(s))
    PROVE  Rules'
<1>. USE DEF Rules
<1>1. /\ UNCHANGED <<pc, current, held, misread, pending, ended>>
      /\ wire' = Append(wire, m)
  BY DEF client, Write
<1>2. /\ wire' \in Seq(Message)
      /\ \A x : Has(wire', x) <=> Has(wire, x) \/ m = x
      /\ \A x : Once(wire, x) /\ (m = x => ~Has(wire, x)) => Once(wire', x)
      /\ Followed'
  BY <1>1, Written
<1>3. Typed'
  BY <1>1, <1>2 DEF Typed
<1>4. m # StartReply /\ StartReply' = StartReply
  BY DEF StartReply
<1>5. Known'
  BY <1>1, <1>2 DEF Known, Typed
<1>6. Outstanding'
  BY <1>1, <1>2, <1>4 DEF Outstanding, Typed
<1>7. Settled'
  BY <1>1, <1>2, <1>4 DEF Settled
<1>8. Conserved'
  <2>. SUFFICES ASSUME lane' # 0, slotted', NEW s \in Slots PROVE InOne(s)'
    BY DEF Conserved
  <2>1. InOne(s) /\ lane' = lane
    BY DEF Conserved
  <2>2. FrameOf(s)' = FrameOf(s) /\ ReleaseOf(s)' = ReleaseOf(s) /\ m # FrameOf(s)
    BY <2>1 DEF FrameOf, ReleaseOf
  <2>. QED  BY <1>1, <1>2, <2>1, <2>2 DEF InOne
<1>. QED  BY <1>2, <1>3, <1>5, <1>6, <1>7, <1>8

LEMMA ServeStartInv ==
    ASSUME Rules, ServeStart
    PROVE  Rules'
<1>. USE DEF Rules
<1>1. /\ UNCHANGED <<pc, current, held, misread, pending, ended>>
      /\ Serving("Start") /\ requests' = Tail(requests)
  BY DEF ServeStart, client
<1>2. /\ requests' \in Seq(Request) /\ Head(requests) = StartRequest
      /\ ~starting
      /\ \A x : Has(requests', x) => Has(requests, x)
      /\ \A x : Once(requests, x) => Once(requests', x)
      /\ Has(requests, StartRequest) /\ ~Has(requests', StartRequest)
      /\ \A x : x # StartRequest => (Has(requests', x) <=> Has(requests, x))
  <2>1. Head(requests) = StartRequest
    BY <1>1, Served, Kinds
  <2>. QED  BY <1>1, <2>1, Served DEF Outstanding
<1>3. pc \in {"start", "restart"} /\ ~Has(wire, StartReply)
  BY <1>2 DEF Settled, Outstanding
<1>4. CASE /\ streams < MaxStreams
           /\ streams' = streams + 1
           /\ lane' = streams + 1
           /\ slotted' \in BOOLEAN
           /\ free' = IF slotted' THEN Slots ELSE {}
           /\ frozen' = FALSE /\ starting' = TRUE /\ frames' = 0
           /\ UNCHANGED wire
  <2>1. streams \in Nat /\ streams' \in 0..MaxStreams /\ lane' \in 0..MaxStreams /\ current < lane'
        /\ lane' = streams'
    BY <1>4 DEF Typed, Known
  <2>2. starting' \in BOOLEAN /\ starting'
    BY <1>4
  <2>3. Typed'
    BY <1>1, <1>2, <1>4, <2>1, <2>2 DEF Typed
  <2>4. Known'
    <3>1. \A m \in Message : m.type = "Frame" /\ m.stream <= streams => m.stream <= streams'
      BY <1>4, <2>1, Kinds DEF Stream
    <3>2. \A r \in Request : r.type = "Release" /\ r.stream <= streams => r.stream <= streams'
      BY <1>4, <2>1, Kinds DEF Stream
    <3>. QED  BY <1>1, <1>2, <1>4, <2>1, <3>1, <3>2, Kinds DEF Known, Typed
  <2>5. Followed'
    BY <1>4 DEF Followed
  <2>6. \A m \in Message : Has(wire, m) => m.type # "Started"
    BY <1>3 DEF Outstanding
  <2>7. ~Has(wire, StartReply')
    BY <1>4, <2>1, <2>6 DEF StartReply, Message, Stream
  <2>8. Outstanding'
    BY <1>1, <1>2, <1>4, <2>1, <2>6, <2>7 DEF Outstanding, Once, Has
  <2>9. Settled'
    BY <1>1, <1>3 DEF Settled
  <2>10. ASSUME NEW s \in Slots
         PROVE  ~Has(wire, FrameOf(s)') /\ ~Has(pending, FrameOf(s)') /\ ~Has(requests, ReleaseOf(s)')
    <3>1. FrameOf(s)' = [type |-> "Frame", stream |-> streams + 1, slot |-> s]
      BY <1>4 DEF FrameOf
    <3>2. ReleaseOf(s)' = [type |-> "Release", stream |-> streams + 1, slot |-> s]
      BY <1>4 DEF ReleaseOf
    <3>3. streams + 1 \in Stream /\ ~(streams + 1 <= streams)
      BY <1>4, <2>1 DEF Stream
    <3>4. FrameOf(s)' \in Event /\ ReleaseOf(s)' \in Request
      BY <3>1, <3>2, <3>3 DEF Event, Request
    <3>. QED  BY <3>1, <3>2, <3>3, <3>4, Kinds DEF Known
  <2>11. Conserved'
    <3>. SUFFICES ASSUME slotted', NEW s \in Slots PROVE InOne(s)'
      BY DEF Conserved
    <3>1. ~Has(wire, FrameOf(s))' /\ ~Has(pending, FrameOf(s))' /\ ~Has(requests, ReleaseOf(s))'
      BY <1>1, <1>2, <1>4, <2>10, Kinds DEF ReleaseOf, StartRequest
    <3>2. lane' # current' /\ s \in free'
      BY <1>1, <1>4, <2>1 DEF Typed
    <3>3. /\ Once(wire, FrameOf(s))' /\ Once(pending, FrameOf(s))' /\ Once(requests, ReleaseOf(s))'
      BY <3>1 DEF Once, Has
    <3>. QED  BY <3>1, <3>2, <3>3 DEF InOne
  <2>. QED  BY <2>3, <2>4, <2>5, <2>8, <2>9, <2>11
<1>5. CASE Write([type |-> "Error"]) /\ UNCHANGED compositor
  <2>1. [type |-> "Error"] \in Message
    BY DEF Message
  <2>2. \A s \in Slots : ReleaseOf(s) # StartRequest
    BY DEF ReleaseOf, StartRequest
  <2>3. UNCHANGED <<client, free, slotted, starting, streams, lane>>
    BY <1>1, <1>5 DEF compositor, client
  <2>. QED  BY <1>2, <1>5, <2>1, <2>2, <2>3, QuietWrite
<1>. QED  BY <1>4, <1>5 DEF ServeStart

LEMMA ReplyStartedInv ==
    ASSUME Rules, ReplyStarted
    PROVE  Rules'
<1>. USE DEF Rules
<1>1. /\ UNCHANGED <<pc, current, held, misread, pending, ended, requests, lane, slotted, free, streams>>
      /\ starting /\ starting' = FALSE
      /\ wire' = Append(wire, StartReply)
  BY DEF ReplyStarted, client, Write, StartReply
<1>2. StartReply \in Message /\ StartReply.type = "Started" /\ StartReply' = StartReply
  <2>1. streams \in Stream
    BY <1>1 DEF Outstanding, Typed, Stream
  <2>. QED  BY <1>1, <2>1 DEF StartReply, Message
<1>3. /\ wire' \in Seq(Message)
      /\ \A x : Has(wire', x) <=> Has(wire, x) \/ StartReply = x
      /\ \A x : Once(wire, x) /\ (StartReply = x => ~Has(wire, x)) => Once(wire', x)
      /\ Followed'
  BY <1>1, <1>2, Written
<1>4. Typed'
  <2>1. starting' \in BOOLEAN
    BY <1>1
  <2>. QED  BY <1>1, <1>3, <2>1 DEF Typed
<1>5. Known'
  BY <1>1, <1>2, <1>3 DEF Known
<1>6. Outstanding'
  BY <1>1, <1>2, <1>3 DEF Outstanding
<1>7. Settled'
  BY <1>1 DEF Settled
<1>8. Conserved'
  <2>. SUFFICES ASSUME lane # 0, slotted, NEW s \in Slots PROVE InOne(s)'
    BY <1>1 DEF Conserved
  <2>1. InOne(s)
    BY DEF Conserved
  <2>2. FrameOf(s)' = FrameOf(s) /\ ReleaseOf(s)' = ReleaseOf(s) /\ StartReply # FrameOf(s)
    BY <1>1 DEF FrameOf, ReleaseOf, StartReply
  <2>. QED  BY <1>1, <1>3, <2>1, <2>2 DEF InOne
<1>. QED  BY <1>3, <1>4, <1>5, <1>6, <1>7, <1>8

LEMMA ServeReleaseInv ==
    ASSUME Rules, ServeRelease
    PROVE  Rules'
<1>. DEFINE m == [type |-> "Released"]
            r == Head(requests)
<1>. USE DEF Rules
<1>1. /\ UNCHANGED <<pc, current, held, misread, pending, ended, lane, slotted, starting, streams>>
      /\ Serving("Release") /\ requests' = Tail(requests) /\ wire' = Append(wire, m)
      /\ free' = IF lane = r.stream THEN free \cup {r.slot} ELSE free
  BY DEF ServeRelease, client, Write
<1>2. m \in Message
  BY DEF Message
<1>3. /\ wire' \in Seq(Message)
      /\ \A x : Has(wire', x) <=> Has(wire, x) \/ m = x
      /\ \A x : Once(wire, x) /\ (m = x => ~Has(wire, x)) => Once(wire', x)
      /\ Followed'
  BY <1>1, <1>2, Written
<1>4. /\ requests' \in Seq(Request) /\ r \in Request /\ r.type = "Release"
      /\ \A x : Has(requests, x) <=> r = x \/ Has(requests', x)
      /\ \A x : Once(requests, x) => Once(requests', x) /\ (r = x => ~Has(requests', x))
  BY <1>1, Served
<1>5. r.slot \in Slots /\ r = [type |-> "Release", stream |-> r.stream, slot |-> r.slot]
  BY <1>4, Kinds
<1>6. Typed'
  BY <1>1, <1>3, <1>4, <1>5 DEF Typed
<1>7. m # StartReply /\ StartReply' = StartReply /\ r # StartRequest
  BY <1>1, <1>4 DEF StartReply, StartRequest
<1>8. Known'
  BY <1>1, <1>3, <1>4 DEF Known
<1>9. Outstanding'
  BY <1>1, <1>3, <1>4, <1>7 DEF Outstanding
<1>10. Settled'
  BY <1>1, <1>3, <1>4, <1>7 DEF Settled
<1>11. Conserved'
  <2>. SUFFICES ASSUME lane # 0, slotted, NEW s \in Slots PROVE InOne(s)'
    BY <1>1 DEF Conserved
  <2>1. InOne(s)
    BY DEF Conserved
  <2>2. FrameOf(s)' = FrameOf(s) /\ ReleaseOf(s)' = ReleaseOf(s) /\ m # FrameOf(s)
    BY <1>1 DEF FrameOf, ReleaseOf
  <2>3. s \in free' <=> s \in free \/ r = ReleaseOf(s)
    BY <1>1, <1>5 DEF ReleaseOf
  <2>. QED  BY <1>1, <1>3, <1>4, <2>1, <2>2, <2>3 DEF InOne
<1>. QED  BY <1>3, <1>6, <1>8, <1>9, <1>10, <1>11

LEMMA PushFrameInv ==
    ASSUME Rules, PushFrame
    PROVE  Rules'
<1>. USE DEF Rules
<1>1. /\ UNCHANGED <<pc, current, held, misread, pending, ended, requests, lane, slotted, starting,
                     streams>>
      /\ lane # 0 /\ lane \in Stream
  BY DEF PushFrame, client, Typed, Stream
<1>2. \A s : FrameOf(s)' = FrameOf(s) /\ ReleaseOf(s)' = ReleaseOf(s)
  BY <1>1, SameNames
<1>3. StartReply' = StartReply
  BY <1>1 DEF StartReply
<1>4. ASSUME NEW t \in free, free' = free \ {t}, wire' = Append(wire, FrameOf(t)), slotted
      PROVE  Rules'
  <2>1. FrameOf(t) \in Message /\ t \in Slots /\ t # NoSlot
    BY <1>1, <1>4 DEF FrameOf, Message, Event, Typed
  <2>2. FrameOf(t).type = "Frame" /\ FrameOf(t).slot = t /\ FrameOf(t).stream = lane
    BY DEF FrameOf
  <2>3. /\ wire' \in Seq(Message)
        /\ \A x : Has(wire', x) <=> Has(wire, x) \/ FrameOf(t) = x
        /\ \A x : Once(wire, x) /\ (FrameOf(t) = x => ~Has(wire, x)) => Once(wire', x)
        /\ Followed'
    BY <1>4, <2>1, <2>2, Written
  <2>4. Typed'
    BY <1>1, <1>4, <2>3 DEF Typed
  <2>5. FrameOf(t) # StartReply
    BY DEF StartReply, FrameOf
  <2>6. Known'
    BY <1>1, <2>2, <2>3 DEF Known
  <2>7. Outstanding'
    BY <1>1, <1>3, <2>2, <2>3, <2>5 DEF Outstanding
  <2>8. Settled'
    BY <1>1, <1>3, <2>3, <2>5 DEF Settled
  <2>9. Conserved'
    <3>. SUFFICES ASSUME NEW s \in Slots PROVE InOne(s)'
      BY <1>1 DEF Conserved
    <3>1. InOne(s)
      BY <1>1, <1>4 DEF Conserved
    <3>2. FrameOf(t) = FrameOf(s) <=> s = t
      BY DEF FrameOf
    <3>. QED  BY <1>1, <1>2, <1>4, <2>3, <3>1, <3>2 DEF InOne
  <2>. QED  BY <2>3, <2>4, <2>6, <2>7, <2>8, <2>9
<1>5. ASSUME ~slotted, UNCHANGED free,
             wire' = wire \o <<[type |-> "Frame", stream |-> lane, slot |-> NoSlot],
                               [type |-> "Descriptor"]>>
      PROVE  Rules'
  <2>. DEFINE f == [type |-> "Frame", stream |-> lane, slot |-> NoSlot]
              d == [type |-> "Descriptor"]
              w == Append(wire, f)
  <2>1. f \in Message /\ d \in Message
    BY <1>1 DEF Message, Event
  <2>2. /\ w \in Seq(Message) /\ wire' = Append(w, d) /\ wire \in Seq(Message)
    BY <1>5, <2>1 DEF Typed
  <2>3. /\ wire' \in Seq(Message)
        /\ \A x : Has(wire', x) <=> Has(wire, x) \/ f = x \/ d = x
        /\ \A x : Once(wire, x) /\ x # f /\ x # d => Once(wire', x)
    <3>1. /\ \A x : Has(w, x) <=> Has(wire, x) \/ f = x
          /\ \A x : Once(wire, x) /\ (f = x => ~Has(wire, x)) => Once(w, x)
      BY <2>1, <2>2, Appending
    <3>. HIDE DEF w, f, d
    <3>2. /\ wire' \in Seq(Message)
          /\ \A x : Has(wire', x) <=> Has(w, x) \/ d = x
          /\ \A x : Once(w, x) /\ (d = x => ~Has(w, x)) => Once(wire', x)
      BY <2>1, <2>2, Appending
    <3>. QED  BY <3>1, <3>2
  <2>4. Followed'
    <3>1. /\ DOMAIN wire = 1..Len(wire) /\ Len(wire) \in Nat
          /\ DOMAIN wire' = 1..(Len(wire) + 2)
          /\ \A i \in 1..Len(wire) : wire'[i] = wire[i]
          /\ wire'[Len(wire) + 1] = f /\ wire'[Len(wire) + 2] = d
      BY <2>1, <2>2
    <3>. QED  BY <3>1 DEF Followed
  <2>5. Typed'
    BY <1>1, <1>5, <2>3 DEF Typed
  <2>6. StartReply # f /\ StartReply # d
    BY DEF StartReply
  <2>7. Known'
    BY <1>1, <2>3 DEF Known
  <2>8. Outstanding'
    BY <1>1, <1>3, <2>3, <2>6 DEF Outstanding
  <2>9. Settled'
    BY <1>1, <1>3, <2>3, <2>6 DEF Settled
  <2>10. Conserved'
    BY <1>1, <1>5 DEF Conserved
  <2>. QED  BY <2>4, <2>5, <2>7, <2>8, <2>9, <2>10
<1>. QED  BY <1>4, <1>5 DEF PushFrame, Write, FrameOf

LEMMA CompositorInv ==
    ASSUME Rules, Serve \/ Push
    PROVE  Rules'
<1>1. CASE ServeStop
  <2>. DEFINE m == [type |-> "Stopped", stream |-> Head(requests).stream]
  <2>1. Serving("Stop") /\ requests' = Tail(requests) /\ Write(m) /\ lane' \in {lane, 0}
        /\ UNCHANGED <<client, free, slotted, starting, streams>>
    BY <1>1 DEF ServeStop
  <2>2. /\ requests' \in Seq(Request) /\ Head(requests) \in Request /\ Head(requests).type = "Stop"
        /\ \A x : Has(requests, x) <=> Head(requests) = x \/ Has(requests', x)
        /\ \A x : Once(requests, x) => Once(requests', x)
    BY <2>1, Served DEF Rules
  <2>3. m \in Message /\ m.type \notin {"Frame", "Started"}
    BY <2>2, Kinds DEF Message
  <2>4. \A s \in Slots : Head(requests) # ReleaseOf(s)
    BY <2>2 DEF ReleaseOf
  <2>. QED  BY <2>1, <2>2, <2>3, <2>4, QuietWrite
<1>2. CASE ServeOther
  <2>1. PICK m \in {[type |-> "Outputs"], [type |-> "Error"], [type |-> "Renewed"]} : Write(m)
    BY <1>2 DEF ServeOther
  <2>2. PICK t \in {"Enumerate", "Renew"} : Serving(t)
    BY <1>2 DEF ServeOther
  <2>3. requests' = Tail(requests) /\ UNCHANGED <<client, compositor>>
    BY <1>2 DEF ServeOther
  <2>4. /\ requests' \in Seq(Request) /\ Head(requests) \in Request /\ Head(requests).type = t
        /\ \A x : Has(requests, x) <=> Head(requests) = x \/ Has(requests', x)
        /\ \A x : Once(requests, x) => Once(requests', x)
    BY <2>2, <2>3, Served DEF Rules
  <2>5. m \in Message /\ m.type \notin {"Frame", "Started"}
    BY DEF Message, Event
  <2>6. \A s \in Slots : Head(requests) # ReleaseOf(s)
    BY <2>4 DEF ReleaseOf
  <2>7. UNCHANGED <<client, free, slotted, starting, streams, lane>>
    BY <2>3 DEF compositor
  <2>. QED  BY <2>1, <2>4, <2>5, <2>6, <2>7, QuietWrite
<1>3. CASE ChangeGeometry \/ EndStream
  <2>1. lane \in Stream
    BY <1>3 DEF ChangeGeometry, EndStream, Rules, Typed, Stream
  <2>2. PICK m \in [type : {"Ended", "Geometry"}, stream : Stream] : Write(m)
    BY <1>3, <2>1 DEF ChangeGeometry, EndStream
  <2>3. /\ UNCHANGED <<client, free, slotted, starting, streams, requests>>
        /\ lane' \in {lane, 0}
    BY <1>3 DEF ChangeGeometry, EndStream
  <2>4. m \in Message /\ m.type \notin {"Frame", "Started"}
    BY DEF Message, Event
  <2>5. requests \in Seq(Request)
    BY DEF Rules, Typed
  <2>. QED  BY <2>2, <2>3, <2>4, <2>5, QuietWrite
<1>. QED
  BY <1>1, <1>2, <1>3, ServeStartInv, ReplyStartedInv, ServeReleaseInv, PushFrameInv DEF Serve, Push

-----------------------------------------------------------------------------
(* The client.                                                             *)

LEMMA BufferInv ==
    ASSUME Rules, NEW reply, BufferUntilReply(reply), pc' # "ended"
    PROVE  Rules'
<1>. DEFINE h == Head(wire)
<1>. USE DEF Rules
<1>1. /\ UNCHANGED <<pc, current, held, misread, requests, lane, slotted, free, starting, streams>>
      /\ wire # <<>> /\ wire' = AfterMessage
      /\ pending' = IF IsEvent(h) THEN Append(pending, h) ELSE pending
  BY DEF BufferUntilReply, compositor, End
<1>2. /\ wire' \in Seq(Message) /\ h \in Message
      /\ \A x : x # [type |-> "Descriptor"] => (Has(wire, x) <=> h = x \/ Has(wire', x))
      /\ \A x : Once(wire, x) => Once(wire', x) /\ (h = x => ~Has(wire', x))
      /\ \A x : Has(wire', x) => Has(wire, x)
      /\ Followed'
  BY <1>1, ReadOff
<1>3. /\ pending' \in Seq(Event)
      /\ \A x : Has(pending', x) <=> Has(pending, x) \/ (IsEvent(h) /\ h = x)
      /\ \A x : Once(pending, x) /\ (h = x => ~Has(pending, x)) => Once(pending', x)
  <2>1. CASE IsEvent(h)
    BY <1>1, <1>2, <2>1, Kinds, Appending DEF Typed
  <2>2. CASE ~IsEvent(h)
    BY <1>1, <2>2 DEF Typed
  <2>. QED  BY <2>1, <2>2
<1>4. h # [type |-> "Descriptor"] => Has(wire, h)
  BY <1>2
<1>5. Typed'
  BY <1>1, <1>2, <1>3 DEF Typed
<1>6. Known'
  BY <1>1, <1>2, <1>3, <1>4 DEF Known
<1>7. StartReply' = StartReply
  BY <1>1 DEF StartReply
<1>8. Outstanding'
  BY <1>1, <1>2, <1>7 DEF Outstanding
<1>9. Settled'
  BY <1>1, <1>2, <1>7 DEF Settled
<1>10. Conserved'
  <2>. SUFFICES ASSUME lane # 0, slotted, NEW s \in Slots PROVE InOne(s)'
    BY <1>1 DEF Conserved
  <2>1. InOne(s)
    BY DEF Conserved
  <2>2. FrameOf(s)' = FrameOf(s) /\ ReleaseOf(s)' = ReleaseOf(s)
    BY <1>1, SameNames
  <2>3. FrameOf(s) # [type |-> "Descriptor"] /\ (h = FrameOf(s) => IsEvent(h))
    BY DEF FrameOf, IsEvent
  <2>. QED  BY <1>1, <1>2, <1>3, <2>1, <2>2, <2>3 DEF InOne
<1>. QED  BY <1>2, <1>5, <1>6, <1>8, <1>9, <1>10

(* The answer to a start: the client's stream is the compositor's again.   *)
LEMMA StartedInv ==
    ASSUME Rules, pc \in {"start", "restart"}, ReplyIs("Started"),
           current' = Head(wire).stream, wire' = AfterMessage, held' = {}, misread' = {},
           pc' \in {"lookup", "loop"},
           Send([type |-> "Enumerate"]) \/ UNCHANGED requests,
           UNCHANGED <<pending, compositor>>
    PROVE  Rules'
<1>. DEFINE h == Head(wire)
<1>. USE DEF Rules
<1>1. /\ UNCHANGED <<pending, lane, slotted, free, starting, streams>>
      /\ wire # <<>> /\ wire' = AfterMessage /\ h.type = "Started"
  BY DEF compositor, ReplyIs
<1>2. /\ wire' \in Seq(Message) /\ h \in Message
      /\ \A x : x # [type |-> "Descriptor"] => (Has(wire, x) <=> h = x \/ Has(wire', x))
      /\ \A x : Once(wire, x) => Once(wire', x) /\ (h = x => ~Has(wire', x))
      /\ \A x : Has(wire', x) => Has(wire, x)
      /\ Followed'
  BY <1>1, ReadOff
<1>3. /\ requests' \in Seq(Request)
      /\ \A x \in Request : x.type # "Enumerate" => (Has(requests', x) <=> Has(requests, x))
      /\ \A x \in Request : x.type # "Enumerate" => (Once(requests, x) => Once(requests', x))
  <2>1. [type |-> "Enumerate"] \in Request
    BY DEF Request
  <2>2. CASE Send([type |-> "Enumerate"])
    BY <2>1, <2>2, Asked
  <2>3. CASE UNCHANGED requests
    BY <2>3 DEF Typed
  <2>. QED  BY <2>2, <2>3
<1>4. Has(wire, h) /\ h = StartReply /\ h.stream \in Stream /\ h.stream = streams
  <2>1. h # [type |-> "Descriptor"]
    BY <1>1
  <2>2. Has(wire, h) /\ h = StartReply
    BY <1>1, <1>2, <2>1 DEF Outstanding
  <2>. QED  BY <1>1, <1>2, <2>2, Kinds DEF StartReply
<1>5. /\ ~starting /\ ~Has(requests, StartRequest) /\ ~Has(wire', StartReply)
      /\ lane \in {0, streams} /\ current < streams
  BY <1>2, <1>4 DEF Outstanding
<1>6. /\ StartReply' = StartReply /\ StartRequest \in Request /\ StartRequest.type # "Enumerate"
  BY <1>1 DEF StartReply, StartRequest, Request
<1>7. Typed'
  <2>1. current' \in 0..MaxStreams /\ current' \in Stream
    BY <1>4 DEF Stream
  <2>. QED  BY <1>1, <1>2, <1>3, <2>1 DEF Typed
<1>8. Known'
  <2>1. current' <= streams
    BY <1>4 DEF Typed
  <2>2. \A r \in Request : Has(requests', r) /\ r.type = "Release" => Has(requests, r)
    BY <1>3
  <2>. QED  BY <1>1, <1>2, <2>1, <2>2 DEF Known
<1>9. Outstanding'
  BY <1>1, <1>2, <1>3, <1>5, <1>6 DEF Outstanding
<1>10. Settled'
  BY <1>1, <1>3, <1>4, <1>5, <1>6 DEF Settled
<1>11. Conserved'
  <2>. SUFFICES ASSUME lane # 0, slotted, NEW s \in Slots PROVE InOne(s)'
    BY <1>1 DEF Conserved
  <2>1. InOne(s) /\ lane # current
    BY <1>5 DEF Conserved, Typed
  <2>2. FrameOf(s)' = FrameOf(s) /\ ReleaseOf(s)' = ReleaseOf(s)
    BY <1>1, SameNames
  <2>3. FrameOf(s) # [type |-> "Descriptor"] /\ h # FrameOf(s)
    BY <1>1 DEF FrameOf
  <2>4. ReleaseOf(s) \in Request /\ ReleaseOf(s).type # "Enumerate"
    BY DEF ReleaseOf, Request, Typed, Stream
  <2>. QED  BY <1>1, <1>2, <1>3, <2>1, <2>2, <2>3, <2>4 DEF InOne
<1>. QED  BY <1>2, <1>7, <1>8, <1>9, <1>10, <1>11

LEMMA LookupInv ==
    ASSUME Rules, Lookup
    PROVE  Rules'
<1>. DEFINE h == Head(wire)
<1>. USE DEF Rules
<1>1. /\ UNCHANGED <<current, held, pending, requests, lane, slotted, free, starting, streams>>
      /\ wire # <<>> /\ wire' = AfterHeader /\ pc = "lookup" /\ pc' = "loop"
      /\ misread' = {s \in Slots : h = [type |-> "Frame", stream |-> current, slot |-> s]}
  BY DEF Lookup, compositor
<1>2. /\ wire' \in Seq(Message) /\ h \in Message
      /\ \A x : x # [type |-> "Descriptor"] => (Has(wire, x) <=> h = x \/ Has(wire', x))
      /\ \A x : Once(wire, x) => Once(wire', x) /\ (h = x => ~Has(wire', x))
      /\ \A x : Has(wire', x) => Has(wire, x)
      /\ Followed'
  BY <1>1, ReadOff
<1>3. StartReply' = StartReply
  BY <1>1 DEF StartReply
<1>4. Typed'
  BY <1>1, <1>2 DEF Typed
<1>5. Known' /\ Outstanding' /\ Settled'
  BY <1>1, <1>2, <1>3 DEF Known, Outstanding, Settled
<1>6. Conserved'
  <2>. SUFFICES ASSUME lane # 0, slotted, NEW s \in Slots PROVE InOne(s)'
    BY <1>1 DEF Conserved
  <2>1. InOne(s) /\ lane = current /\ misread = {}
    BY <1>1 DEF Conserved, Settled
  <2>2. FrameOf(s)' = FrameOf(s) /\ ReleaseOf(s)' = ReleaseOf(s)
    BY <1>1, SameNames
  <2>3. FrameOf(s) # [type |-> "Descriptor"] /\ (s \in misread' <=> h = FrameOf(s))
    BY <1>1, <2>1 DEF FrameOf
  <2>. QED  BY <1>1, <1>2, <2>1, <2>2, <2>3 DEF InOne
<1>. QED  BY <1>2, <1>4, <1>5, <1>6

(* One event handed to the cast, from wherever it was taken.               *)
LEMMA Delivered ==
    ASSUME Rules, NEW m \in Event, Deliver(m), pc \in {"loop", "next"}, pc' # "ended",
           UNCHANGED <<current, misread, compositor>>
    PROVE  /\ pc' \in {"loop", "stop"} /\ UNCHANGED <<lane, slotted, free, starting, streams>>
           /\ held' \subseteq Slots
           /\ lane # 0 => \A s \in Slots : s \in held' <=> s \in held \/ m = FrameOf(s)
           /\ requests' \in Seq(Request)
           /\ \A x \in Request : x.type # "Stop" => (Has(requests', x) <=> Has(requests, x))
           /\ \A x \in Request : x.type # "Stop" => (Once(requests, x) => Once(requests', x))
<1>. USE DEF Rules
<1>1. UNCHANGED <<lane, slotted, free, starting, streams>>
  BY DEF compositor
<1>2. requests \in Seq(Request) /\ held \subseteq Slots /\ current \in Stream
  BY DEF Typed
<1>3. lane # 0 => lane = current
  BY DEF Settled
<1>4. CASE m.type = "Frame"
  <2>1. /\ held' = IF m.stream = current /\ m.slot # NoSlot THEN held \cup {m.slot} ELSE held
        /\ pc' = "loop" /\ UNCHANGED requests
    BY <1>4 DEF Deliver
  <2>2. /\ m.slot \in Slots \cup {NoSlot}
        /\ m = [type |-> "Frame", stream |-> m.stream, slot |-> m.slot]
    BY <1>4, Kinds
  <2>3. held' \subseteq Slots
    BY <1>2, <2>1, <2>2
  <2>4. ASSUME lane # 0, NEW s \in Slots
        PROVE  s \in held' <=> s \in held \/ m = FrameOf(s)
    BY <1>3, <2>1, <2>2, <2>4 DEF FrameOf
  <2>. QED  BY <1>1, <1>2, <2>1, <2>3, <2>4
<1>5. CASE m.type # "Frame"
  <2>1. \A s : m # FrameOf(s)
    BY <1>5 DEF FrameOf
  <2>2. held' = held /\ pc' \in {"loop", "stop"}
    BY <1>5 DEF Deliver, End
  <2>3. UNCHANGED requests \/ Send([type |-> "Stop", stream |-> current])
    BY <1>5 DEF Deliver
  <2>4. [type |-> "Stop", stream |-> current] \in Request
    BY <1>2 DEF Request
  <2>5. /\ requests' \in Seq(Request)
        /\ \A x \in Request : x.type # "Stop" => (Has(requests', x) <=> Has(requests, x))
        /\ \A x \in Request : x.type # "Stop" => (Once(requests, x) => Once(requests', x))
    BY <1>2, <2>3, <2>4, Asked
  <2>. QED  BY <1>1, <1>2, <2>1, <2>2, <2>5
<1>. QED  BY <1>4, <1>5

LEMMA NextPendingInv ==
    ASSUME Rules, NextPending, pc' # "ended"
    PROVE  Rules'
<1>. DEFINE m == Head(pending)
<1>. USE DEF Rules
<1>1. /\ UNCHANGED <<current, misread, wire, compositor>> /\ pc = "loop"
      /\ pending # <<>> /\ pending' = Tail(pending) /\ Deliver(m)
  BY DEF NextPending
<1>2. /\ pending' \in Seq(Event) /\ m \in Event
      /\ \A x : Has(pending, x) <=> m = x \/ Has(pending', x)
      /\ \A x : Once(pending, x) => Once(pending', x) /\ (m = x => ~Has(pending', x))
  BY <1>1, Taking DEF Typed
<1>3. /\ pc' \in {"loop", "stop"} /\ UNCHANGED <<lane, slotted, free, starting, streams>>
      /\ held' \subseteq Slots
      /\ lane # 0 => \A s \in Slots : s \in held' <=> s \in held \/ m = FrameOf(s)
      /\ requests' \in Seq(Request)
      /\ \A x \in Request : x.type # "Stop" => (Has(requests', x) <=> Has(requests, x))
      /\ \A x \in Request : x.type # "Stop" => (Once(requests, x) => Once(requests', x))
  BY <1>1, <1>2, Delivered
<1>4. /\ StartReply' = StartReply /\ StartRequest \in Request /\ StartRequest.type # "Stop"
  BY <1>3 DEF StartReply, StartRequest, Request
<1>5. Typed'
  BY <1>1, <1>2, <1>3 DEF Typed
<1>6. Known'
  <2>1. \A r \in Request : Has(requests', r) /\ r.type = "Release" => Has(requests, r)
    BY <1>3
  <2>. QED  BY <1>1, <1>2, <1>3, <2>1 DEF Known
<1>7. Followed' /\ Outstanding' /\ Settled'
  BY <1>1, <1>3, <1>4 DEF Followed, Outstanding, Settled
<1>8. Conserved'
  <2>. SUFFICES ASSUME lane # 0, slotted, NEW s \in Slots PROVE InOne(s)'
    BY <1>3 DEF Conserved
  <2>1. InOne(s) /\ lane = current
    BY <1>1 DEF Conserved, Settled
  <2>2. FrameOf(s)' = FrameOf(s) /\ ReleaseOf(s)' = ReleaseOf(s)
    BY <1>3, SameNames
  <2>3. ReleaseOf(s) \in Request /\ ReleaseOf(s).type # "Stop"
    BY DEF ReleaseOf, Request, Typed, Stream
  <2>. QED  BY <1>1, <1>2, <1>3, <2>1, <2>2, <2>3 DEF InOne
<1>. QED  BY <1>5, <1>6, <1>7, <1>8

LEMMA NextMessageInv ==
    ASSUME Rules, NextMessage, pc' # "ended"
    PROVE  Rules'
<1>. DEFINE m == Head(wire)
<1>. USE DEF Rules
<1>1. /\ UNCHANGED <<current, misread, pending, compositor>> /\ pc \in {"loop", "next"}
      /\ wire # <<>> /\ wire' = AfterMessage
      /\ \/ IsEvent(m) /\ Deliver(m)
         \/ ~IsEvent(m) /\ pc' = "next" /\ UNCHANGED <<held, requests>>
  BY DEF NextMessage, End
<1>2. /\ wire' \in Seq(Message) /\ m \in Message
      /\ \A x : x # [type |-> "Descriptor"] => (Has(wire, x) <=> m = x \/ Has(wire', x))
      /\ \A x : Once(wire, x) => Once(wire', x) /\ (m = x => ~Has(wire', x))
      /\ \A x : Has(wire', x) => Has(wire, x)
      /\ Followed'
  BY <1>1, ReadOff
<1>3. /\ pc' \in {"loop", "stop", "next"} /\ UNCHANGED <<lane, slotted, free, starting, streams>>
      /\ held' \subseteq Slots
      /\ lane # 0 => \A s \in Slots : s \in held' <=> s \in held \/ m = FrameOf(s)
      /\ requests' \in Seq(Request)
      /\ \A x \in Request : x.type # "Stop" => (Has(requests', x) <=> Has(requests, x))
      /\ \A x \in Request : x.type # "Stop" => (Once(requests, x) => Once(requests', x))
  <2>1. CASE IsEvent(m) /\ Deliver(m)
    <3>1. m \in Event
      BY <1>2, <2>1, Kinds
    <3>. QED  BY <1>1, <2>1, <3>1, Delivered
  <2>2. CASE ~IsEvent(m) /\ pc' = "next" /\ UNCHANGED <<held, requests>>
    <3>1. \A s : m # FrameOf(s)
      BY <2>2 DEF IsEvent, FrameOf
    <3>. QED  BY <1>1, <2>2, <3>1 DEF Typed, compositor
  <2>. QED  BY <1>1, <2>1, <2>2
<1>4. /\ StartReply' = StartReply /\ StartRequest \in Request /\ StartRequest.type # "Stop"
  BY <1>3 DEF StartReply, StartRequest, Request
<1>5. Typed'
  BY <1>1, <1>2, <1>3 DEF Typed
<1>6. Known'
  <2>1. \A r \in Request : Has(requests', r) /\ r.type = "Release" => Has(requests, r)
    BY <1>3
  <2>. QED  BY <1>1, <1>2, <1>3, <2>1 DEF Known
<1>7. Outstanding' /\ Settled'
  BY <1>1, <1>2, <1>3, <1>4 DEF Outstanding, Settled
<1>8. Conserved'
  <2>. SUFFICES ASSUME lane # 0, slotted, NEW s \in Slots PROVE InOne(s)'
    BY <1>3 DEF Conserved
  <2>1. InOne(s) /\ lane = current
    BY <1>1 DEF Conserved, Settled
  <2>2. FrameOf(s)' = FrameOf(s) /\ ReleaseOf(s)' = ReleaseOf(s)
    BY <1>3, SameNames
  <2>3. ReleaseOf(s) \in Request /\ ReleaseOf(s).type # "Stop"
    BY DEF ReleaseOf, Request, Typed, Stream
  <2>4. FrameOf(s) # [type |-> "Descriptor"]
    BY DEF FrameOf
  <2>. QED  BY <1>1, <1>2, <1>3, <2>1, <2>2, <2>3, <2>4 DEF InOne
<1>. QED  BY <1>2, <1>5, <1>6, <1>7, <1>8

LEMMA StoppedInv ==
    ASSUME Rules, StopForRestart, pc' # "ended"
    PROVE  Rules'
<1>. DEFINE h == Head(wire)
<1>. USE DEF Rules
<1>1. CASE BufferUntilReply("Stopped")
  BY <1>1, BufferInv
<1>2. CASE ~BufferUntilReply("Stopped")
  <2>1. /\ UNCHANGED <<current, held, misread, pending, lane, slotted, free, starting, streams>>
        /\ pc = "stop" /\ pc' = "restart" /\ Send(StartRequest)
        /\ wire # <<>> /\ wire' = AfterMessage /\ h.type = "Stopped"
    BY <1>2 DEF StopForRestart, ReplyIs, End, compositor, StartRequest
  <2>2. /\ wire' \in Seq(Message)
        /\ \A x : x # [type |-> "Descriptor"] => (Has(wire, x) <=> h = x \/ Has(wire', x))
        /\ \A x : Once(wire, x) => Once(wire', x)
        /\ \A x : Has(wire', x) => Has(wire, x)
        /\ Followed'
    BY <2>1, ReadOff
  <2>3. StartRequest \in Request /\ StartReply' = StartReply
    BY <2>1 DEF StartRequest, StartReply, Request
  <2>4. /\ requests' \in Seq(Request)
        /\ \A x : Has(requests', x) <=> Has(requests, x) \/ StartRequest = x
        /\ \A x : Once(requests, x) /\ (StartRequest = x => ~Has(requests, x)) => Once(requests', x)
    BY <2>1, <2>3, Asked
  <2>5. Typed'
    BY <2>1, <2>2, <2>4 DEF Typed
  <2>6. Known'
    <3>1. StartRequest.type # "Release"
      BY DEF StartRequest
    <3>. QED  BY <2>1, <2>2, <2>4, <3>1 DEF Known
  <2>7. Outstanding' /\ Settled'
    BY <2>1, <2>2, <2>3, <2>4 DEF Outstanding, Settled
  <2>8. Conserved'
    <3>. SUFFICES ASSUME lane # 0, slotted, NEW s \in Slots PROVE InOne(s)'
      BY <2>1 DEF Conserved
    <3>1. InOne(s)
      BY DEF Conserved
    <3>2. FrameOf(s)' = FrameOf(s) /\ ReleaseOf(s)' = ReleaseOf(s)
      BY <2>1, SameNames
    <3>3. /\ FrameOf(s) # [type |-> "Descriptor"] /\ h # FrameOf(s)
          /\ ReleaseOf(s) # StartRequest
      BY <2>1 DEF FrameOf, ReleaseOf, StartRequest
    <3>. QED  BY <2>1, <2>2, <2>4, <3>1, <3>2, <3>3 DEF InOne
  <2>. QED  BY <2>2, <2>5, <2>6, <2>7, <2>8
<1>. QED  BY <1>1, <1>2

(* Asking from the loop: a slot goes back, the stream is to stop, or the   *)
(* lease to be renewed.                                                    *)
LEMMA AskInv ==
    ASSUME Rules, NEW r \in Request, Send(r), r.type # "Start",
           pc = "loop", pc' \in {"loop", "stop"},
           UNCHANGED <<current, misread, pending, wire, compositor>>,
           \/ r.type # "Release" /\ held' = held
           \/ r.type = "Release" /\ r.stream = current /\ r.slot \in held
              /\ held' = held \ {r.slot}
    PROVE  Rules'
<1>. USE DEF Rules
<1>1. UNCHANGED <<lane, slotted, free, starting, streams>>
  BY DEF compositor
<1>2. /\ requests' \in Seq(Request)
      /\ \A x : Has(requests', x) <=> Has(requests, x) \/ r = x
      /\ \A x : Once(requests, x) /\ (r = x => ~Has(requests, x)) => Once(requests', x)
  BY Asked
<1>3. r # StartRequest /\ StartReply' = StartReply
  BY <1>1 DEF StartRequest, StartReply
<1>4. Typed'
  BY <1>1, <1>2 DEF Typed
<1>5. Known'
  BY <1>1, <1>2 DEF Known
<1>6. Followed' /\ Outstanding' /\ Settled'
  BY <1>1, <1>2, <1>3 DEF Followed, Outstanding, Settled
<1>7. Conserved'
  <2>. SUFFICES ASSUME lane # 0, slotted, NEW s \in Slots PROVE InOne(s)'
    BY <1>1 DEF Conserved
  <2>1. InOne(s) /\ lane = current
    BY DEF Conserved, Settled
  <2>2. FrameOf(s)' = FrameOf(s) /\ ReleaseOf(s)' = ReleaseOf(s)
    BY <1>1, SameNames
  <2>3. CASE r = ReleaseOf(s)
    <3>1. s \in held /\ s \notin held'
      BY <2>3 DEF ReleaseOf
    <3>. QED  BY <1>1, <1>2, <2>1, <2>2, <2>3, <3>1 DEF InOne
  <2>4. CASE r # ReleaseOf(s)
    <3>1. s \in held' <=> s \in held
      <4>1. r.type = "Release" => r = [type |-> "Release", stream |-> r.stream, slot |-> r.slot]
        BY Kinds
      <4>. QED  BY <2>1, <2>4, <4>1 DEF ReleaseOf
    <3>. QED  BY <1>1, <1>2, <2>1, <2>2, <2>4, <3>1 DEF InOne
  <2>. QED  BY <2>3, <2>4
<1>. QED  BY <1>4, <1>5, <1>6, <1>7

LEMMA ClientInv ==
    ASSUME Rules, Read \/ Release \/ SyncTransport \/ RenewLease \/ Stop, pc' # "ended"
    PROVE  Rules'
<1>1. CASE Start
  <2>1. CASE BufferUntilReply("Started")
    BY <2>1, BufferInv
  <2>2. CASE ~BufferUntilReply("Started")
    <3>1. /\ pc = "start" /\ ReplyIs("Started") /\ current' = Head(wire).stream
          /\ wire' = AfterMessage /\ pc' \in {"lookup", "loop"}
          /\ Send([type |-> "Enumerate"]) \/ UNCHANGED requests
          /\ UNCHANGED <<held, misread, pending, compositor>>
      BY <1>1, <2>2 DEF Start
    <3>2. held' = {} /\ misread' = {}
      BY <3>1 DEF Rules, Settled
    <3>. QED  BY <3>1, <3>2, StartedInv
  <2>. QED  BY <2>1, <2>2
<1>2. CASE Restart
  <2>1. CASE BufferUntilReply("Started")
    BY <2>1, BufferInv
  <2>2. CASE ~BufferUntilReply("Started")
    BY <1>2, <2>2, StartedInv DEF Restart
  <2>. QED  BY <2>1, <2>2
<1>3. CASE Lookup \/ StopForRestart \/ NextPending \/ NextMessage
  BY <1>3, LookupInv, StoppedInv, NextPendingInv, NextMessageInv
<1>4. CASE ReadTimeout \/ Stop
  BY <1>4 DEF ReadTimeout, Stop, End
<1>5. CASE Release
  <2>1. PICK s \in held : held' = held \ {s} /\ Send([type |-> "Release", stream |-> current, slot |-> s])
    BY <1>5 DEF Release
  <2>2. UNCHANGED <<pc, current, misread, pending, wire, compositor>> /\ pc = "loop"
    BY <1>5 DEF Release
  <2>3. [type |-> "Release", stream |-> current, slot |-> s] \in Request
    BY <2>2 DEF Rules, Typed, Request
  <2>. QED  BY <2>1, <2>2, <2>3, AskInv
<1>6. CASE SyncTransport
  <2>1. /\ pc = "loop" /\ pc' = "stop" /\ Send([type |-> "Stop", stream |-> current])
        /\ UNCHANGED <<current, held, misread, pending, wire, compositor>>
    BY <1>6 DEF SyncTransport
  <2>2. [type |-> "Stop", stream |-> current] \in Request
    BY <2>1 DEF Rules, Typed, Request
  <2>. QED  BY <2>1, <2>2, AskInv
<1>7. CASE RenewLease
  <2>1. /\ pc = "loop" /\ Send([type |-> "Renew"])
        /\ UNCHANGED <<pc, current, held, misread, pending, wire, compositor>>
    BY <1>7 DEF RenewLease, client
  <2>2. [type |-> "Renew"] \in Request
    BY DEF Request
  <2>. QED  BY <2>1, <2>2, AskInv
<1>. QED  BY <1>1, <1>2, <1>3, <1>4, <1>5, <1>6, <1>7 DEF Read

-----------------------------------------------------------------------------
LEMMA NextInv == Inv /\ [Next]_vars => Inv'
<1>. SUFFICES ASSUME Inv, [Next]_vars, pc' # "ended" PROVE Rules'
  BY DEF Inv, Rules
<1>1. CASE UNCHANGED vars
  <2>1. UNCHANGED <<pc, current, held, misread, pending, requests, wire, lane, slotted, free,
                    starting, streams>>
    BY <1>1 DEF vars, client, compositor
  <2>2. Rules
    BY <2>1 DEF Inv, Rules
  <2>3. Typed' /\ Known' /\ Followed' /\ Outstanding' /\ Settled'
    BY <2>1, <2>2 DEF Rules, Typed, Known, Followed, Outstanding, Settled, StartReply
  <2>4. Conserved'
    BY <2>1, <2>2, SameNames DEF Rules, Conserved, InOne
  <2>. QED  BY <2>3, <2>4 DEF Rules
<1>2. CASE Serve \/ Push
  <2>1. pc' = pc
    BY <1>2 DEF Serve, Push, ServeStart, ReplyStarted, ServeStop, ServeRelease, ServeOther,
                PushFrame, ChangeGeometry, EndStream, client
  <2>. QED  BY <1>2, <2>1, CompositorInv DEF Inv, Rules
<1>3. CASE Read \/ Release \/ SyncTransport \/ RenewLease \/ Stop
  <2>1. pc # "ended"
    BY <1>3 DEF Read, Start, Lookup, StopForRestart, Restart, NextPending, NextMessage, ReadTimeout,
                Release, SyncTransport, RenewLease, Stop
  <2>. QED  BY <1>3, <2>1, ClientInv DEF Inv, Rules
<1>. QED  BY <1>1, <1>2, <1>3 DEF Next

LEMMA InvCorrect == Spec => []Inv
<1>. QED  BY InitInv, NextInv, PTL DEF Spec

(* The places where a message is, counted.                                 *)
LEMMA Counted ==
    ASSUME NEW q, NEW m, Once(q, m)
    PROVE  Cardinality({i \in DOMAIN q : q[i] = m}) = IF Has(q, m) THEN 1 ELSE 0
<1>1. CASE Has(q, m)
  <2>1. PICK i \in DOMAIN q : {j \in DOMAIN q : q[j] = m} = {i}
    BY <1>1 DEF Has, Once
  <2>. QED  BY <1>1, <2>1, FS_Singleton
<1>2. CASE ~Has(q, m)
  <2>1. {j \in DOMAIN q : q[j] = m} = {}
    BY <1>2 DEF Has
  <2>. QED  BY <1>2, <2>1, FS_EmptySet
<1>. QED  BY <1>1, <1>2

(* A slot of the live stream is in one place, whatever overtakes a reply   *)
(* and whoever restarts the stream (client.rs:374, cast/mod.rs), but for   *)
(* those the connector lookup misread (client.rs:250).                     *)
THEOREM ConservedCorrect == Spec => []SlotsConserved
<1>1. ASSUME Inv
      PROVE  SlotsConserved
  <2>. SUFFICES ASSUME InLoop, slotted, NEW s \in Slots
                PROVE  Occupied(s) = IF s \in misread THEN 0 ELSE 1
    BY DEF SlotsConserved
  <2>1. Rules /\ lane = current /\ current \in Stream
    BY <1>1 DEF Inv, Rules, InLoop, Typed
  <2>2. InOne(s)
    BY <2>1 DEF Rules, Conserved, Stream
  <2>3. \A m \in Message : m.type = "Frame" /\ m.stream = current /\ m.slot = s <=> m = FrameOf(s)
    BY <2>1, Kinds DEF FrameOf
  <2>4. \A r \in Request : r.type = "Release" /\ r.stream = current /\ r.slot = s <=> r = ReleaseOf(s)
    BY <2>1, Kinds DEF ReleaseOf
  <2>5. /\ \A i \in DOMAIN wire : wire[i] \in Message
        /\ \A i \in DOMAIN pending : pending[i] \in Message
        /\ \A i \in DOMAIN requests : requests[i] \in Request
    BY <2>1, Kinds DEF Rules, Typed
  <2>6. {i \in DOMAIN wire : wire[i].type = "Frame" /\ wire[i].stream = current /\ wire[i].slot = s}
        = {i \in DOMAIN wire : wire[i] = FrameOf(s)}
    BY <2>3, <2>5
  <2>7. {i \in DOMAIN pending :
            pending[i].type = "Frame" /\ pending[i].stream = current /\ pending[i].slot = s}
        = {i \in DOMAIN pending : pending[i] = FrameOf(s)}
    BY <2>3, <2>5
  <2>8. {i \in DOMAIN requests :
            /\ requests[i].type = "Release"
            /\ requests[i].stream = current /\ requests[i].slot = s}
        = {i \in DOMAIN requests : requests[i] = ReleaseOf(s)}
    BY <2>4, <2>5
  <2>9. \A S : Cardinality({s} \cap S) = IF s \in S THEN 1 ELSE 0
    <3>. TAKE S
    <3>1. CASE s \in S
      <4>1. {s} \cap S = {s}
        BY <3>1
      <4>. QED  BY <3>1, <4>1, FS_Singleton
    <3>2. CASE s \notin S
      <4>1. {s} \cap S = {}
        BY <3>2
      <4>. QED  BY <3>2, <4>1, FS_EmptySet
    <3>. QED  BY <3>1, <3>2
  <2>10. Occupied(s) = (IF Has(wire, FrameOf(s)) THEN 1 ELSE 0)
                       + (IF Has(pending, FrameOf(s)) THEN 1 ELSE 0)
                       + (IF Has(requests, ReleaseOf(s)) THEN 1 ELSE 0)
                       + (IF s \in held THEN 1 ELSE 0)
                       + (IF s \in free THEN 1 ELSE 0)
    BY <2>2, <2>6, <2>7, <2>8, <2>9, Counted DEF Occupied, InOne
  <2>. QED  BY <2>1, <2>2, <2>10 DEF InOne
<1>. QED  BY <1>1, InvCorrect, PTL
=============================================================================
