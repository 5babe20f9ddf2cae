------------------------- MODULE PortalServicesProofs -------------------------
(***************************************************************************)
(* Proofs about PortalServices, for any number of requests, paths and      *)
(* applications, any limits and any list of defaults.                      *)
(*                                                                         *)
(* The first part is about texts: what an edit of mimeapps.list changes.   *)
(* Every action of a portal is, for the task, one of four kinds of step:   *)
(* a request begins, moves on, is answered, or is marked as closed.  The   *)
(* next parts show that each action keeps to the rules of its kind, most   *)
(* of all that a request closed in time is not past the last look at its   *)
(* marker; what holds of requests then follows once for all portals.  The  *)
(* other parts are about the state of one portal each, which the actions   *)
(* of the others leave alone as long as they stay out of its places.       *)
(***************************************************************************)
EXTENDS PortalServices, ListProofs, FiniteSetTheorems, TLAPS

-----------------------------------------------------------------------------
(* OpenWith: what reading mimeapps.list finds, and what an edit of it      *)
(* changes.                                                                *)

LEMMA LineFields ==
    ASSUME NEW line \in Lines
    PROVE  /\ line.group \in Groups \cup {None} /\ line.key \in ContentTypes \cup {None}
           /\ line.ids \in Seq(Ids) /\ line.ended \in BOOLEAN
           /\ line.group = None \/ line.key = None
  BY DEF Lines

LEMMA NewLines ==
    /\ \A type \in ContentTypes, ids \in Seq(Ids) : Key(type, ids) \in Lines
    /\ Header("defaults") \in Lines
<1>1. ASSUME NEW type \in ContentTypes, NEW ids \in Seq(Ids)
      PROVE  Key(type, ids) \in Lines
  BY DEF Key, Lines
<1>2. Header("defaults") \in Lines
  <2>1. <<>> \in Seq(Ids) /\ "defaults" \in Groups
    BY DEF Groups
  <2>. QED  BY <2>1, ServicesAssumption DEF Header, Lines
<1>. QED  BY <1>1, <1>2

(* The last header up to a line, if there is one, is the line's group. *)
LEMMA GroupFound ==
    ASSUME NEW text \in Seq(Lines), NEW n \in 1..Len(text)
    PROVE  \/ /\ GroupOf(text, n) = None
              /\ \A m \in 1..n : ~IsHeader(text[m])
           \/ \E m \in 1..n : /\ IsHeader(text[m])
                              /\ \A l \in 1..n : IsHeader(text[l]) => l <= m
                              /\ GroupOf(text, n) = text[m].group
<1>. DEFINE above == {m \in 1..n : IsHeader(text[m])}
<1>1. CASE above = {}
  BY <1>1 DEF GroupOf
<1>2. CASE above # {}
  <2>1. n \in Nat /\ above \in SUBSET (0..n)
    OBVIOUS
  <2>2. \E m \in above : \A l \in above : l <= m
    <3>. HIDE DEF above
    <3>. QED  BY <1>2, <2>1, GreatestNumber
  <2>. DEFINE top == CHOOSE m \in above : \A l \in above : l <= m
  <2>3. top \in above /\ \A l \in above : l <= top
    <3>. HIDE DEF above
    <3>. QED  BY <2>2
  <2>4. GroupOf(text, n) = text[top].group
    BY <1>2, Zenon DEF GroupOf
  <2>. HIDE DEF top
  <2>. QED  BY <2>3, <2>4
<1>. QED  BY <1>1, <1>2

LEMMA GroupIs ==
    ASSUME NEW text \in Seq(Lines), NEW n \in 1..Len(text), NEW m \in 1..n,
           IsHeader(text[m]), \A l \in 1..n : IsHeader(text[l]) => l <= m
    PROVE  GroupOf(text, n) = text[m].group
<1>1. PICK k \in 1..n : /\ IsHeader(text[k])
                        /\ \A l \in 1..n : IsHeader(text[l]) => l <= k
                        /\ GroupOf(text, n) = text[k].group
  BY GroupFound
<1>2. k <= m /\ m <= k
  BY <1>1
<1>3. k = m
  BY <1>2
<1>. QED  BY <1>1, <1>3

(* The groups of lines depend on the headers above them only. *)
LEMMA SameGroup ==
    ASSUME NEW s \in Seq(Lines), NEW t \in Seq(Lines),
           NEW n \in 1..Len(s), n <= Len(t), \A m \in 1..n : t[m].group = s[m].group
    PROVE  GroupOf(t, n) = GroupOf(s, n)
<1>0. n \in 1..Len(t) /\ \A m \in 1..n : IsHeader(t[m]) <=> IsHeader(s[m])
  BY DEF IsHeader
<1>1. CASE GroupOf(s, n) = None /\ \A m \in 1..n : ~IsHeader(s[m])
  BY <1>0, <1>1, GroupFound
<1>2. CASE \E m \in 1..n : /\ IsHeader(s[m])
                           /\ \A l \in 1..n : IsHeader(s[l]) => l <= m
                           /\ GroupOf(s, n) = s[m].group
  <2>1. PICK m \in 1..n : /\ IsHeader(s[m])
                          /\ \A l \in 1..n : IsHeader(s[l]) => l <= m
                          /\ GroupOf(s, n) = s[m].group
    BY <1>2
  <2>2. GroupOf(t, n) = t[m].group
    BY <1>0, <2>1, GroupIs
  <2>. QED  BY <2>1, <2>2
<1>. QED  BY <1>1, <1>2, GroupFound

(* t is s with a line written after its n-th. *)
Longer(t, s, n, line) ==
    /\ t \in Seq(Lines) /\ Len(t) = Len(s) + 1 /\ Len(s) \in Nat
    /\ \A m \in 1..n : t[m] = s[m]
    /\ t[n + 1] = line
    /\ \A m \in (n + 1)..Len(s) : t[m + 1] = s[m]

(* A key line takes the group of the line it is written after, and changes *)
(* no other's.                                                             *)
LEMMA Inserted ==
    ASSUME NEW s \in Seq(Lines), NEW n \in 1..Len(s), NEW line \in Lines
    PROVE  Longer(InsertAfter(s, n, line), s, n, line)
<1>. DEFINE t == InsertAfter(s, n, line)
<1>. DEFINE put(m) == IF m <= n THEN s[m] ELSE IF m = n + 1 THEN line ELSE s[m - 1]
<1>1. Len(s) \in Nat /\ \A m \in 1..Len(s) : s[m] \in Lines
  OBVIOUS
<1>2. \A m \in 1..(Len(s) + 1) : m <= n => m \in 1..Len(s)
  BY <1>1
<1>3. \A m \in 1..(Len(s) + 1) : ~(m <= n) /\ m # n + 1 => m - 1 \in 1..Len(s)
  BY <1>1
<1>4. \A m \in 1..(Len(s) + 1) : put(m) \in Lines
  BY <1>1, <1>2, <1>3
<1>5. t = [m \in 1..(Len(s) + 1) |-> put(m)]
  BY DEF InsertAfter
<1>6. t \in Seq(Lines) /\ Len(t) = Len(s) + 1
  <2>. HIDE DEF put, t
  <2>. QED  BY <1>1, <1>4, <1>5
<1>7. \A m \in 1..(Len(s) + 1) : t[m] = put(m)
  <2>. HIDE DEF put
  <2>. QED  BY <1>5
<1>. HIDE DEF t
<1>8. \A m \in 1..n : t[m] = s[m]
  BY <1>1, <1>7
<1>9. t[n + 1] = line
  BY <1>1, <1>7
<1>10. ASSUME NEW m \in (n + 1)..Len(s)
       PROVE  t[m + 1] = s[m]
  <2>1. m + 1 \in 1..(Len(s) + 1) /\ ~(m + 1 <= n) /\ m + 1 # n + 1 /\ (m + 1) - 1 = m
    BY <1>1
  <2>. QED  BY <1>7, <2>1
<1>. QED  BY <1>1, <1>6, <1>8, <1>9, <1>10 DEF Longer, t

LEMMA InsertedGroups ==
    ASSUME NEW s \in Seq(Lines), NEW n \in 1..Len(s), NEW line \in Lines, ~IsHeader(line),
           NEW t, Longer(t, s, n, line)
    PROVE  /\ \A m \in 1..n : GroupOf(t, m) = GroupOf(s, m)
           /\ \A m \in n..Len(s) : GroupOf(t, m + 1) = GroupOf(s, m)
<1>1. /\ t \in Seq(Lines) /\ Len(t) = Len(s) + 1 /\ Len(s) \in Nat
      /\ \A m \in 1..n : t[m] = s[m]
      /\ t[n + 1] = line
      /\ \A m \in (n + 1)..Len(s) : t[m + 1] = s[m]
  BY DEF Longer
<1>2. ASSUME NEW m \in 1..n
      PROVE  GroupOf(t, m) = GroupOf(s, m)
  <2>1. m \in 1..Len(s) /\ m <= Len(t) /\ \A l \in 1..m : l \in 1..n
    BY <1>1
  <2>. QED  BY <1>1, <2>1, SameGroup
<1>3. ASSUME NEW m \in n..Len(s)
      PROVE  GroupOf(t, m + 1) = GroupOf(s, m)
  <2>0. m \in 1..Len(s) /\ m + 1 \in 1..Len(t) /\ m \in Nat /\ n \in Nat
    BY <1>1
  <2>1. \A l \in 1..(m + 1) : IsHeader(t[l]) =>
            \/ l \in 1..n /\ IsHeader(s[l])
            \/ l - 1 \in (n + 1)..m /\ IsHeader(s[l - 1])
    <3>1. \A l \in 1..(m + 1) : l \in 1..n \/ l = n + 1 \/ l - 1 \in (n + 1)..m
      BY <2>0
    <3>2. \A l \in (n + 1)..m : l \in (n + 1)..Len(s)
      BY <1>1, <2>0
    <3>3. \A l \in 1..(m + 1) : (l - 1) + 1 = l
      BY <2>0
    <3>4. \A l \in 1..(m + 1) : l - 1 \in (n + 1)..m => t[l] = s[l - 1]
      BY <1>1, <3>2, <3>3
    <3>. QED  BY <1>1, <3>1, <3>4
  <2>2. CASE GroupOf(s, m) = None /\ \A l \in 1..m : ~IsHeader(s[l])
    <3>1. \A l \in 1..(m + 1) : ~IsHeader(t[l])
      <4>1. \A l \in 1..n : l \in 1..m
        BY <2>0
      <4>2. \A l \in (n + 1)..m : l \in 1..m
        BY <2>0
      <4>. QED  BY <2>1, <2>2, <4>1, <4>2
    <3>. QED  BY <1>1, <2>0, <2>2, <3>1, GroupFound
  <2>3. ASSUME NEW k \in 1..m, IsHeader(s[k]), \A l \in 1..m : IsHeader(s[l]) => l <= k,
               GroupOf(s, m) = s[k].group
        PROVE  GroupOf(t, m + 1) = GroupOf(s, m)
    <3>1. \A l \in 1..n : l \in 1..m
      BY <2>0
    <3>2. \A l \in (n + 1)..m : l \in 1..m
      BY <2>0
    <3>3. CASE k <= n
      <4>1. k \in 1..n /\ k \in 1..(m + 1) /\ t[k] = s[k]
        BY <1>1, <2>0, <3>3
      <4>2. ASSUME NEW l \in 1..(m + 1), IsHeader(t[l])
            PROVE  l <= k
        <5>1. CASE l \in 1..n /\ IsHeader(s[l])
          <6>1. l \in 1..m
            BY <3>1, <5>1
          <6>. QED  BY <2>3, <5>1, <6>1
        <5>2. CASE l - 1 \in (n + 1)..m /\ IsHeader(s[l - 1])
          <6>1. l - 1 <= k
            BY <2>3, <3>2, <5>2
          <6>. QED  BY <2>0, <3>3, <5>2, <6>1
        <5>. QED  BY <2>1, <4>2, <5>1, <5>2
      <4>3. GroupOf(t, m + 1) = t[k].group
        BY <1>1, <2>0, <2>3, <4>1, <4>2, GroupIs
      <4>. QED  BY <2>3, <4>1, <4>3
    <3>4. CASE ~(k <= n)
      <4>1. k \in (n + 1)..Len(s) /\ k + 1 \in 1..(m + 1)
        BY <2>0, <3>4
      <4>2. t[k + 1] = s[k]
        BY <1>1, <4>1
      <4>3. ASSUME NEW l \in 1..(m + 1), IsHeader(t[l])
            PROVE  l <= k + 1
        <5>1. CASE l \in 1..n /\ IsHeader(s[l])
          BY <2>0, <3>4, <5>1
        <5>2. CASE l - 1 \in (n + 1)..m /\ IsHeader(s[l - 1])
          <6>1. l - 1 <= k
            BY <2>3, <3>2, <5>2
          <6>. QED  BY <2>0, <6>1
        <5>. QED  BY <2>1, <4>3, <5>1, <5>2
      <4>4. GroupOf(t, m + 1) = t[k + 1].group
        BY <1>1, <2>0, <2>3, <4>1, <4>2, <4>3, GroupIs
      <4>. QED  BY <2>3, <4>2, <4>4
    <3>. QED  BY <3>3, <3>4
  <2>. QED  BY <2>0, <2>2, <2>3, GroupFound
<1>. QED  BY <1>2, <1>3

(* The last of the keys is the one that counts. *)
LEMMA ListedIs ==
    ASSUME NEW text \in Seq(Lines), NEW group, NEW type, NEW n \in KeysOf(text, group, type),
           \A m \in KeysOf(text, group, type) : m <= n
    PROVE  Listed(text, group, type) = text[n].ids
<1>. DEFINE keys == KeysOf(text, group, type)
            last == CHOOSE k \in keys : \A m \in keys : m <= k
<1>1. last \in keys /\ \A m \in keys : m <= last
  <2>. HIDE DEF keys
  <2>. QED  BY DEF keys
<1>2. Listed(text, group, type) = text[last].ids
  BY Zenon DEF Listed
<1>. HIDE DEF last
<1>3. n <= last /\ last <= n /\ n \in Int /\ last \in Int
  BY <1>1 DEF KeysOf
<1>4. last = n
  BY <1>3
<1>. QED  BY <1>2, <1>4

LEMMA LastKey ==
    ASSUME NEW text \in Seq(Lines), NEW group, NEW type
    PROVE  \/ KeysOf(text, group, type) = {} /\ Listed(text, group, type) = <<>>
           \/ \E n \in KeysOf(text, group, type) :
                 /\ \A m \in KeysOf(text, group, type) : m <= n
                 /\ Listed(text, group, type) = text[n].ids
<1>. DEFINE keys == KeysOf(text, group, type)
<1>1. CASE keys = {}
  BY <1>1 DEF Listed
<1>2. CASE keys # {}
  <2>1. keys \in SUBSET (0..Len(text)) /\ Len(text) \in Nat
    BY DEF KeysOf
  <2>2. \E n \in keys : \A m \in keys : m <= n
    <3>. HIDE DEF keys
    <3>. QED  BY <1>2, <2>1, GreatestNumber
  <2>3. PICK n \in keys : \A m \in keys : m <= n
    BY <2>2
  <2>. QED  BY <2>3, ListedIs
<1>. QED  BY <1>1, <1>2

LEMMA ListedType ==
    ASSUME NEW text \in Seq(Lines), NEW group, NEW type
    PROVE  Listed(text, group, type) \in Seq(Ids)
<1>1. CASE Listed(text, group, type) = <<>>
  BY <1>1
<1>2. ASSUME NEW n \in KeysOf(text, group, type), Listed(text, group, type) = text[n].ids
      PROVE  Listed(text, group, type) \in Seq(Ids)
  <2>1. text[n] \in Lines
    BY DEF KeysOf
  <2>. QED  BY <1>2, <2>1, LineFields
<1>. QED  BY <1>1, <1>2, LastKey

(* Texts with the same keys in a group list the same. *)
LEMMA SameListed ==
    ASSUME NEW s \in Seq(Lines), NEW t \in Seq(Lines), NEW group, NEW type,
           KeysOf(t, group, type) = KeysOf(s, group, type),
           \A n \in KeysOf(s, group, type) : t[n].ids = s[n].ids
    PROVE  Listed(t, group, type) = Listed(s, group, type)
<1>1. CASE KeysOf(s, group, type) = {}
  BY <1>1 DEF Listed
<1>2. ASSUME NEW n \in KeysOf(s, group, type), \A m \in KeysOf(s, group, type) : m <= n,
             Listed(s, group, type) = s[n].ids
      PROVE  Listed(t, group, type) = Listed(s, group, type)
  BY <1>2, ListedIs
<1>. QED  BY <1>1, <1>2, LastKey

(* A line written below others leaves what they list. *)
LEMMA InsertedListed ==
    ASSUME NEW s \in Seq(Lines), NEW n \in 1..Len(s), NEW line \in Lines, ~IsHeader(line),
           NEW t, Longer(t, s, n, line),
           NEW group, NEW type, line.key # type \/ GroupOf(s, n) # group
    PROVE  Listed(t, group, type) = Listed(s, group, type)
<1>. DEFINE old == KeysOf(s, group, type)
            new == KeysOf(t, group, type)
<1>1. /\ t \in Seq(Lines) /\ Len(t) = Len(s) + 1 /\ Len(s) \in Nat
      /\ \A m \in 1..n : t[m] = s[m]
      /\ t[n + 1] = line
      /\ \A m \in (n + 1)..Len(s) : t[m + 1] = s[m]
  BY DEF Longer
<1>2. /\ \A m \in 1..n : GroupOf(t, m) = GroupOf(s, m)
      /\ \A m \in n..Len(s) : GroupOf(t, m + 1) = GroupOf(s, m)
  BY InsertedGroups
<1>3. \A m \in 1..n : m \in 1..Len(s) /\ m \in 1..Len(t)
  BY <1>1
<1>4. \A m \in (n + 1)..Len(s) : m \in 1..Len(s) /\ m \in n..Len(s) /\ m + 1 \in 1..Len(t)
  BY <1>1
<1>5. \A m \in 1..n : m \in new <=> m \in old
  BY <1>1, <1>2, <1>3 DEF KeysOf
<1>6. \A m \in (n + 1)..Len(s) : m + 1 \in new <=> m \in old
  BY <1>1, <1>2, <1>4 DEF KeysOf
<1>7. n + 1 \notin new
  <2>1. GroupOf(t, n + 1) = GroupOf(s, n)
    BY <1>1, <1>2
  <2>. QED  BY <1>1, <2>1 DEF KeysOf
<1>8. \A m \in new : m \in 1..n \/ (m - 1 \in (n + 1)..Len(s) /\ (m - 1) + 1 = m)
  <2>1. \A m \in new : m \in 1..(Len(s) + 1) /\ m # n + 1
    BY <1>1, <1>7 DEF KeysOf
  <2>. HIDE DEF new
  <2>. QED  BY <1>1, <2>1
<1>9. \A m \in old : m \in 1..n \/ m \in (n + 1)..Len(s)
  BY <1>1 DEF KeysOf
<1>10. \A m \in old : m \in Int
  BY DEF KeysOf
<1>11. CASE old = {}
  <2>1. new = {}
    <3>. HIDE DEF new, old
    <3>. QED  BY <1>5, <1>6, <1>8, <1>11
  <2>. QED  BY <1>11, <2>1 DEF Listed
<1>12. ASSUME NEW k \in old, \A m \in old : m <= k, Listed(s, group, type) = s[k].ids
       PROVE  Listed(t, group, type) = Listed(s, group, type)
  <2>. HIDE DEF new, old
  <2>1. CASE k \in 1..n
    <3>1. k \in new
      BY <1>5, <1>12, <2>1
    <3>2. ASSUME NEW m \in new
          PROVE  m <= k
      <4>1. CASE m \in 1..n
        BY <1>5, <1>12, <4>1
      <4>2. CASE m - 1 \in (n + 1)..Len(s) /\ (m - 1) + 1 = m
        <5>1. m - 1 \in old
          BY <1>6, <4>2
        <5>2. m - 1 <= k
          BY <1>12, <5>1
        <5>. QED  BY <1>1, <2>1, <4>2, <5>2
      <4>. QED  BY <1>8, <4>1, <4>2
    <3>3. Listed(t, group, type) = t[k].ids
      BY <1>1, <3>1, <3>2, ListedIs DEF new
    <3>. QED  BY <1>1, <1>12, <2>1, <3>3
  <2>2. CASE k \in (n + 1)..Len(s)
    <3>1. k + 1 \in new
      BY <1>6, <1>12, <2>2
    <3>2. ASSUME NEW m \in new
          PROVE  m <= k + 1
      <4>1. CASE m \in 1..n
        BY <1>1, <2>2, <4>1
      <4>2. CASE m - 1 \in (n + 1)..Len(s) /\ (m - 1) + 1 = m
        <5>1. m - 1 \in old
          BY <1>6, <4>2
        <5>2. m - 1 <= k
          BY <1>12, <5>1
        <5>. QED  BY <1>1, <2>2, <4>2, <5>2
      <4>. QED  BY <1>8, <4>1, <4>2
    <3>3. Listed(t, group, type) = t[k + 1].ids
      BY <1>1, <3>1, <3>2, ListedIs DEF new
    <3>. QED  BY <1>1, <1>12, <2>2, <3>3
  <2>. QED  BY <1>9, <1>12, <2>1, <2>2
<1>. QED  BY <1>11, <1>12, LastKey

LEMMA Lengths ==
    ASSUME NEW S, NEW s \in Seq(S), s # <<>>
    PROVE  Len(s) # 0
  OBVIOUS

(* With the application at the head of every key of a type, and at least   *)
(* one, it is the default.                                                 *)
LEMMA DefaultIs ==
    ASSUME NEW text \in Seq(Lines), NEW type, NEW app \in Apps,
           KeysOf(text, "defaults", type) # {},
           \A n \in KeysOf(text, "defaults", type) :
              text[n].ids # <<>> /\ text[n].ids[1] = app
    PROVE  DefaultApp(text, type) = app
<1>. DEFINE ids == Listed(text, "defaults", type)
<1>1. ids \in Seq(Ids)
  BY ListedType, Zenon
<1>2. ids # <<>> /\ ids[1] = app
  BY LastKey
<1>. HIDE DEF ids
<1>3. Filter(ids, Apps) \in Seq(Ids) /\ Keeps(Filter(ids, Apps), ids, Len(ids), Apps)
  BY <1>1, Filtered, Zenon
<1>4. Len(ids) # 0
  BY <1>1, <1>2, Lengths, Zenon
<1>5. Filter(ids, Apps) # <<>> /\ Filter(ids, Apps)[1] = app
  BY <1>2, <1>3, <1>4 DEF Keeps
<1>6. Head(Filter(ids, Apps)) = app
  BY <1>3, <1>5, Tails
<1>. QED  BY <1>5, <1>6, Zenon DEF DefaultApp, ids

(* An edited text: groups and keys are what they were, and so are the ids  *)
(* of all but the keys of the type in the defaults.                        *)
LEMMA PutFirstIs ==
    ASSUME NEW line \in Lines, line.key # None, NEW app \in Apps
    PROVE  /\ PutFirst(line, app) \in Lines
           /\ PutFirst(line, app).group = None /\ line.group = None
           /\ PutFirst(line, app).key = line.key
           /\ PutFirst(line, app).ids # <<>> /\ PutFirst(line, app).ids[1] = app
           /\ PutFirst(line, app).ended
<1>. DEFINE rest == Filter(line.ids, Ids \ {app})
            ids == <<app>> \o rest
<1>1. line.ids \in Seq(Ids) /\ line.key \in ContentTypes /\ line.group = None /\ app \in Ids
  BY LineFields DEF Ids
<1>2. rest \in Seq(Ids)
  BY <1>1, Filtered, Zenon
<1>. HIDE DEF rest
<1>3. ids \in Seq(Ids) /\ ids # <<>> /\ ids[1] = app
  <2>1. <<app>> \in Seq(Ids) /\ Len(<<app>>) = 1 /\ <<app>>[1] = app
    BY <1>1
  <2>2. ids \in Seq(Ids) /\ Len(ids) = 1 + Len(rest) /\ Len(rest) \in Nat
    BY <1>2, <2>1
  <2>3. ids[1] = app
    BY <1>2, <2>1
  <2>. QED  BY <2>2, <2>3
<1>4. PutFirst(line, app) = Key(line.key, ids)
  BY Zenon DEF PutFirst, rest
<1>. HIDE DEF ids
<1>5. PutFirst(line, app) \in Lines
  BY <1>1, <1>3, <1>4, NewLines
<1>. QED  BY <1>1, <1>3, <1>4, <1>5 DEF Key

LEMMA EndedLine ==
    ASSUME NEW line \in Lines
    PROVE  LET new == [line EXCEPT !.ended = TRUE]
           IN  /\ new \in Lines /\ new.group = line.group /\ new.key = line.key
               /\ new.ids = line.ids /\ new.ended
  BY DEF Lines

LEMMA EditedIs ==
    ASSUME NEW text \in Seq(Lines), NEW type \in ContentTypes, NEW app \in Apps
    PROVE  LET new == Edited(text, type, app)
           IN  /\ new \in Seq(Lines) /\ Len(new) = Len(text)
               /\ \A n \in 1..Len(text) : /\ new[n].group = text[n].group
                                          /\ new[n].key = text[n].key /\ new[n].ended
               /\ \A n \in 1..Len(text) : GroupOf(new, n) = GroupOf(text, n)
               /\ \A group, key : KeysOf(new, group, key) = KeysOf(text, group, key)
               /\ \A n \in KeysOf(text, "defaults", type) :
                     new[n].ids # <<>> /\ new[n].ids[1] = app
               /\ \A n \in 1..Len(text) : n \notin KeysOf(text, "defaults", type) =>
                     new[n].ids = text[n].ids
<1>. DEFINE new == Edited(text, type, app)
            targets == KeysOf(text, "defaults", type)
            put(n) == IF n \in targets THEN PutFirst(text[n], app)
                      ELSE [text[n] EXCEPT !.ended = TRUE]
<1>1. Len(text) \in Nat /\ \A n \in 1..Len(text) : text[n] \in Lines
  OBVIOUS
<1>2. new = [n \in 1..Len(text) |-> put(n)]
  BY DEF Edited
<1>3. \A n \in targets : n \in 1..Len(text) /\ text[n].key = type /\ type # None
  BY ServicesAssumption DEF KeysOf
<1>. HIDE DEF targets
<1>4. ASSUME NEW n \in 1..Len(text)
      PROVE  /\ put(n) \in Lines /\ put(n).group = text[n].group
             /\ put(n).key = text[n].key /\ put(n).ended
             /\ n \in targets => put(n).ids # <<>> /\ put(n).ids[1] = app
             /\ n \notin targets => put(n).ids = text[n].ids
  <2>1. CASE n \in targets
    BY <1>1, <1>3, <2>1, PutFirstIs
  <2>2. CASE n \notin targets
    BY <1>1, <2>2, EndedLine
  <2>. QED  BY <2>1, <2>2
<1>. HIDE DEF new, put
<1>5. new \in Seq(Lines) /\ Len(new) = Len(text) /\ \A n \in 1..Len(text) : new[n] = put(n)
  BY <1>1, <1>2, <1>4
<1>6. /\ \A n \in 1..Len(text) : /\ new[n].group = text[n].group
                                 /\ new[n].key = text[n].key /\ new[n].ended
      /\ \A n \in 1..Len(text) : n \in targets => new[n].ids # <<>> /\ new[n].ids[1] = app
      /\ \A n \in 1..Len(text) : n \notin targets => new[n].ids = text[n].ids
  BY <1>4, <1>5
<1>7. \A n \in 1..Len(text) : GroupOf(new, n) = GroupOf(text, n)
  <2>1. SUFFICES ASSUME NEW n \in 1..Len(text) PROVE GroupOf(new, n) = GroupOf(text, n)
    OBVIOUS
  <2>2. n <= Len(new) /\ \A m \in 1..n : m \in 1..Len(text)
    BY <1>1, <1>5
  <2>. QED  BY <1>5, <1>6, <2>2, SameGroup
<1>8. \A group, key : KeysOf(new, group, key) = KeysOf(text, group, key)
  BY <1>5, <1>6, <1>7 DEF KeysOf
<1>. QED  BY <1>3, <1>5, <1>6, <1>7, <1>8 DEF new, targets

(* Every line is followed by a newline, as in every list this program wrote. *)
AllEnded(text) == \A n \in 1..Len(text) : text[n].ended

(* What recording app as the default of a type may change: nothing else.   *)
Records(new, text, type, app) ==
    /\ DefaultApp(new, type) = app
    /\ \A group, t : t \in ContentTypes /\ (group # "defaults" \/ t # type) =>
          Listed(new, group, t) = Listed(text, group, t)

Headed(text, type, app) ==
    \A n \in KeysOf(text, "defaults", type) :
       text[n].ids # <<>> /\ text[n].ids[1] = app

LEMMA KeyInserted ==
    ASSUME NEW s \in Seq(Lines), NEW n \in 1..Len(s), NEW type \in ContentTypes, NEW app \in Apps,
           GroupOf(s, n) = "defaults", Headed(s, type, app), AllEnded(s),
           NEW t, Longer(t, s, n, Key(type, <<app>>))
    PROVE  t \in Seq(Lines) /\ AllEnded(t) /\ Records(t, s, type, app)
<1>. DEFINE line == Key(type, <<app>>)
<1>1. /\ line.group = None /\ line.key = type /\ line.ended
      /\ line.ids # <<>> /\ line.ids[1] = app
  BY DEF Key
<1>2. line \in Lines /\ ~IsHeader(line)
  <2>1. <<app>> \in Seq(Ids)
    BY DEF Ids
  <2>. QED  BY <1>1, <2>1, NewLines DEF IsHeader
<1>. HIDE DEF line
<1>3. Longer(t, s, n, line)
  BY DEF line
<1>4. /\ t \in Seq(Lines) /\ Len(t) = Len(s) + 1 /\ Len(s) \in Nat
      /\ \A m \in 1..n : t[m] = s[m]
      /\ t[n + 1] = line
      /\ \A m \in (n + 1)..Len(s) : t[m + 1] = s[m]
  BY <1>3 DEF Longer
<1>5. /\ \A m \in 1..n : GroupOf(t, m) = GroupOf(s, m)
      /\ \A m \in n..Len(s) : GroupOf(t, m + 1) = GroupOf(s, m)
  BY <1>2, <1>3, InsertedGroups
<1>6. \A m \in 1..Len(t) : \/ m \in 1..n
                           \/ m = n + 1
                           \/ m - 1 \in (n + 1)..Len(s) /\ (m - 1) + 1 = m
  BY <1>4
<1>7. /\ \A m \in 1..n : m \in 1..Len(s)
      /\ \A m \in (n + 1)..Len(s) : m \in 1..Len(s) /\ m \in n..Len(s)
  BY <1>4
<1>8. AllEnded(t)
  <2>1. SUFFICES ASSUME NEW m \in 1..Len(t) PROVE t[m].ended
    BY DEF AllEnded
  <2>2. CASE m \in 1..n
    BY <1>4, <1>7, <2>2 DEF AllEnded
  <2>3. CASE m = n + 1
    BY <1>1, <1>4, <2>3
  <2>4. CASE m - 1 \in (n + 1)..Len(s) /\ (m - 1) + 1 = m
    <3>1. t[m] = s[m - 1] /\ m - 1 \in 1..Len(s)
      BY <1>4, <1>7, <2>4
    <3>. QED  BY <3>1 DEF AllEnded
  <2>. QED  BY <1>6, <2>2, <2>3, <2>4
<1>9. Headed(t, type, app)
  <2>1. SUFFICES ASSUME NEW m \in KeysOf(t, "defaults", type)
                 PROVE  t[m].ids # <<>> /\ t[m].ids[1] = app
    BY DEF Headed
  <2>0. m \in 1..Len(t) /\ t[m].key = type /\ GroupOf(t, m) = "defaults"
    BY DEF KeysOf
  <2>2. CASE m \in 1..n
    <3>1. m \in KeysOf(s, "defaults", type)
      BY <1>4, <1>5, <1>7, <2>0, <2>2 DEF KeysOf
    <3>. QED  BY <1>4, <2>2, <3>1 DEF Headed
  <2>3. CASE m = n + 1
    BY <1>1, <1>4, <2>3
  <2>4. CASE m - 1 \in (n + 1)..Len(s) /\ (m - 1) + 1 = m
    <3>1. t[m] = s[m - 1] /\ GroupOf(t, m) = GroupOf(s, m - 1) /\ m - 1 \in 1..Len(s)
      BY <1>4, <1>5, <1>7, <2>4
    <3>2. m - 1 \in KeysOf(s, "defaults", type)
      BY <2>0, <3>1 DEF KeysOf
    <3>. QED  BY <3>1, <3>2 DEF Headed
  <2>. QED  BY <1>6, <2>0, <2>2, <2>3, <2>4
<1>10. n + 1 \in KeysOf(t, "defaults", type)
  <2>1. n \in n..Len(s) /\ n + 1 \in 1..Len(t)
    BY <1>4
  <2>2. GroupOf(t, n + 1) = GroupOf(s, n)
    BY <1>5, <2>1
  <2>. QED  BY <1>1, <1>4, <2>1, <2>2 DEF KeysOf
<1>11. DefaultApp(t, type) = app
  BY <1>4, <1>9, <1>10, DefaultIs DEF Headed
<1>12. ASSUME NEW group, NEW key, group # "defaults" \/ key # type
       PROVE  Listed(t, group, key) = Listed(s, group, key)
  <2>1. line.key # key \/ GroupOf(s, n) # group
    BY <1>1, <1>12
  <2>. QED  BY <1>2, <1>3, <2>1, InsertedListed
<1>. QED  BY <1>4, <1>8, <1>11, <1>12 DEF Records

LEMMA RunTogetherIs ==
    ASSUME NEW line \in Lines
    PROVE  RunTogether(line) \in Lines /\ RunTogether(line).ended
<1>. DEFINE ids == IF IsHeader(line) THEN <<>> ELSE Append(Front(line.ids), "missing")
<1>1. line.ids \in Seq(Ids) /\ line.key \in ContentTypes \cup {None} /\ "missing" \in Ids
  BY LineFields DEF Ids
<1>2. Front(line.ids) \in Seq(Ids)
  BY <1>1 DEF Front
<1>3. ids \in Seq(Ids)
  BY <1>1, <1>2
<1>. HIDE DEF ids
<1>4. RunTogether(line) = [group |-> None, key |-> line.key, ids |-> ids, ended |-> TRUE]
  <2>1. line = [group |-> line.group, key |-> line.key, ids |-> line.ids, ended |-> line.ended]
    BY DEF Lines
  <2>2. RunTogether(line) = [line EXCEPT !.group = None, !.ended = TRUE, !.ids = ids]
    BY Zenon DEF RunTogether, ids
  <2>. QED  BY <2>1, <2>2
<1>. QED  BY <1>1, <1>3, <1>4 DEF Lines

LEMMA UpdateIs ==
    ASSUME NEW text \in Seq(Lines), NEW type \in ContentTypes, NEW app \in Apps
    PROVE  /\ Update(text, type, app) \in Seq(Lines)
           /\ AllEnded(Update(text, type, app))
           /\ AllEnded(text) => Records(Update(text, type, app), text, type, app)
<1>. DEFINE edited == Edited(text, type, app)
            line == Key(type, <<app>>)
            ends == GroupEnds(text)
            end == CHOOSE n \in ends : \A m \in ends : n <= m
            targets == KeysOf(text, "defaults", type)
<1>1. /\ edited \in Seq(Lines) /\ Len(edited) = Len(text)
      /\ \A n \in 1..Len(text) : /\ edited[n].group = text[n].group
                                 /\ edited[n].key = text[n].key /\ edited[n].ended
      /\ \A n \in 1..Len(text) : GroupOf(edited, n) = GroupOf(text, n)
      /\ \A group, key : KeysOf(edited, group, key) = KeysOf(text, group, key)
      /\ \A n \in targets : edited[n].ids # <<>> /\ edited[n].ids[1] = app
      /\ \A n \in 1..Len(text) : n \notin targets => edited[n].ids = text[n].ids
  BY EditedIs
<1>. HIDE DEF edited
<1>2. Headed(edited, type, app) /\ AllEnded(edited)
  BY <1>1 DEF Headed, AllEnded
<1>3. ASSUME NEW group, NEW key, group # "defaults" \/ key # type
      PROVE  Listed(edited, group, key) = Listed(text, group, key)
  <2>1. \A n \in KeysOf(text, group, key) : n \in 1..Len(text) /\ n \notin targets
    BY <1>3 DEF KeysOf
  <2>. QED  BY <1>1, <2>1, SameListed
<1>4. /\ Update(text, type, app) =
            IF ends = {}
            THEN Append(Append(edited, Header("defaults")), line)
            ELSE IF \E m \in targets : m <= end THEN edited
            ELSE IF text[end].ended THEN InsertAfter(edited, end, line)
            ELSE [edited EXCEPT ![end] = RunTogether(text[end])]
  BY Zenon DEF Update, edited
<1>5. line \in Lines
  <2>1. <<app>> \in Seq(Ids)
    BY DEF Ids
  <2>. QED  BY <2>1, NewLines
<1>6. CASE ends = {}
  <2>. DEFINE head == Header("defaults")
              base == Append(edited, head)
              new == Append(base, line)
  <2>1. head \in Lines /\ head.group = "defaults" /\ head.key = None /\ head.ended
    BY NewLines DEF Header
  <2>. HIDE DEF head, line
  <2>2. /\ base \in Seq(Lines) /\ Len(base) = Len(text) + 1 /\ Len(text) \in Nat
        /\ base[Len(text) + 1] = head
        /\ \A n \in 1..Len(text) : base[n] = edited[n]
    BY <1>1, <2>1
  <2>. HIDE DEF base
  <2>3. ASSUME NEW n \in 1..Len(text)
        PROVE  GroupOf(base, n) = GroupOf(edited, n)
    <3>1. n \in 1..Len(edited) /\ n <= Len(base) /\ \A m \in 1..n : m \in 1..Len(text)
      BY <1>1, <2>2
    <3>. QED  BY <1>1, <2>2, <3>1, SameGroup
  <2>4. Len(base) \in 1..Len(base) /\ GroupOf(base, Len(base)) = "defaults"
    <3>1. Len(base) \in 1..Len(base) /\ \A l \in 1..Len(base) : l <= Len(base)
      BY <2>2
    <3>2. IsHeader(base[Len(base)])
      BY <2>1, <2>2, ServicesAssumption DEF IsHeader, Groups
    <3>. QED  BY <2>1, <2>2, <3>1, <3>2, GroupIs
  <2>5. ASSUME NEW group, NEW key \in ContentTypes
        PROVE  /\ KeysOf(base, group, key) = KeysOf(edited, group, key)
               /\ Listed(base, group, key) = Listed(edited, group, key)
    <3>1. \A n \in 1..Len(base) : n \in 1..Len(text) \/ n = Len(text) + 1
      BY <2>2
    <3>2. \A n \in 1..Len(text) : n \in 1..Len(base) /\ n \in 1..Len(edited)
      BY <1>1, <2>2
    <3>3. KeysOf(base, group, key) = KeysOf(edited, group, key)
      BY <1>1, <2>1, <2>2, <2>3, <3>1, <3>2, ServicesAssumption DEF KeysOf
    <3>4. \A n \in KeysOf(edited, group, key) : base[n].ids = edited[n].ids
      BY <1>1, <2>2 DEF KeysOf
    <3>. QED  BY <1>1, <2>2, <3>3, <3>4, SameListed
  <2>6. Headed(base, type, app)
    <3>1. \A n \in targets : n \in 1..Len(text)
      BY DEF KeysOf
    <3>. QED  BY <1>1, <2>2, <2>5, <3>1 DEF Headed
  <2>7. AllEnded(base)
    <3>1. \A n \in 1..Len(base) : n \in 1..Len(text) \/ n = Len(text) + 1
      BY <2>2
    <3>. QED  BY <1>1, <2>1, <2>2, <3>1 DEF AllEnded
  <2>8. Longer(new, base, Len(base), line)
    <3>1. /\ new \in Seq(Lines) /\ Len(new) = Len(base) + 1 /\ Len(base) \in Nat
          /\ new[Len(base) + 1] = line
          /\ \A n \in 1..Len(base) : new[n] = base[n]
      BY <1>5, <2>2 DEF line
    <3>2. (Len(base) + 1)..Len(base) = {}
      BY <3>1
    <3>. QED  BY <3>1, <3>2 DEF Longer
  <2>. HIDE DEF new
  <2>9. new \in Seq(Lines) /\ AllEnded(new) /\ Records(new, base, type, app)
    BY <2>2, <2>4, <2>6, <2>7, <2>8, KeyInserted DEF line
  <2>10. Records(new, text, type, app)
    BY <1>3, <2>5, <2>9 DEF Records
  <2>11. Update(text, type, app) = new
    BY <1>4, <1>6 DEF new, base, head
  <2>. QED  BY <2>9, <2>10, <2>11
<1>7. CASE ends # {}
  <2>1. end \in ends
    <3>1. ends \in SUBSET Nat
      BY DEF GroupEnds
    <3>2. \E n \in ends : \A m \in ends : n <= m
      <4>. HIDE DEF ends
      <4>. QED  BY <1>7, <3>1, LeastNumber
    <3>. QED  BY <3>2
  <2>2. end \in 1..Len(text) /\ GroupOf(text, end) = "defaults" /\ text[end] \in Lines
    BY <2>1 DEF GroupEnds
  <2>. HIDE DEF end, ends, targets
  <2>3. CASE \E m \in targets : m <= end
    <3>1. Update(text, type, app) = edited
      BY <1>4, <1>7, <2>3
    <3>2. DefaultApp(edited, type) = app
      <4>1. KeysOf(edited, "defaults", type) # {}
        BY <1>1, <2>3 DEF targets
      <4>. QED  BY <1>1, <1>2, <4>1, DefaultIs DEF Headed
    <3>. QED  BY <1>1, <1>2, <1>3, <3>1, <3>2 DEF Records
  <2>4. CASE ~(\E m \in targets : m <= end) /\ text[end].ended
    <3>. DEFINE new == InsertAfter(edited, end, line)
    <3>1. Update(text, type, app) = new
      BY <1>4, <1>7, <2>4
    <3>2. Longer(new, edited, end, line)
      <4>1. end \in 1..Len(edited)
        BY <1>1, <2>2
      <4>. HIDE DEF line
      <4>. QED  BY <1>1, <1>5, <4>1, Inserted
    <3>. HIDE DEF new
    <3>3. new \in Seq(Lines) /\ AllEnded(new) /\ Records(new, edited, type, app)
      BY <1>1, <1>2, <2>2, <3>2, KeyInserted
    <3>4. Records(new, text, type, app)
      BY <1>3, <3>3 DEF Records
    <3>. QED  BY <3>1, <3>3, <3>4
  <2>5. CASE ~(\E m \in targets : m <= end) /\ ~text[end].ended
    <3>. DEFINE joined == RunTogether(text[end])
                new == [edited EXCEPT ![end] = joined]
    <3>1. Update(text, type, app) = new
      BY <1>4, <1>7, <2>5
    <3>2. joined \in Lines /\ joined.ended
      BY <2>2, RunTogetherIs
    <3>. HIDE DEF joined
    <3>3. new \in Seq(Lines) /\ Len(new) = Len(text) /\ Len(text) \in Nat
      <4>1. /\ Len(text) \in Nat /\ edited = [n \in 1..Len(text) |-> edited[n]]
            /\ \A n \in 1..Len(text) : edited[n] \in Lines
        BY <1>1
      <4>2. new = [n \in 1..Len(text) |-> IF n = end THEN joined ELSE edited[n]]
        BY <4>1
      <4>. HIDE DEF new
      <4>. QED  BY <3>2, <4>1, <4>2
    <3>4. \A n \in 1..Len(text) : new[n] = IF n = end THEN joined ELSE edited[n]
      BY <1>1
    <3>5. AllEnded(new)
      BY <1>1, <3>2, <3>3, <3>4 DEF AllEnded
    <3>6. ~AllEnded(text)
      BY <2>2, <2>5 DEF AllEnded
    <3>. QED  BY <3>1, <3>3, <3>5, <3>6
  <2>. QED  BY <2>3, <2>4, <2>5
<1>. QED  BY <1>6, <1>7

-----------------------------------------------------------------------------
USE ServicesAssumption

Settled == {"idle", "done"}
Chrome == {"screenshot", "pickcolor"}

(* Where no task is that asks through compositor chrome. *)
ChromeFree ==
    {"loading", "loaded", "reading", "opening", "rewriting", "renaming", "staging",
     "applying", "reapplying", "pruning", "dropping", "spooling", "copying", "submitting", "mailing", "fetching"}

TaskInv ==
    /\ DOMAIN kind = Requests /\ DOMAIN arg = Requests
    /\ DOMAIN at = Requests /\ DOMAIN answer = Requests
    /\ timely \subseteq closed /\ timely \subseteq Requests
    /\ \A r \in timely :
          /\ at[r] # "idle"
          /\ at[r] = "done" => answer[r] # "success"
          /\ at[r] # "done" => Uncommitted(r)
    /\ \A r \in Requests : at[r] \in ChromeFree => kind[r] \notin Chrome

Begins(r) ==
    /\ at[r] = "idle"
    /\ at' = [at EXCEPT ![r] = at'[r]] /\ at'[r] \in {"queued", "done"}
    /\ answer' = [answer EXCEPT ![r] = answer'[r]]
    /\ answer'[r] = IF at'[r] = "done" THEN "refused" ELSE None
    /\ kind'[r] \in Kinds
    /\ kind' = [kind EXCEPT ![r] = kind'[r]] /\ arg' = [arg EXCEPT ![r] = arg'[r]]
    /\ closed' = closed /\ timely' = timely

Moves(r) ==
    /\ at[r] \notin Settled
    /\ at' = [at EXCEPT ![r] = at'[r]] /\ at'[r] \notin Settled
    /\ UNCHANGED <<kind, arg, answer, closed, timely>>
    /\ r \in timely => Uncommitted(r)'
    /\ at'[r] \in ChromeFree => kind[r] \notin Chrome

Replies(r) ==
    /\ at[r] \notin Settled
    /\ at' = [at EXCEPT ![r] = at'[r]] /\ at'[r] = "done"
    /\ answer' = [answer EXCEPT ![r] = answer'[r]] /\ answer'[r] \in Answers
    /\ answer'[r] = "success" => r \notin timely
    /\ UNCHANGED <<kind, arg, closed, timely>>

Marks(r) ==
    /\ at[r] \notin Settled
    /\ closed' = closed \cup {r}
    /\ timely' = IF Uncommitted(r) THEN timely \cup {r} ELSE timely
    /\ UNCHANGED <<kind, arg, at, answer>>

Proceeds(r) == Begins(r) \/ Moves(r) \/ Replies(r) \/ Marks(r)

-----------------------------------------------------------------------------
(* The steps every portal is made of.                                      *)

LEMMA ArriveBegins ==
    ASSUME TaskInv, NEW r \in Requests, NEW k, NEW a, NEW valid \in BOOLEAN,
           Arrive(r, k, a, valid)
    PROVE  Begins(r)
  BY DEF TaskInv, Arrive, Begins

LEMMA GotoMoves ==
    ASSUME TaskInv, NEW r \in Requests, NEW step, Goto(r, step),
           at[r] \notin Settled, step \notin Settled,
           r \notin timely \/ Uncommitted(r)',
           step \in ChromeFree => kind[r] \notin Chrome
    PROVE  Moves(r) /\ at'[r] = step
  BY DEF TaskInv, Goto, Moves

LEMMA AnswerReplies ==
    ASSUME TaskInv, NEW r \in Requests, NEW code \in Answers, Answer(r, code),
           at[r] \notin Settled, code = "success" => r \notin timely
    PROVE  Replies(r) /\ at'[r] = "done"
  BY DEF TaskInv, Answer, Replies

LEMMA AdmitProceeds ==
    ASSUME TaskInv, NEW r \in Requests, NEW k, NEW first, Admit(r, k, first),
           first \notin Settled, first \in ChromeFree => k \notin Chrome
    PROVE  /\ Moves(r) \/ Replies(r)
           /\ at[r] = "queued" /\ at'[r] \in {first, "done"}
<1>1. at[r] = "queued" /\ kind[r] = k /\ at[r] \notin Settled
  BY DEF Admit, Queued, Settled
<1>2. CASE Answer(r, "refused")
  BY <1>1, <1>2, AnswerReplies DEF Answers
<1>3. CASE r \in closed /\ Answer(r, "cancelled")
  BY <1>1, <1>3, AnswerReplies DEF Answers
<1>4. CASE r \notin closed /\ Goto(r, first)
  BY <1>1, <1>4, GotoMoves DEF TaskInv
<1>. QED  BY <1>1, <1>2, <1>3, <1>4 DEF Admit

LEMMA DialogProceeds ==
    ASSUME TaskInv, NEW r \in Requests, Dialog(r)
    PROVE  /\ Proceeds(r)
           /\ {at[r], at'[r]} \subseteq {"asking", "polled", "done"}
<1>. USE DEF Proceeds, Settled, ChromeFree, Answers
<1>1. CASE Poll(r)
  <2>1. at[r] = "asking"
    BY <1>1 DEF Poll
  <2>2. CASE r \in closed /\ Answer(r, "cancelled")
    BY <2>1, <2>2, AnswerReplies
  <2>3. CASE r \notin closed /\ Goto(r, "polled")
    BY <2>1, <2>3, GotoMoves DEF TaskInv
  <2>. QED  BY <1>1, <2>1, <2>2, <2>3 DEF Poll
<1>2. CASE StillAsking(r)
  <2>1. at[r] = "polled" /\ Goto(r, "asking") /\ at' = [at EXCEPT ![r] = "asking"]
    BY <1>2 DEF StillAsking, Goto
  <2>2. Uncommitted(r)'
    BY <2>1 DEF TaskInv, Uncommitted
  <2>. QED  BY <2>1, <2>2, GotoMoves
<1>3. CASE Dismissed(r)
  BY <1>3, AnswerReplies DEF Dismissed
<1>4. CASE DialogFails(r)
  BY <1>4, AnswerReplies DEF DialogFails
<1>. QED  BY <1>1, <1>2, <1>3, <1>4 DEF Dialog

LEMMA CloseProceeds ==
    ASSUME TaskInv, NEW r \in Requests, Close(r, Uncommitted(r))
    PROVE  Proceeds(r) /\ at' = at
  BY DEF Close, Proceeds, Marks, Settled

(* What Recheck and StillOpen say of the marker. *)
LEMMA LookedAt ==
    ASSUME TaskInv, NEW r \in Requests, NEW k
    PROVE  /\ Recheck(r, k) => Replies(r) /\ at[r] = "polled" /\ at'[r] = "done"
           /\ StillOpen(r, k) => r \notin timely /\ at[r] = "polled" /\ kind[r] = k
<1>1. Recheck(r, k) => at[r] = "polled" /\ Answer(r, "cancelled")
  BY DEF Recheck, Affirmed
<1>. QED  BY <1>1, AnswerReplies DEF StillOpen, Affirmed, Settled, Answers, TaskInv

-----------------------------------------------------------------------------
(* The portals, one by one. *)

LEMMA ConsentProceeds ==
    ASSUME TaskInv, NEW r \in Requests, ConsentNext(r)
    PROVE  /\ Proceeds(r)
           /\ {at[r], at'[r]} \subseteq
                 {"idle", "queued", "asking", "polled", "writing", "publishing", "done"}
<1>. USE DEF Proceeds, Settled, ChromeFree, Answers, Chrome
<1>1. CASE GetUserInformation(r) \/ AccessDialog(r) \/ PrepareInstall(r) \/ RequestBackground(r)
  <2>1. \E k, a : \E valid \in BOOLEAN : Arrive(r, k, a, valid)
    BY <1>1 DEF GetUserInformation, AccessDialog, PrepareInstall, RequestBackground
  <2>. QED  BY <2>1, ArriveBegins DEF Begins
<1>2. CASE AccountWorker(r) \/ AccessWorker(r) \/ LauncherWorker(r) \/ BackgroundWorker(r)
  <2>1. \E k : Admit(r, k, "asking")
    BY <1>2 DEF AccountWorker, AccessWorker, LauncherWorker, BackgroundWorker
  <2>. QED  BY <2>1, AdmitProceeds
<1>3. CASE AccountRun(r) \/ LauncherRun(r)
  <2>1. \/ \E k : Recheck(r, k)
        \/ \E k : StillOpen(r, k) /\ \E code \in Answers : Answer(r, code)
    BY <1>3 DEF AccountRun, LauncherRun
  <2>. QED  BY <2>1, LookedAt, AnswerReplies
<1>4. CASE AccessRun(r)
  <2>1. at[r] = "polled" /\ kind[r] = "access" /\ Answer(r, "success")
    BY <1>4 DEF AccessRun, Affirmed
  <2>2. r \notin timely
    BY <2>1 DEF TaskInv, Uncommitted
  <2>. QED  BY <2>1, <2>2, AnswerReplies
<1>5. CASE BackgroundRun(r)
  <2>1. \/ Recheck(r, "background")
        \/ StillOpen(r, "background") /\ (Answer(r, "success") \/ Goto(r, "writing"))
    BY <1>5 DEF BackgroundRun
  <2>. QED  BY <2>1, LookedAt, AnswerReplies, GotoMoves
<1>6. CASE WriteEntry(r) \/ PublishEntry(r)
  <2>1. /\ kind[r] = "background" /\ at[r] \in {"writing", "publishing"}
        /\ Answer(r, "success") \/ Goto(r, "publishing")
    BY <1>6 DEF WriteEntry, PublishEntry
  <2>2. r \notin timely
    BY <2>1 DEF TaskInv, Uncommitted
  <2>. QED  BY <2>1, <2>2, AnswerReplies, GotoMoves
<1>. QED  BY <1>1, <1>2, <1>3, <1>4, <1>5, <1>6 DEF ConsentNext

LEMMA OpenProceeds ==
    ASSUME TaskInv, NEW r \in Requests, OpenNext(r)
    PROVE  /\ Proceeds(r)
           /\ {at[r], at'[r]} \subseteq
                 {"idle", "queued", "deciding", "asking", "polled", "reading", "opening",
                  "rewriting", "renaming", "done"}
<1>. USE DEF Proceeds, Settled, ChromeFree, Answers, Chrome
<1>1. CASE ChooseApplication(r) \/ OpenUri(r)
  <2>1. \E k, a : \E valid \in BOOLEAN : Arrive(r, k, a, valid)
    BY <1>1 DEF ChooseApplication, OpenUri
  <2>. QED  BY <2>1, ArriveBegins DEF Begins
<1>2. CASE AppChooserWorker(r) \/ OpenUriWorker(r)
  BY <1>2, AdmitProceeds DEF AppChooserWorker, OpenUriWorker
<1>3. CASE AppChooserRun(r) \/ OpenUriRun(r)
  <2>1. \/ \E k : Recheck(r, k)
        \/ /\ StillOpen(r, "choose") \/ StillOpen(r, "open")
           /\ \/ Answer(r, "refused") \/ Answer(r, "success")
              \/ Goto(r, "reading")
    BY <1>3 DEF AppChooserRun, OpenUriRun, Picked
  <2>. QED  BY <2>1, LookedAt, AnswerReplies, GotoMoves
<1>4. CASE Decide(r)
  <2>1. /\ at[r] = "deciding" /\ kind[r] = "open"
        /\ Answer(r, "success") \/ Answer(r, "refused") \/ Goto(r, "asking")
    BY <1>4 DEF Decide
  <2>2. r \notin timely
    BY <2>1 DEF TaskInv, Uncommitted
  <2>. QED  BY <2>1, <2>2, AnswerReplies, GotoMoves
<1>5. CASE SetDefaultApp(r)
  <2>1. /\ at[r] \in {"reading", "opening", "rewriting", "renaming"}
        /\ \/ Answer(r, "success")
           \/ Goto(r, "opening") \/ Goto(r, "rewriting") \/ Goto(r, "renaming")
    BY <1>5 DEF SetDefaultApp, ReadList, OpenTemp, RewriteList, RenameList
  <2>2. r \notin timely /\ kind[r] \notin Chrome
    BY <2>1 DEF TaskInv, Uncommitted
  <2>. QED  BY <2>1, <2>2, AnswerReplies, GotoMoves
<1>. QED  BY <1>1, <1>2, <1>3, <1>4, <1>5 DEF OpenNext

LEMMA CaptureProceeds ==
    ASSUME TaskInv, NEW r \in Requests, CaptureNext(r)
    PROVE  /\ Proceeds(r)
           /\ {at[r], at'[r]} \subseteq
                 {"idle", "queued", "picking", "confirming", "capturing", "recapturing",
                  "saving", "captured", "done"}
<1>. USE DEF Proceeds, Settled, ChromeFree, Answers, Chrome
<1>1. CASE Screenshot(r) \/ PickColor(r)
  <2>1. \E k, a : \E valid \in BOOLEAN : Arrive(r, k, a, valid)
    BY <1>1 DEF Screenshot, PickColor
  <2>. QED  BY <2>1, ArriveBegins DEF Begins
<1>2. CASE CaptureWorker(r)
  <2>1. \E k, first : Admit(r, k, first) /\ first \in {"picking", "confirming", "capturing"}
    BY <1>2 DEF CaptureWorker
  <2>. QED  BY <2>1, AdmitProceeds
<1>3. CASE Interact(r)
  <2>1. /\ at[r] \in {"picking", "confirming"}
        /\ \/ Answer(r, "cancelled") \/ Answer(r, "refused")
           \/ r \notin closed /\ (Answer(r, "success") \/ Goto(r, "capturing"))
    BY <1>3 DEF Interact
  <2>. QED  BY <2>1, AnswerReplies, GotoMoves DEF TaskInv
<1>4. CASE Capture(r) \/ WriteCapture(r)
  <2>1. /\ at[r] \in {"capturing", "recapturing", "saving"}
        /\ \/ Answer(r, "refused")
           \/ \E step \in {"saving", "recapturing", "captured"} : Goto(r, step)
    BY <1>4 DEF Capture, WriteCapture, Retry
  <2>2. CASE Answer(r, "refused")
    BY <2>1, <2>2, AnswerReplies
  <2>3. ASSUME NEW step \in {"saving", "recapturing", "captured"}, Goto(r, step)
        PROVE  Moves(r) /\ at'[r] = step
    <3>1. at'[r] = step /\ kind' = kind
      BY <2>3 DEF Goto, TaskInv
    <3>2. r \in timely => kind[r] \in Chrome
      BY <2>1 DEF TaskInv, Uncommitted
    <3>3. r \in timely => Uncommitted(r)'
      BY <3>1, <3>2 DEF Uncommitted
    <3>. QED  BY <2>1, <2>3, <3>3, GotoMoves
  <2>. QED  BY <2>1, <2>2, <2>3
<1>5. CASE ReportShot(r)
  <2>1. /\ at[r] = "captured"
        /\ Answer(r, "cancelled") \/ (r \notin closed /\ Answer(r, "success"))
    BY <1>5 DEF ReportShot
  <2>. QED  BY <2>1, AnswerReplies DEF TaskInv
<1>. QED  BY <1>1, <1>2, <1>3, <1>4, <1>5 DEF CaptureNext

LEMMA WallProceeds ==
    ASSUME TaskInv, NEW r \in Requests, WallNext(r)
    PROVE  /\ Proceeds(r)
           /\ {at[r], at'[r]} \subseteq
                 {"idle", "queued", "loading", "asking", "polled", "loaded", "staging",
                  "applying", "reapplying", "pruning", "dropping", "done"}
<1>. USE DEF Proceeds, Settled, ChromeFree, Answers, Chrome
<1>1. CASE SetWallpaperUri(r)
  <2>1. \E k, a : \E valid \in BOOLEAN : Arrive(r, k, a, valid)
    BY <1>1 DEF SetWallpaperUri
  <2>. QED  BY <2>1, ArriveBegins DEF Begins
<1>2. CASE WallpaperWorker(r)
  BY <1>2, AdmitProceeds DEF WallpaperWorker
<1>3. CASE ReadImage(r)
  <2>1. /\ at[r] = "loading"
        /\ Answer(r, "refused") \/ \E step \in {"asking", "loaded"} : Goto(r, step)
        /\ kind[r] \notin Chrome
    BY <1>3 DEF ReadImage, TaskInv
  <2>2. CASE Answer(r, "refused")
    BY <2>1, <2>2, AnswerReplies
  <2>3. ASSUME NEW step \in {"asking", "loaded"}, Goto(r, step)
        PROVE  Moves(r) /\ at'[r] = step
    <3>1. at'[r] = step
      BY <2>3 DEF Goto, TaskInv
    <3>2. Uncommitted(r)'
      BY <3>1 DEF Uncommitted
    <3>. QED  BY <2>1, <2>3, <3>2, GotoMoves
  <2>. QED  BY <2>1, <2>2, <2>3
<1>4. CASE StageImage(r)
  <2>1. /\ at[r] \in {"loaded", "polled"}
        /\ \/ Answer(r, "cancelled") \/ Answer(r, "refused")
           \/ r \notin closed /\ Goto(r, "staging")
    BY <1>4 DEF StageImage, Affirmed
  <2>2. at[r] = "polled" => kind[r] = "wallpaper"
    BY <1>4 DEF StageImage, Affirmed
  <2>3. kind[r] \notin Chrome
    BY <2>1, <2>2 DEF TaskInv
  <2>. QED  BY <2>1, <2>2, <2>3, AnswerReplies, GotoMoves DEF TaskInv
<1>5. CASE CommitImage(r) \/ ApplyWallpaper(r) \/ PruneStaging(r) \/ DropStaged(r)
  <2>1. /\ at[r] \in {"staging", "applying", "reapplying", "pruning", "dropping"}
        /\ \/ Answer(r, "refused") \/ Answer(r, "success")
           \/ \E step \in {"applying", "reapplying", "pruning", "dropping"} : Goto(r, step)
    BY <1>5 DEF CommitImage, ApplyWallpaper, PruneStaging, DropStaged
  <2>2. r \notin timely /\ kind[r] \notin Chrome
    BY <2>1 DEF TaskInv, Uncommitted
  <2>. QED  BY <2>1, <2>2, AnswerReplies, GotoMoves
<1>. QED  BY <1>1, <1>2, <1>3, <1>4, <1>5 DEF WallNext

LEMMA HandProceeds ==
    ASSUME TaskInv, NEW r \in Requests, HandNext(r)
    PROVE  \/ Proceeds(r) /\ {at[r], at'[r]} \subseteq
                 {"idle", "queued", "spooling", "copying", "submitting", "mailing", "fetching", "done"}
           \/ UNCHANGED taskVars
<1>. USE DEF Proceeds, Settled, ChromeFree, Answers, Chrome
<1>1. CASE PreparePrint(r) \/ PrintFd(r) \/ ComposeEmail(r) \/ RetrieveSecret(r)
  <2>1. \E k, a : \E valid \in BOOLEAN : Arrive(r, k, a, valid)
    BY <1>1 DEF PreparePrint, PrintFd, ComposeEmail, RetrieveSecret
  <2>. QED  BY <2>1, ArriveBegins DEF Begins
<1>2. CASE PrintWorker(r)
  BY <1>2, AdmitProceeds DEF PrintWorker
<1>3. CASE Prepare(r)
  <2>1. at[r] = "queued" /\ kind[r] = "prepare" /\ (Answer(r, "success") \/ Answer(r, "refused"))
    BY <1>3 DEF Prepare, Queued
  <2>2. r \notin timely
    BY <2>1 DEF TaskInv, Uncommitted
  <2>. QED  BY <2>1, <2>2, AnswerReplies
<1>4. CASE Compose(r) \/ AskSigil(r)
  <2>1. /\ at[r] = "queued" /\ kind[r] \in {"email", "secret"}
        /\ \/ Answer(r, "cancelled") \/ Answer(r, "refused")
           \/ r \notin closed /\ (Goto(r, "mailing") \/ Goto(r, "fetching"))
    BY <1>4 DEF Compose, AskSigil, Queued
  <2>. QED  BY <2>1, AnswerReplies, GotoMoves DEF TaskInv
<1>5. CASE OpenSpool(r) \/ SpoolFd(r) \/ Submit(r) \/ SpawnMailer(r) \/ WriteSecret(r)
  <2>1. /\ at[r] \in {"spooling", "copying", "submitting", "mailing", "fetching"}
        /\ \/ \E code \in Answers : Answer(r, code)
           \/ Goto(r, "copying") \/ Goto(r, "submitting")
    BY <1>5 DEF OpenSpool, SpoolFd, Submit, SpawnMailer, WriteSecret, LpAnswers, SigilAnswers
  <2>2. r \notin timely /\ kind[r] \notin Chrome
    BY <2>1 DEF TaskInv, Uncommitted
  <2>. QED  BY <2>1, <2>2, AnswerReplies, GotoMoves
<1>6. CASE Reap(r)
  BY <1>6 DEF Reap
<1>. QED  BY <1>1, <1>2, <1>3, <1>4, <1>5, <1>6 DEF HandNext

LEMMA InhibitProceeds ==
    ASSUME TaskInv, InhibitNext
    PROVE  \/ \E r \in Requests :
                 /\ Proceeds(r)
                 /\ {at[r], at'[r]} \subseteq {"idle", "queued", "exporting", "done"}
           \/ UNCHANGED taskVars
<1>. USE DEF Proceeds, Settled, ChromeFree, Answers, Chrome
<1>1. ASSUME NEW r \in Requests, Inhibit(r) \/ CreateMonitor(r)
      PROVE  Proceeds(r) /\ {at[r], at'[r]} \subseteq {"idle", "queued", "exporting", "done"}
  <2>1. \E k, a : \E valid \in BOOLEAN : Arrive(r, k, a, valid)
    BY <1>1 DEF Inhibit, CreateMonitor
  <2>. QED  BY <2>1, ArriveBegins DEF Begins
<1>2. ASSUME NEW r \in Requests, ApplyInhibit(r) \/ AddMonitor(r)
      PROVE  Proceeds(r) /\ {at[r], at'[r]} \subseteq {"idle", "queued", "exporting", "done"}
  <2>1. /\ at[r] = "queued" /\ kind[r] \in {"inhibit", "monitor"}
        /\ Answer(r, "error") \/ Answer(r, "refused") \/ Goto(r, "exporting")
    BY <1>2 DEF ApplyInhibit, AddMonitor, Queued
  <2>2. r \notin timely
    BY <2>1 DEF TaskInv, Uncommitted
  <2>. QED  BY <2>1, <2>2, AnswerReplies, GotoMoves
<1>3. ASSUME NEW r \in Requests, ExportRequest(r) \/ ExportSession(r)
      PROVE  Proceeds(r) /\ {at[r], at'[r]} \subseteq {"idle", "queued", "exporting", "done"}
  <2>1. /\ at[r] = "exporting" /\ kind[r] \in {"inhibit", "monitor"}
        /\ \E code \in Answers : Answer(r, code)
    BY <1>3 DEF ExportRequest, ExportSession, Export
  <2>2. r \notin timely
    BY <2>1 DEF TaskInv, Uncommitted
  <2>. QED  BY <2>1, <2>2, AnswerReplies
<1>4. ASSUME NEW p \in Paths, CloseObject(p) \/ RemoveObject(p)
      PROVE  UNCHANGED taskVars
  BY <1>4 DEF CloseObject, RemoveObject
<1>. QED  BY <1>1, <1>2, <1>3, <1>4 DEF InhibitNext

-----------------------------------------------------------------------------
(* What holds of every request, by the four kinds of step.                 *)

(* The steps of Next by what they do to requests, for the parts below.     *)
LEMMA NextProceeds ==
    ASSUME TaskInv, [Next]_vars
    PROVE  (\E r \in Requests : Proceeds(r)) \/ UNCHANGED taskVars
<1>1. CASE UNCHANGED vars
  BY <1>1 DEF vars
<1>2. CASE Next
  BY <1>2, DialogProceeds, CloseProceeds, ConsentProceeds, OpenProceeds, CaptureProceeds,
     WallProceeds, HandProceeds, InhibitProceeds DEF Next
<1>. QED  BY <1>1, <1>2

LEMMA InitTaskInv == Init => TaskInv
  BY DEF Init, TaskInit, TaskInv, ChromeFree

LEMMA NextTaskInv == TaskInv /\ [Next]_vars => TaskInv'
<1>. SUFFICES ASSUME TaskInv, [Next]_vars PROVE TaskInv'
  OBVIOUS
<1>. USE DEF TaskInv, Settled
<1>1. ASSUME NEW r \in Requests, Begins(r)
      PROVE  TaskInv'
  <2>1. \A q \in timely : q # r
    BY <1>1 DEF Begins
  <2>2. \A q \in Requests \ {r} : at'[q] = at[q] /\ kind'[q] = kind[q] /\ answer'[q] = answer[q]
    BY <1>1 DEF Begins
  <2>3. \A q \in timely : Uncommitted(q) => Uncommitted(q)'
    BY <2>1, <2>2 DEF Uncommitted
  <2>4. at'[r] \notin ChromeFree
    BY <1>1 DEF Begins, ChromeFree
  <2>. QED  BY <1>1, <2>1, <2>2, <2>3, <2>4 DEF Begins
<1>2. ASSUME NEW r \in Requests, Moves(r)
      PROVE  TaskInv'
  <2>1. \A q \in Requests \ {r} : at'[q] = at[q]
    BY <1>2 DEF Moves
  <2>2. \A q \in timely \ {r} : Uncommitted(q) => Uncommitted(q)'
    BY <1>2, <2>1 DEF Uncommitted, Moves
  <2>. QED  BY <1>2, <2>1, <2>2 DEF Moves
<1>3. ASSUME NEW r \in Requests, Replies(r)
      PROVE  TaskInv'
  <2>1. \A q \in Requests \ {r} : at'[q] = at[q] /\ answer'[q] = answer[q]
    BY <1>3 DEF Replies
  <2>2. \A q \in timely \ {r} : Uncommitted(q) => Uncommitted(q)'
    BY <1>3, <2>1 DEF Uncommitted, Replies
  <2>3. at'[r] \notin ChromeFree
    BY <1>3 DEF Replies, ChromeFree
  <2>. QED  BY <1>3, <2>1, <2>2, <2>3 DEF Replies
<1>4. ASSUME NEW r \in Requests, Marks(r)
      PROVE  TaskInv'
  <2>1. \A q \in Requests : Uncommitted(q) => Uncommitted(q)'
    BY <1>4 DEF Marks, Uncommitted
  <2>. QED  BY <1>4, <2>1 DEF Marks
<1>5. CASE UNCHANGED taskVars
  <2>1. \A q \in Requests : Uncommitted(q) => Uncommitted(q)'
    BY <1>5 DEF taskVars, Uncommitted
  <2>. QED  BY <1>5, <2>1 DEF taskVars
<1>. QED  BY <1>1, <1>2, <1>3, <1>4, <1>5, NextProceeds DEF Proceeds

LEMMA TaskInvCorrect == Spec => []TaskInv
<1>. QED  BY InitTaskInv, NextTaskInv, PTL DEF Spec

-----------------------------------------------------------------------------
(* The refinement of PortalRequest, by the same four kinds.                *)

Statuses == [r \in Requests |-> Status(r)]
HandlesOf == [r \in Requests |-> IF at[r] = "idle" THEN None ELSE r]

LEMMA RefinesInit == Init => Contract!ContractInit
  BY DEF Init, TaskInit, Status, Contract!ContractInit

LEMMA RefinesNext ==
    TaskInv /\ [Next]_vars => [Contract!ContractNext]_<<Statuses, HandlesOf, timely>>
<1>. SUFFICES ASSUME TaskInv, [Next]_vars
              PROVE  Contract!ContractNext \/ UNCHANGED <<Statuses, HandlesOf, timely>>
  OBVIOUS
<1>. USE DEF TaskInv, Settled, Status, Statuses, HandlesOf
<1>1. ASSUME NEW r \in Requests, Begins(r)
      PROVE  Contract!Open(r, r) \/ Contract!Reject(r, r)
  <2>1. \A q \in Requests \ {r} : at'[q] = at[q] /\ answer'[q] = answer[q]
    BY <1>1 DEF Begins
  <2>2. /\ at[r] = "idle" /\ at'[r] # "idle" /\ timely' = timely
        /\ at'[r] = "queued" \/ (at'[r] = "done" /\ answer'[r] = "refused")
    BY <1>1 DEF Begins
  <2>3. HandlesOf' = [HandlesOf EXCEPT ![r] = r]
    BY <2>1, <2>2
  <2>4. Statuses[r] = "idle" /\ \A q \in Requests : Statuses[q] = "open" => HandlesOf[q] # r
    BY <2>2
  <2>5. CASE at'[r] = "queued"
    <3>1. Statuses' = [Statuses EXCEPT ![r] = "open"]
      BY <2>1, <2>5
    <3>. QED  BY <2>2, <2>3, <2>4, <3>1 DEF Contract!Open
  <2>6. CASE at'[r] = "done" /\ answer'[r] = "refused"
    <3>1. Statuses' = [Statuses EXCEPT ![r] = "refused"]
      BY <2>1, <2>6
    <3>. QED  BY <2>2, <2>3, <2>4, <3>1 DEF Contract!Reject
  <2>. QED  BY <2>2, <2>5, <2>6
<1>2. ASSUME NEW r \in Requests, Moves(r)
      PROVE  UNCHANGED <<Statuses, HandlesOf, timely>>
  <2>1. \A q \in Requests : Status(q)' = Status(q) /\ (at'[q] = "idle" <=> at[q] = "idle")
    BY <1>2 DEF Moves
  <2>. QED  BY <1>2, <2>1 DEF Moves
<1>3. ASSUME NEW r \in Requests, Replies(r)
      PROVE  Contract!AnswerCall(r)
  <2>1. \A q \in Requests \ {r} : at'[q] = at[q] /\ answer'[q] = answer[q]
    BY <1>3 DEF Replies
  <2>2. /\ at[r] \notin Settled /\ at'[r] = "done" /\ timely' = timely
        /\ answer'[r] \in Contract!Answers /\ (answer'[r] = "success" => r \notin timely)
    BY <1>3 DEF Replies, Answers, Contract!Answers
  <2>3. HandlesOf' = HandlesOf
    BY <2>1, <2>2
  <2>4. Statuses' = [Statuses EXCEPT ![r] = answer'[r]] /\ Statuses[r] = "open"
    BY <2>1, <2>2
  <2>. QED  BY <2>2, <2>3, <2>4 DEF Contract!AnswerCall
<1>4. ASSUME NEW r \in Requests, Marks(r)
      PROVE  Contract!Cancel(r) \/ UNCHANGED <<Statuses, HandlesOf, timely>>
  <2>1. Statuses' = Statuses /\ HandlesOf' = HandlesOf /\ Statuses[r] = "open"
    BY <1>4 DEF Marks
  <2>. QED  BY <1>4, <2>1 DEF Marks, Contract!Cancel
<1>5. CASE UNCHANGED taskVars
  BY <1>5 DEF taskVars
<1>. QED
  BY <1>1, <1>2, <1>3, <1>4, <1>5, NextProceeds DEF Proceeds, Contract!ContractNext

(* Every portal of the daemon keeps the contract of a request: whatever    *)
(* chain of dialogs, compositor calls and file writes stands behind it, a  *)
(* call is answered once, and one whose Close came before its task's last  *)
(* look at the marker does not succeed (background.rs, app_chooser.rs:     *)
(* "Request.Close wins a race with a completed child response").           *)
THEOREM ContractKept == Spec => KeepsContract
<1>. QED
  BY RefinesInit, RefinesNext, TaskInvCorrect, PTL
  DEF Spec, KeepsContract, Contract!ContractSpec, Contract!contractVars, Statuses, HandlesOf

-----------------------------------------------------------------------------
(* Print and Email: the slots are those of the mailers not yet reaped and  *)
(* of the one request at most that is starting one.                        *)

HoldsSlot == mailers \cup {r \in Requests : at[r] = "mailing"}

(* Print: the requests whose file is in use. *)
Spooled == {r \in Requests : at[r] \in {"copying", "submitting"}}

HandInv ==
    /\ mailers \subseteq {r \in Requests : at[r] = "done"}
    /\ unremoved \subseteq {r \in Requests : at[r] = "done"}
    /\ IsFiniteSet(HoldsSlot)
    /\ spools = Spooled \cup unremoved
    /\ mailerSlots = Cardinality(HoldsSlot)
    /\ mailerSlots <= MaxMailers

LEMMA InitHandInv == Init => HandInv
<1>. SUFFICES ASSUME Init PROVE HandInv
  OBVIOUS
<1>1. HoldsSlot = {} /\ Spooled = {}
  BY DEF Init, TaskInit, HandInit, HoldsSlot, Spooled
<1>. QED  BY <1>1, FS_EmptySet DEF Init, HandInit, HandInv

(* A step elsewhere disturbs none of it. *)
LEMMA HandFrame ==
    ASSUME TaskInv, HandInv, NEW r \in Requests, Proceeds(r),
           {at[r], at'[r]} \cap {"copying", "submitting", "mailing"} = {}, UNCHANGED handVars
    PROVE  HandInv'
<1>1. /\ \A q \in Requests \ {r} : at'[q] = at[q]
      /\ at[r] = "done" => at'[r] = "done"
  BY DEF Proceeds, Begins, Moves, Replies, Marks, Settled, TaskInv
<1>2. HoldsSlot' = HoldsSlot
  BY <1>1 DEF HoldsSlot, handVars
<1>3. Spooled' = Spooled
  BY <1>1 DEF Spooled
<1>. QED  BY <1>1, <1>2, <1>3 DEF HandInv, handVars

LEMMA HandStays ==
    ASSUME TaskInv, HandInv, UNCHANGED taskVars, UNCHANGED handVars
    PROVE  HandInv'
<1>1. HoldsSlot' = HoldsSlot /\ Spooled' = Spooled
  BY DEF HoldsSlot, Spooled, handVars, taskVars
<1>. QED  BY <1>1 DEF HandInv, handVars, taskVars

(* Giving a slot back. *)
LEMMA SlotReleased ==
    ASSUME HandInv, NEW r \in HoldsSlot, HoldsSlot' = HoldsSlot \ {r},
           mailerSlots' = mailerSlots - 1,
           mailers' \subseteq {q \in Requests : at'[q] = "done"},
           unremoved' \subseteq {q \in Requests : at'[q] = "done"},
           spools' = Spooled' \cup unremoved'
    PROVE  HandInv'
<1>1. IsFiniteSet(HoldsSlot') /\ Cardinality(HoldsSlot') = Cardinality(HoldsSlot) - 1
  BY FS_RemoveElement DEF HandInv
<1>2. Cardinality(HoldsSlot) \in Nat
  BY FS_CardinalityType DEF HandInv
<1>. QED  BY <1>1, <1>2 DEF HandInv

LEMMA HandNextInv ==
    ASSUME TaskInv, HandInv, NEW r \in Requests, HandNext(r)
    PROVE  HandInv'
<1>. USE DEF Proceeds
<1>1. CASE (PreparePrint(r) \/ PrintFd(r) \/ ComposeEmail(r) \/ RetrieveSecret(r)) /\ UNCHANGED handVars
  <2>1. \E k, a : \E valid \in BOOLEAN : Arrive(r, k, a, valid)
    BY <1>1 DEF PreparePrint, PrintFd, ComposeEmail, RetrieveSecret
  <2>2. Begins(r)
    BY <2>1, ArriveBegins
  <2>. QED  BY <1>1, <2>2, HandFrame DEF Begins
<1>2. CASE PrintWorker(r) /\ UNCHANGED handVars
  <2>1. /\ Proceeds(r)
        /\ at[r] = "queued" /\ at'[r] \in {"spooling", "done"}
    BY <1>2, AdmitProceeds DEF PrintWorker, Settled, Chrome
  <2>. QED  BY <1>2, <2>1, HandFrame
<1>3. CASE Prepare(r) \/ AskSigil(r) \/ WriteSecret(r)
  <2>1. HandNext(r) /\ UNCHANGED handVars
    BY <1>3 DEF Prepare, AskSigil, WriteSecret
  <2>2. at[r] \in {"queued", "fetching"} /\ at'[r] \in {"fetching", "done"}
    BY <1>3 DEF Prepare, AskSigil, WriteSecret, Queued, Goto, Answer, TaskInv
  <2>3. Proceeds(r) \/ UNCHANGED taskVars
    BY <2>1, HandProceeds
  <2>. QED  BY <2>1, <2>2, <2>3, HandFrame, HandStays
<1>4. CASE OpenSpool(r) \/ SpoolFd(r) \/ Submit(r)
  <2>1. /\ UNCHANGED <<mailers, mailerSlots>>
        /\ at' = [at EXCEPT ![r] = at'[r]] /\ at'[r] # "mailing"
        /\ at[r] \in {"spooling", "copying", "submitting"}
        /\ \/ at[r] = "spooling" /\ at'[r] = "copying" /\ spools' = spools \cup {r} /\ unremoved' = unremoved
           \/ at[r] = "spooling" /\ at'[r] = "done" /\ UNCHANGED <<spools, unremoved>>
           \/ at[r] = "copying" /\ at'[r] = "submitting" /\ UNCHANGED <<spools, unremoved>>
           \/ at[r] # "spooling" /\ at'[r] = "done" /\ spools' = spools \ {r} /\ unremoved' = unremoved
           \/ at[r] # "spooling" /\ at'[r] = "done" /\ spools' = spools /\ unremoved' = unremoved \cup {r}
    BY <1>4 DEF OpenSpool, SpoolFd, Submit, Unlink, Goto, Answer, TaskInv
  <2>2. \A q \in Requests \ {r} : at'[q] = at[q]
    BY <2>1 DEF TaskInv
  <2>3. HoldsSlot' = HoldsSlot
    BY <2>1, <2>2 DEF HoldsSlot
  <2>4. /\ mailers' \subseteq {q \in Requests : at'[q] = "done"}
        /\ unremoved' \subseteq {q \in Requests : at'[q] = "done"}
    BY <2>1, <2>2 DEF HandInv
  <2>5. spools' = Spooled' \cup unremoved'
    <3>1. r \notin unremoved /\ unremoved \subseteq Requests
      BY <2>1 DEF HandInv
    <3>2. Spooled' = IF at'[r] = "done" THEN Spooled \ {r} ELSE Spooled \cup {r}
      BY <2>1, <2>2 DEF Spooled
    <3>3. r \in Spooled <=> at[r] # "spooling"
      BY <2>1 DEF Spooled
    <3>. QED  BY <2>1, <3>1, <3>2, <3>3 DEF HandInv
  <2>. QED  BY <2>1, <2>3, <2>4, <2>5 DEF HandInv
<1>5. CASE Compose(r)
  <2>1. /\ at[r] = "queued" /\ UNCHANGED <<spools, unremoved, mailers>>
        /\ at' = [at EXCEPT ![r] = at'[r]]
        /\ \/ at'[r] = "done" /\ mailerSlots' = mailerSlots
           \/ at'[r] = "mailing" /\ mailerSlots' = mailerSlots + 1 /\ ~(mailerSlots >= MaxMailers)
    BY <1>5 DEF Compose, Queued, Goto, Answer, TaskInv
  <2>2. \A q \in Requests \ {r} : at'[q] = at[q]
    BY <2>1 DEF TaskInv
  <2>3. /\ mailers' \subseteq {q \in Requests : at'[q] = "done"}
        /\ unremoved' \subseteq {q \in Requests : at'[q] = "done"}
        /\ spools' = Spooled' \cup unremoved'
    BY <2>1, <2>2 DEF HandInv, Spooled
  <2>4. CASE at'[r] = "done" /\ mailerSlots' = mailerSlots
    <3>1. HoldsSlot' = HoldsSlot
      BY <2>1, <2>2, <2>4 DEF HoldsSlot
    <3>. QED  BY <2>3, <2>4, <3>1 DEF HandInv
  <2>5. CASE at'[r] = "mailing" /\ mailerSlots' = mailerSlots + 1 /\ ~(mailerSlots >= MaxMailers)
    <3>1. HoldsSlot' = HoldsSlot \cup {r} /\ r \notin HoldsSlot
      BY <2>1, <2>2, <2>5 DEF HoldsSlot, HandInv
    <3>2. IsFiniteSet(HoldsSlot') /\ Cardinality(HoldsSlot') = Cardinality(HoldsSlot) + 1
      BY <3>1, FS_AddElement DEF HandInv
    <3>3. Cardinality(HoldsSlot) \in Nat
      BY FS_CardinalityType DEF HandInv
    <3>. QED  BY <2>3, <2>5, <3>2, <3>3 DEF HandInv
  <2>. QED  BY <2>1, <2>4, <2>5
<1>6. CASE SpawnMailer(r)
  <2>1. /\ at[r] = "mailing" /\ at'[r] = "done" /\ UNCHANGED <<spools, unremoved>>
        /\ at' = [at EXCEPT ![r] = "done"]
        /\ \/ mailers' = mailers \cup {r} /\ mailerSlots' = mailerSlots
           \/ mailers' = mailers /\ mailerSlots' = mailerSlots - 1
    BY <1>6 DEF SpawnMailer, ReleaseMailerSlot, Answer, TaskInv
  <2>2. \A q \in Requests \ {r} : at'[q] = at[q]
    BY <2>1 DEF TaskInv
  <2>3. /\ mailers' \subseteq {q \in Requests : at'[q] = "done"}
        /\ unremoved' \subseteq {q \in Requests : at'[q] = "done"}
        /\ spools' = Spooled' \cup unremoved'
    BY <2>1, <2>2 DEF HandInv, Spooled
  <2>4. CASE mailers' = mailers \cup {r} /\ mailerSlots' = mailerSlots
    <3>1. HoldsSlot' = HoldsSlot
      BY <2>1, <2>2, <2>4 DEF HoldsSlot
    <3>. QED  BY <2>3, <2>4, <3>1 DEF HandInv
  <2>5. CASE mailers' = mailers /\ mailerSlots' = mailerSlots - 1
    <3>1. HoldsSlot' = HoldsSlot \ {r} /\ r \in HoldsSlot
      BY <2>1, <2>2, <2>5 DEF HoldsSlot, HandInv
    <3>. QED  BY <2>3, <2>5, <3>1, SlotReleased
  <2>. QED  BY <2>1, <2>4, <2>5
<1>7. CASE Reap(r)
  <2>1. /\ r \in mailers /\ mailers' = mailers \ {r} /\ mailerSlots' = mailerSlots - 1
        /\ at' = at /\ UNCHANGED <<spools, unremoved>>
    BY <1>7 DEF Reap, ReleaseMailerSlot, taskVars
  <2>2. HoldsSlot' = HoldsSlot \ {r} /\ r \in HoldsSlot
    BY <2>1 DEF HoldsSlot, HandInv
  <2>3. /\ mailers' \subseteq {q \in Requests : at'[q] = "done"}
        /\ unremoved' \subseteq {q \in Requests : at'[q] = "done"}
        /\ spools' = Spooled' \cup unremoved'
    BY <2>1 DEF HandInv, Spooled
  <2>. QED  BY <2>1, <2>2, <2>3, SlotReleased
<1>. QED  BY <1>1, <1>2, <1>3, <1>4, <1>5, <1>6, <1>7 DEF HandNext

LEMMA HandInvCorrect == Spec => []HandInv
<1>1. TaskInv /\ HandInv /\ [Next]_vars => HandInv'
  <2>. SUFFICES ASSUME TaskInv, HandInv, [Next]_vars PROVE HandInv'
    OBVIOUS
  <2>1. ASSUME NEW r \in Requests, Dialog(r) \/ Close(r, Uncommitted(r)), UNCHANGED handVars
        PROVE  HandInv'
    <3>1. CASE Dialog(r)
      BY <2>1, <3>1, DialogProceeds, HandFrame
    <3>2. CASE Close(r, Uncommitted(r))
      <4>1. UNCHANGED <<at, mailers, spools, unremoved, mailerSlots>>
        BY <2>1, <3>2, CloseProceeds DEF handVars
      <4>2. HoldsSlot' = HoldsSlot /\ Spooled' = Spooled
        BY <4>1 DEF HoldsSlot, Spooled
      <4>. QED  BY <4>1, <4>2 DEF HandInv
    <3>. QED  BY <2>1, <3>1, <3>2
  <2>2. ASSUME NEW r \in Requests, ConsentNext(r) \/ OpenNext(r) \/ CaptureNext(r) \/ WallNext(r),
               UNCHANGED handVars
        PROVE  HandInv'
    <3>1. Proceeds(r) /\ {at[r], at'[r]} \cap {"copying", "submitting", "mailing"} = {}
      BY <2>2, ConsentProceeds, OpenProceeds, CaptureProceeds, WallProceeds
    <3>. QED  BY <2>2, <3>1, HandFrame
  <2>3. CASE InhibitNext /\ UNCHANGED handVars
    <3>1. \/ \E r \in Requests :
                Proceeds(r) /\ {at[r], at'[r]} \cap {"copying", "submitting", "mailing"} = {}
          \/ UNCHANGED taskVars
      BY <2>3, InhibitProceeds
    <3>. QED  BY <2>3, <3>1, HandFrame, HandStays
  <2>4. CASE UNCHANGED vars
    BY <2>4, HandStays DEF vars
  <2>. QED  BY <2>1, <2>2, <2>3, <2>4, HandNextInv DEF Next
<1>. QED  BY <1>1, InitHandInv, TaskInvCorrect, PTL DEF Spec

(* A file handed over for printing exists only while its request copies or *)
(* submits it ("The caller deletes the file after submission",             *)
(* print.rs:241), unless its removal failed or its length could not be     *)
(* read (print.rs:266); and every mailer's slot is given back exactly      *)
(* once, with any number of requests in flight (email.rs, ACTIVE_MAILERS). *)
THEOREM NothingLeftCorrect == Spec => []NothingLeftBehind
<1>1. HandInv => NothingLeftBehind
  BY DEF HandInv, HoldsSlot, Spooled, NothingLeftBehind
<1>. QED  BY <1>1, HandInvCorrect, PTL

-----------------------------------------------------------------------------
(* Inhibit: whoever is between recording and exporting holds the record of *)
(* its path, where no object is then, or one whose Close has released.     *)

Exporters(p) == {r \in Requests : at[r] = "exporting" /\ arg[r] = p}

PathInv(p) ==
    /\ closing[p] \in {0, 1}
    /\ closing[p] = 1 => object[p] # None
    /\ \A r \in Exporters(p) : record[p] = r /\ (object[p] = None \/ closing[p] = 1)
    /\ Exporters(p) = {} => record[p] = IF closing[p] = 1 THEN None ELSE object[p]

EndInv ==
    /\ DOMAIN record = Paths /\ DOMAIN object = Paths /\ DOMAIN closing = Paths
    /\ \A p \in Paths \ (stranded \cup reclosed) : PathInv(p)

LEMMA InitEndInv == Init => EndInv
  BY DEF Init, TaskInit, InhibitInit, EndInv, PathInv, Exporters

LEMMA EndFrame ==
    ASSUME TaskInv, EndInv, UNCHANGED inhibitVars,
           \/ \E r \in Requests : Proceeds(r) /\ "exporting" \notin {at[r], at'[r]}
           \/ UNCHANGED taskVars
    PROVE  EndInv'
<1>1. \A q \in Requests : /\ at'[q] = "exporting" <=> at[q] = "exporting"
                          /\ at[q] = "exporting" => arg'[q] = arg[q]
  <2>1. ASSUME NEW r \in Requests, Proceeds(r), "exporting" \notin {at[r], at'[r]}
        PROVE  \A q \in Requests : /\ at'[q] = "exporting" <=> at[q] = "exporting"
                                   /\ at[q] = "exporting" => arg'[q] = arg[q]
    <3>1. /\ at' = at \/ at' = [at EXCEPT ![r] = at'[r]]
          /\ arg' = arg \/ arg' = [arg EXCEPT ![r] = arg'[r]]
      BY <2>1 DEF Proceeds, Begins, Moves, Replies, Marks
    <3>2. \A q \in Requests \ {r} : at'[q] = at[q] /\ arg'[q] = arg[q]
      BY <3>1 DEF TaskInv
    <3>. QED  BY <2>1, <3>2
  <2>2. CASE UNCHANGED taskVars
    BY <2>2 DEF taskVars
  <2>. QED  BY <2>1, <2>2
<1>2. \A p : Exporters(p)' = Exporters(p)
  BY <1>1 DEF Exporters
<1>. QED  BY <1>2 DEF EndInv, PathInv, inhibitVars

LEMMA InhibitEndInv ==
    ASSUME TaskInv, EndInv, InhibitNext
    PROVE  EndInv'
<1>1. ASSUME NEW r \in Requests, Inhibit(r) \/ CreateMonitor(r)
      PROVE  EndInv'
  <2>1. UNCHANGED inhibitVars /\ \E k, a : \E valid \in BOOLEAN : Arrive(r, k, a, valid)
    BY <1>1 DEF Inhibit, CreateMonitor
  <2>2. Begins(r)
    BY <2>1, ArriveBegins
  <2>. QED  BY <2>1, <2>2, EndFrame DEF Begins, Proceeds
<1>2. ASSUME NEW r \in Requests, ApplyInhibit(r) \/ AddMonitor(r)
      PROVE  EndInv'
  <2>1. /\ at[r] = "queued" /\ UNCHANGED <<arg, object, closing, stranded, reclosed>>
        /\ at' = [at EXCEPT ![r] = at'[r]]
        /\ \/ at'[r] = "done" /\ record' = record
           \/ /\ at'[r] = "exporting" /\ record[arg[r]] = None
              /\ record' = [record EXCEPT ![arg[r]] = r]
    BY <1>2 DEF ApplyInhibit, AddMonitor, Unavailable, Queued, Goto, Answer, TaskInv
  <2>2. \A q \in Requests \ {r} : at'[q] = at[q]
    BY <2>1 DEF TaskInv
  <2>3. ASSUME NEW p \in Paths \ (stranded \cup reclosed)
        PROVE  PathInv(p)'
    <3>1. CASE at'[r] = "done" \/ arg[r] # p
      <4>1. Exporters(p)' = Exporters(p) /\ record'[p] = record[p]
        BY <2>1, <2>2, <3>1 DEF Exporters, EndInv
      <4>. QED  BY <2>1, <2>3, <4>1 DEF EndInv, PathInv
    <3>2. CASE at'[r] = "exporting" /\ arg[r] = p
      <4>1. record[p] = None /\ record'[p] = r
        BY <2>1, <3>2 DEF EndInv
      <4>2. Exporters(p) = {}
        BY <2>3, <4>1 DEF EndInv, PathInv, Exporters
      <4>3. Exporters(p)' = {r}
        BY <2>1, <2>2, <3>2, <4>2 DEF Exporters
      <4>. QED  BY <2>1, <2>3, <4>1, <4>2, <4>3 DEF EndInv, PathInv
    <3>. QED  BY <2>1, <3>1, <3>2
  <2>. QED  BY <2>1, <2>3 DEF EndInv
<1>3. ASSUME NEW r \in Requests, ExportRequest(r) \/ ExportSession(r)
      PROVE  EndInv'
  <2>1. /\ at[r] = "exporting" /\ at'[r] = "done" /\ UNCHANGED <<arg, closing, reclosed>>
        /\ at' = [at EXCEPT ![r] = "done"]
        /\ \/ /\ object[arg[r]] = None /\ object' = [object EXCEPT ![arg[r]] = r]
              /\ UNCHANGED <<record, stranded>>
           \/ /\ object[arg[r]] # None /\ record' = [record EXCEPT ![arg[r]] = None]
              /\ UNCHANGED <<object, stranded>>
           \/ stranded' = stranded \cup {arg[r]} /\ UNCHANGED <<record, object>>
    BY <1>3 DEF ExportRequest, ExportSession, Export, Answer, TaskInv
  <2>2. \A q \in Requests \ {r} : at'[q] = at[q]
    BY <2>1 DEF TaskInv
  <2>3. ASSUME NEW p \in Paths \ (stranded' \cup reclosed)
        PROVE  PathInv(p)'
    <3>1. PathInv(p)
      BY <2>1, <2>3 DEF EndInv
    <3>2. CASE arg[r] # p
      <4>1. Exporters(p)' = Exporters(p) /\ record'[p] = record[p] /\ object'[p] = object[p]
        BY <2>1, <2>2, <3>2 DEF Exporters, EndInv
      <4>. QED  BY <2>1, <3>1, <4>1 DEF PathInv
    <3>3. CASE arg[r] = p
      <4>1. \A q \in Exporters(p) : q = r
        BY <2>1, <3>1, <3>3 DEF PathInv, Exporters
      <4>2. record[p] = r /\ (object[p] = None \/ closing[p] = 1) /\ Exporters(p)' = {}
        BY <2>1, <2>2, <3>1, <3>3, <4>1 DEF PathInv, Exporters
      <4>3. /\ closing[p] = 1 <=> object[p] # None
            /\ closing'[p] \in {0, 1}
        BY <2>1, <3>1, <4>2 DEF PathInv
      <4>. QED  BY <2>1, <2>3, <3>3, <4>2, <4>3 DEF PathInv, EndInv
    <3>. QED  BY <3>2, <3>3
  <2>. QED  BY <2>1, <2>3 DEF EndInv
<1>4. ASSUME NEW p \in Paths, CloseObject(p) \/ RemoveObject(p)
      PROVE  EndInv'
  <2>1. \A q : Exporters(q)' = Exporters(q)
    BY <1>4 DEF CloseObject, RemoveObject, taskVars, Exporters
  <2>2. /\ stranded' = stranded /\ reclosed \subseteq reclosed'
        /\ DOMAIN record' = Paths /\ DOMAIN object' = Paths /\ DOMAIN closing' = Paths
        /\ \A q \in Paths \ {p} :
              record'[q] = record[q] /\ object'[q] = object[q] /\ closing'[q] = closing[q]
    BY <1>4 DEF CloseObject, RemoveObject, EndInv
  <2>3. \A q \in Paths \ (stranded' \cup reclosed') : q # p => PathInv(q)'
    BY <2>1, <2>2 DEF EndInv, PathInv
  <2>4. CASE CloseObject(p)
    <3>1. ASSUME p \notin stranded' \cup reclosed'
          PROVE  PathInv(p)'
      <4>1. closing[p] = 0 /\ PathInv(p) /\ object[p] # None
        BY <2>2, <2>4, <3>1 DEF CloseObject, EndInv
      <4>2. Exporters(p) = {}
        BY <4>1 DEF PathInv
      <4>3. closing'[p] = 1 /\ record'[p] = None /\ object'[p] = object[p]
        BY <2>4, <4>1 DEF CloseObject, EndInv
      <4>. QED  BY <2>1, <4>1, <4>2, <4>3 DEF PathInv
    <3>. QED  BY <2>2, <2>3, <3>1 DEF EndInv
  <2>5. CASE RemoveObject(p)
    <3>1. ASSUME p \notin stranded' \cup reclosed'
          PROVE  PathInv(p)'
      <4>1. closing[p] > 0 /\ PathInv(p)
        BY <2>2, <2>5, <3>1 DEF RemoveObject, EndInv
      <4>2. closing[p] = 1
        BY <4>1 DEF PathInv
      <4>3. closing'[p] = 0 /\ record'[p] = record[p] /\ object'[p] = None
        BY <2>5, <4>2 DEF RemoveObject, EndInv
      <4>. QED  BY <2>1, <4>1, <4>2, <4>3 DEF PathInv
    <3>. QED  BY <2>2, <2>3, <3>1 DEF EndInv
  <2>. QED  BY <1>4, <2>4, <2>5
<1>. QED  BY <1>1, <1>2, <1>3, <1>4 DEF InhibitNext

LEMMA EndInvCorrect == Spec => []EndInv
<1>1. TaskInv /\ EndInv /\ [Next]_vars => EndInv'
  <2>. SUFFICES ASSUME TaskInv, EndInv, [Next]_vars PROVE EndInv'
    OBVIOUS
  <2>1. ASSUME NEW r \in Requests, Dialog(r), UNCHANGED inhibitVars
        PROVE  EndInv'
    BY <2>1, DialogProceeds, EndFrame
  <2>2. ASSUME NEW r \in Requests, Close(r, Uncommitted(r)), UNCHANGED inhibitVars
        PROVE  EndInv'
    <3>1. \A p : Exporters(p)' = Exporters(p)
      BY <2>2 DEF Close, Exporters
    <3>. QED  BY <2>2, <3>1 DEF EndInv, PathInv, inhibitVars
  <2>3. ASSUME NEW r \in Requests, ConsentNext(r) \/ OpenNext(r) \/ CaptureNext(r) \/ WallNext(r) \/ HandNext(r),
               UNCHANGED inhibitVars
        PROVE  EndInv'
    <3>1. \/ Proceeds(r) /\ "exporting" \notin {at[r], at'[r]}
          \/ UNCHANGED taskVars
      BY <2>3, ConsentProceeds, OpenProceeds, CaptureProceeds, WallProceeds, HandProceeds
    <3>. QED  BY <2>3, <3>1, EndFrame
  <2>4. CASE UNCHANGED vars
    BY <2>4, EndFrame DEF vars
  <2>. QED  BY <2>1, <2>2, <2>3, <2>4, InhibitEndInv DEF Next
<1>. QED  BY <1>1, InitEndInv, TaskInvCorrect, PTL DEF Spec

(* An inhibition or a monitor is recorded exactly if the object that ends  *)
(* it is exported, and for the same call, whatever Close and Inhibit meet  *)
(* at a path ("error instead of a silently unbacked inhibition",           *)
(* inhibit.rs:20); only an export that failed outright, or a second Close  *)
(* while the first removes the object, breaks it.                          *)
THEOREM EndedCorrect == Spec => []EndedByItsObject
<1>1. EndInv => EndedByItsObject
  BY DEF EndInv, PathInv, Exporters, EndedByItsObject
<1>. QED  BY <1>1, EndInvCorrect, PTL

-----------------------------------------------------------------------------
(* Background: while the writers of the autostart entry have kept apart,   *)
(* the temporary is never the entry, and a request about to publish has    *)
(* its own text in it, whatever earlier writers left behind.               *)

Inodes == Requests \cup {"first"}

FilesOf(Texts) == [name : Inodes, temp : Inodes \cup {None},
                   at : [Requests -> Inodes \cup {None}], text : [Inodes -> Texts]]

(* What a writer does to its file, by the inode and the text it is done    *)
(* with.                                                                   *)
FileStep(f, new, r, i, text) ==
    \/ new = f
    \/ new = [f EXCEPT !.temp = i, !.text[i] = text, !.at[r] = i]
    \/ new = [f EXCEPT !.text[i] = text, !.at[r] = None]
    \/ new = [f EXCEPT !.at[r] = None]
    \/ new = [f EXCEPT !.name = i, !.temp = None]

LEMMA FileSteps ==
    ASSUME NEW T, NEW f \in FilesOf(T), NEW new, NEW r \in Requests, NEW i \in Inodes,
           NEW text \in T, FileStep(f, new, r, i, text)
    PROVE  new \in FilesOf(T)
<1>. USE DEF FilesOf
<1>1. CASE new = f
  BY <1>1
<1>2. CASE new = [f EXCEPT !.temp = i, !.text[i] = text, !.at[r] = i]
  BY <1>2
<1>3. CASE new = [f EXCEPT !.text[i] = text, !.at[r] = None]
  BY <1>3
<1>4. CASE new = [f EXCEPT !.at[r] = None]
  BY <1>4
<1>5. CASE new = [f EXCEPT !.name = i, !.temp = None]
  BY <1>5
<1>. QED  BY <1>1, <1>2, <1>3, <1>4, <1>5 DEF FileStep

EntryType == entry \in FilesOf(Requests \cup {None})

Apart ==
    /\ EntryType
    /\ entry.text[entry.name] = granted
    /\ entry.temp # entry.name
    /\ \A q, r \in EntryWriters : q = r
    /\ \A r \in EntryWriters :
          /\ entry.temp # None
          /\ at[r] = "writing" => entry.at[r] = entry.temp
          /\ at[r] = "publishing" => entry.text[entry.temp] = r
    /\ \A r \in Requests : r \in {entry.name, entry.temp} => r \in EntryWriters \/ at[r] = "done"

EntryInv == crossedEntries \/ Apart

LEMMA InitEntryInv == Init => EntryInv
<1>. SUFFICES ASSUME Init PROVE Apart
  BY DEF EntryInv
<1>1. entry = [name |-> "first", temp |-> None, at |-> [r \in Requests |-> None],
               text |-> [i \in Inodes |-> None]]
  BY DEF Init, ConsentInit, Entry!Holding, Entry!Inodes, Inodes
<1>2. EntryWriters = {}
  BY DEF Init, TaskInit, EntryWriters
<1>3. EntryType
  BY <1>1 DEF EntryType, FilesOf, Inodes
<1>4. granted = None
  BY DEF Init, ConsentInit
<1>. QED  BY <1>1, <1>2, <1>3, <1>4 DEF Apart, Inodes

LEMMA EntryFrame ==
    ASSUME TaskInv, EntryInv, UNCHANGED consentVars,
           \/ \E r \in Requests : Proceeds(r) /\ {at[r], at'[r]} \cap {"writing", "publishing"} = {}
           \/ UNCHANGED taskVars
    PROVE  EntryInv'
<1>1. \A q \in Requests : /\ q \in EntryWriters' <=> q \in EntryWriters
                          /\ q \in EntryWriters => at'[q] = at[q]
                          /\ at[q] = "done" => at'[q] = "done"
  <2>1. ASSUME NEW r \in Requests, Proceeds(r), {at[r], at'[r]} \cap {"writing", "publishing"} = {}
        PROVE  \A q \in Requests : /\ q \in EntryWriters' <=> q \in EntryWriters
                                   /\ q \in EntryWriters => at'[q] = at[q]
                                   /\ at[q] = "done" => at'[q] = "done"
    <3>1. /\ at' = at \/ at' = [at EXCEPT ![r] = at'[r]]
          /\ kind' = kind \/ kind' = [kind EXCEPT ![r] = kind'[r]]
          /\ at[r] = "done" => at' = at
      BY <2>1 DEF Proceeds, Begins, Moves, Replies, Marks, Settled
    <3>2. \A q \in Requests \ {r} : at'[q] = at[q] /\ kind'[q] = kind[q]
      BY <3>1 DEF TaskInv
    <3>3. r \notin EntryWriters /\ r \notin EntryWriters'
      BY <2>1 DEF EntryWriters
    <3>4. \A q \in Requests \ {r} : q \in EntryWriters' <=> q \in EntryWriters
      BY <3>2 DEF EntryWriters
    <3>. QED  BY <3>1, <3>2, <3>3, <3>4
  <2>2. CASE UNCHANGED taskVars
    BY <2>2 DEF taskVars, EntryWriters
  <2>. QED  BY <2>1, <2>2
<1>2. EntryWriters' = EntryWriters
  BY <1>1 DEF EntryWriters
<1>. QED  BY <1>1, <1>2 DEF EntryInv, Apart, EntryType, FilesOf, EntryWriters, consentVars

LEMMA ConsentEntryInv ==
    ASSUME TaskInv, EntryInv, NEW r \in Requests, ConsentNext(r)
    PROVE  EntryInv'
<1>. USE DEF Proceeds, Settled, ChromeFree, Answers, Chrome
<1>1. CASE /\ \/ GetUserInformation(r) \/ AccountWorker(r) \/ AccountRun(r)
              \/ AccessDialog(r) \/ AccessWorker(r) \/ AccessRun(r)
              \/ PrepareInstall(r) \/ LauncherWorker(r) \/ LauncherRun(r)
              \/ RequestBackground(r) \/ BackgroundWorker(r)
           /\ UNCHANGED consentVars
  <2>1. Proceeds(r) /\ at[r] \notin {"writing", "publishing"} /\ at'[r] \notin {"writing", "publishing"}
    <3>1. CASE GetUserInformation(r) \/ AccessDialog(r) \/ PrepareInstall(r) \/ RequestBackground(r)
      <4>1. \E k, a : \E valid \in BOOLEAN : Arrive(r, k, a, valid)
        BY <3>1 DEF GetUserInformation, AccessDialog, PrepareInstall, RequestBackground
      <4>. QED  BY <4>1, ArriveBegins DEF Begins
    <3>2. CASE AccountWorker(r) \/ AccessWorker(r) \/ LauncherWorker(r) \/ BackgroundWorker(r)
      <4>1. \E k : Admit(r, k, "asking")
        BY <3>2 DEF AccountWorker, AccessWorker, LauncherWorker, BackgroundWorker
      <4>. QED  BY <4>1, AdmitProceeds
    <3>3. CASE AccountRun(r) \/ LauncherRun(r) \/ AccessRun(r)
      <4>1. /\ at[r] = "polled"
            /\ \E code \in Answers : Answer(r, code)
        BY <3>3 DEF AccountRun, LauncherRun, AccessRun, Recheck, StillOpen, Affirmed
      <4>. QED  BY <1>1, <4>1, ConsentProceeds DEF Answer, TaskInv
    <3>. QED  BY <1>1, <3>1, <3>2, <3>3
  <2>. QED  BY <1>1, <2>1, EntryFrame
<1>2. CASE BackgroundRun(r)
  <2>1. CASE /\ UNCHANGED consentVars
             /\ \/ Recheck(r, "background")
                \/ StillOpen(r, "background") /\ Answer(r, "success")
    <3>1. at[r] = "polled" /\ at'[r] = "done"
      BY <2>1 DEF Recheck, StillOpen, Affirmed, Answer, TaskInv
    <3>. QED  BY <1>2, <2>1, <3>1, ConsentProceeds, EntryFrame
  <2>2. CASE /\ StillOpen(r, "background") /\ Goto(r, "writing") /\ UNCHANGED granted
             /\ entry' = Entry!Open(entry, r)
             /\ crossedEntries' = (crossedEntries \/ EntryWriters # {})
    <3>. SUFFICES ASSUME ~(crossedEntries') PROVE Apart'
      BY DEF EntryInv
    <3>1. Apart /\ EntryWriters = {}
      BY <2>2 DEF EntryInv
    <3>2. /\ at[r] = "polled" /\ kind[r] = "background"
          /\ at'[r] = "writing" /\ kind' = kind
          /\ \A q \in Requests \ {r} : at'[q] = at[q]
      BY <2>2 DEF StillOpen, Affirmed, Goto, TaskInv
    <3>3. EntryWriters' = {r}
      BY <3>1, <3>2 DEF EntryWriters
    <3>4. r \notin {entry.name, entry.temp}
      BY <3>1, <3>2 DEF Apart
    <3>5. PICK i \in Inodes :
             /\ i = IF entry.temp = None THEN r ELSE entry.temp
             /\ entry' = [entry EXCEPT !.temp = i, !.text[i] = None, !.at[r] = i]
      BY <2>2, <3>1 DEF Entry!Open, Apart, EntryType, FilesOf, Inodes
    <3>6. EntryType'
      BY <3>1, <3>5 DEF Apart, EntryType, FilesOf
    <3>7. i # entry.name
      BY <3>1, <3>4, <3>5 DEF Apart
    <3>8. /\ entry'.name = entry.name /\ entry'.temp = i /\ entry'.at[r] = i
          /\ entry'.text[entry.name] = entry.text[entry.name]
      BY <3>1, <3>5, <3>7 DEF Apart, EntryType, FilesOf
    <3>9. \A q \in Requests : q \in {entry'.name, entry'.temp} => q \in EntryWriters' \/ at'[q] = "done"
      BY <3>1, <3>2, <3>3, <3>5, <3>8 DEF Apart
    <3>. QED  BY <2>2, <3>1, <3>2, <3>3, <3>6, <3>7, <3>8, <3>9 DEF Apart, Inodes
  <2>. QED  BY <1>2, <2>1, <2>2 DEF BackgroundRun
<1>3. CASE WriteEntry(r)
  <2>. SUFFICES ASSUME ~(crossedEntries') PROVE Apart'
    BY DEF EntryInv
  <2>1. Apart /\ UNCHANGED granted
    BY <1>3 DEF WriteEntry, EntryInv
  <2>2. /\ kind[r] = "background" /\ at[r] = "writing" /\ kind' = kind
        /\ \A q \in Requests \ {r} : at'[q] = at[q]
        /\ \/ at'[r] = "publishing" /\ entry' = Entry!Fill(entry, r, r)
           \/ at'[r] = "done" /\ entry' \in {Entry!Abandon(entry, r), Entry!Fill(entry, r, r)}
    BY <1>3 DEF WriteEntry, Goto, Answer, TaskInv
  <2>3. EntryWriters = {r}
    BY <2>1, <2>2 DEF Apart, EntryWriters
  <2>4. EntryWriters' = IF at'[r] = "publishing" THEN {r} ELSE {}
    BY <2>2, <2>3 DEF EntryWriters
  <2>5. entry.at[r] = entry.temp /\ entry.temp \in Inodes
    BY <2>1, <2>2, <2>3 DEF Apart, EntryType, FilesOf
  <2>6. /\ EntryType' /\ entry'.name = entry.name /\ entry'.temp = entry.temp
        /\ entry'.text[entry.name] = entry.text[entry.name]
        /\ at'[r] = "publishing" => entry'.text[entry.temp] = r
    <3>1. CASE entry' = [entry EXCEPT !.text[entry.temp] = r, !.at[r] = None]
      <4>1. FileStep(entry, entry', r, entry.temp, r)
        BY <3>1 DEF FileStep
      <4>2. EntryType'
        BY <2>1, <2>5, <4>1, FileSteps DEF Apart, EntryType
      <4>. QED  BY <2>1, <2>5, <3>1, <4>2 DEF Apart, EntryType, FilesOf
    <3>2. CASE at'[r] = "done" /\ entry' = [entry EXCEPT !.at[r] = None]
      <4>1. FileStep(entry, entry', r, "first", None)
        BY <3>2 DEF FileStep
      <4>2. EntryType'
        BY <2>1, <4>1, FileSteps DEF Apart, EntryType, Inodes
      <4>. QED  BY <2>1, <3>2, <4>2 DEF Apart, EntryType, FilesOf
    <3>. QED  BY <2>2, <2>5, <3>1, <3>2 DEF Entry!Fill, Entry!Abandon
  <2>7. \A q \in Requests : q \in {entry'.name, entry'.temp} => q \in EntryWriters' \/ at'[q] = "done"
    BY <2>1, <2>2, <2>3, <2>4, <2>6 DEF Apart
  <2>. QED  BY <2>1, <2>2, <2>4, <2>5, <2>6, <2>7 DEF Apart, Inodes
<1>4. CASE PublishEntry(r)
  <2>. SUFFICES ASSUME ~(crossedEntries') PROVE Apart'
    BY DEF EntryInv
  <2>1. Apart
    BY <1>4 DEF PublishEntry, EntryInv
  <2>2. /\ kind[r] = "background" /\ at[r] = "publishing" /\ kind' = kind
        /\ at'[r] = "done" /\ \A q \in Requests \ {r} : at'[q] = at[q]
        /\ \/ entry' = [entry EXCEPT !.name = entry.temp, !.temp = None] /\ granted' = r
           \/ UNCHANGED <<entry, granted>>
    BY <1>4 DEF PublishEntry, Entry!Rename, Answer, TaskInv
  <2>3. EntryWriters = {r} /\ EntryWriters' = {}
    BY <2>1, <2>2 DEF Apart, EntryWriters
  <2>4. entry.temp \in Inodes /\ entry.text[entry.temp] = r
    BY <2>1, <2>2, <2>3 DEF Apart, EntryType, FilesOf
  <2>5. CASE entry' = [entry EXCEPT !.name = entry.temp, !.temp = None] /\ granted' = r
    <3>1. EntryType'
      BY <2>1, <2>4, <2>5 DEF Apart, EntryType, FilesOf
    <3>2. entry'.name = entry.temp /\ entry'.temp = None /\ entry'.text = entry.text
      BY <2>1, <2>5 DEF Apart, EntryType, FilesOf
    <3>. QED  BY <2>1, <2>2, <2>3, <2>4, <2>5, <3>1, <3>2 DEF Apart, Inodes
  <2>6. CASE UNCHANGED <<entry, granted>>
    BY <2>1, <2>2, <2>3, <2>6 DEF Apart, EntryType, FilesOf
  <2>. QED  BY <2>2, <2>5, <2>6
<1>. QED  BY <1>1, <1>2, <1>3, <1>4 DEF ConsentNext

LEMMA EntryInvCorrect == Spec => []EntryInv
<1>1. TaskInv /\ EntryInv /\ [Next]_vars => EntryInv'
  <2>. SUFFICES ASSUME TaskInv, EntryInv, [Next]_vars PROVE EntryInv'
    OBVIOUS
  <2>1. ASSUME NEW r \in Requests, Dialog(r), UNCHANGED consentVars
        PROVE  EntryInv'
    BY <2>1, DialogProceeds, EntryFrame
  <2>2. ASSUME NEW r \in Requests, Close(r, Uncommitted(r)), UNCHANGED consentVars
        PROVE  EntryInv'
    BY <2>2 DEF Close, EntryInv, Apart, EntryType, EntryWriters, consentVars
  <2>3. ASSUME NEW r \in Requests, OpenNext(r) \/ CaptureNext(r) \/ WallNext(r) \/ HandNext(r),
               UNCHANGED consentVars
        PROVE  EntryInv'
    <3>1. \/ Proceeds(r) /\ {at[r], at'[r]} \cap {"writing", "publishing"} = {}
          \/ UNCHANGED taskVars
      BY <2>3, OpenProceeds, CaptureProceeds, WallProceeds, HandProceeds
    <3>. QED  BY <2>3, <3>1, EntryFrame
  <2>4. CASE InhibitNext /\ UNCHANGED consentVars
    <3>1. \/ \E r \in Requests :
                Proceeds(r) /\ {at[r], at'[r]} \cap {"writing", "publishing"} = {}
          \/ UNCHANGED taskVars
      BY <2>4, InhibitProceeds
    <3>. QED  BY <2>4, <3>1, EntryFrame
  <2>5. CASE UNCHANGED vars
    BY <2>5, EntryFrame DEF vars
  <2>. QED  BY <2>1, <2>2, <2>3, <2>4, <2>5, ConsentEntryInv DEF Next
<1>. QED  BY <1>1, InitEntryInv, TaskInvCorrect, PTL DEF Spec

(* As long as one request writes at a time, the autostart entry is at      *)
(* every moment the whole text of the request last told that its autostart *)
(* was set, whatever writes failed before and left in the temporary        *)
(* (background.rs:251).                                                    *)
THEOREM AutostartCorrect == Spec => []AutostartAsGranted
<1>1. EntryInv => AutostartAsGranted
  BY DEF EntryInv, Apart, AutostartAsGranted, Entry!Contents
<1>. QED  BY <1>1, EntryInvCorrect, PTL

-----------------------------------------------------------------------------
(* What requests carry: a portal that is past its checks has an argument   *)
(* it accepts, and the places of one portal are not another's.             *)

OpenPlaces == {"deciding", "reading", "opening", "rewriting", "renaming"}
WallPlaces == {"loading", "loaded", "staging", "applying", "reapplying", "pruning", "dropping"}

ArgOf(k, a) ==
    /\ k \in {"choose", "open"} => a.type \in ContentTypes
    /\ k = "wallpaper" => a.ext \in Extensions
    /\ k \in {"inhibit", "monitor"} => a \in Paths

PlaceOf(place, k) ==
    /\ place \in OpenPlaces => k \in {"choose", "open"}
    /\ place \in WallPlaces => k = "wallpaper"
    /\ place = "exporting" => k \in {"inhibit", "monitor"}

Carried(r) == at[r] \notin Settled => ArgOf(kind[r], arg[r]) /\ PlaceOf(at[r], kind[r])

CallInv ==
    /\ \A r \in Requests : kind[r] \in Kinds \cup {None} /\ (kind[r] = None <=> at[r] = "idle")
    /\ \A r \in Requests : answer[r] \in Answers \cup {None} /\ (answer[r] = None <=> at[r] # "done")
    /\ closed \subseteq Requests
    /\ \A r \in Requests : Carried(r)

LEMMA InitCallInv == Init => CallInv
  BY DEF Init, TaskInit, CallInv, Carried, Settled

(* A step keeps this if what it did to its own request does. *)
LEMMA CallFrame ==
    ASSUME TaskInv, CallInv, NEW r \in Requests, Proceeds(r), Carried(r)'
    PROVE  CallInv'
<1>1. \A q \in Requests \ {r} :
         at'[q] = at[q] /\ kind'[q] = kind[q] /\ arg'[q] = arg[q] /\ answer'[q] = answer[q]
  BY DEF TaskInv, Proceeds, Begins, Moves, Replies, Marks
<1>2. \A q \in Requests \ {r} : Carried(q)'
  BY <1>1 DEF CallInv, Carried
<1>3. /\ kind'[r] \in Kinds \cup {None} /\ (kind'[r] = None <=> at'[r] = "idle")
      /\ answer'[r] \in Answers \cup {None} /\ (answer'[r] = None <=> at'[r] # "done")
      /\ closed' \subseteq Requests
  <2>1. CASE Begins(r)
    BY <2>1 DEF CallInv, Begins, Answers
  <2>2. CASE Moves(r)
    BY <2>2 DEF CallInv, Moves, Settled
  <2>3. CASE Replies(r)
    BY <2>3 DEF CallInv, Replies, Settled
  <2>4. CASE Marks(r)
    BY <2>4 DEF CallInv, Marks
  <2>. QED  BY <2>1, <2>2, <2>3, <2>4 DEF Proceeds
<1>. QED  BY <1>1, <1>2, <1>3 DEF CallInv

(* A request that is on its way goes on, to a place of its portal. *)
LEMMA GoesOn ==
    ASSUME TaskInv, CallInv, NEW r \in Requests, Proceeds(r), ~Begins(r),
           at'[r] \notin Settled => PlaceOf(at'[r], kind[r])
    PROVE  Carried(r)'
<1>1. at[r] \notin Settled /\ kind' = kind /\ arg' = arg
  BY DEF Proceeds, Moves, Replies, Marks
<1>. QED  BY <1>1 DEF CallInv, Carried

Elsewhere(r) == at'[r] \notin OpenPlaces \cup WallPlaces \cup {"exporting"}

LEMMA GoesOnElsewhere ==
    ASSUME TaskInv, CallInv, NEW r \in Requests, Proceeds(r), ~Begins(r), Elsewhere(r)
    PROVE  Carried(r)'
  BY GoesOn DEF Elsewhere, PlaceOf

LEMMA BeginsCarried ==
    ASSUME NEW r \in Requests, Begins(r), at'[r] = "queued" => ArgOf(kind'[r], arg'[r])
    PROVE  Carried(r)'
  BY DEF Begins, Carried, Settled, PlaceOf, OpenPlaces, WallPlaces

(* The call that is made is the one the portal's method makes. *)
LEMMA ArriveCarried ==
    ASSUME TaskInv, NEW r \in Requests, NEW k, NEW a, NEW valid \in BOOLEAN,
           Arrive(r, k, a, valid), valid => ArgOf(k, a)
    PROVE  Carried(r)'
<1>1. Begins(r) /\ kind'[r] = k /\ arg'[r] = a /\ (at'[r] = "queued" => valid)
  BY ArriveBegins DEF Arrive, TaskInv
<1>. QED  BY <1>1, BeginsCarried

NoArgument == {"account", "access", "launcher", "background", "screenshot", "pickcolor",
               "prepare", "print", "email", "secret"}

LEMMA PlainArrival ==
    ASSUME TaskInv, NEW r \in Requests, NEW k \in NoArgument, NEW a, NEW valid \in BOOLEAN,
           Arrive(r, k, a, valid)
    PROVE  Carried(r)'
<1>1. ArgOf(k, a)
  BY DEF ArgOf, NoArgument
<1>. QED  BY <1>1, ArriveCarried

LEMMA ConsentCarries ==
    ASSUME TaskInv, CallInv, NEW r \in Requests, ConsentNext(r)
    PROVE  Carried(r)'
<1>1. CASE at[r] = "idle"
  <2>1. \E k \in NoArgument : \E a : \E valid \in BOOLEAN : Arrive(r, k, a, valid)
    BY <1>1 DEF ConsentNext, NoArgument, GetUserInformation, AccessDialog, PrepareInstall,
       RequestBackground, AccountWorker, AccountRun, AccessWorker, AccessRun, LauncherWorker,
       LauncherRun, BackgroundWorker, BackgroundRun, WriteEntry, PublishEntry, Admit, Queued,
       Recheck, StillOpen, Affirmed
  <2>. QED  BY <2>1, PlainArrival
<1>2. CASE at[r] # "idle"
  <2>1. Proceeds(r) /\ Elsewhere(r)
    BY ConsentProceeds DEF Elsewhere, OpenPlaces, WallPlaces
  <2>. QED  BY <1>2, <2>1, GoesOnElsewhere DEF Begins
<1>. QED  BY <1>1, <1>2

LEMMA OpenCarries ==
    ASSUME TaskInv, CallInv, NEW r \in Requests, OpenNext(r)
    PROVE  Carried(r)'
<1>1. CASE ChooseApplication(r)
  <2>1. PICK type \in ContentTypes : \E valid \in BOOLEAN : Arrive(r, "choose", [type |-> type], valid)
    BY <1>1 DEF ChooseApplication
  <2>2. ArgOf("choose", [type |-> type])
    BY DEF ArgOf
  <2>. QED  BY <2>1, <2>2, ArriveCarried
<1>2. CASE OpenUri(r)
  <2>1. PICK type \in ClassifiedTypes, ask \in BOOLEAN :
            Arrive(r, "open", [type |-> type, ask |-> ask], type # None)
    BY <1>2 DEF OpenUri
  <2>2. type # None => ArgOf("open", [type |-> type, ask |-> ask])
    BY DEF ArgOf, ClassifiedTypes
  <2>. QED  BY <2>1, <2>2, ArriveCarried
<1>3. ASSUME at[r] # "idle", kind[r] \in {"choose", "open"}
      PROVE  Carried(r)'
  <2>1. Proceeds(r) /\ at'[r] \notin WallPlaces \cup {"exporting"}
    BY OpenProceeds DEF WallPlaces
  <2>. QED  BY <1>3, <2>1, GoesOn DEF Begins, PlaceOf
<1>4. CASE AppChooserWorker(r) \/ OpenUriWorker(r) \/ AppChooserRun(r) \/ OpenUriRun(r) \/ Decide(r)
  <2>1. at[r] # "idle" /\ kind[r] \in {"choose", "open"}
    BY <1>4 DEF AppChooserWorker, OpenUriWorker, AppChooserRun, OpenUriRun, Decide, Admit, Queued,
       Recheck, StillOpen, Affirmed
  <2>. QED  BY <1>3, <2>1
<1>5. CASE SetDefaultApp(r)
  <2>1. at[r] \in {"reading", "opening", "rewriting", "renaming"}
    BY <1>5 DEF SetDefaultApp, ReadList, OpenTemp, RewriteList, RenameList
  <2>2. kind[r] \in {"choose", "open"}
    BY <2>1 DEF CallInv, Carried, PlaceOf, OpenPlaces, Settled
  <2>. QED  BY <1>3, <2>1, <2>2
<1>. QED  BY <1>1, <1>2, <1>4, <1>5 DEF OpenNext

LEMMA CaptureCarries ==
    ASSUME TaskInv, CallInv, NEW r \in Requests, CaptureNext(r)
    PROVE  Carried(r)'
<1>1. CASE at[r] = "idle"
  <2>1. \E k \in NoArgument : \E a : \E valid \in BOOLEAN : Arrive(r, k, a, valid)
    BY <1>1 DEF CaptureNext, NoArgument, Screenshot, PickColor, CaptureWorker, Admit, Queued,
       Interact, Capture, WriteCapture, ReportShot
  <2>. QED  BY <2>1, PlainArrival
<1>2. CASE at[r] # "idle"
  <2>1. Proceeds(r) /\ Elsewhere(r)
    BY CaptureProceeds DEF Elsewhere, OpenPlaces, WallPlaces
  <2>. QED  BY <1>2, <2>1, GoesOnElsewhere DEF Begins
<1>. QED  BY <1>1, <1>2

LEMMA WallCarries ==
    ASSUME TaskInv, CallInv, NEW r \in Requests, WallNext(r)
    PROVE  Carried(r)'
<1>1. CASE SetWallpaperUri(r)
  <2>1. PICK what \in WallpaperRequests : Arrive(r, "wallpaper", what, what.ext # None)
    BY <1>1 DEF SetWallpaperUri
  <2>2. what.ext # None => ArgOf("wallpaper", what)
    BY DEF ArgOf, WallpaperRequests
  <2>. QED  BY <2>1, <2>2, ArriveCarried
<1>2. CASE ~SetWallpaperUri(r)
  <2>1. at[r] # "idle" /\ kind[r] = "wallpaper"
    <3>1. \/ Queued(r, "wallpaper") \/ Affirmed(r, "wallpaper")
          \/ at[r] \in WallPlaces
      BY <1>2 DEF WallNext, WallpaperWorker, Admit, ReadImage, StageImage, CommitImage,
         ApplyWallpaper, PruneStaging, DropStaged, WallPlaces
    <3>. QED  BY <3>1 DEF Queued, Affirmed, WallPlaces, CallInv, Carried, PlaceOf, Settled
  <2>2. Proceeds(r) /\ at'[r] \notin OpenPlaces \cup {"exporting"}
    BY WallProceeds DEF OpenPlaces
  <2>. QED  BY <2>1, <2>2, GoesOn DEF Begins, PlaceOf
<1>. QED  BY <1>1, <1>2

LEMMA HandCarries ==
    ASSUME TaskInv, CallInv, NEW r \in Requests, HandNext(r), ~UNCHANGED taskVars
    PROVE  Carried(r)'
<1>1. CASE at[r] = "idle"
  <2>1. \E k \in NoArgument : \E a : \E valid \in BOOLEAN : Arrive(r, k, a, valid)
    BY <1>1 DEF HandNext, NoArgument, PreparePrint, PrintFd, ComposeEmail, RetrieveSecret,
       PrintWorker, Admit, Queued, Prepare, OpenSpool, SpoolFd, Submit, Compose, SpawnMailer, Reap,
       AskSigil, WriteSecret
  <2>. QED  BY <2>1, PlainArrival
<1>2. CASE at[r] # "idle"
  <2>1. Proceeds(r) /\ Elsewhere(r)
    BY HandProceeds DEF Elsewhere, OpenPlaces, WallPlaces
  <2>. QED  BY <1>2, <2>1, GoesOnElsewhere DEF Begins
<1>. QED  BY <1>1, <1>2

LEMMA InhibitCarries ==
    ASSUME TaskInv, CallInv, InhibitNext
    PROVE  CallInv'
<1>. USE DEF Proceeds, Settled, ChromeFree, Answers, Chrome
<1>1. ASSUME NEW r \in Requests, Inhibit(r) \/ CreateMonitor(r)
      PROVE  CallInv'
  <2>1. PICK k \in {"inhibit", "monitor"}, p \in Paths : Arrive(r, k, p, TRUE)
    BY <1>1 DEF Inhibit, CreateMonitor
  <2>2. ArgOf(k, p)
    BY DEF ArgOf
  <2>3. Carried(r)' /\ Begins(r)
    BY <2>1, <2>2, ArriveCarried, ArriveBegins
  <2>. QED  BY <2>3, CallFrame
<1>2. ASSUME NEW r \in Requests, ApplyInhibit(r) \/ AddMonitor(r) \/ ExportRequest(r) \/ ExportSession(r)
      PROVE  CallInv'
  <2>1. /\ at[r] \in {"queued", "exporting"} /\ kind[r] \in {"inhibit", "monitor"}
        /\ (\E code \in Answers : Answer(r, code)) \/ Goto(r, "exporting")
    BY <1>2 DEF ApplyInhibit, AddMonitor, ExportRequest, ExportSession, Export, Queued
  <2>2. r \notin timely
    BY <2>1 DEF TaskInv, Uncommitted
  <2>3. (Moves(r) \/ Replies(r)) /\ at'[r] \in {"exporting", "done"}
    BY <2>1, <2>2, AnswerReplies, GotoMoves
  <2>4. PlaceOf(at'[r], kind[r]) /\ ~Begins(r)
    BY <2>1, <2>3 DEF PlaceOf, OpenPlaces, WallPlaces, Begins
  <2>. QED  BY <2>3, <2>4, GoesOn, CallFrame
<1>3. ASSUME NEW p \in Paths, CloseObject(p) \/ RemoveObject(p)
      PROVE  CallInv'
  BY <1>3 DEF CloseObject, RemoveObject, taskVars, CallInv, Carried
<1>. QED  BY <1>1, <1>2, <1>3 DEF InhibitNext

LEMMA NextCallInv == TaskInv /\ CallInv /\ [Next]_vars => CallInv'
<1>. SUFFICES ASSUME TaskInv, CallInv, [Next]_vars PROVE CallInv'
  OBVIOUS
<1>1. ASSUME NEW r \in Requests, Dialog(r)
      PROVE  CallInv'
  <2>1. Proceeds(r) /\ ~Begins(r) /\ Elsewhere(r)
    BY <1>1, DialogProceeds DEF Elsewhere, OpenPlaces, WallPlaces, Begins
  <2>. QED  BY <2>1, GoesOnElsewhere, CallFrame
<1>2. ASSUME NEW r \in Requests, Close(r, Uncommitted(r))
      PROVE  CallInv'
  <2>1. Proceeds(r) /\ Carried(r)'
    BY <1>2, CloseProceeds DEF Close, CallInv, Carried
  <2>. QED  BY <2>1, CallFrame
<1>3. ASSUME NEW r \in Requests, ConsentNext(r) \/ OpenNext(r) \/ CaptureNext(r) \/ WallNext(r)
      PROVE  CallInv'
  <2>1. Proceeds(r)
    BY <1>3, ConsentProceeds, OpenProceeds, CaptureProceeds, WallProceeds
  <2>2. Carried(r)'
    BY <1>3, ConsentCarries, OpenCarries, CaptureCarries, WallCarries
  <2>. QED  BY <2>1, <2>2, CallFrame
<1>4. CASE UNCHANGED taskVars
  BY <1>4 DEF taskVars, CallInv, Carried
<1>5. ASSUME NEW r \in Requests, HandNext(r), ~UNCHANGED taskVars
      PROVE  CallInv'
  <2>1. Proceeds(r)
    BY <1>5, HandProceeds
  <2>. QED  BY <1>5, <2>1, HandCarries, CallFrame
<1>6. CASE UNCHANGED vars
  BY <1>4, <1>6 DEF vars
<1>. QED  BY <1>1, <1>2, <1>3, <1>4, <1>5, <1>6, InhibitCarries DEF Next

LEMMA CallInvCorrect == Spec => []CallInv
<1>. QED  BY InitCallInv, NextCallInv, TaskInvCorrect, PTL DEF Spec

-----------------------------------------------------------------------------
(* OpenWith: its types, and then that as long as its editors have kept     *)
(* apart, the list is at every moment a text with what was recorded, the   *)
(* temporary is never the list, and a request about to rename has in it    *)
(* its own edit of the list as it is.                                      *)

Editing == {"reading", "opening", "rewriting", "renaming"}

ListTypes ==
    /\ list \in FilesOf(Seq(Lines)) /\ edit \in [Requests -> Seq(Lines)]
    /\ offered \in [Requests -> SUBSET Apps]
    /\ pick \in [Requests -> Apps \cup {None}]
    /\ remembered \in [ContentTypes -> Apps \cup {None}] /\ crossedLists \in BOOLEAN
    /\ \A r \in Requests : at[r] \in Editing => pick[r] \in Apps

OpenPaths == {"idle", "queued", "deciding", "asking", "polled"} \cup Editing \cup {"done"}

(* Where a step leaves the request: an editor goes on or is done. *)
LEMMA OpenSteps ==
    ASSUME TaskInv, CallInv, NEW r \in Requests, Proceeds(r)
    PROVE  /\ \A q \in Requests \ {r} : at'[q] = at[q] /\ arg'[q] = arg[q]
           /\ at[r] \in Editing => arg'[r] = arg[r]
           /\ at[r] = "done" => at'[r] = "done"
  BY DEF TaskInv, Proceeds, Begins, Moves, Replies, Marks, Editing, Settled

LEMMA ListFrame ==
    ASSUME TaskInv, CallInv, ListTypes, UNCHANGED openVars,
           \/ \E r \in Requests : Proceeds(r) /\ (at'[r] \in Editing => at'[r] = at[r])
           \/ UNCHANGED taskVars
    PROVE  ListTypes'
<1>1. CASE UNCHANGED taskVars
  BY <1>1 DEF taskVars, openVars, ListTypes
<1>2. ASSUME NEW r \in Requests, Proceeds(r), at'[r] \in Editing => at'[r] = at[r]
      PROVE  ListTypes'
  BY <1>2, OpenSteps DEF openVars, ListTypes
<1>. QED  BY <1>1, <1>2

LEMMA DefaultType ==
    ASSUME NEW text \in Seq(Lines), NEW type
    PROVE  DefaultApp(text, type) \in Apps \cup {None}
<1>. DEFINE ids == Filter(Listed(text, "defaults", type), Apps)
<1>1. ids \in Seq(Ids) /\ \A a \in 1..Len(ids) : ids[a] \in Apps
  <2>1. Listed(text, "defaults", type) \in Seq(Ids)
    BY ListedType
  <2>2. /\ ids \in Seq(Ids)
        /\ Keeps(ids, Listed(text, "defaults", type), Len(Listed(text, "defaults", type)), Apps)
    BY <2>1, Filtered, Zenon
  <2>. QED  BY <2>2 DEF Keeps
<1>. HIDE DEF ids
<1>2. CASE ids = <<>>
  BY <1>2 DEF DefaultApp, ids
<1>3. CASE ids # <<>>
  <2>1. Head(ids) = ids[1] /\ 1 \in 1..Len(ids)
    BY <1>1, <1>3, Tails
  <2>2. DefaultApp(text, type) = Head(ids)
    BY <1>3, Zenon DEF DefaultApp, ids
  <2>. QED  BY <1>1, <2>1, <2>2
<1>. QED  BY <1>2, <1>3

InitFile(contents, empty) ==
    [name |-> "first", temp |-> None, at |-> [r \in Requests |-> None],
     text |-> [i \in Inodes |-> IF i = "first" THEN contents ELSE empty]]

LEMMA InitListTypes == Init => ListTypes
<1>. SUFFICES ASSUME Init PROVE ListTypes
  OBVIOUS
<1>1. list = InitFile(InitialList, <<>>)
  BY DEF Init, OpenInit, List!Holding, List!Inodes, InitFile, Inodes
<1>2. list \in FilesOf(Seq(Lines))
  BY <1>1 DEF InitFile, FilesOf, Inodes
<1>3. remembered \in [ContentTypes -> Apps \cup {None}]
  <2>1. remembered = [t \in ContentTypes |-> DefaultApp(InitialList, t)]
    BY DEF Init, OpenInit
  <2>2. \A t \in ContentTypes : DefaultApp(InitialList, t) \in Apps \cup {None}
    BY DefaultType
  <2>3. [t \in ContentTypes |-> DefaultApp(InitialList, t)] \in [ContentTypes -> Apps \cup {None}]
    BY <2>2, Zenon
  <2>. QED  BY <2>1, <2>3, Zenon
<1>4. /\ edit = [r \in Requests |-> <<>>] /\ offered = [r \in Requests |-> {}]
      /\ pick = [r \in Requests |-> None] /\ crossedLists = FALSE
  BY DEF Init, OpenInit
<1>5. at = [r \in Requests |-> "idle"]
  BY DEF Init, TaskInit
<1>6. <<>> \in Seq(Lines)
  OBVIOUS
<1>. QED  BY <1>2, <1>3, <1>4, <1>5, <1>6 DEF ListTypes, Editing

(* The types, once the step of one request is known to keep to them.       *)
LEMMA TypesNext ==
    ASSUME ListTypes, NEW r \in Requests, \A q \in Requests \ {r} : at'[q] = at[q],
           list' \in FilesOf(Seq(Lines)),
           \/ edit' = edit
           \/ \E text \in Seq(Lines) : edit' = [edit EXCEPT ![r] = text],
           offered' = offered \/ \E apps \in SUBSET Apps : offered' = [offered EXCEPT ![r] = apps],
           \/ pick' = pick /\ (at'[r] \in Editing => at[r] \in Editing)
           \/ \E app \in Apps : pick' = [pick EXCEPT ![r] = app],
           remembered' \in [ContentTypes -> Apps \cup {None}], crossedLists' \in BOOLEAN
    PROVE  ListTypes'
<1>1. edit' \in [Requests -> Seq(Lines)]
  <2>1. CASE edit' = edit
    BY <2>1 DEF ListTypes
  <2>2. ASSUME NEW text \in Seq(Lines), edit' = [edit EXCEPT ![r] = text]
        PROVE  edit' \in [Requests -> Seq(Lines)]
    BY <2>2 DEF ListTypes
  <2>. QED  BY <2>1, <2>2
<1>2. offered' \in [Requests -> SUBSET Apps]
  BY DEF ListTypes
<1>3. /\ pick' \in [Requests -> Apps \cup {None}]
      /\ \A q \in Requests : at'[q] \in Editing => pick'[q] \in Apps
  <2>1. CASE pick' = pick /\ (at'[r] \in Editing => at[r] \in Editing)
    BY <2>1 DEF ListTypes
  <2>2. ASSUME NEW app \in Apps, pick' = [pick EXCEPT ![r] = app]
        PROVE  /\ pick' \in [Requests -> Apps \cup {None}]
               /\ \A q \in Requests : at'[q] \in Editing => pick'[q] \in Apps
    <3>1. pick \in [Requests -> Apps \cup {None}]
      BY DEF ListTypes
    <3>2. pick' \in [Requests -> Apps \cup {None}]
      BY <2>2, <3>1
    <3>3. pick'[r] = app /\ \A q \in Requests \ {r} : pick'[q] = pick[q]
      BY <2>2, <3>1
    <3>. QED  BY <3>2, <3>3 DEF ListTypes
  <2>. QED  BY <2>1, <2>2
<1>. QED  BY <1>1, <1>2, <1>3 DEF ListTypes

LEMMA OpenListTypes ==
    ASSUME TaskInv, CallInv, ListTypes, NEW r \in Requests, OpenNext(r)
    PROVE  ListTypes'
<1>0. Proceeds(r) /\ \A q \in Requests \ {r} : at'[q] = at[q]
  BY OpenProceeds, OpenSteps
<1>. /\ list \in FilesOf(Seq(Lines)) /\ edit[r] \in Seq(Lines)
     /\ remembered \in [ContentTypes -> Apps \cup {None}] /\ crossedLists \in BOOLEAN
  BY DEF ListTypes
<1>1. CASE (AppChooserWorker(r) \/ OpenUriWorker(r)) /\ UNCHANGED openVars
  <2>1. at'[r] \notin Editing
    BY <1>1, AdmitProceeds DEF AppChooserWorker, OpenUriWorker, Editing, Settled, ChromeFree, Chrome
  <2>. QED  BY <1>0, <1>1, <2>1, ListFrame
<1>2. CASE ChooseApplication(r) \/ OpenUri(r)
  <2>1. \E k, a : \E valid \in BOOLEAN : Arrive(r, k, a, valid)
    BY <1>2 DEF ChooseApplication, OpenUri
  <2>2. at'[r] \notin Editing
    BY <2>1, ArriveBegins DEF Begins, Editing
  <2>3. /\ UNCHANGED <<list, edit, pick, remembered, crossedLists>>
        /\ \/ offered' = offered
           \/ \E apps \in SUBSET Apps : offered' = [offered EXCEPT ![r] = apps]
    <3>1. CASE ChooseApplication(r)
      BY <3>1 DEF ChooseApplication, ResolveCandidates, AppsForContentType
    <3>2. CASE OpenUri(r)
      BY <3>2 DEF OpenUri, openVars
    <3>. QED  BY <1>2, <3>1, <3>2
  <2>. QED  BY <1>0, <2>2, <2>3, TypesNext
<1>3. CASE AppChooserRun(r) \/ OpenUriRun(r)
  <2>1. /\ UNCHANGED <<list, offered, edit, remembered, crossedLists>>
        /\ \/ at'[r] = "done" /\ pick' = pick
           \/ \E app \in Apps : pick' = [pick EXCEPT ![r] = app]
    BY <1>3 DEF AppChooserRun, OpenUriRun, Picked, Recheck, Goto, Answer, TaskInv
  <2>. QED  BY <1>0, <2>1, TypesNext DEF Editing
<1>4. CASE Decide(r)
  <2>1. /\ UNCHANGED <<list, edit, pick, remembered, crossedLists>>
        /\ at'[r] \in {"asking", "done"}
        /\ \/ offered' = offered
           \/ \E apps \in SUBSET Apps : offered' = [offered EXCEPT ![r] = apps]
    BY <1>4 DEF Decide, Candidates, AppsForContentType, Goto, Answer, TaskInv
  <2>. QED  BY <1>0, <2>1, TypesNext DEF Editing
<1>5. CASE ReadList(r)
  <2>1. /\ at[r] = "reading" /\ UNCHANGED <<list, offered, pick, remembered>>
        /\ \/ UNCHANGED <<edit, crossedLists>>
           \/ /\ crossedLists' \in BOOLEAN
              /\ edit' = [edit EXCEPT ![r] = Update(List!Contents(list), arg[r].type, pick[r])]
    BY <1>5 DEF ReadList
  <2>2. Update(List!Contents(list), arg[r].type, pick[r]) \in Seq(Lines)
    <3>1. List!Contents(list) \in Seq(Lines)
      BY DEF List!Contents, FilesOf
    <3>2. arg[r].type \in ContentTypes
      BY <2>1 DEF CallInv, Carried, ArgOf, PlaceOf, OpenPlaces, Settled
    <3>3. pick[r] \in Apps
      BY <2>1 DEF ListTypes, Editing
    <3>. QED  BY <3>1, <3>2, <3>3, UpdateIs
  <2>. QED  BY <1>0, <2>1, <2>2, TypesNext DEF Editing
<1>6. CASE OpenTemp(r) \/ RewriteList(r) \/ RenameList(r)
  <2>0. <<>> \in Seq(Lines) /\ list.at[r] \in Inodes \cup {None} /\ list.temp \in Inodes \cup {None}
    BY DEF FilesOf
  <2>1. /\ at[r] \in Editing /\ UNCHANGED <<offered, edit, pick, crossedLists>>
        /\ list' \in FilesOf(Seq(Lines))
        /\ remembered' \in [ContentTypes -> Apps \cup {None}]
    <3>1. CASE OpenTemp(r)
      <4>1. \E i \in Inodes : FileStep(list, list', r, i, <<>>)
        BY <2>0, <3>1 DEF OpenTemp, List!Open, FileStep, Inodes
      <4>2. list' \in FilesOf(Seq(Lines))
        BY <2>0, <4>1, FileSteps
      <4>. QED  BY <3>1, <4>2 DEF OpenTemp, Editing
    <3>2. CASE RewriteList(r)
      <4>1. list' \in FilesOf(Seq(Lines))
        <5>1. CASE list.at[r] \in Inodes
          <6>1. FileStep(list, list', r, list.at[r], edit[r])
            BY <3>2 DEF RewriteList, List!Fill, List!Abandon, FileStep
          <6>. QED  BY <5>1, <6>1, FileSteps
        <5>2. CASE list.at[r] = None
          <6>1. None \notin Inodes /\ list.text \in [Inodes -> Seq(Lines)]
            BY DEF FilesOf, Inodes
          <6>2. [list.text EXCEPT ![None] = edit[r]] = list.text
            BY <6>1
          <6>3. list' = [list EXCEPT !.text[None] = edit[r], !.at[r] = None] \/ list' = [list EXCEPT !.at[r] = None]
            BY <3>2, <5>2 DEF RewriteList, List!Fill, List!Abandon
          <6>4. [list EXCEPT !.text[None] = edit[r], !.at[r] = None] = [list EXCEPT !.at[r] = None]
            BY <6>2 DEF FilesOf
          <6>5. FileStep(list, list', r, "first", <<>>)
            BY <6>3, <6>4 DEF FileStep
          <6>. QED  BY <2>0, <6>5, FileSteps DEF Inodes
        <5>. QED  BY <2>0, <5>1, <5>2
      <4>. QED  BY <3>2, <4>1 DEF RewriteList, Editing
    <3>3. CASE RenameList(r)
      <4>1. list' = list \/ (list.temp # None /\ FileStep(list, list', r, list.temp, <<>>))
        BY <3>3 DEF RenameList, List!Rename, List!CanRename, FileStep
      <4>2. list' \in FilesOf(Seq(Lines))
        BY <2>0, <4>1, FileSteps
      <4>3. remembered' = remembered \/ remembered' = [remembered EXCEPT ![arg[r].type] = pick[r]]
        BY <3>3 DEF RenameList
      <4>4. pick[r] \in Apps
        BY <3>3 DEF RenameList, ListTypes, Editing
      <4>5. remembered' \in [ContentTypes -> Apps \cup {None}]
        BY <4>3, <4>4
      <4>. QED  BY <3>3, <4>2, <4>5 DEF RenameList, Editing
    <3>. QED  BY <1>6, <3>1, <3>2, <3>3
  <2>. QED
    <3>1. at'[r] \in Editing => at[r] \in Editing
      BY <2>1
    <3>2. pick' = pick /\ edit' = edit /\ offered' = offered /\ crossedLists' = crossedLists
      BY <2>1
    <3>. QED  BY <1>0, <2>1, <3>1, <3>2, TypesNext
<1>. QED  BY <1>1, <1>2, <1>3, <1>4, <1>5, <1>6 DEF OpenNext, SetDefaultApp

(* The other portals' steps lead to none of these places. *)
LEMMA OthersAway ==
    ASSUME TaskInv, NEW r \in Requests,
           \/ Dialog(r) \/ Close(r, Uncommitted(r)) \/ ConsentNext(r) \/ CaptureNext(r)
           \/ WallNext(r) \/ HandNext(r)
    PROVE  \/ Proceeds(r) /\ (at'[r] \in Editing => at'[r] = at[r])
           \/ UNCHANGED taskVars
<1>1. CASE Dialog(r)
  BY <1>1, DialogProceeds DEF Editing
<1>2. CASE Close(r, Uncommitted(r))
  BY <1>2, CloseProceeds
<1>3. CASE ConsentNext(r) \/ CaptureNext(r) \/ WallNext(r) \/ HandNext(r)
  BY <1>3, ConsentProceeds, CaptureProceeds, WallProceeds, HandProceeds DEF Editing
<1>. QED  BY <1>1, <1>2, <1>3

LEMMA InhibitAway ==
    ASSUME TaskInv, InhibitNext
    PROVE  \/ \E r \in Requests : Proceeds(r) /\ (at'[r] \in Editing => at'[r] = at[r])
           \/ UNCHANGED taskVars
  BY InhibitProceeds DEF Editing

LEMMA ListTypesCorrect == Spec => []ListTypes
<1>1. TaskInv /\ CallInv /\ ListTypes /\ [Next]_vars => ListTypes'
  <2>. SUFFICES ASSUME TaskInv, CallInv, ListTypes, [Next]_vars PROVE ListTypes'
    OBVIOUS
  <2>1. CASE UNCHANGED openVars /\ ~(\E r \in Requests : OpenNext(r))
    <3>1. \/ \E r \in Requests : Proceeds(r) /\ (at'[r] \in Editing => at'[r] = at[r])
          \/ UNCHANGED taskVars
      BY <2>1, OthersAway, InhibitAway DEF Next, vars
    <3>. QED  BY <2>1, <3>1, ListFrame
  <2>2. ASSUME NEW r \in Requests, OpenNext(r)
        PROVE  ListTypes'
    BY <2>2, OpenListTypes
  <2>. QED  BY <2>1, <2>2 DEF Next, vars
<1>. QED  BY <1>1, InitListTypes, TaskInvCorrect, CallInvCorrect, PTL DEF Spec

EditSteps == {"opening", "rewriting", "renaming"}

(* The text keeps what was recorded and what the user associated. *)
Keeping(text) ==
    \A type \in ContentTypes :
       /\ DefaultApp(text, type) = remembered[type]
       /\ \A group \in {"added", "removed"} :
             Listed(text, group, type) = Listed(InitialList, group, type)

ListApart ==
    /\ AllEnded(list.text[list.name]) /\ Keeping(list.text[list.name])
    /\ list.temp # list.name
    /\ \A q, r \in Editors : q = r
    /\ \A r \in Editors :
          /\ AllEnded(edit[r])
          /\ Records(edit[r], list.text[list.name], arg[r].type, pick[r])
          /\ at[r] # "opening" => list.temp # None
          /\ at[r] = "rewriting" => list.at[r] = list.temp
          /\ at[r] = "renaming" => list.text[list.temp] = edit[r]
    /\ \A r \in Requests : r \in {list.name, list.temp} => at[r] \in {"rewriting", "renaming", "done"}

ListInv == crossedLists \/ ListApart

LEMMA InitListInv == Init /\ AllEnded(InitialList) => ListInv
<1>. SUFFICES ASSUME Init, AllEnded(InitialList) PROVE ListApart
  BY DEF ListInv
<1>1. list = InitFile(InitialList, <<>>)
  BY DEF Init, OpenInit, List!Holding, List!Inodes, InitFile, Inodes
<1>2. list.name = "first" /\ list.temp = None /\ list.text["first"] = InitialList
  BY <1>1 DEF InitFile, Inodes
<1>3. Editors = {}
  BY DEF Init, TaskInit, Editors
<1>4. remembered = [t \in ContentTypes |-> DefaultApp(InitialList, t)]
  BY DEF Init, OpenInit
<1>5. Keeping(InitialList)
  BY <1>4 DEF Keeping
<1>6. list.text[list.name] = InitialList /\ list.temp # list.name
  BY <1>2
<1>7. \A r \in Requests : r \notin {list.name, list.temp}
  BY <1>2
<1>8. AllEnded(list.text[list.name]) /\ Keeping(list.text[list.name])
  BY <1>5, <1>6, Zenon
<1>. QED  BY <1>3, <1>6, <1>7, <1>8 DEF ListApart

(* A step that is not the editing of the list disturbs none of it. *)
LEMMA ListKept ==
    ASSUME ListInv, NEW r \in Requests, {at[r], at'[r]} \cap EditSteps = {},
           at[r] = "done" => at'[r] = "done",
           UNCHANGED <<list, edit, remembered, crossedLists>>,
           \A q \in Requests \ {r} : at'[q] = at[q] /\ arg'[q] = arg[q] /\ pick'[q] = pick[q]
    PROVE  ListInv'
<1>. SUFFICES ASSUME ~(crossedLists') PROVE ListApart'
  BY DEF ListInv
<1>1. ListApart
  BY DEF ListInv
<1>2. Editors' = Editors /\ r \notin Editors
  BY DEF Editors, EditSteps
<1>3. Keeping(list.text[list.name])'
  BY <1>1 DEF ListApart, Keeping
<1>4. \A q \in Editors : at'[q] = at[q] /\ arg'[q] = arg[q] /\ pick'[q] = pick[q]
  BY <1>2 DEF Editors
<1>5. ASSUME NEW q \in Requests, q \in {list.name, list.temp}
      PROVE  at'[q] \in {"rewriting", "renaming", "done"}
  <2>0. at[q] \in {"rewriting", "renaming", "done"}
    BY <1>1, <1>5 DEF ListApart
  <2>1. CASE q = r
    BY <2>0, <2>1 DEF EditSteps
  <2>. QED  BY <2>0, <2>1
<1>. QED  BY <1>1, <1>2, <1>3, <1>4, <1>5 DEF ListApart

LEMMA ListStays ==
    ASSUME ListInv, UNCHANGED taskVars, UNCHANGED openVars
    PROVE  ListInv'
  BY DEF ListInv, ListApart, Keeping, Editors, taskVars, openVars

(* The other portals' steps are nowhere near. *)
LEMMA ListUntouched ==
    ASSUME TaskInv, CallInv, ListInv, UNCHANGED openVars,
           \/ \E r \in Requests : Proceeds(r) /\ ({at[r], at'[r]} \cap Editing = {} \/ at' = at)
           \/ UNCHANGED taskVars
    PROVE  ListInv'
<1>1. CASE UNCHANGED taskVars
  BY <1>1, ListStays
<1>2. ASSUME NEW r \in Requests, Proceeds(r), {at[r], at'[r]} \cap Editing = {}
      PROVE  ListInv'
  <2>1. /\ \A q \in Requests \ {r} : at'[q] = at[q] /\ arg'[q] = arg[q]
        /\ at[r] = "done" => at'[r] = "done"
    BY <1>2, OpenSteps
  <2>2. {at[r], at'[r]} \cap EditSteps = {}
    BY <1>2 DEF Editing, EditSteps
  <2>. QED  BY <2>1, <2>2, ListKept DEF openVars
<1>3. ASSUME NEW r \in Requests, Proceeds(r), at' = at
      PROVE  ListInv'
  <2>1. arg' = arg
    BY <1>3 DEF Proceeds, Begins, Moves, Replies, Marks
  <2>. QED  BY <1>3, <2>1 DEF ListInv, ListApart, Keeping, Editors, openVars
<1>. QED  BY <1>1, <1>2, <1>3

LEMMA OpenTypeOf ==
    ASSUME CallInv, ListTypes, NEW r \in Requests, at[r] \in Editing
    PROVE  arg[r].type \in ContentTypes /\ pick[r] \in Apps
  BY DEF CallInv, Carried, ArgOf, PlaceOf, OpenPlaces, Settled, ListTypes, Editing

LEMMA ReadListInv ==
    ASSUME TaskInv, CallInv, ListTypes, ListInv, NEW r \in Requests, ReadList(r)
    PROVE  ListInv'
<1>0. at[r] = "reading" /\ UNCHANGED <<list, pick, remembered, arg>>
  BY DEF ReadList, Goto, Answer
<1>1. CASE Answer(r, "success") /\ UNCHANGED <<edit, crossedLists>>
  BY <1>0, <1>1, ListKept DEF Answer, TaskInv, EditSteps
<1>2. CASE /\ Goto(r, "opening") /\ crossedLists' = (crossedLists \/ Editors # {})
           /\ edit' = [edit EXCEPT ![r] = Update(List!Contents(list), arg[r].type, pick[r])]
  <2>. SUFFICES ASSUME ~(crossedLists') PROVE ListApart'
    BY DEF ListInv
  <2>1. ListApart /\ Editors = {}
    BY <1>2 DEF ListInv
  <2>2. at'[r] = "opening" /\ \A q \in Requests \ {r} : at'[q] = at[q]
    BY <1>2 DEF Goto, TaskInv
  <2>3. Editors' = {r}
    BY <2>1, <2>2 DEF Editors
  <2>4. list.text[list.name] \in Seq(Lines) /\ AllEnded(list.text[list.name])
    BY <2>1 DEF ListTypes, FilesOf, ListApart
  <2>5. /\ arg[r].type \in ContentTypes /\ pick[r] \in Apps
        /\ edit'[r] = Update(list.text[list.name], arg[r].type, pick[r])
    BY <1>0, <1>2, OpenTypeOf DEF ListTypes, Editing, List!Contents
  <2>6. AllEnded(edit'[r]) /\ Records(edit'[r], list.text[list.name], arg[r].type, pick[r])
    BY <2>4, <2>5, UpdateIs
  <2>7. Keeping(list.text[list.name])'
    BY <1>0, <2>1 DEF ListApart, Keeping
  <2>8. \A q \in Requests : q \in {list.name, list.temp} => at'[q] \in {"rewriting", "renaming", "done"}
    BY <1>0, <2>1, <2>2 DEF ListApart
  <2>. QED  BY <1>0, <2>1, <2>2, <2>3, <2>6, <2>7, <2>8 DEF ListApart
<1>. QED  BY <1>1, <1>2 DEF ReadList

LEMMA EditListInv ==
    ASSUME TaskInv, CallInv, ListTypes, ListInv, NEW r \in Requests,
           OpenTemp(r) \/ RewriteList(r) \/ RenameList(r)
    PROVE  ListInv'
<1>. SUFFICES ASSUME ~(crossedLists') PROVE ListApart'
  BY DEF ListInv
<1>1. /\ ListApart /\ at[r] \in EditSteps /\ UNCHANGED <<edit, pick, arg>>
      /\ \A q \in Requests \ {r} : at'[q] = at[q]
  BY DEF OpenTemp, RewriteList, RenameList, ListInv, EditSteps, Goto, Answer, TaskInv
<1>2. Editors = {r} /\ \A q \in Requests \ {r} : q \notin Editors'
  BY <1>1 DEF ListApart, Editors, EditSteps
<1>3. /\ AllEnded(edit[r]) /\ Records(edit[r], list.text[list.name], arg[r].type, pick[r])
      /\ AllEnded(list.text[list.name]) /\ list.temp # list.name
  BY <1>1, <1>2 DEF ListApart
<1>4. /\ list.name \in Inodes /\ list.temp \in Inodes \cup {None} /\ None \notin Inodes
      /\ list.text \in [Inodes -> Seq(Lines)] /\ list.at \in [Requests -> Inodes \cup {None}]
  <2>1. None \notin Inodes
    BY DEF Inodes
  <2>. QED  BY <2>1 DEF ListTypes, FilesOf
(* Whoever renames nothing has the list as it was. *)
<1>5. ASSUME list'.name = list.name, list'.text[list.name] = list.text[list.name],
             remembered' = remembered, list'.temp # list.name,
             r = list'.temp => at'[r] \in {"rewriting", "renaming", "done"},
             at[r] = "opening" => r # list.name,
             list'.temp \in {r, list.temp},
             at'[r] \in {"rewriting", "renaming", "done"},
             at'[r] = "rewriting" => list'.at[r] = list'.temp /\ list'.temp # None,
             at'[r] = "renaming" => list'.text[list'.temp] = edit[r] /\ list'.temp # None
      PROVE  ListApart'
  <2>1. Keeping(list.text[list.name])'
    BY <1>1, <1>5 DEF ListApart, Keeping
  <2>2. \A q \in Requests : q \in {list'.name, list'.temp} => at'[q] \in {"rewriting", "renaming", "done"}
    BY <1>1, <1>5 DEF ListApart
  <2>3. \A q \in Editors' : q = r
    BY <1>2 DEF Editors
  <2>4. \A q \in Editors' :
           /\ AllEnded(edit'[q]) /\ Records(edit'[q], list'.text[list'.name], arg'[q].type, pick'[q])
           /\ at'[q] # "opening" => list'.temp # None
           /\ at'[q] = "rewriting" => list'.at[q] = list'.temp
           /\ at'[q] = "renaming" => list'.text[list'.temp] = edit'[q]
    BY <1>1, <1>3, <1>5, <2>3 DEF Editors
  <2>5. AllEnded(list'.text[list'.name]) /\ list'.temp # list'.name
    BY <1>3, <1>5
  <2>. QED  BY <2>1, <2>2, <2>3, <2>4, <2>5 DEF ListApart
<1>6. CASE OpenTemp(r)
  <2>1. at[r] = "opening" /\ remembered' = remembered /\ r \notin {list.name, list.temp}
    BY <1>1, <1>6 DEF OpenTemp, ListApart
  <2>2. CASE at'[r] = "done" /\ list' = list
    BY <1>3, <1>5, <2>1, <2>2
  <2>3. CASE at'[r] = "rewriting" /\ list' = List!Open(list, r)
    <3>1. PICK i \in Inodes :
             /\ i = IF list.temp = None THEN r ELSE list.temp
             /\ list' = [list EXCEPT !.temp = i, !.text[i] = <<>>, !.at[r] = i]
      BY <1>4, <2>3 DEF List!Open, Inodes
    <3>2. i # list.name /\ i # None /\ i \in {r, list.temp}
      BY <1>3, <1>4, <2>1, <3>1
    <3>3. /\ list'.name = list.name /\ list'.temp = i /\ list'.at[r] = i
          /\ list'.text[list.name] = list.text[list.name]
      BY <1>4, <3>1, <3>2 DEF ListTypes, FilesOf
    <3>. QED  BY <1>5, <2>1, <2>3, <3>2, <3>3
  <2>. QED  BY <1>6, <2>2, <2>3 DEF OpenTemp, Goto, Answer, TaskInv
<1>7. CASE RewriteList(r)
  <2>1. /\ at[r] = "rewriting" /\ remembered' = remembered
        /\ list.at[r] = list.temp /\ list.temp \in Inodes
    BY <1>1, <1>2, <1>4, <1>7 DEF RewriteList, ListApart
  <2>2. CASE at'[r] = "renaming" /\ list' = [list EXCEPT !.text[list.temp] = edit[r], !.at[r] = None]
    <3>1. /\ list'.name = list.name /\ list'.temp = list.temp
          /\ list'.text[list.name] = list.text[list.name] /\ list'.text[list.temp] = edit[r]
      BY <1>3, <1>4, <2>1, <2>2 DEF ListTypes, FilesOf
    <3>. QED  BY <1>3, <1>4, <1>5, <2>1, <2>2, <3>1
  <2>3. CASE at'[r] = "done" /\ list' = [list EXCEPT !.at[r] = None]
    <3>1. list'.name = list.name /\ list'.temp = list.temp /\ list'.text = list.text
      BY <2>3 DEF ListTypes, FilesOf
    <3>. QED  BY <1>3, <1>4, <1>5, <2>1, <2>3, <3>1
  <2>. QED  BY <1>7, <2>1, <2>2, <2>3 DEF RewriteList, List!Fill, List!Abandon, Goto, Answer, TaskInv
<1>8. CASE RenameList(r)
  <2>1. /\ at[r] = "renaming" /\ at'[r] = "done"
        /\ list.text[list.temp] = edit[r] /\ list.temp \in Inodes
    BY <1>1, <1>2, <1>4, <1>8 DEF RenameList, Answer, TaskInv, ListApart
  <2>2. CASE UNCHANGED <<list, remembered>>
    BY <1>3, <1>5, <2>1, <2>2
  <2>3. CASE /\ list' = List!Rename(list)
             /\ remembered' = [remembered EXCEPT ![arg[r].type] = pick[r]]
    <3>1. list'.name = list.temp /\ list'.temp = None /\ list'.text = list.text
      BY <2>3 DEF List!Rename, ListTypes, FilesOf
    <3>2. arg[r].type \in ContentTypes
      BY <2>1, OpenTypeOf DEF Editing
    <3>3. ASSUME NEW type \in ContentTypes
          PROVE  /\ DefaultApp(edit[r], type) = remembered'[type]
                 /\ \A group \in {"added", "removed"} :
                       Listed(edit[r], group, type) = Listed(InitialList, group, type)
      <4>1. \A group \in {"added", "removed"} :
               Listed(edit[r], group, type) = Listed(InitialList, group, type)
        BY <1>1, <1>3 DEF Records, ListApart, Keeping
      <4>2. CASE type = arg[r].type
        <5>1. DefaultApp(edit[r], type) = pick[r]
          BY <1>3, <4>2 DEF Records
        <5>2. remembered'[type] = pick[r]
          BY <2>3, <4>2 DEF ListTypes
        <5>. QED  BY <4>1, <5>1, <5>2
      <4>3. CASE type # arg[r].type
        <5>1. Listed(edit[r], "defaults", type) = Listed(list.text[list.name], "defaults", type)
          BY <1>3, <4>3 DEF Records
        <5>2. DefaultApp(edit[r], type) = DefaultApp(list.text[list.name], type)
          BY <5>1, Zenon DEF DefaultApp
        <5>3. DefaultApp(list.text[list.name], type) = remembered[type]
          BY <1>1 DEF ListApart, Keeping
        <5>4. remembered'[type] = remembered[type]
          BY <2>3, <4>3 DEF ListTypes
        <5>. QED  BY <4>1, <5>2, <5>3, <5>4
      <4>. QED  BY <4>2, <4>3
    <3>4. Keeping(edit[r])'
      BY <1>1, <3>3 DEF Keeping
    <3>5. Editors' = {}
      BY <1>2, <2>1 DEF Editors
    <3>6. list'.text[list'.name] = edit'[r]
      BY <1>1, <2>1, <3>1
    <3>7. \A q \in Requests : q \in {list'.name, list'.temp} => at'[q] \in {"rewriting", "renaming", "done"}
      BY <1>1, <1>4, <2>1, <3>1 DEF ListApart, Inodes
    <3>8. list'.temp # list'.name
      BY <1>4, <2>1, <3>1
    <3>. QED  BY <1>1, <1>3, <3>4, <3>5, <3>6, <3>7, <3>8 DEF ListApart
  <2>. QED  BY <1>8, <2>2, <2>3 DEF RenameList
<1>. QED  BY <1>6, <1>7, <1>8

LEMMA OpenListInv ==
    ASSUME TaskInv, CallInv, ListTypes, ListInv, NEW r \in Requests, OpenNext(r)
    PROVE  ListInv'
<1>1. CASE SetDefaultApp(r)
  BY <1>1, ReadListInv, EditListInv DEF SetDefaultApp
<1>2. CASE ~SetDefaultApp(r)
  <2>1. Proceeds(r)
    BY OpenProceeds
  <2>2. /\ UNCHANGED <<list, edit, remembered, crossedLists>>
        /\ pick' = pick \/ \E app \in Apps : pick' = [pick EXCEPT ![r] = app]
    BY <1>2 DEF OpenNext, AppChooserWorker, OpenUriWorker, ChooseApplication, OpenUri,
       AppChooserRun, OpenUriRun, Picked, Decide, openVars
  <2>3. {at[r], at'[r]} \cap EditSteps = {}
    <3>1. CASE AppChooserWorker(r) \/ OpenUriWorker(r)
      BY <3>1, AdmitProceeds
         DEF AppChooserWorker, OpenUriWorker, EditSteps, Settled, ChromeFree, Chrome
    <3>2. CASE ChooseApplication(r) \/ OpenUri(r)
      <4>1. \E k, a : \E valid \in BOOLEAN : Arrive(r, k, a, valid)
        BY <3>2 DEF ChooseApplication, OpenUri
      <4>. QED  BY <4>1, ArriveBegins DEF Begins, EditSteps
    <3>3. CASE AppChooserRun(r) \/ OpenUriRun(r) \/ Decide(r)
      <4>1. /\ at[r] \in {"polled", "deciding"}
            /\ \/ \E code : Answer(r, code)
               \/ Goto(r, "reading") \/ Goto(r, "asking")
        BY <3>3 DEF AppChooserRun, OpenUriRun, Decide, Picked, Recheck, StillOpen, Affirmed
      <4>. QED  BY <4>1 DEF Answer, Goto, TaskInv, EditSteps
    <3>. QED  BY <1>2, <3>1, <3>2, <3>3 DEF OpenNext
  <2>4. /\ \A q \in Requests \ {r} : at'[q] = at[q] /\ arg'[q] = arg[q]
        /\ at[r] = "done" => at'[r] = "done"
    BY <2>1, OpenSteps
  <2>5. \A q \in Requests \ {r} : pick'[q] = pick[q]
    BY <2>2 DEF ListTypes
  <2>. QED  BY <2>2, <2>3, <2>4, <2>5, ListKept
<1>. QED  BY <1>1, <1>2

LEMMA ListInvCorrect == ASSUME AllEnded(InitialList) PROVE Spec => []ListInv
<1>1. TaskInv /\ CallInv /\ ListTypes /\ ListInv /\ [Next]_vars => ListInv'
  <2>. SUFFICES ASSUME TaskInv, CallInv, ListTypes, ListInv, [Next]_vars PROVE ListInv'
    OBVIOUS
  <2>1. ASSUME NEW r \in Requests, Dialog(r) \/ Close(r, Uncommitted(r)), UNCHANGED openVars
        PROVE  ListInv'
    <3>1. Proceeds(r) /\ ({at[r], at'[r]} \cap Editing = {} \/ at' = at)
      BY <2>1, DialogProceeds, CloseProceeds DEF Editing
    <3>. QED  BY <2>1, <3>1, ListUntouched
  <2>2. ASSUME NEW r \in Requests, ConsentNext(r) \/ CaptureNext(r) \/ WallNext(r) \/ HandNext(r),
               UNCHANGED openVars
        PROVE  ListInv'
    <3>1. \/ Proceeds(r) /\ {at[r], at'[r]} \cap Editing = {}
          \/ UNCHANGED taskVars
      BY <2>2, ConsentProceeds, CaptureProceeds, WallProceeds, HandProceeds DEF Editing
    <3>. QED  BY <2>2, <3>1, ListUntouched
  <2>3. CASE InhibitNext /\ UNCHANGED openVars
    <3>1. \/ \E r \in Requests : Proceeds(r) /\ {at[r], at'[r]} \cap Editing = {}
          \/ UNCHANGED taskVars
      BY <2>3, InhibitProceeds DEF Editing
    <3>. QED  BY <2>3, <3>1, ListUntouched
  <2>4. CASE UNCHANGED vars
    BY <2>4, ListStays DEF vars
  <2>. QED  BY <2>1, <2>2, <2>3, <2>4, OpenListInv DEF Next
<1>2. Init => ListInv
  BY InitListInv
<1>. QED  BY <1>1, <1>2, TaskInvCorrect, CallInvCorrect, ListTypesCorrect, PTL DEF Spec

(* As long as one request edits the list at a time, the default of each    *)
(* content type is the one last recorded for it and the user's added and   *)
(* removed associations are what they were ("preserving every unrelated    *)
(* line", apps.rs:339), whatever writes failed and whatever they left in   *)
(* the temporary - of a list whose last line is ended: without the newline *)
(* the code runs the new key into that line (RunTogether).                 *)
THEOREM DefaultsCorrect ==
    ASSUME AllEnded(InitialList) PROVE Spec => []DefaultsAsRemembered
<1>1. ListInv => DefaultsAsRemembered
  BY DEF ListInv, ListApart, Keeping, DefaultsAsRemembered, List!Contents
<1>. QED  BY <1>1, ListInvCorrect, PTL

-----------------------------------------------------------------------------
(* The types of everything.  What a request names - an extension, a path - *)
(* is in its domain because of CallInv.                                    *)

EntryTypes ==
    /\ EntryType /\ granted \in Requests \cup {None} /\ crossedEntries \in BOOLEAN

WallTypes ==
    /\ staged \in [Extensions -> Requests \cup {None}] /\ temporaries \subseteq Requests
    /\ shown \in Extensions \cup {None}

InhibitTypes ==
    /\ record \in [Paths -> Requests \cup {None}] /\ object \in [Paths -> Requests \cup {None}]
    /\ closing \in [Paths -> 0..MaxCloses]
    /\ stranded \subseteq Paths /\ reclosed \subseteq Paths

StateTypes == EntryTypes /\ WallTypes /\ InhibitTypes /\ shots \subseteq Requests

LEMMA InitStateTypes == Init => StateTypes
<1>. SUFFICES ASSUME Init PROVE StateTypes
  OBVIOUS
<1>1. EntryTypes
  <2>1. entry = InitFile(None, None)
    BY DEF Init, ConsentInit, Entry!Holding, Entry!Inodes, InitFile, Inodes
  <2>2. EntryType
    BY <2>1 DEF InitFile, EntryType, FilesOf, Inodes
  <2>. QED  BY <2>2 DEF Init, ConsentInit, EntryTypes
<1>. QED
  BY <1>1 DEF Init, WallInit, InhibitInit, CaptureInit, WallTypes, InhibitTypes, StateTypes

LEMMA ConsentTypes ==
    ASSUME EntryTypes, NEW r \in Requests, ConsentNext(r)
    PROVE  EntryTypes'
<1>. entry \in FilesOf(Requests \cup {None}) /\ entry.temp \in Inodes \cup {None}
     /\ entry.at[r] \in Inodes \cup {None}
  BY DEF EntryTypes, EntryType, FilesOf
<1>1. CASE UNCHANGED consentVars
  BY <1>1 DEF consentVars, EntryTypes, EntryType
<1>2. CASE entry' = Entry!Open(entry, r) /\ UNCHANGED granted /\ crossedEntries' = (crossedEntries \/ EntryWriters # {})
  <2>1. \E i \in Inodes : FileStep(entry, entry', r, i, None)
    BY <1>2 DEF Entry!Open, FileStep, Inodes
  <2>2. entry' \in FilesOf(Requests \cup {None})
    BY <2>1, FileSteps
  <2>. QED  BY <1>2, <2>2 DEF EntryTypes, EntryType
<1>3. CASE /\ entry' \in {Entry!Fill(entry, r, r), Entry!Abandon(entry, r)}
           /\ UNCHANGED <<granted, crossedEntries>>
  <2>1. CASE entry.at[r] \in Inodes
    <3>1. FileStep(entry, entry', r, entry.at[r], r)
      BY <1>3 DEF Entry!Fill, Entry!Abandon, FileStep
    <3>. QED  BY <1>3, <2>1, <3>1, FileSteps DEF EntryTypes, EntryType
  <2>2. CASE entry.at[r] = None
    <3>1. None \notin Inodes /\ entry.text \in [Inodes -> Requests \cup {None}]
      BY DEF FilesOf, Inodes
    <3>2. [entry.text EXCEPT ![None] = r] = entry.text
      BY <3>1
    <3>3. [entry EXCEPT !.text[None] = r, !.at[r] = None] = [entry EXCEPT !.at[r] = None]
      BY <3>2 DEF FilesOf
    <3>4. FileStep(entry, entry', r, "first", None)
      BY <1>3, <2>2, <3>3 DEF Entry!Fill, Entry!Abandon, FileStep
    <3>5. entry' \in FilesOf(Requests \cup {None})
      BY <3>4, FileSteps DEF Inodes
    <3>. QED  BY <1>3, <3>5 DEF EntryTypes, EntryType
  <2>. QED  BY <2>1, <2>2
<1>4. CASE /\ Entry!CanRename(entry) /\ entry' = Entry!Rename(entry)
           /\ granted' = r /\ UNCHANGED crossedEntries
  <2>1. entry.temp # None /\ FileStep(entry, entry', r, entry.temp, None)
    BY <1>4 DEF Entry!CanRename, Entry!Rename, FileStep
  <2>2. entry' \in FilesOf(Requests \cup {None})
    BY <2>1, FileSteps
  <2>. QED  BY <1>4, <2>2 DEF EntryTypes, EntryType
<1>. QED
  BY <1>1, <1>2, <1>3, <1>4
  DEF ConsentNext, BackgroundRun, WriteEntry, PublishEntry, consentVars

LEMMA WallpaperTypes ==
    ASSUME CallInv, WallTypes, NEW r \in Requests, WallNext(r)
    PROVE  WallTypes'
<1>1. CASE UNCHANGED wallVars
  BY <1>1 DEF wallVars, WallTypes
<1>2. CASE StageImage(r) \/ CommitImage(r) \/ PruneStaging(r) \/ DropStaged(r)
  <2>1. temporaries' \subseteq Requests /\ shown' = shown
    BY <1>2 DEF StageImage, CommitImage, PruneStaging, DropStaged, WallTypes, wallVars
  <2>2. \/ staged' = staged
        \/ \E q \in Requests \cup {None} : staged' = [staged EXCEPT ![Ext(r)] = q]
        \/ staged' = [x \in Extensions |-> IF x = Ext(r) THEN staged[x] ELSE None]
    BY <1>2 DEF StageImage, CommitImage, PruneStaging, DropStaged, wallVars
  <2>3. staged' \in [Extensions -> Requests \cup {None}]
    BY <2>2 DEF WallTypes
  <2>. QED  BY <2>1, <2>3 DEF WallTypes
<1>3. CASE ApplyWallpaper(r)
  <2>1. Ext(r) \in Extensions
    BY <1>3 DEF ApplyWallpaper, CallInv, Carried, ArgOf, PlaceOf, WallPlaces, Settled, Ext
  <2>. QED  BY <1>3, <2>1 DEF ApplyWallpaper, WallTypes
<1>. QED  BY <1>1, <1>2, <1>3 DEF WallNext, ReadImage

LEMMA RegistryTypes ==
    ASSUME CallInv, InhibitTypes, InhibitNext
    PROVE  InhibitTypes'
<1>1. ASSUME NEW r \in Requests,
             ApplyInhibit(r) \/ AddMonitor(r) \/ ExportRequest(r) \/ ExportSession(r)
      PROVE  InhibitTypes'
  <2>1. /\ \/ record' = record
           \/ \E q \in Requests \cup {None} : record' = [record EXCEPT ![arg[r]] = q]
        /\ object' = object \/ object' = [object EXCEPT ![arg[r]] = r]
        /\ closing' = closing /\ reclosed' = reclosed
        /\ stranded' = stranded \/ (at[r] = "exporting" /\ stranded' = stranded \cup {arg[r]})
    BY <1>1 DEF ApplyInhibit, AddMonitor, ExportRequest, ExportSession, Export
  <2>2. at[r] = "exporting" => arg[r] \in Paths
    BY DEF CallInv, Carried, ArgOf, PlaceOf, Settled
  <2>. QED  BY <2>1, <2>2 DEF InhibitTypes
<1>2. ASSUME NEW p \in Paths, CloseObject(p) \/ RemoveObject(p)
      PROVE  InhibitTypes'
  <2>1. closing[p] \in 0..MaxCloses /\ MaxCloses \in Nat
    BY ServicesAssumption DEF InhibitTypes
  <2>2. \/ closing[p] + 1 \in 0..MaxCloses /\ closing' = [closing EXCEPT ![p] = closing[p] + 1]
        \/ closing[p] - 1 \in 0..MaxCloses /\ closing' = [closing EXCEPT ![p] = closing[p] - 1]
    BY <1>2, <2>1 DEF CloseObject, RemoveObject
  <2>3. closing' \in [Paths -> 0..MaxCloses]
    BY <2>2 DEF InhibitTypes
  <2>4. /\ record' \in [Paths -> Requests \cup {None}] /\ object' \in [Paths -> Requests \cup {None}]
        /\ stranded' \subseteq Paths /\ reclosed' \subseteq Paths
    BY <1>2 DEF CloseObject, RemoveObject, InhibitTypes
  <2>. QED  BY <2>3, <2>4 DEF InhibitTypes
<1>3. CASE UNCHANGED inhibitVars
  BY <1>3 DEF inhibitVars, InhibitTypes
<1>. QED  BY <1>1, <1>2, <1>3 DEF InhibitNext, Inhibit, CreateMonitor

LEMMA StateTypesCorrect == Spec => []StateTypes
<1>1. CallInv /\ StateTypes /\ [Next]_vars => StateTypes'
  <2>. SUFFICES ASSUME CallInv, StateTypes, [Next]_vars PROVE StateTypes'
    OBVIOUS
  <2>1. EntryTypes'
    <3>1. CASE UNCHANGED consentVars
      BY <3>1 DEF StateTypes, EntryTypes, EntryType, consentVars
    <3>. QED  BY <3>1, ConsentTypes DEF StateTypes, Next, vars
  <2>2. WallTypes'
    <3>1. CASE UNCHANGED wallVars
      BY <3>1 DEF StateTypes, WallTypes, wallVars
    <3>. QED  BY <3>1, WallpaperTypes DEF StateTypes, Next, vars
  <2>3. InhibitTypes'
    <3>1. CASE UNCHANGED inhibitVars
      BY <3>1 DEF StateTypes, InhibitTypes, inhibitVars
    <3>. QED  BY <3>1, RegistryTypes DEF StateTypes, Next, vars
  <2>4. shots' \subseteq Requests
    <3>1. CASE UNCHANGED captureVars
      BY <3>1 DEF StateTypes, captureVars
    <3>2. ASSUME NEW r \in Requests, CaptureNext(r)
          PROVE  shots' \subseteq Requests
      BY <3>2 DEF CaptureNext, Interact, Capture, WriteCapture, ReportShot, captureVars, StateTypes
    <3>. QED  BY <3>1, <3>2 DEF Next, vars
  <2>. QED  BY <2>1, <2>2, <2>3, <2>4 DEF StateTypes
<1>. QED  BY <1>1, InitStateTypes, CallInvCorrect, PTL DEF Spec

(* Everything has its type, and a request has a kind once it is made and   *)
(* an answer exactly when it is done.                                      *)
THEOREM TypeCorrect == Spec => []TypeOK
<1>1. TaskInv /\ CallInv /\ ListTypes /\ HandInv /\ StateTypes => TypeOK
  <2>. SUFFICES ASSUME TaskInv, CallInv, ListTypes, HandInv, StateTypes PROVE TypeOK
    OBVIOUS
  <2>1. entry \in Entry!Files(Requests, Requests \cup {None})
    BY DEF StateTypes, EntryTypes, EntryType, FilesOf, Inodes, Entry!Files, Entry!Inodes
  <2>2. list \in List!Files(Requests, Seq(Lines))
    BY DEF ListTypes, FilesOf, Inodes, List!Files, List!Inodes
  <2>3. unremoved \subseteq spools /\ spools \subseteq Requests /\ mailers \subseteq Requests /\ mailerSlots \in 0..MaxMailers
    <3>1. Cardinality(HoldsSlot) \in Nat
      BY FS_CardinalityType DEF HandInv
    <3>. QED  BY <3>1 DEF HandInv, Spooled
  <2>4. /\ \A r \in Requests : kind[r] \in Kinds \cup {None} /\ (kind[r] = None <=> at[r] = "idle")
        /\ \A r \in Requests : answer[r] \in Answers \cup {None} /\ (answer[r] = None <=> at[r] # "done")
        /\ timely \subseteq closed /\ closed \subseteq Requests
    BY DEF CallInv, TaskInv
  <2>. QED
    BY <2>1, <2>2, <2>3, <2>4
    DEF TypeOK, ListTypes, StateTypes, EntryTypes, WallTypes, InhibitTypes
<1>. QED
  BY <1>1, TaskInvCorrect, CallInvCorrect, ListTypesCorrect, HandInvCorrect, StateTypesCorrect, PTL
=============================================================================
