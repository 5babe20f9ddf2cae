-------------------------- MODULE RestoreStoreProofs --------------------------
(***************************************************************************)
(* Proofs about RestoreStore, for any calls, owners and bounds: the types, *)
(* and the four properties of the tokens.  Each rests on the order in      *)
(* which tokens were issued: every list on disk follows it (IssuedOK), so  *)
(* what Push drains from the front is older than what stays; and on what   *)
(* the writer has done: a token acknowledged is in every copy of the list  *)
(* in which it was neither evicted nor pruned (WritesOK).                  *)
(***************************************************************************)
EXTENDS RestoreStore, ListProofs, TLAPS

USE StoreAssumption

-----------------------------------------------------------------------------
(* Lists of entries and the order of their tokens in a history h.          *)

Before(h, t, u) == \E i, j \in DOMAIN h : i < j /\ h[i] = t /\ h[j] = u

Ordered(s, h) ==
    /\ Tokens(s) \subseteq Range(h)
    /\ \A i, j \in DOMAIN s : i < j => Before(h, s[i].token, s[j].token)

OlderThan(T, s, h) == \A t \in T, u \in Tokens(s) : Before(h, t, u)

(* Each entry is what the user of the call it is named for agreed to.      *)
Agreed(s, c) == \A e \in Range(s) : c[e.token] = [app |-> e.app, source |-> e.source]

LEMMA NothingListed == Range(<<>>) = {} /\ Tokens(<<>>) = {}
  BY DEF Tokens, Range

LEMMA NothingOrdered ==
    ASSUME NEW h, NEW c, NEW T
    PROVE  Ordered(<<>>, h) /\ Agreed(<<>>, c) /\ OlderThan(T, <<>>, h)
  BY NothingListed DEF Ordered, Agreed, OlderThan

LEMMA Issuance ==
    ASSUME NEW h \in Seq(Calls), NEW k \in Calls, k \notin Range(h), Distinct(h)
    PROVE  /\ Append(h, k) \in Seq(Calls) /\ Distinct(Append(h, k))
           /\ Range(Append(h, k)) = Range(h) \cup {k}
           /\ \A t, u : Before(h, t, u) => Before(Append(h, k), t, u)
           /\ \A t \in Range(h) : Before(Append(h, k), t, k)
<1>. DEFINE g == Append(h, k)
<1>1. /\ g \in Seq(Calls) /\ DOMAIN g = 1..(Len(h) + 1) /\ DOMAIN h = 1..Len(h)
      /\ Len(h) \in Nat /\ g[Len(h) + 1] = k /\ \A i \in DOMAIN h : g[i] = h[i]
  OBVIOUS
<1>. HIDE DEF g
<1>2. \A i \in DOMAIN g : i \in DOMAIN h \/ i = Len(h) + 1
  BY <1>1
<1>3. \A i \in DOMAIN h : i \in DOMAIN g /\ i < Len(h) + 1
  BY <1>1
<1>4. Len(h) + 1 \in DOMAIN g
  BY <1>1
<1>5. \A i \in DOMAIN h : h[i] # k
  BY DEF Range
<1>6. Distinct(g)
  BY <1>1, <1>2, <1>5 DEF Distinct
<1>7. Range(g) = Range(h) \cup {k}
  BY <1>1, <1>2, <1>3, <1>4 DEF Range
<1>8. \A t, u : Before(h, t, u) => Before(g, t, u)
  BY <1>1, <1>3 DEF Before
<1>9. \A t \in Range(h) : Before(g, t, k)
  BY <1>1, <1>3, <1>4 DEF Before, Range
<1>. QED  BY <1>1, <1>6, <1>7, <1>8, <1>9 DEF g

(* No token is before itself, and Age tells the order. *)
LEMMA Aged ==
    ASSUME issued \in Seq(Calls), Distinct(issued), NEW t, NEW u, Before(issued, t, u)
    PROVE  t # u /\ Age(t) < Age(u)
<1>1. PICK i \in DOMAIN issued, j \in DOMAIN issued : i < j /\ issued[i] = t /\ issued[j] = u
  BY DEF Before
<1>2. Age(t) \in DOMAIN issued /\ issued[Age(t)] = t
  BY <1>1 DEF Age
<1>3. Age(u) \in DOMAIN issued /\ issued[Age(u)] = u
  BY <1>1 DEF Age
<1>4. Age(t) = i /\ Age(u) = j
  BY <1>1, <1>2, <1>3 DEF Distinct
<1>5. i \in Nat /\ j \in Nat
  BY <1>1
<1>. QED  BY <1>1, <1>4, <1>5

LEMMA OrderedLater ==
    ASSUME NEW s, NEW h, NEW g, Range(h) \subseteq Range(g),
           \A t, u : Before(h, t, u) => Before(g, t, u)
    PROVE  /\ Ordered(s, h) => Ordered(s, g)
           /\ \A T : OlderThan(T, s, h) => OlderThan(T, s, g)
  BY DEF Ordered, OlderThan

(* Push drains d of the oldest entries. *)
LEMMA Drained ==
    ASSUME NEW s \in Seq(Entry), NEW e \in Entry, NEW max \in Nat \ {0}
    PROVE  \E d \in Nat :
              /\ d <= Len(s) /\ Push(s, e, max) \in Seq(Entry)
              /\ Len(Push(s, e, max)) = Len(s) + 1 - d
              /\ Len(s) + 1 - d <= max
              /\ \A i \in 1..(Len(s) + 1 - d) : Push(s, e, max)[i] = Append(s, e)[d + i]
<1>. DEFINE t == Append(s, e)
<1>1. t \in Seq(Entry) /\ Len(t) = Len(s) + 1 /\ Len(s) \in Nat
  OBVIOUS
<1>. HIDE DEF t
<1>2. CASE Len(t) > max
  <2>. DEFINE u == SubSeq(t, Len(t) - max + 1, Len(t))
              d == Len(t) - max
  <2>1. d \in Nat /\ d <= Len(s) /\ Len(s) + 1 - d = max
    BY <1>1, <1>2
  <2>2. u \in Seq(Entry) /\ Len(u) = max /\ \A i \in 1..max : u[i] = t[d + i]
    BY <1>1, <1>2
  <2>3. Push(s, e, max) = u
    BY <1>2 DEF Push, t
  <2>. HIDE DEF u, d
  <2>4. u \in Seq(Entry) /\ Len(u) = Len(s) + 1 - d /\ Len(s) + 1 - d <= max
    BY <2>1, <2>2
  <2>5. \A i \in 1..(Len(s) + 1 - d) : u[i] = t[d + i]
    BY <2>1, <2>2
  <2>. QED  BY <2>1, <2>3, <2>4, <2>5 DEF t
<1>3. CASE ~(Len(t) > max)
  <2>1. Push(s, e, max) = t
    BY <1>3 DEF Push, t
  <2>2. Len(s) + 1 - 0 <= max /\ 0 <= Len(s) /\ 0 \in Nat /\ Len(t) = Len(s) + 1 - 0
    BY <1>1, <1>3
  <2>3. \A i \in 1..(Len(s) + 1 - 0) : t[i] = t[0 + i]
    BY <1>1
  <2>. QED  BY <1>1, <2>1, <2>2, <2>3 DEF t
<1>. QED  BY <1>2, <1>3

(* What is pushed is kept, of the rest as many as fit. *)
LEMMA Pushed ==
    ASSUME NEW s \in Seq(Entry), NEW e \in Entry, NEW max \in Nat \ {0}
    PROVE  /\ Push(s, e, max) \in Seq(Entry) /\ Len(Push(s, e, max)) <= max
           /\ Range(Push(s, e, max)) \subseteq Range(s) \cup {e}
           /\ Tokens(Push(s, e, max)) \subseteq Tokens(s) \cup {e.token}
           /\ e.token \in Tokens(Push(s, e, max))
<1>. DEFINE p == Push(s, e, max)
            a == Append(s, e)
            n == Len(s)
<1>0. PICK d \in Nat :
         /\ d <= Len(s) /\ Push(s, e, max) \in Seq(Entry)
         /\ Len(Push(s, e, max)) = Len(s) + 1 - d
         /\ Len(s) + 1 - d <= max
         /\ \A i \in 1..(Len(s) + 1 - d) : Push(s, e, max)[i] = Append(s, e)[d + i]
  BY Drained
<1>1. /\ d \in Nat /\ d <= n /\ p \in Seq(Entry) /\ Len(p) = n + 1 - d /\ n + 1 - d <= max
      /\ \A i \in 1..(n + 1 - d) : p[i] = a[d + i]
  BY <1>0
<1>2. n \in Nat /\ a[n + 1] = e /\ \A i \in 1..n : a[i] = s[i]
  OBVIOUS
<1>3. DOMAIN s = 1..n
  OBVIOUS
<1>. HIDE DEF p, a, n
<1>4. DOMAIN p = 1..(n + 1 - d) /\ d \in Nat /\ n \in Nat /\ d <= n
  BY <1>1, <1>2
<1>5. \A i \in DOMAIN p : d + i \in 1..n \/ d + i = n + 1
  BY <1>4
<1>6. \A i \in DOMAIN p : p[i] = a[d + i]
  BY <1>1, <1>4
<1>7. \A i \in DOMAIN p : p[i] = e \/ p[i] \in Range(s)
  BY <1>2, <1>3, <1>5, <1>6 DEF Range
<1>8. Range(p) \subseteq Range(s) \cup {e}
  BY <1>7 DEF Range
<1>9. Tokens(p) \subseteq Tokens(s) \cup {e.token}
  BY <1>8 DEF Tokens
<1>10. e.token \in Tokens(p)
  <2>1. n + 1 - d \in DOMAIN p /\ d + (n + 1 - d) = n + 1
    BY <1>1, <1>2, <1>4
  <2>2. p[n + 1 - d] = e
    BY <1>2, <1>6, <2>1
  <2>. QED  BY <2>1, <2>2 DEF Tokens, Range
<1>. QED  BY <1>1, <1>8, <1>9, <1>10 DEF p

(* The youngest are kept, in their order: what goes is older. *)
LEMMA PushedInOrder ==
    ASSUME NEW s \in Seq(Entry), NEW e \in Entry, NEW max \in Nat \ {0},
           NEW h \in Seq(Calls), Distinct(h), e.token \notin Range(h), Ordered(s, h)
    PROVE  /\ Ordered(Push(s, e, max), Append(h, e.token))
           /\ OlderThan((Tokens(s) \cup {e.token}) \ Tokens(Push(s, e, max)),
                        Push(s, e, max), Append(h, e.token))
<1>. DEFINE p == Push(s, e, max)
            a == Append(s, e)
            n == Len(s)
            g == Append(h, e.token)
            At(i) == a[i].token
<1>0. PICK d \in Nat :
         /\ d <= Len(s) /\ Push(s, e, max) \in Seq(Entry)
         /\ Len(Push(s, e, max)) = Len(s) + 1 - d
         /\ Len(s) + 1 - d <= max
         /\ \A i \in 1..(Len(s) + 1 - d) : Push(s, e, max)[i] = Append(s, e)[d + i]
  BY Drained
<1>1. /\ d \in Nat /\ d <= n /\ p \in Seq(Entry) /\ Len(p) = n + 1 - d /\ n + 1 - d <= max
      /\ \A i \in 1..(n + 1 - d) : p[i] = a[d + i]
  BY <1>0
<1>2. n \in Nat /\ a[n + 1] = e /\ \A i \in 1..n : a[i] = s[i]
  OBVIOUS
<1>3. DOMAIN s = 1..n
  OBVIOUS
<1>4. Tokens(p) \subseteq Tokens(s) \cup {e.token} /\ e.token \in Tokens(p)
  BY Pushed
<1>. HIDE DEF p, a, n
<1>5. DOMAIN p = 1..(n + 1 - d) /\ d \in Nat /\ n \in Nat /\ d <= n
  BY <1>1, <1>2
<1>6. \A i \in DOMAIN p : p[i] = a[d + i]
  BY <1>1, <1>5
<1>7. /\ Range(g) = Range(h) \cup {e.token}
      /\ \A t, u : Before(h, t, u) => Before(g, t, u)
      /\ \A t \in Range(h) : Before(g, t, e.token)
  BY Issuance DEF Entry
<1>. HIDE DEF g
<1>8. \A i \in 1..n : At(i) = s[i].token /\ At(i) \in Range(h)
  BY <1>2, <1>3 DEF Ordered, Tokens, Range
<1>9. At(n + 1) = e.token
  BY <1>2
<1>10. ASSUME NEW i \in 1..(n + 1), NEW j \in 1..(n + 1), i < j
       PROVE  Before(g, At(i), At(j))
  <2>1. i \in 1..n
    BY <1>2, <1>10
  <2>2. CASE j \in 1..n
    BY <1>3, <1>7, <1>8, <1>10, <2>1, <2>2 DEF Ordered
  <2>3. CASE j = n + 1
    BY <1>7, <1>8, <1>9, <2>1, <2>3
  <2>. QED  BY <1>2, <2>2, <2>3
<1>. HIDE DEF At
<1>11. \A i \in DOMAIN p : d + i \in 1..(n + 1) /\ p[i].token = At(d + i)
  BY <1>1, <1>2, <1>5, <1>6 DEF At
<1>12. Tokens(p) \subseteq Range(g)
  BY <1>4, <1>7 DEF Ordered
<1>13. ASSUME NEW i \in DOMAIN p, NEW j \in DOMAIN p, i < j
      PROVE  Before(g, p[i].token, p[j].token)
  <2>1. d + i < d + j
    BY <1>1, <1>2, <1>5, <1>13
  <2>. QED  BY <1>10, <1>11, <2>1
<1>14. ASSUME NEW t \in (Tokens(s) \cup {e.token}) \ Tokens(p), NEW u \in Tokens(p)
      PROVE  Before(g, t, u)
  <2>1. PICK i \in 1..n : s[i].token = t
    BY <1>3, <1>4 DEF Tokens, Range
  <2>2. PICK j \in DOMAIN p : p[j].token = u
    BY DEF Tokens, Range
  <2>3. i <= d
    <3>1. SUFFICES ASSUME i > d PROVE FALSE
      BY <1>1, <1>2
    <3>2. i - d \in DOMAIN p /\ d + (i - d) = i
      BY <1>1, <1>2, <1>5, <3>1
    <3>3. p[i - d] = s[i]
      BY <1>2, <1>6, <3>2
    <3>. QED  BY <2>1, <3>2, <3>3 DEF Tokens, Range
  <2>4. d + j \in 1..(n + 1) /\ i \in 1..(n + 1) /\ i < d + j
    BY <1>1, <1>2, <1>5, <1>11, <2>3
  <2>. QED  BY <1>8, <1>10, <1>11, <2>1, <2>2, <2>4
<1>. QED  BY <1>12, <1>13, <1>14 DEF Ordered, OlderThan, p, g

(* What is filtered keeps its order. *)
LEMMA Pruned ==
    ASSUME NEW s \in Seq(Entry), NEW S
    PROVE  /\ Filter(s, S) \in Seq(Entry) /\ Len(Filter(s, S)) <= Len(s)
           /\ Range(Filter(s, S)) \subseteq Range(s)
           /\ Tokens(Filter(s, S)) \subseteq Tokens(s)
           /\ \A h : Ordered(s, h) => Ordered(Filter(s, S), h)
<1>. DEFINE f == Filter(s, S)
<1>1. f \in Seq(Entry) /\ Keeps(f, s, Len(s), S)
  BY Filtered
<1>2. DOMAIN s = 1..Len(s) /\ DOMAIN f = 1..Len(f)
  BY <1>1
<1>. HIDE DEF f
<1>3. Range(f) \subseteq Range(s)
  <2>1. \A a \in DOMAIN f : \E i \in DOMAIN s : s[i] = f[a]
    BY <1>1, <1>2 DEF Keeps
  <2>. QED  BY <2>1, Zenon DEF Range
<1>4. Tokens(f) \subseteq Tokens(s)
  BY <1>3 DEF Tokens
<1>5. ASSUME NEW h, Ordered(s, h)
      PROVE  Ordered(f, h)
  <2>1. ASSUME NEW a \in DOMAIN f, NEW b \in DOMAIN f, a < b
        PROVE  Before(h, f[a].token, f[b].token)
    <3>1. PICK i \in 1..Len(s), j \in 1..Len(s) : i < j /\ s[i] = f[a] /\ s[j] = f[b]
      BY <1>1, <1>2, <2>1 DEF Keeps
    <3>2. Before(h, s[i].token, s[j].token)
      BY <1>2, <1>5, <3>1 DEF Ordered
    <3>. QED  BY <3>1, <3>2
  <2>. QED  BY <1>4, <1>5, <2>1 DEF Ordered
<1>. QED  BY <1>1, <1>3, <1>4, <1>5 DEF f, Keeps

-----------------------------------------------------------------------------
(* Types, and what a task has at each of its steps.                        *)

StoresOK ==
    /\ disk \in Entries /\ Len(disk) <= MaxDisk
    /\ memory \in [Owners -> Entries]
    /\ \A o \in Owners : Len(memory[o]) <= MaxMemory
    /\ file \in Entries /\ Len(file) <= MaxDisk
    /\ durable \in Entries /\ Len(durable) <= MaxDisk

CallsOK ==
    /\ writer \in Writing \cup {None}
    /\ pc \in [Calls -> {"idle", "validating", "pruning", "asking", "issuing",
                         "arming", "done"}]
    /\ req \in [Calls -> Request \cup {None}]
    /\ seen \in [Calls -> SUBSET Connectors]
    /\ armed \in [Calls -> Selection \cup {None}]
    /\ grant \in [Calls -> Calls \cup {None}]

WorldOK == dropped \subseteq gone /\ gone \subseteq Owners /\ restarts \in 0..MaxRestarts

(* A task that runs has its request; one has a selection only from Prune   *)
(* on, and the token that goes with it only if it has one; and the task    *)
(* that writes waits for it.                                               *)
TasksOK ==
    /\ \A k \in Calls : pc[k] \notin {"idle", "done"} => req[k] \in Request
    /\ \A k \in Calls : pc[k] \notin {"pruning", "issuing", "arming"} => armed[k] = None
    /\ \A k \in Calls : armed[k] = None => grant[k] = None
    /\ \A k \in Calls : pc[k] = "issuing" => armed[k] \in Selection
    /\ writer # None => pc[writer.call] \in {"pruning", "issuing"}

TypeInv == StoresOK /\ CallsOK /\ WorldOK /\ TasksOK

LEMMA InvTyped == TypeInv => TypeOK
  BY DEF TypeInv, StoresOK, CallsOK, WorldOK, TypeOK

LEMMA InitTypeInv == Init => TypeInv
<1>. SUFFICES ASSUME Init PROVE TypeInv
  OBVIOUS
<1>1. <<>> \in Entries /\ Len(<<>>) = 0
  BY DEF Entries
<1>2. StoresOK
  BY <1>1 DEF Init, StoresOK
<1>3. CallsOK
  BY DEF Init, CallsOK
<1>4. WorldOK /\ TasksOK
  BY DEF Init, WorldOK, TasksOK
<1>. QED  BY <1>2, <1>3, <1>4 DEF TypeInv

(* Tasks end, and none of them writes. *)
LEMMA TasksEnd ==
    ASSUME CallsOK, TasksOK, NEW K \in SUBSET Calls, Finish(K),
           writer' \in {writer, None}, writer' # None => writer.call \notin K
    PROVE  CallsOK' /\ TasksOK'
<1>1. writer' \in Writing \cup {None}
  BY DEF CallsOK
<1>2. pc' \in [Calls -> {"idle", "validating", "pruning", "asking", "issuing", "arming", "done"}]
  BY DEF CallsOK, Finish
<1>3. req' \in [Calls -> Request \cup {None}] /\ seen' \in [Calls -> SUBSET Connectors]
  BY DEF CallsOK, Finish
<1>4. armed' \in [Calls -> Selection \cup {None}] /\ grant' \in [Calls -> Calls \cup {None}]
  BY DEF CallsOK, Finish
<1>5. CallsOK'
  BY <1>1, <1>2, <1>3, <1>4 DEF CallsOK
<1>6. \A k \in Calls \ K : pc'[k] = pc[k] /\ req'[k] = req[k] /\ armed'[k] = armed[k] /\ grant'[k] = grant[k]
  BY DEF Finish
<1>7. \A k \in K : pc'[k] = "done" /\ armed'[k] = None /\ grant'[k] = None
  BY DEF Finish
<1>8. writer' # None => writer' = writer /\ writer.call \in Calls \ K
  BY DEF CallsOK, Writing
<1>9. TasksOK'
  BY <1>6, <1>7, <1>8 DEF TasksOK
<1>. QED  BY <1>5, <1>9

(* One task moves on, and none writes. *)
LEMMA TaskMoves ==
    ASSUME CallsOK, TasksOK, NEW k \in Calls,
           pc' = [pc EXCEPT ![k] = pc'[k]], req' = [req EXCEPT ![k] = req'[k]],
           armed' = [armed EXCEPT ![k] = armed'[k]], grant' = [grant EXCEPT ![k] = grant'[k]],
           pc'[k] \in {"idle", "validating", "pruning", "asking", "issuing", "arming"},
           pc'[k] # "idle" => req'[k] \in Request,
           req'[k] \in Request \cup {None},
           seen' \in [Calls -> SUBSET Connectors],
           armed'[k] \in Selection \cup {None}, grant'[k] \in Calls \cup {None},
           armed'[k] = None => grant'[k] = None,
           pc'[k] \notin {"pruning", "issuing", "arming"} => armed'[k] = None,
           pc'[k] = "issuing" => armed'[k] \in Selection,
           \/ writer' = None
           \/ writer' \in Writing /\ writer'.call = k /\ pc'[k] \in {"pruning", "issuing"}
    PROVE  CallsOK' /\ TasksOK'
<1>1. pc' \in [Calls -> {"idle", "validating", "pruning", "asking", "issuing", "arming", "done"}]
  BY DEF CallsOK
<1>2. req' \in [Calls -> Request \cup {None}]
  BY DEF CallsOK
<1>3. armed' \in [Calls -> Selection \cup {None}]
  BY DEF CallsOK
<1>4. grant' \in [Calls -> Calls \cup {None}]
  BY DEF CallsOK
<1>5. CallsOK'
  <2>1. writer' \in Writing \cup {None}
    OBVIOUS
  <2>. QED  BY <1>1, <1>2, <1>3, <1>4, <2>1 DEF CallsOK
<1>6. \A j \in Calls \ {k} : pc'[j] = pc[j] /\ req'[j] = req[j] /\ armed'[j] = armed[j] /\ grant'[j] = grant[j]
  BY DEF CallsOK
<1>7. TasksOK'
  BY <1>6 DEF TasksOK
<1>. QED  BY <1>5, <1>7

LEMMA BeginTyped ==
    ASSUME TypeInv, NEW k \in Calls, NEW r \in Request, NEW list \in SUBSET Connectors,
           Begin(k, r, list)
    PROVE  TypeInv'
<1>. USE DEF TypeInv
<1>1. StoresOK' /\ WorldOK'
  BY DEF Begin, stores, world, StoresOK, WorldOK
<1>2. /\ pc' = [pc EXCEPT ![k] = pc'[k]] /\ req' = [req EXCEPT ![k] = r]
      /\ pc'[k] \in {"asking", "validating"} /\ pc[k] = "idle"
      /\ seen' = [seen EXCEPT ![k] = list] /\ UNCHANGED <<armed, grant, writer>>
  BY DEF Begin, Goto, CallsOK
<1>3. armed[k] = None /\ grant[k] = None
  BY <1>2 DEF TasksOK
<1>4. writer # None => writer.call # k
  BY <1>2 DEF TasksOK
<1>5. CallsOK'
  BY <1>2 DEF CallsOK
<1>6. \A j \in Calls \ {k} : pc'[j] = pc[j] /\ req'[j] = req[j]
  BY <1>2 DEF CallsOK
<1>7. req'[k] = r
  BY <1>2 DEF CallsOK
<1>8. writer # None => writer.call \in Calls \ {k}
  BY <1>4 DEF CallsOK, Writing
<1>9. TasksOK'
  BY <1>2, <1>3, <1>6, <1>7, <1>8 DEF TasksOK
<1>. QED  BY <1>1, <1>5, <1>9

LEMMA EntryFound ==
    ASSUME NEW t, NEW e \in Found(t)
    PROVE  (\E o \in Owners : e \in Range(memory[o])) \/ e \in Range(disk)
<1>1. e \in UNION {Range(memory[o]) : o \in Owners} \/ e \in Range(disk)
  BY Zenon DEF Found
<1>. QED  BY <1>1, Zenon

LEMMA ValidateTyped ==
    ASSUME TypeInv, NEW k \in Calls, Validate(k)
    PROVE  TypeInv'
<1>. USE DEF TypeInv
<1>1. StoresOK' /\ WorldOK'
  BY DEF Validate, stores, world, StoresOK, WorldOK
<1>2. /\ pc' = [pc EXCEPT ![k] = "pruning"] /\ pc[k] = "validating" /\ writer = None
      /\ UNCHANGED <<writer, req, seen>>
  BY DEF Validate, Goto
<1>3. armed[k] = None /\ grant[k] = None /\ req[k] \in Request
  BY <1>2 DEF TasksOK
<1>4. pc'[k] = "pruning"
  BY <1>2 DEF CallsOK
<1>5. CASE UNCHANGED <<armed, grant>>
  <2>1. /\ armed' = [armed EXCEPT ![k] = armed'[k]] /\ grant' = [grant EXCEPT ![k] = grant'[k]]
        /\ pc' = [pc EXCEPT ![k] = pc'[k]] /\ req' = [req EXCEPT ![k] = req'[k]]
        /\ armed'[k] = None /\ grant'[k] = None /\ req'[k] \in Request
        /\ writer' = None /\ seen' \in [Calls -> SUBSET Connectors]
    BY <1>2, <1>3, <1>4, <1>5 DEF CallsOK
  <2>2. CallsOK' /\ TasksOK'
    BY <1>4, <2>1, TaskMoves
  <2>. QED  BY <1>1, <2>2
<1>6. CASE \E e \in Valid(k) : /\ armed' = [armed EXCEPT ![k] = [app |-> req[k].app, source |-> e.source]]
                               /\ grant' = [grant EXCEPT ![k] = e.token]
  <2>1. PICK e \in Valid(k) : /\ armed' = [armed EXCEPT ![k] = [app |-> req[k].app, source |-> e.source]]
                              /\ grant' = [grant EXCEPT ![k] = e.token]
    BY <1>6
  <2>2. e \in Entry
    <3>1. e \in Found(req[k].token)
      BY DEF Valid
    <3>2. (\E o \in Owners : e \in Range(memory[o])) \/ e \in Range(disk)
      BY <3>1, EntryFound
    <3>3. disk \in Seq(Entry) /\ \A o \in Owners : memory[o] \in Seq(Entry)
      BY DEF StoresOK, Entries
    <3>. QED  BY <3>2, <3>3 DEF Range
  <2>3. [app |-> req[k].app, source |-> e.source] \in Selection /\ e.token \in Calls
    BY <1>3, <2>2 DEF Request, Selection, Entry
  <2>4. /\ armed'[k] \in Selection /\ grant'[k] \in Calls
        /\ armed' = [armed EXCEPT ![k] = armed'[k]] /\ grant' = [grant EXCEPT ![k] = grant'[k]]
    BY <2>1, <2>3 DEF CallsOK
  <2>5. /\ pc' = [pc EXCEPT ![k] = pc'[k]] /\ req' = [req EXCEPT ![k] = req'[k]]
        /\ req'[k] = req[k] /\ writer' = None /\ seen' \in [Calls -> SUBSET Connectors]
    BY <1>2, <1>4 DEF CallsOK
  <2>6. CallsOK' /\ TasksOK'
    BY <1>3, <1>4, <2>4, <2>5, TaskMoves
  <2>. QED  BY <1>1, <2>6
<1>. QED  BY <1>5, <1>6 DEF Validate

LEMMA PruneTyped ==
    ASSUME TypeInv, NEW k \in Calls, Prune(k)
    PROVE  TypeInv'
<1>. USE DEF TypeInv
<1>1. pc[k] = "pruning" /\ writer = None /\ UNCHANGED <<memory, file, durable, req, seen, armed, grant>>
  BY DEF Prune
<1>2. WorldOK'
  BY DEF Prune, world, WorldOK
<1>3. CASE /\ Goto(k, AfterPrune(k)) /\ UNCHANGED <<disk, writer>>
  <2>1. StoresOK'
    BY <1>1, <1>3 DEF StoresOK
  <2>2. /\ pc' = [pc EXCEPT ![k] = pc'[k]] /\ pc'[k] \in {"asking", "arming"}
        /\ pc'[k] = "asking" => armed[k] = None
    BY <1>3 DEF Goto, AfterPrune, CallsOK
  <2>3. CallsOK' /\ TasksOK'
    BY <1>1, <1>3, <2>2, TaskMoves DEF CallsOK, TasksOK
  <2>. QED  BY <1>2, <2>1, <2>3
<1>4. CASE /\ disk' = Retained(k) /\ writer' = [at |-> "rename", call |-> k] /\ UNCHANGED pc
  <2>1. disk' \in Entries /\ Len(disk') <= Len(disk) /\ Len(disk) \in Nat /\ Len(disk') \in Nat
    BY <1>4, Pruned DEF Retained, StoresOK, Entries
  <2>2. StoresOK'
    BY <1>1, <2>1 DEF StoresOK
  <2>3. writer' \in Writing /\ writer'.call = k
    BY <1>4 DEF Writing
  <2>4. CallsOK' /\ TasksOK'
    BY <1>1, <1>4, <2>3, TaskMoves DEF CallsOK, TasksOK
  <2>. QED  BY <1>2, <2>2, <2>4
<1>. QED  BY <1>3, <1>4 DEF Prune

LEMMA AskTyped ==
    ASSUME TypeInv, NEW k \in Calls, Ask(k)
    PROVE  TypeInv'
<1>. USE DEF TypeInv
<1>1. pc[k] = "asking" /\ StoresOK' /\ WorldOK' /\ UNCHANGED writer
  BY DEF Ask, stores, world, StoresOK, WorldOK
<1>2. armed[k] = None /\ grant[k] = None /\ req[k] \in Request /\ (writer # None => writer.call # k)
  BY <1>1 DEF TasksOK
<1>3. CASE Finish({k})
  BY <1>1, <1>2, <1>3, TasksEnd
<1>4. ASSUME NEW at \in {"arming", "issuing"}, Goto(k, at), NEW s \in Selection \cup {None},
             armed' = [armed EXCEPT ![k] = s], at = "issuing" => s \in Selection,
             UNCHANGED <<req, seen, grant>>
      PROVE  CallsOK' /\ TasksOK'
  <2>1. pc' = [pc EXCEPT ![k] = at] /\ armed' \in [Calls -> Selection \cup {None}]
    BY <1>4 DEF Goto, CallsOK
  <2>2. CallsOK'
    BY <1>1, <1>4, <2>1 DEF CallsOK
  <2>3. pc'[k] = at /\ armed'[k] = s /\ \A j \in Calls \ {k} : pc'[j] = pc[j] /\ armed'[j] = armed[j]
    BY <1>4, <2>1 DEF CallsOK
  <2>4. writer # None => writer.call \in Calls \ {k}
    BY <1>2 DEF CallsOK, Writing
  <2>5. TasksOK'
    BY <1>1, <1>2, <1>4, <2>3, <2>4 DEF TasksOK
  <2>. QED  BY <2>2, <2>5
<1>5. CASE Goto(k, "arming") /\ UNCHANGED <<req, seen, armed, grant>>
  <2>1. armed' = [armed EXCEPT ![k] = None]
    BY <1>2, <1>5 DEF CallsOK
  <2>. QED  BY <1>1, <1>4, <1>5, <2>1
<1>6. ASSUME NEW s \in Sources, armed' = [armed EXCEPT ![k] = [app |-> req[k].app, source |-> s]],
             Goto(k, "issuing"), UNCHANGED <<req, seen, grant>>
      PROVE  CallsOK' /\ TasksOK'
  <2>1. [app |-> req[k].app, source |-> s] \in Selection
    BY <1>2 DEF Request, Selection
  <2>. QED  BY <1>4, <1>6, <2>1
<1>. QED  BY <1>1, <1>3, <1>5, <1>6 DEF Ask

LEMMA IssueTyped ==
    ASSUME TypeInv, NEW k \in Calls, Issue(k)
    PROVE  TypeInv'
<1>. USE DEF TypeInv
<1>. DEFINE e == [token |-> k, app |-> armed[k].app, source |-> armed[k].source]
            o == req[k].owner
<1>1. pc[k] = "issuing" /\ writer = None /\ UNCHANGED <<file, durable, req, seen, armed>> /\ WorldOK'
  BY DEF Issue, world, WorldOK
<1>2. armed[k] \in Selection /\ req[k] \in Request
  BY <1>1 DEF TasksOK
<1>3. e \in Entry /\ o \in Owners
  BY <1>2 DEF Selection, Request, Entry
<1>. HIDE DEF e, o
<1>4. /\ armed' = [armed EXCEPT ![k] = armed'[k]] /\ req' = [req EXCEPT ![k] = req'[k]]
      /\ armed'[k] \in Selection /\ armed'[k] # None /\ req'[k] \in Request
      /\ seen' \in [Calls -> SUBSET Connectors]
  BY <1>1, <1>2 DEF CallsOK
<1>5. CASE /\ Goto(k, "arming") /\ UNCHANGED <<disk, memory, writer, grant>>
  <2>1. StoresOK'
    BY <1>1, <1>5 DEF StoresOK
  <2>2. pc' = [pc EXCEPT ![k] = pc'[k]] /\ pc'[k] = "arming"
    BY <1>5 DEF Goto, CallsOK
  <2>3. CallsOK' /\ TasksOK'
    BY <1>1, <1>4, <1>5, <2>2, TaskMoves DEF CallsOK
  <2>. QED  BY <1>1, <2>1, <2>3
<1>6. CASE /\ disk' = Push(disk, e, MaxDisk) /\ writer' = [at |-> "rename", call |-> k]
           /\ grant' = [grant EXCEPT ![k] = k] /\ UNCHANGED <<memory, pc>>
  <2>1. disk' \in Entries /\ Len(disk') <= MaxDisk
    BY <1>3, <1>6, Pushed DEF StoresOK, Entries
  <2>2. StoresOK'
    BY <1>1, <1>6, <2>1 DEF StoresOK
  <2>3. writer' \in Writing /\ writer'.call = k
    BY <1>6 DEF Writing
  <2>4. grant' = [grant EXCEPT ![k] = grant'[k]] /\ grant'[k] = k
    BY <1>6 DEF CallsOK
  <2>5. pc' = [pc EXCEPT ![k] = pc'[k]] /\ pc'[k] = "issuing"
    BY <1>1, <1>6 DEF CallsOK
  <2>6. CallsOK' /\ TasksOK'
    BY <1>4, <2>3, <2>4, <2>5, TaskMoves
  <2>. QED  BY <1>1, <2>2, <2>6
<1>7. CASE /\ memory' = [memory EXCEPT ![o] = Push(memory[o], e, MaxMemory)]
           /\ grant' = [grant EXCEPT ![k] = k] /\ Goto(k, "arming") /\ UNCHANGED <<disk, writer>>
  <2>1. Push(memory[o], e, MaxMemory) \in Entries /\ Len(Push(memory[o], e, MaxMemory)) <= MaxMemory
    BY <1>3, Pushed DEF StoresOK, Entries
  <2>2. memory' \in [Owners -> Entries]
    BY <1>3, <1>7, <2>1 DEF StoresOK
  <2>3. \A p \in Owners : Len(memory'[p]) <= MaxMemory
    BY <1>3, <1>7, <2>1 DEF StoresOK
  <2>4. StoresOK'
    BY <1>1, <1>7, <2>2, <2>3 DEF StoresOK
  <2>5. /\ grant' = [grant EXCEPT ![k] = grant'[k]] /\ grant'[k] = k
        /\ pc' = [pc EXCEPT ![k] = pc'[k]] /\ pc'[k] = "arming" /\ writer' = None
    BY <1>1, <1>7 DEF CallsOK, Goto
  <2>6. CallsOK' /\ TasksOK'
    BY <1>4, <2>5, TaskMoves
  <2>. QED  BY <1>1, <2>4, <2>6
<1>. QED  BY <1>5, <1>6, <1>7 DEF Issue, e, o

LEMMA WriteTyped ==
    ASSUME TypeInv, Write
    PROVE  TypeInv'
<1>. USE DEF TypeInv
<1>1. writer \in Writing /\ UNCHANGED <<disk, memory, req, seen, armed, grant>> /\ WorldOK'
  <2>1. writer # None /\ UNCHANGED <<disk, memory, req, seen, armed, grant, world>>
    BY DEF Write, WriteFails, Rename, SyncDir, stores, calls
  <2>. QED  BY <2>1 DEF world, CallsOK, WorldOK
<1>2. StoresOK'
  BY DEF Write, WriteFails, Rename, SyncDir, stores, StoresOK
<1>3. CASE Rename
  <2>1. writer' \in Writing /\ writer'.call = writer.call /\ UNCHANGED pc
    BY <1>1, <1>3 DEF Rename, Writing, calls
  <2>2. writer' # None /\ writer # None
    BY <1>1, <2>1
  <2>3. CallsOK'
    BY <1>1, <2>1 DEF CallsOK
  <2>4. TasksOK'
    BY <1>1, <2>1, <2>2 DEF TasksOK
  <2>. QED  BY <1>1, <1>2, <2>3, <2>4
<1>4. CASE Written(writer.call)
  <2>1. writer.call \in Calls /\ writer' = None
    BY <1>1, <1>4 DEF Writing, Written
  <2>2. pc' = [pc EXCEPT ![writer.call] = pc'[writer.call]]
    BY <1>4, <2>1 DEF Written, Goto, CallsOK
  <2>3. /\ pc'[writer.call] \in {"asking", "arming"}
        /\ pc'[writer.call] = "asking" => armed[writer.call] = None
    BY <1>4, <2>1 DEF Written, Goto, AfterPrune, CallsOK
  <2>4. pc[writer.call] \in {"pruning", "issuing"}
    BY <1>1 DEF TasksOK
  <2>5. req[writer.call] \in Request /\ (armed[writer.call] = None => grant[writer.call] = None)
    BY <2>1, <2>4 DEF TasksOK
  <2>6. CallsOK' /\ TasksOK'
    BY <1>1, <2>1, <2>2, <2>3, <2>5, TaskMoves DEF CallsOK
  <2>. QED  BY <1>1, <1>2, <2>6
<1>. QED  BY <1>3, <1>4 DEF Write, WriteFails, SyncDir

LEMMA EnvironmentTyped ==
    ASSUME TypeInv, Environment
    PROVE  TypeInv'
<1>. USE DEF TypeInv
<1>1. ASSUME NEW o \in Owners, OwnerLeaves(o)
      PROVE  TypeInv'
  BY <1>1 DEF OwnerLeaves, stores, calls, StoresOK, CallsOK, WorldOK, TasksOK
<1>2. <<>> \in Entries /\ Len(<<>>) = 0
  BY DEF Entries
<1>3. ASSUME NEW o \in Owners, DropOwner(o)
      PROVE  TypeInv'
  <2>1. memory' = [memory EXCEPT ![o] = <<>>] /\ UNCHANGED <<disk, file, durable>>
    BY <1>3 DEF DropOwner
  <2>2. StoresOK'
    BY <1>2, <2>1 DEF StoresOK
  <2>3. CallsOK' /\ TasksOK' /\ WorldOK'
    BY <1>3 DEF DropOwner, calls, CallsOK, TasksOK, WorldOK
  <2>. QED  BY <2>2, <2>3
<1>4. CASE Flush
  BY <1>4 DEF Flush, calls, world, StoresOK, CallsOK, WorldOK, TasksOK
<1>5. ASSUME NEW powerLoss \in BOOLEAN, NEW readable \in BOOLEAN, Restart(powerLoss, readable)
      PROVE  TypeInv'
  <2>1. /\ file' \in {durable, file} /\ disk' \in {file', <<>>} /\ UNCHANGED durable
        /\ memory' = [o \in Owners |-> <<>>]
    BY <1>5 DEF Restart
  <2>2. StoresOK'
    BY <1>2, <2>1 DEF StoresOK
  <2>3. WorldOK'
    BY <1>5 DEF Restart, WorldOK
  <2>4. CallsOK' /\ TasksOK'
    BY <1>5, TasksEnd DEF Restart
  <2>. QED  BY <2>2, <2>3, <2>4
<1>. QED  BY <1>1, <1>3, <1>4, <1>5 DEF Environment

LEMMA NextTypeInv == TypeInv /\ [Next]_vars => TypeInv'
<1>. SUFFICES ASSUME TypeInv, [Next]_vars PROVE TypeInv'
  OBVIOUS
<1>1. CASE UNCHANGED vars
  BY <1>1 DEF vars, stores, calls, world, TypeInv, StoresOK, CallsOK, WorldOK, TasksOK
<1>2. ASSUME NEW k \in Calls, Arm(k)
      PROVE  TypeInv'
  <2>1. pc[k] = "arming" /\ Finish({k}) /\ UNCHANGED writer /\ StoresOK' /\ WorldOK'
    BY <1>2 DEF Arm, stores, world, TypeInv, StoresOK, WorldOK
  <2>2. writer # None => writer.call # k
    BY <2>1 DEF TypeInv, TasksOK
  <2>. QED  BY <2>1, <2>2, TasksEnd DEF TypeInv
<1>3. ASSUME NEW k \in Calls, Task(k)
      PROVE  TypeInv'
  BY <1>2, <1>3, BeginTyped, ValidateTyped, PruneTyped, AskTyped, IssueTyped DEF Task
<1>. QED  BY <1>1, <1>3, WriteTyped, EnvironmentTyped DEF Next

THEOREM TypeInvCorrect == Spec => []TypeInv
  BY InitTypeInv, NextTypeInv, PTL DEF Spec

(* Every variable keeps its type; in particular no list is longer than its *)
(* bound, on disk and after a reload too (persist.rs:114, 126).            *)
THEOREM TypeCorrect == Spec => []TypeOK
  BY TypeInvCorrect, InvTyped, PTL

-----------------------------------------------------------------------------
(* Every token kept anywhere was issued, once, by a call that has come     *)
(* that far, and the lists on disk are in the order of issuance.           *)

ByIssuers ==
    /\ \A k \in Range(issued) :
          /\ pc[k] \in {"issuing", "arming", "done"}
          /\ pc[k] = "issuing" => writer # None /\ writer.call = k
    /\ \A k \in Calls : grant[k] # None => grant[k] \in Range(issued)

Listed ==
    /\ Ordered(disk, issued) /\ Ordered(file, issued) /\ Ordered(durable, issued)
    /\ \A o \in Owners : Tokens(memory[o]) \subseteq Range(issued)

IssuedOK == issued \in Seq(Calls) /\ Distinct(issued) /\ ByIssuers /\ Listed

LEMMA InitIssued == Init => IssuedOK
<1>. SUFFICES ASSUME Init PROVE IssuedOK
  OBVIOUS
<1>1. issued = <<>> /\ \A k \in Calls : grant[k] = None
  BY DEF Init
<1>2. issued \in Seq(Calls) /\ Distinct(issued) /\ Range(issued) = {}
  BY <1>1, NothingListed DEF Distinct
<1>3. Listed
  <2>1. Ordered(disk, issued) /\ Ordered(file, issued) /\ Ordered(durable, issued)
    BY NothingOrdered DEF Init
  <2>2. \A o \in Owners : memory[o] = <<>>
    BY DEF Init
  <2>. QED  BY <2>1, <2>2, NothingListed DEF Listed
<1>. QED  BY <1>1, <1>2, <1>3 DEF IssuedOK, ByIssuers

(* A call that is not one of them is about to issue or has not come to it. *)
LEMMA NotYet ==
    ASSUME TypeInv, IssuedOK, NEW k \in Calls,
           \/ pc[k] \in {"idle", "validating", "pruning", "asking"}
           \/ pc[k] = "issuing" /\ writer = None
    PROVE  k \notin Range(issued)
  BY DEF IssuedOK, ByIssuers

(* Where nothing is issued: the calls. *)
LEMMA SameIssuers ==
    ASSUME TypeInv, IssuedOK, issued' = issued,
           \A k \in Range(issued) :
               \/ pc'[k] \in {"arming", "done"}
               \/ pc'[k] = pc[k] /\ (pc[k] = "issuing" => writer' # None /\ writer'.call = k),
           \A k \in Calls : grant'[k] \in {grant[k], None} \/ grant'[k] \in Range(issued)
    PROVE  ByIssuers'
<1>1. ASSUME NEW k \in Range(issued)
      PROVE  /\ pc'[k] \in {"issuing", "arming", "done"}
             /\ pc'[k] = "issuing" => writer' # None /\ writer'.call = k
  BY DEF IssuedOK, ByIssuers
<1>2. \A k \in Calls : grant'[k] # None => grant'[k] \in Range(issued)
  BY DEF IssuedOK, ByIssuers
<1>3. Range(issued') = Range(issued)
  OBVIOUS
<1>. QED  BY <1>1, <1>2, <1>3 DEF ByIssuers

(* And the lists. *)
LEMMA SameLists ==
    ASSUME IssuedOK, issued' = issued,
           disk' \in {disk, file, durable, <<>>}, file' \in {disk, file, durable},
           durable' \in {file, durable},
           \A o \in Owners : memory'[o] \in {memory[o], <<>>}
    PROVE  Listed'
<1>1. \A s \in {disk, file, durable, <<>>} : Ordered(s, issued)
  BY NothingOrdered DEF IssuedOK, Listed
<1>2. Ordered(disk', issued') /\ Ordered(file', issued') /\ Ordered(durable', issued')
  BY <1>1
<1>3. Tokens(<<>>) = {}
  BY NothingListed
<1>4. \A o \in Owners : Tokens(memory'[o]) \subseteq Range(issued')
  BY <1>3 DEF IssuedOK, Listed
<1>. QED  BY <1>2, <1>4 DEF Listed

LEMMA TaskIssued ==
    ASSUME TypeInv, IssuedOK, NEW k \in Calls,
           \/ \E r \in Request, list \in SUBSET Connectors : Begin(k, r, list)
           \/ Validate(k) \/ Ask(k) \/ Arm(k)
    PROVE  IssuedOK'
<1>1. UNCHANGED <<stores, writer, issued>>
  BY DEF Begin, Validate, Ask, Arm, ghosts
<1>2. Listed'
  BY <1>1, SameLists DEF stores
<1>3. pc[k] = "arming" \/ pc[k] \in {"idle", "validating", "asking"}
  BY DEF Begin, Validate, Ask, Arm
<1>4. \A j \in Calls \ {k} : pc'[j] = pc[j] /\ grant'[j] \in {grant[j], None}
  BY DEF Begin, Validate, Ask, Arm, Goto, Finish, TypeInv, CallsOK
<1>5. pc[k] = "arming" => pc'[k] = "done"
  BY DEF Begin, Validate, Ask, Arm, Finish
<1>6. grant'[k] \in {grant[k], None} \/ grant'[k] \in Range(issued)
  <2>1. CASE Validate(k)
    <3>1. CASE UNCHANGED <<armed, grant>>
      BY <3>1
    <3>2. CASE ~UNCHANGED <<armed, grant>>
      <4>1. PICK e \in Valid(k) : grant' = [grant EXCEPT ![k] = e.token]
        BY <2>1, <3>2 DEF Validate
      <4>2. e \in Found(req[k].token)
        BY DEF Valid
      <4>3. e.token \in Tokens(disk) \/ \E o \in Owners : e.token \in Tokens(memory[o])
        BY <4>2, EntryFound DEF Tokens
      <4>4. e.token \in Range(issued)
        BY <4>3 DEF IssuedOK, Listed, Ordered
      <4>. QED  BY <4>1, <4>4 DEF TypeInv, CallsOK
    <3>. QED  BY <3>1, <3>2
  <2>2. CASE ~Validate(k)
    BY <2>2 DEF Begin, Ask, Arm, Finish
  <2>. QED  BY <2>1, <2>2
<1>7. \A j \in Range(issued) : j \in Calls
  BY DEF IssuedOK, Range
<1>8. pc[k] # "arming" => k \notin Range(issued)
  BY <1>3, NotYet
<1>9. \A j \in Range(issued) :
          \/ pc'[j] \in {"arming", "done"}
          \/ pc'[j] = pc[j] /\ (pc[j] = "issuing" => writer' # None /\ writer'.call = j)
  BY <1>1, <1>4, <1>5, <1>7, <1>8 DEF IssuedOK, ByIssuers
<1>10. ByIssuers'
  BY <1>1, <1>4, <1>6, <1>9, SameIssuers
<1>. QED  BY <1>1, <1>2, <1>10 DEF IssuedOK

LEMMA PruneIssued ==
    ASSUME TypeInv, IssuedOK, NEW k \in Calls, Prune(k)
    PROVE  IssuedOK'
<1>1. /\ pc[k] = "pruning" /\ writer = None
      /\ UNCHANGED <<memory, file, durable, grant, issued>>
  BY DEF Prune
<1>2. k \notin Range(issued)
  BY <1>1, NotYet
<1>3. \A j \in Calls \ {k} : pc'[j] = pc[j]
  BY DEF Prune, Goto, TypeInv, CallsOK
<1>4. \A j \in Range(issued) : j \in Calls \ {k} /\ pc[j] # "issuing"
  BY <1>1, <1>2 DEF IssuedOK, ByIssuers, Range
<1>5. ByIssuers'
  BY <1>1, <1>3, <1>4, SameIssuers
<1>6. disk' = disk \/ disk' = Retained(k)
  BY DEF Prune
<1>7. Ordered(disk', issued)
  BY <1>6, Pruned DEF Retained, TypeInv, StoresOK, Entries, IssuedOK, Listed
<1>8. Listed'
  BY <1>1, <1>7 DEF IssuedOK, Listed
<1>. QED  BY <1>1, <1>5, <1>8 DEF IssuedOK

LEMMA IssueIssued ==
    ASSUME TypeInv, IssuedOK, NEW k \in Calls, Issue(k)
    PROVE  IssuedOK'
<1>. DEFINE e == [token |-> k, app |-> armed[k].app, source |-> armed[k].source]
            o == req[k].owner
<1>1. pc[k] = "issuing" /\ writer = None /\ UNCHANGED <<file, durable>>
  BY DEF Issue
<1>2. k \notin Range(issued)
  BY <1>1, NotYet
<1>3. e \in Entry /\ e.token = k /\ o \in Owners
  BY <1>1 DEF TypeInv, TasksOK, Selection, Request, Entry
<1>. HIDE DEF e, o
<1>4. \A j \in Range(issued) : j \in Calls \ {k} /\ pc[j] # "issuing"
  BY <1>1, <1>2 DEF IssuedOK, ByIssuers, Range
<1>5. CASE Goto(k, "arming") /\ UNCHANGED <<disk, memory, writer, grant, issued>>
  <2>1. \A j \in Calls \ {k} : pc'[j] = pc[j]
    BY <1>5 DEF Goto, TypeInv, CallsOK
  <2>2. ByIssuers'
    BY <1>4, <1>5, <2>1, SameIssuers
  <2>3. Listed'
    BY <1>1, <1>5, SameLists
  <2>. QED  BY <1>5, <2>2, <2>3 DEF IssuedOK
<1>6. ASSUME issued' = Append(issued, k), grant' = [grant EXCEPT ![k] = k],
             \A j \in Calls \ {k} : pc'[j] = pc[j],
             \/ pc'[k] = "arming"
             \/ pc'[k] = "issuing" /\ writer' # None /\ writer'.call = k
      PROVE  /\ issued' \in Seq(Calls) /\ Distinct(issued') /\ ByIssuers'
             /\ Range(issued') = Range(issued) \cup {k}
             /\ \A s : Ordered(s, issued) => Ordered(s, issued')
  <2>1. /\ issued' \in Seq(Calls) /\ Distinct(issued')
        /\ Range(issued') = Range(issued) \cup {k}
        /\ \A t, u : Before(issued, t, u) => Before(issued', t, u)
    BY <1>2, <1>6, Issuance DEF IssuedOK
  <2>2. \A s : Ordered(s, issued) => Ordered(s, issued')
    BY <2>1, OrderedLater
  <2>3. ASSUME NEW j \in Range(issued')
        PROVE  /\ pc'[j] \in {"issuing", "arming", "done"}
               /\ pc'[j] = "issuing" => writer' # None /\ writer'.call = j
    <3>1. CASE j = k
      BY <1>6, <3>1
    <3>2. CASE j # k
      <4>1. j \in Range(issued) /\ pc'[j] = pc[j] /\ pc[j] # "issuing"
        BY <1>4, <1>6, <2>1, <3>2
      <4>. QED  BY <4>1 DEF IssuedOK, ByIssuers
    <3>. QED  BY <3>1, <3>2
  <2>4. \A j \in Calls : grant'[j] # None => grant'[j] \in Range(issued')
    <3>1. \A j \in Calls : grant'[j] = IF j = k THEN k ELSE grant[j]
      BY <1>6 DEF TypeInv, CallsOK
    <3>. QED  BY <2>1, <3>1 DEF IssuedOK, ByIssuers
  <2>5. ByIssuers'
    BY <2>3, <2>4 DEF ByIssuers
  <2>. QED  BY <2>1, <2>2, <2>5
<1>7. CASE /\ disk' = Push(disk, e, MaxDisk) /\ writer' = [at |-> "rename", call |-> k]
           /\ grant' = [grant EXCEPT ![k] = k] /\ issued' = Append(issued, k)
           /\ UNCHANGED <<memory, pc>>
  <2>1. writer' \in Writing /\ writer'.call = k
    BY <1>7 DEF Writing
  <2>2. writer' # None
    BY <2>1
  <2>3. Ordered(disk', issued')
    BY <1>2, <1>3, <1>7, PushedInOrder DEF TypeInv, StoresOK, Entries, IssuedOK, Listed
  <2>4. /\ issued' \in Seq(Calls) /\ Distinct(issued') /\ ByIssuers'
        /\ Range(issued') = Range(issued) \cup {k}
        /\ \A s : Ordered(s, issued) => Ordered(s, issued')
    BY <1>1, <1>6, <1>7, <2>1, <2>2
  <2>5. Listed'
    BY <1>1, <1>7, <2>3, <2>4 DEF IssuedOK, Listed
  <2>. QED  BY <2>4, <2>5 DEF IssuedOK
<1>8. CASE /\ memory' = [memory EXCEPT ![o] = Push(memory[o], e, MaxMemory)]
           /\ grant' = [grant EXCEPT ![k] = k] /\ issued' = Append(issued, k)
           /\ Goto(k, "arming") /\ UNCHANGED <<disk, writer>>
  <2>1. pc'[k] = "arming" /\ \A j \in Calls \ {k} : pc'[j] = pc[j]
    BY <1>8 DEF Goto, TypeInv, CallsOK
  <2>2. /\ issued' \in Seq(Calls) /\ Distinct(issued') /\ ByIssuers'
        /\ Range(issued') = Range(issued) \cup {k}
        /\ \A s : Ordered(s, issued) => Ordered(s, issued')
    <3>1. issued' = Append(issued, k) /\ grant' = [grant EXCEPT ![k] = k]
      BY <1>8
    <3>2. \/ pc'[k] = "arming"
          \/ pc'[k] = "issuing" /\ writer' # None /\ writer'.call = k
      BY <2>1
    <3>. QED  BY <1>6, <2>1, <3>1, <3>2
  <2>3. Tokens(Push(memory[o], e, MaxMemory)) \subseteq Tokens(memory[o]) \cup {k}
    BY <1>3, Pushed DEF TypeInv, StoresOK, Entries
  <2>4. \A p \in Owners : memory'[p] = IF p = o THEN Push(memory[o], e, MaxMemory) ELSE memory[p]
    BY <1>8 DEF TypeInv, StoresOK
  <2>5. \A p \in Owners : Tokens(memory'[p]) \subseteq Range(issued')
    BY <1>3, <2>2, <2>3, <2>4 DEF IssuedOK, Listed
  <2>6. Listed'
    BY <1>1, <1>8, <2>2, <2>5 DEF IssuedOK, Listed
  <2>. QED  BY <2>2, <2>6 DEF IssuedOK
<1>. QED  BY <1>5, <1>7, <1>8 DEF Issue, e, o

LEMMA WriteIssued ==
    ASSUME TypeInv, IssuedOK, Write
    PROVE  IssuedOK'
<1>1. writer \in Writing /\ writer # None /\ UNCHANGED <<disk, memory, grant, issued>>
  <2>1. writer # None /\ UNCHANGED <<disk, memory, grant, issued>>
    BY DEF Write, WriteFails, Rename, SyncDir, stores, calls, ghosts
  <2>. QED  BY <2>1 DEF TypeInv, CallsOK
<1>2. Listed'
  <2>1. file' \in {disk, file} /\ durable' \in {file, durable}
    BY DEF Write, WriteFails, Rename, SyncDir, stores
  <2>. QED  BY <1>1, <2>1, SameLists
<1>3. CASE Rename
  <2>1. writer' \in Writing /\ writer'.call = writer.call /\ UNCHANGED pc
    BY <1>1, <1>3 DEF Rename, Writing, calls
  <2>2. writer' # None
    BY <2>1
  <2>3. ByIssuers'
    BY <1>1, <2>1, <2>2 DEF IssuedOK, ByIssuers
  <2>. QED  BY <1>1, <1>2, <2>3 DEF IssuedOK
<1>4. CASE Written(writer.call)
  <2>1. writer.call \in Calls
    BY <1>1 DEF Writing
  <2>2. \A j \in Calls \ {writer.call} : pc'[j] = pc[j]
    BY <1>4, <2>1 DEF Written, Goto, TypeInv, CallsOK
  <2>3. pc[writer.call] = "issuing" => pc'[writer.call] = "arming"
    BY <1>4, <2>1 DEF Written, Goto, TypeInv, CallsOK
  <2>4. pc[writer.call] = "pruning" => writer.call \notin Range(issued)
    BY <2>1, NotYet
  <2>5. pc[writer.call] \in {"pruning", "issuing"}
    BY <1>1 DEF TypeInv, TasksOK
  <2>6. \A j \in Range(issued) : j \in Calls /\ (pc[j] = "issuing" => writer.call = j)
    BY DEF IssuedOK, ByIssuers, Range
  <2>7. ByIssuers'
    BY <1>1, <2>2, <2>3, <2>4, <2>5, <2>6, SameIssuers
  <2>. QED  BY <1>1, <1>2, <2>7 DEF IssuedOK
<1>. QED  BY <1>3, <1>4 DEF Write, WriteFails, SyncDir

LEMMA EnvironmentIssued ==
    ASSUME TypeInv, IssuedOK, Environment
    PROVE  IssuedOK'
<1>1. issued' = issued
  BY DEF Environment, OwnerLeaves, DropOwner, Flush, Restart, ghosts
<1>2. /\ file' \in {file, durable} /\ durable' \in {file, durable}
      /\ disk' \in {disk, file, durable, <<>>}
  BY DEF Environment, OwnerLeaves, DropOwner, Flush, Restart, stores
<1>3. \A o \in Owners : memory'[o] \in {memory[o], <<>>}
  <2>1. memory' = memory \/ memory' = [o \in Owners |-> <<>>]
            \/ \E p \in Owners : memory' = [memory EXCEPT ![p] = <<>>]
    BY DEF Environment, OwnerLeaves, DropOwner, Flush, Restart, stores
  <2>. QED  BY <2>1 DEF TypeInv, StoresOK
<1>4. Listed'
  BY <1>1, <1>2, <1>3, SameLists
<1>5. CASE UNCHANGED <<pc, writer, grant>>
  BY <1>1, <1>4, <1>5 DEF IssuedOK, ByIssuers
<1>6. ASSUME NEW powerLoss \in BOOLEAN, NEW readable \in BOOLEAN, Restart(powerLoss, readable)
      PROVE  IssuedOK'
  <2>1. \A k \in Range(issued) : k \in Calls /\ pc[k] # "idle"
    BY DEF IssuedOK, ByIssuers, Range
  <2>2. \A k \in Range(issued) : pc'[k] = "done"
    BY <1>6, <2>1 DEF Restart, Finish
  <2>3. \A k \in Calls : grant'[k] \in {grant[k], None}
    BY <1>6 DEF Restart, Finish
  <2>4. ByIssuers'
    BY <1>1, <2>2, <2>3, SameIssuers
  <2>. QED  BY <1>1, <1>4, <2>4 DEF IssuedOK
<1>. QED  BY <1>5, <1>6 DEF Environment, OwnerLeaves, DropOwner, Flush, calls

LEMMA NextIssued == TypeInv /\ IssuedOK /\ [Next]_vars => IssuedOK'
<1>. SUFFICES ASSUME TypeInv, IssuedOK, [Next]_vars PROVE IssuedOK'
  OBVIOUS
<1>1. CASE UNCHANGED vars
  BY <1>1 DEF vars, stores, calls, ghosts, IssuedOK, ByIssuers, Listed
<1>2. ASSUME NEW k \in Calls, Task(k)
      PROVE  IssuedOK'
  BY <1>2, TaskIssued, PruneIssued, IssueIssued DEF Task
<1>. QED  BY <1>1, <1>2, WriteIssued, EnvironmentIssued DEF Next

THEOREM IssuedCorrect == Spec => []IssuedOK
  BY InitIssued, NextIssued, TypeInvCorrect, PTL DEF Spec

-----------------------------------------------------------------------------
(* What is remembered is what was agreed to, wherever it is kept.          *)

ListsAgreed ==
    /\ Agreed(disk, consent) /\ Agreed(file, consent) /\ Agreed(durable, consent)
    /\ \A o \in Owners : Agreed(memory[o], consent)

TasksAgreed ==
    /\ \A k \in Calls : pc[k] = "issuing" => consent[k] = armed[k]
    /\ RestoredAsConsented

ConsentOK == consent \in [Calls -> Selection \cup {None}] /\ ListsAgreed /\ TasksAgreed

LEMMA InitAgreed == Init => ConsentOK
<1>. SUFFICES ASSUME Init PROVE ConsentOK
  OBVIOUS
<1>1. consent \in [Calls -> Selection \cup {None}]
  BY DEF Init
<1>2. disk = <<>> /\ file = <<>> /\ durable = <<>> /\ \A o \in Owners : memory[o] = <<>>
  BY DEF Init
<1>3. ListsAgreed
  BY <1>2, NothingOrdered DEF ListsAgreed
<1>4. TasksAgreed
  BY DEF Init, TasksAgreed, RestoredAsConsented
<1>. QED  BY <1>1, <1>3, <1>4 DEF ConsentOK

(* A consent to a token not yet issued disturbs no list. *)
LEMMA ListsStillAgreed ==
    ASSUME IssuedOK, ConsentOK, \A t \in Range(issued) : consent'[t] = consent[t],
           disk' \in {disk, file, durable, <<>>}, file' \in {disk, file, durable},
           durable' \in {file, durable},
           \A o \in Owners : memory'[o] \in {memory[o], <<>>}
    PROVE  ListsAgreed'
<1>1. ASSUME NEW s, Agreed(s, consent), Tokens(s) \subseteq Range(issued)
      PROVE  Agreed(s, consent')
  BY <1>1 DEF Agreed, Tokens
<1>2. Agreed(<<>>, consent')
  BY NothingOrdered
<1>3. \A s \in {disk, file, durable, <<>>} : Agreed(s, consent')
  BY <1>1, <1>2 DEF ConsentOK, ListsAgreed, IssuedOK, Listed, Ordered
<1>4. Agreed(disk', consent') /\ Agreed(file', consent') /\ Agreed(durable', consent')
  BY <1>3
<1>5. \A o \in Owners : Agreed(memory'[o], consent')
  BY <1>1, <1>2 DEF ConsentOK, ListsAgreed, IssuedOK, Listed
<1>. QED  BY <1>4, <1>5 DEF ListsAgreed

(* Tasks that go on with what they have, or end. *)
LEMMA TasksStillAgreed ==
    ASSUME ConsentOK, UNCHANGED consent,
           \A k \in Calls : \/ armed'[k] = None /\ pc'[k] # "issuing"
                            \/ /\ armed'[k] = armed[k] /\ grant'[k] = grant[k]
                               /\ req'[k] = req[k]
                               /\ pc'[k] = "issuing" => pc[k] = "issuing"
    PROVE  TasksAgreed'
<1>1. \A k \in Calls : pc'[k] = "issuing" => consent'[k] = armed'[k]
  BY DEF ConsentOK, TasksAgreed
<1>2. RestoredAsConsented'
  BY DEF ConsentOK, TasksAgreed, RestoredAsConsented
<1>. QED  BY <1>1, <1>2 DEF TasksAgreed

LEMMA BeginAgreed ==
    ASSUME TypeInv, IssuedOK, ConsentOK, NEW k \in Calls, NEW r \in Request,
           NEW list \in SUBSET Connectors, Begin(k, r, list)
    PROVE  ConsentOK'
<1>1. UNCHANGED <<stores, consent, armed, grant>> /\ pc[k] = "idle" /\ pc'[k] # "issuing"
  BY DEF Begin, ghosts, Goto, TypeInv, CallsOK
<1>2. \A j \in Calls \ {k} : pc'[j] = pc[j] /\ req'[j] = req[j]
  BY DEF Begin, Goto, TypeInv, CallsOK
<1>3. armed[k] = None
  BY <1>1 DEF TypeInv, TasksOK
<1>4. TasksAgreed'
  BY <1>1, <1>2, <1>3, TasksStillAgreed
<1>5. ListsAgreed'
  BY <1>1, ListsStillAgreed DEF stores
<1>. QED  BY <1>1, <1>4, <1>5 DEF ConsentOK

LEMMA ValidateAgreed ==
    ASSUME TypeInv, IssuedOK, ConsentOK, NEW k \in Calls, Validate(k)
    PROVE  ConsentOK'
<1>1. UNCHANGED <<stores, consent, req>> /\ pc[k] = "validating" /\ pc' = [pc EXCEPT ![k] = "pruning"]
  BY DEF Validate, ghosts, Goto
<1>2. \A j \in Calls : pc'[j] = "issuing" => j # k /\ pc[j] = "issuing"
  BY <1>1 DEF TypeInv, CallsOK
<1>3. ListsAgreed'
  BY <1>1, ListsStillAgreed DEF stores
<1>4. CASE UNCHANGED <<armed, grant>>
  <2>1. TasksAgreed'
    BY <1>1, <1>2, <1>4, TasksStillAgreed
  <2>. QED  BY <1>1, <1>3, <2>1 DEF ConsentOK
<1>5. CASE \E e \in Valid(k) : /\ armed' = [armed EXCEPT ![k] = [app |-> req[k].app, source |-> e.source]]
                               /\ grant' = [grant EXCEPT ![k] = e.token]
  <2>1. PICK e \in Valid(k) : /\ armed' = [armed EXCEPT ![k] = [app |-> req[k].app, source |-> e.source]]
                              /\ grant' = [grant EXCEPT ![k] = e.token]
    BY <1>5
  <2>2. e \in Found(req[k].token) /\ e.app = req[k].app
    BY DEF Valid
  <2>3. (\E o \in Owners : e \in Range(memory[o])) \/ e \in Range(disk)
    BY <2>2, EntryFound
  <2>4. consent[e.token] = [app |-> e.app, source |-> e.source]
    BY <2>3 DEF ConsentOK, ListsAgreed, Agreed
  <2>5. /\ armed'[k] = [app |-> req[k].app, source |-> e.source] /\ grant'[k] = e.token
        /\ \A j \in Calls \ {k} : armed'[j] = armed[j] /\ grant'[j] = grant[j]
    BY <2>1 DEF TypeInv, CallsOK
  <2>6. consent'[grant'[k]] = armed'[k] /\ armed'[k].app = req'[k].app
    BY <1>1, <2>2, <2>4, <2>5
  <2>7. RestoredAsConsented'
    <3>1. ASSUME NEW j \in Calls, armed'[j] # None
          PROVE  /\ grant'[j] # None => consent'[grant'[j]] = armed'[j]
                 /\ armed'[j].app = req'[j].app
      <4>1. CASE j = k
        BY <2>6, <4>1
      <4>2. CASE j # k
        BY <1>1, <2>5, <3>1, <4>2 DEF ConsentOK, TasksAgreed, RestoredAsConsented
      <4>. QED  BY <4>1, <4>2
    <3>. QED  BY <3>1 DEF RestoredAsConsented
  <2>8. \A j \in Calls : pc'[j] = "issuing" => consent'[j] = armed'[j]
    BY <1>1, <1>2, <2>5 DEF ConsentOK, TasksAgreed
  <2>. QED  BY <1>1, <1>3, <2>7, <2>8 DEF ConsentOK, TasksAgreed
<1>. QED  BY <1>4, <1>5 DEF Validate

LEMMA PruneAgreed ==
    ASSUME TypeInv, IssuedOK, ConsentOK, NEW k \in Calls, Prune(k)
    PROVE  ConsentOK'
<1>1. UNCHANGED <<memory, file, durable, consent, armed, grant, req>> /\ pc[k] = "pruning"
  BY DEF Prune
<1>2. \A j \in Calls : pc'[j] = "issuing" => pc[j] = "issuing"
  BY <1>1 DEF Prune, Goto, AfterPrune, TypeInv, CallsOK
<1>3. TasksAgreed'
  BY <1>1, <1>2, TasksStillAgreed
<1>4. disk' = disk \/ disk' = Retained(k)
  BY DEF Prune
<1>5. Range(disk') \subseteq Range(disk)
  BY <1>4, Pruned DEF Retained, TypeInv, StoresOK, Entries
<1>6. Agreed(disk', consent)
  BY <1>5 DEF Agreed, ConsentOK, ListsAgreed
<1>7. ListsAgreed'
  BY <1>1, <1>6 DEF ConsentOK, ListsAgreed
<1>. QED  BY <1>1, <1>3, <1>7 DEF ConsentOK

LEMMA AskAgreed ==
    ASSUME TypeInv, IssuedOK, ConsentOK, NEW k \in Calls, Ask(k)
    PROVE  ConsentOK'
<1>1. UNCHANGED <<stores, issued>> /\ pc[k] = "asking"
  BY DEF Ask
<1>2. armed[k] = None /\ grant[k] = None /\ k \notin Range(issued) /\ req[k] \in Request
  BY <1>1, NotYet DEF TypeInv, TasksOK
<1>3. CASE Finish({k}) /\ UNCHANGED consent
  <2>1. TasksAgreed'
    BY <1>3, TasksStillAgreed DEF Finish
  <2>2. ListsAgreed'
    BY <1>1, <1>3, ListsStillAgreed DEF stores
  <2>. QED  BY <1>3, <2>1, <2>2 DEF ConsentOK
<1>4. CASE Goto(k, "arming") /\ UNCHANGED <<req, seen, armed, grant, consent>>
  <2>1. \A j \in Calls : pc'[j] = "issuing" => pc[j] = "issuing"
    BY <1>4 DEF Goto, TypeInv, CallsOK
  <2>2. TasksAgreed'
    BY <1>4, <2>1, TasksStillAgreed
  <2>3. ListsAgreed'
    BY <1>1, <1>4, ListsStillAgreed DEF stores
  <2>. QED  BY <1>4, <2>2, <2>3 DEF ConsentOK
<1>5. ASSUME NEW s \in Sources, armed' = [armed EXCEPT ![k] = [app |-> req[k].app, source |-> s]],
             consent' = [consent EXCEPT ![k] = [app |-> req[k].app, source |-> s]],
             Goto(k, "issuing"), UNCHANGED <<req, grant>>
      PROVE  ConsentOK'
  <2>. DEFINE x == [app |-> req[k].app, source |-> s]
  <2>1. x \in Selection /\ x.app = req[k].app
    BY <1>2 DEF Selection, Request
  <2>2. armed' = [armed EXCEPT ![k] = x] /\ consent' = [consent EXCEPT ![k] = x]
    BY <1>5
  <2>. HIDE DEF x
  <2>3. consent' \in [Calls -> Selection \cup {None}]
    BY <2>1, <2>2 DEF ConsentOK
  <2>4. armed'[k] = x /\ consent'[k] = x /\ grant'[k] = None
    BY <1>2, <1>5, <2>2 DEF ConsentOK, TypeInv, CallsOK
  <2>5. \A j \in Calls \ {k} : armed'[j] = armed[j] /\ consent'[j] = consent[j] /\ pc'[j] = pc[j]
    BY <1>5, <2>2 DEF Goto, ConsentOK, TypeInv, CallsOK
  <2>6. \A t \in Range(issued) : t \in Calls \ {k}
    BY <1>2 DEF IssuedOK, Range
  <2>7. ListsAgreed'
    BY <1>1, <2>5, <2>6, ListsStillAgreed DEF stores
  <2>8. \A j \in Calls : pc'[j] = "issuing" => consent'[j] = armed'[j]
    BY <2>4, <2>5 DEF ConsentOK, TasksAgreed
  <2>9. RestoredAsConsented'
    <3>1. ASSUME NEW j \in Calls, armed'[j] # None
          PROVE  /\ grant'[j] # None => consent'[grant'[j]] = armed'[j]
                 /\ armed'[j].app = req'[j].app
      <4>1. CASE j = k
        BY <1>5, <2>1, <2>4, <4>1
      <4>2. CASE j # k
        <5>1. armed[j] # None /\ armed'[j] = armed[j] /\ grant'[j] = grant[j] /\ req'[j] = req[j]
          BY <1>5, <2>5, <3>1, <4>2
        <5>2. grant[j] # None => grant[j] \in Calls \ {k}
          BY <2>6 DEF IssuedOK, ByIssuers
        <5>3. /\ grant[j] # None => consent[grant[j]] = armed[j]
              /\ armed[j].app = req[j].app
          BY <5>1 DEF ConsentOK, TasksAgreed, RestoredAsConsented
        <5>. QED  BY <2>5, <5>1, <5>2, <5>3
      <4>. QED  BY <4>1, <4>2
    <3>. QED  BY <3>1 DEF RestoredAsConsented
  <2>. QED  BY <2>3, <2>7, <2>8, <2>9 DEF ConsentOK, TasksAgreed
<1>. QED  BY <1>3, <1>4, <1>5 DEF Ask

LEMMA IssueAgreed ==
    ASSUME TypeInv, IssuedOK, ConsentOK, NEW k \in Calls, Issue(k)
    PROVE  ConsentOK'
<1>. DEFINE e == [token |-> k, app |-> armed[k].app, source |-> armed[k].source]
            o == req[k].owner
<1>1. pc[k] = "issuing" /\ UNCHANGED <<file, durable, req, armed, consent>>
  BY DEF Issue
<1>2. armed[k] \in Selection /\ req[k] \in Request /\ consent[k] = armed[k]
  BY <1>1 DEF TypeInv, TasksOK, ConsentOK, TasksAgreed
<1>3. e \in Entry /\ o \in Owners /\ consent[e.token] = [app |-> e.app, source |-> e.source]
  BY <1>2 DEF Selection, Request, Entry
<1>. HIDE DEF e, o
<1>4. \A j \in Calls : pc'[j] = "issuing" => pc[j] = "issuing"
  BY <1>1 DEF Issue, Goto, TypeInv, CallsOK
<1>5. \A j \in Calls \ {k} : grant'[j] = grant[j]
  BY DEF Issue, TypeInv, CallsOK
<1>6. grant'[k] = grant[k] \/ grant'[k] = k
  BY DEF Issue, TypeInv, CallsOK
<1>7. RestoredAsConsented'
  BY <1>1, <1>2, <1>5, <1>6 DEF ConsentOK, TasksAgreed, RestoredAsConsented
<1>8. TasksAgreed'
  BY <1>1, <1>4, <1>7 DEF ConsentOK, TasksAgreed
<1>9. ASSUME NEW s \in Seq(Entry), NEW max \in Nat \ {0}, Agreed(s, consent)
      PROVE  Agreed(Push(s, e, max), consent)
  <2>1. Range(Push(s, e, max)) \subseteq Range(s) \cup {e}
    BY <1>3, Pushed
  <2>. QED  BY <1>3, <1>9, <2>1 DEF Agreed
<1>10. disk' = disk \/ disk' = Push(disk, e, MaxDisk)
  BY DEF Issue, e, o
<1>11. Agreed(disk', consent)
  BY <1>9, <1>10 DEF TypeInv, StoresOK, Entries, ConsentOK, ListsAgreed
<1>12. memory' = memory \/ memory' = [memory EXCEPT ![o] = Push(memory[o], e, MaxMemory)]
  BY DEF Issue, e, o
<1>13. Agreed(Push(memory[o], e, MaxMemory), consent)
  BY <1>3, <1>9 DEF TypeInv, StoresOK, Entries, ConsentOK, ListsAgreed
<1>14. \A p \in Owners : memory'[p] = memory[p] \/ memory'[p] = Push(memory[o], e, MaxMemory)
  BY <1>12 DEF TypeInv, StoresOK
<1>15. \A p \in Owners : Agreed(memory'[p], consent)
  BY <1>13, <1>14 DEF ConsentOK, ListsAgreed
<1>16. ListsAgreed'
  BY <1>1, <1>11, <1>15 DEF ConsentOK, ListsAgreed
<1>. QED  BY <1>1, <1>8, <1>16 DEF ConsentOK

LEMMA WriteAgreed ==
    ASSUME TypeInv, IssuedOK, ConsentOK, Write
    PROVE  ConsentOK'
<1>1. writer \in Writing /\ UNCHANGED <<disk, memory, req, armed, grant, consent>>
  <2>1. writer # None /\ UNCHANGED <<disk, memory, req, armed, grant, consent>>
    BY DEF Write, WriteFails, Rename, SyncDir, stores, calls, ghosts
  <2>. QED  BY <2>1 DEF TypeInv, CallsOK
<1>2. file' \in {disk, file} /\ durable' \in {file, durable}
  BY DEF Write, WriteFails, Rename, SyncDir, stores
<1>3. writer.call \in Calls
  BY <1>1 DEF Writing
<1>4. \A j \in Calls : pc'[j] = "issuing" => pc[j] = "issuing"
  <2>1. pc' = pc \/ Goto(writer.call, IF pc[writer.call] = "pruning" THEN AfterPrune(writer.call) ELSE "arming")
    BY DEF Write, WriteFails, Rename, SyncDir, Written, calls
  <2>. QED  BY <1>3, <2>1 DEF Goto, AfterPrune, TypeInv, CallsOK
<1>5. TasksAgreed'
  BY <1>1, <1>4, TasksStillAgreed
<1>6. ListsAgreed'
  BY <1>1, <1>2, ListsStillAgreed
<1>. QED  BY <1>1, <1>5, <1>6 DEF ConsentOK

LEMMA EnvironmentAgreed ==
    ASSUME TypeInv, IssuedOK, ConsentOK, Environment
    PROVE  ConsentOK'
<1>1. UNCHANGED consent
  BY DEF Environment, OwnerLeaves, DropOwner, Flush, Restart, ghosts
<1>2. ListsAgreed'
  <2>1. /\ file' \in {file, durable} /\ durable' \in {file, durable}
        /\ disk' \in {disk, file, durable, <<>>}
    BY DEF Environment, OwnerLeaves, DropOwner, Flush, Restart, stores
  <2>2. memory' = memory \/ memory' = [o \in Owners |-> <<>>]
            \/ \E p \in Owners : memory' = [memory EXCEPT ![p] = <<>>]
    BY DEF Environment, OwnerLeaves, DropOwner, Flush, Restart, stores
  <2>3. \A o \in Owners : memory'[o] \in {memory[o], <<>>}
    BY <2>2 DEF TypeInv, StoresOK
  <2>. QED  BY <1>1, <2>1, <2>3, ListsStillAgreed
<1>3. CASE UNCHANGED <<pc, req, armed, grant>>
  <2>1. TasksAgreed'
    BY <1>1, <1>3, TasksStillAgreed
  <2>. QED  BY <1>1, <1>2, <2>1 DEF ConsentOK
<1>4. ASSUME NEW powerLoss \in BOOLEAN, NEW readable \in BOOLEAN, Restart(powerLoss, readable)
      PROVE  ConsentOK'
  <2>1. TasksAgreed'
    BY <1>1, <1>4, TasksStillAgreed DEF Restart, Finish
  <2>. QED  BY <1>1, <1>2, <2>1 DEF ConsentOK
<1>. QED  BY <1>3, <1>4 DEF Environment, OwnerLeaves, DropOwner, Flush, calls

LEMMA NextAgreed == TypeInv /\ IssuedOK /\ ConsentOK /\ [Next]_vars => ConsentOK'
<1>. SUFFICES ASSUME TypeInv, IssuedOK, ConsentOK, [Next]_vars PROVE ConsentOK'
  OBVIOUS
<1>1. CASE UNCHANGED vars
  BY <1>1 DEF vars, stores, calls, ghosts, ConsentOK, ListsAgreed, TasksAgreed, RestoredAsConsented
<1>2. ASSUME NEW k \in Calls, Arm(k)
      PROVE  ConsentOK'
  <2>1. UNCHANGED <<stores, consent>> /\ Finish({k})
    BY <1>2 DEF Arm, ghosts
  <2>2. TasksAgreed'
    BY <2>1, TasksStillAgreed DEF Finish
  <2>3. ListsAgreed'
    BY <2>1, ListsStillAgreed DEF stores
  <2>. QED  BY <2>1, <2>2, <2>3 DEF ConsentOK
<1>3. ASSUME NEW k \in Calls, Task(k)
      PROVE  ConsentOK'
  BY <1>2, <1>3, BeginAgreed, ValidateAgreed, PruneAgreed, AskAgreed, IssueAgreed DEF Task
<1>. QED  BY <1>1, <1>3, WriteAgreed, EnvironmentAgreed DEF Next

(* A selection that comes from a token is the one the user of the call     *)
(* that issued the token agreed to have remembered, and it is armed for    *)
(* the application that presents it (persist.rs:57).                       *)
THEOREM ConsentCorrect == Spec => []RestoredAsConsented
<1>1. Spec => []ConsentOK
  BY InitAgreed, NextAgreed, TypeInvCorrect, IssuedCorrect, PTL DEF Spec
<1>2. ConsentOK => RestoredAsConsented
  BY DEF ConsentOK, TasksAgreed
<1>. QED  BY <1>1, <1>2, PTL

-----------------------------------------------------------------------------
(* What was written is in the file, and what is in the file will be        *)
(* durable; what was evicted is older than what is left, in memory and, as *)
(* far as it was ever written, in the files a restart may load.            *)

AckedKept ==
    /\ acked \subseteq Range(issued)
    /\ writer # None /\ writer.at = "sync" => file = disk
    /\ acked \cap Tokens(disk) \subseteq Tokens(file)
    /\ acked \cap Tokens(file) \subseteq Tokens(durable)
    /\ AckedSurvives

EvictedOlder ==
    /\ evicted \subseteq Range(issued)
    /\ OlderThan(evicted, disk, issued)
    /\ OlderThan((evicted \cap acked) \ Tokens(file), file, issued)
    /\ OlderThan((evicted \cap acked) \ Tokens(durable), durable, issued)

WritesOK == AckedKept /\ EvictedOlder

LEMMA InitWrites == Init => WritesOK
<1>. SUFFICES ASSUME Init PROVE WritesOK
  OBVIOUS
<1>1. disk = <<>> /\ file = <<>> /\ durable = <<>> /\ acked = {} /\ evicted = {} /\ writer = None
  BY DEF Init
<1>2. AckedKept
  BY <1>1 DEF AckedKept, AckedSurvives
<1>3. EvictedOlder
  BY <1>1, NothingOrdered DEF EvictedOlder
<1>. QED  BY <1>2, <1>3 DEF WritesOK

(* Nothing but the tasks and the mode-2 tokens changes. *)
LEMMA WritesUntouched ==
    ASSUME WritesOK, UNCHANGED <<disk, file, durable, issued, acked, evicted, pruned>>,
           writer' \in {writer, None}
    PROVE  WritesOK'
<1>1. AckedKept'
  BY DEF WritesOK, AckedKept, AckedSurvives
<1>2. EvictedOlder'
  BY DEF WritesOK, EvictedOlder
<1>. QED  BY <1>1, <1>2 DEF WritesOK

LEMMA PruneWrites ==
    ASSUME TypeInv, WritesOK, NEW k \in Calls, Prune(k)
    PROVE  WritesOK'
<1>1. UNCHANGED <<file, durable, issued, acked, evicted>>
  BY DEF Prune
<1>2. CASE UNCHANGED <<disk, writer, pruned>>
  BY <1>1, <1>2, WritesUntouched
<1>3. CASE /\ disk' = Retained(k) /\ pruned' = pruned \cup (Tokens(disk) \ Tokens(Retained(k)))
           /\ writer' = [at |-> "rename", call |-> k]
  <2>1. Tokens(disk') \subseteq Tokens(disk)
    BY <1>3, Pruned DEF Retained, TypeInv, StoresOK, Entries
  <2>2. AckedKept'
    BY <1>1, <1>3, <2>1 DEF WritesOK, AckedKept, AckedSurvives
  <2>3. EvictedOlder'
    BY <1>1, <2>1 DEF WritesOK, EvictedOlder, OlderThan
  <2>. QED  BY <2>2, <2>3 DEF WritesOK
<1>. QED  BY <1>2, <1>3 DEF Prune

LEMMA IssueWrites ==
    ASSUME TypeInv, IssuedOK, WritesOK, NEW k \in Calls, Issue(k)
    PROVE  WritesOK'
<1>. DEFINE e == [token |-> k, app |-> armed[k].app, source |-> armed[k].source]
            o == req[k].owner
<1>1. pc[k] = "issuing" /\ writer = None /\ UNCHANGED <<file, durable, acked, pruned>>
  BY DEF Issue
<1>2. k \notin Range(issued)
  BY <1>1, NotYet
<1>3. e \in Entry /\ e.token = k
  BY <1>1 DEF TypeInv, TasksOK, Selection, Entry
<1>. HIDE DEF e, o
<1>4. CASE UNCHANGED <<disk, writer, issued, evicted>>
  BY <1>1, <1>4, WritesUntouched
<1>5. ASSUME issued' = Append(issued, k)
      PROVE  /\ Range(issued') = Range(issued) \cup {k}
             /\ \A T, s : OlderThan(T, s, issued) => OlderThan(T, s, issued')
             /\ \A t \in Range(issued) : Before(issued', t, k)
             /\ \A t, u : Before(issued, t, u) => Before(issued', t, u)
  <2>1. /\ Range(issued') = Range(issued) \cup {k}
        /\ \A t, u : Before(issued, t, u) => Before(issued', t, u)
        /\ \A t \in Range(issued) : Before(issued', t, k)
    BY <1>2, <1>5, Issuance DEF IssuedOK
  <2>. QED  BY <2>1, OrderedLater
<1>6. CASE UNCHANGED <<disk, writer, evicted>> /\ issued' = Append(issued, k)
  <2>1. AckedKept'
    BY <1>1, <1>5, <1>6 DEF WritesOK, AckedKept, AckedSurvives
  <2>2. EvictedOlder'
    BY <1>1, <1>5, <1>6 DEF WritesOK, EvictedOlder
  <2>. QED  BY <2>1, <2>2 DEF WritesOK
<1>7. CASE /\ disk' = Push(disk, e, MaxDisk) /\ writer' = [at |-> "rename", call |-> k]
           /\ evicted' = evicted \cup ((Tokens(disk) \cup {k}) \ Tokens(Push(disk, e, MaxDisk)))
           /\ issued' = Append(issued, k)
  <2>. DEFINE T == (Tokens(disk) \cup {k}) \ Tokens(disk')
  <2>1. Tokens(disk') \subseteq Tokens(disk) \cup {k} /\ k \in Tokens(disk')
    BY <1>3, <1>7, Pushed DEF TypeInv, StoresOK, Entries
  <2>2. OlderThan(T, disk', issued')
    BY <1>2, <1>3, <1>7, PushedInOrder DEF TypeInv, StoresOK, Entries, IssuedOK, Listed
  <2>3. evicted' = evicted \cup T /\ T \subseteq Tokens(disk) /\ T \cap Tokens(disk') = {}
    BY <1>7, <2>1
  <2>. HIDE DEF T
  <2>4. \A t \in T \cap acked : t \in Tokens(file) /\ t \in Tokens(durable)
    BY <2>3 DEF WritesOK, AckedKept
  <2>5. k \notin acked /\ Tokens(disk) \subseteq Range(issued)
    BY <1>2 DEF WritesOK, AckedKept, IssuedOK, Listed, Ordered
  <2>6. Tokens(disk) \ Tokens(disk') \subseteq evicted'
    BY <1>7
  <2>7. AckedSurvives'
    BY <1>1, <2>3, <2>6 DEF WritesOK, AckedKept, AckedSurvives
  <2>8. /\ acked' \cap Tokens(disk') \subseteq Tokens(file')
        /\ acked' \subseteq Range(issued')
    BY <1>1, <1>5, <1>7, <2>1, <2>5 DEF WritesOK, AckedKept
  <2>9. AckedKept'
    BY <1>1, <1>7, <2>7, <2>8 DEF WritesOK, AckedKept
  <2>10. OlderThan(evicted', disk', issued')
    <3>1. ASSUME NEW t \in evicted, NEW u \in Tokens(disk')
          PROVE  Before(issued', t, u)
      <4>1. CASE u \in Tokens(disk)
        BY <1>5, <1>7, <4>1 DEF WritesOK, EvictedOlder, OlderThan
      <4>2. CASE u = k
        BY <1>5, <1>7, <4>2 DEF WritesOK, EvictedOlder
      <4>. QED  BY <2>1, <4>1, <4>2
    <3>. QED  BY <2>2, <2>3, <3>1 DEF OlderThan
  <2>11. /\ (evicted' \cap acked') \ Tokens(file') \subseteq (evicted \cap acked) \ Tokens(file)
         /\ (evicted' \cap acked') \ Tokens(durable') \subseteq (evicted \cap acked) \ Tokens(durable)
    BY <1>1, <2>3, <2>4
  <2>12. /\ OlderThan((evicted \cap acked) \ Tokens(file), file, issued')
         /\ OlderThan((evicted \cap acked) \ Tokens(durable), durable, issued')
    BY <1>5, <1>7 DEF WritesOK, EvictedOlder
  <2>13. /\ OlderThan((evicted' \cap acked') \ Tokens(file'), file', issued')
         /\ OlderThan((evicted' \cap acked') \ Tokens(durable'), durable', issued')
    BY <1>1, <2>11, <2>12 DEF OlderThan
  <2>14. evicted' \subseteq Range(issued')
    BY <1>5, <1>7, <2>3, <2>5 DEF WritesOK, EvictedOlder
  <2>. QED  BY <2>9, <2>10, <2>13, <2>14 DEF WritesOK, EvictedOlder
<1>. QED  BY <1>4, <1>6, <1>7 DEF Issue, e, o

LEMMA WriteWrites ==
    ASSUME IssuedOK, WritesOK, Write
    PROVE  WritesOK'
<1>1. CASE WriteFails
  BY <1>1, WritesUntouched DEF WriteFails, Written, stores, ghosts
<1>2. CASE Rename
  <2>1. file' = disk /\ UNCHANGED <<disk, durable, issued, acked, evicted, pruned>>
    BY <1>2 DEF Rename, ghosts
  <2>2. AckedKept'
    BY <2>1 DEF WritesOK, AckedKept, AckedSurvives
  <2>3. EvictedOlder'
    BY <2>1 DEF WritesOK, EvictedOlder, OlderThan
  <2>. QED  BY <2>2, <2>3 DEF WritesOK
<1>3. CASE SyncDir
  <2>1. /\ durable' = file /\ acked' = acked \cup Tokens(disk) /\ writer' = None /\ file = disk
        /\ UNCHANGED <<disk, file, issued, evicted, pruned>>
    BY <1>3 DEF SyncDir, Written, WritesOK, AckedKept
  <2>2. Tokens(disk) \subseteq Range(issued)
    BY DEF IssuedOK, Listed, Ordered
  <2>3. AckedKept'
    BY <2>1, <2>2 DEF WritesOK, AckedKept, AckedSurvives
  <2>4. EvictedOlder'
    BY <2>1 DEF WritesOK, EvictedOlder, OlderThan
  <2>. QED  BY <2>3, <2>4 DEF WritesOK
<1>. QED  BY <1>1, <1>2, <1>3 DEF Write

(* A restart reads one of the two files, or nothing. *)
LEMMA RestartWrites ==
    ASSUME WritesOK, NEW powerLoss \in BOOLEAN, NEW readable \in BOOLEAN,
           Restart(powerLoss, readable)
    PROVE  WritesOK'
<1>1. /\ file' \in {durable, file} /\ UNCHANGED <<durable, issued>> /\ writer' = None
      /\ evicted' = (evicted \cap acked') \ Tokens(disk') /\ pruned' = pruned \ Tokens(disk')
  BY DEF Restart
<1>2. CASE readable
  <2>1. disk' = file' /\ acked' = acked
    BY <1>2 DEF Restart
  <2>2. acked \cap Tokens(file') \subseteq Tokens(durable)
    BY <1>1 DEF WritesOK, AckedKept
  <2>3. (acked \ (evicted \cup pruned)) \subseteq Tokens(file')
    BY <1>1 DEF WritesOK, AckedKept, AckedSurvives
  <2>4. AckedSurvives'
    BY <1>1, <2>1, <2>2, <2>3 DEF AckedSurvives
  <2>5. AckedKept'
    BY <1>1, <2>1, <2>2, <2>4 DEF WritesOK, AckedKept
  <2>6. OlderThan((evicted \cap acked) \ Tokens(file'), file', issued)
    BY <1>1 DEF WritesOK, EvictedOlder
  <2>7. EvictedOlder'
    BY <1>1, <2>1, <2>6 DEF WritesOK, EvictedOlder, OlderThan
  <2>. QED  BY <2>5, <2>7 DEF WritesOK
<1>3. CASE ~readable
  <2>1. acked' = {} /\ evicted' = {}
    BY <1>1, <1>3 DEF Restart
  <2>2. AckedKept'
    BY <1>1, <2>1 DEF AckedKept, AckedSurvives
  <2>3. EvictedOlder'
    BY <2>1 DEF EvictedOlder, OlderThan
  <2>. QED  BY <2>2, <2>3 DEF WritesOK
<1>. QED  BY <1>2, <1>3

LEMMA NextWrites == TypeInv /\ IssuedOK /\ WritesOK /\ [Next]_vars => WritesOK'
<1>. SUFFICES ASSUME TypeInv, IssuedOK, WritesOK, [Next]_vars PROVE WritesOK'
  OBVIOUS
<1>1. CASE UNCHANGED vars
  BY <1>1, WritesUntouched DEF vars, stores, ghosts
<1>2. ASSUME NEW k \in Calls, Task(k)
      PROVE  WritesOK'
  <2>1. CASE \/ \E r \in Request, list \in SUBSET Connectors : Begin(k, r, list)
             \/ Validate(k) \/ Ask(k) \/ Arm(k)
    BY <2>1, WritesUntouched DEF Begin, Validate, Ask, Arm, stores, ghosts
  <2>. QED  BY <1>2, <2>1, PruneWrites, IssueWrites DEF Task
<1>3. CASE Environment
  <2>1. CASE \E o \in Owners : OwnerLeaves(o) \/ DropOwner(o)
    BY <2>1, WritesUntouched DEF OwnerLeaves, DropOwner, stores, ghosts
  <2>2. CASE Flush
    <3>1. durable' = file /\ UNCHANGED <<disk, file, writer, issued, acked, evicted, pruned>>
      BY <2>2 DEF Flush, ghosts
    <3>2. AckedKept'
      BY <3>1 DEF WritesOK, AckedKept, AckedSurvives
    <3>3. EvictedOlder'
      BY <3>1 DEF WritesOK, EvictedOlder
    <3>. QED  BY <3>2, <3>3 DEF WritesOK
  <2>. QED  BY <1>3, <2>1, <2>2, RestartWrites DEF Environment
<1>. QED  BY <1>1, <1>2, <1>3, WriteWrites DEF Next

LEMMA WritesCorrect == Spec => []WritesOK
  BY InitWrites, NextWrites, TypeInvCorrect, IssuedCorrect, PTL DEF Spec

(* A token whose write succeeded is in the store, in its file and on the   *)
(* disk until it is evicted or pruned, whatever writes failed before or    *)
(* after it and wherever the daemon or the machine stopped (persist.rs:9). *)
THEOREM AckedCorrect == Spec => []AckedSurvives
<1>1. WritesOK => AckedSurvives
  BY DEF WritesOK, AckedKept
<1>. QED  BY <1>1, WritesCorrect, PTL

(* No token is evicted before an older one, over any number of writes,     *)
(* failed or not, and restarts (persist.rs:31).                            *)
THEOREM EvictionCorrect == Spec => []OldestEvictedFirst
<1>1. ASSUME IssuedOK, WritesOK PROVE OldestEvictedFirst
  <2>1. ASSUME NEW e \in evicted, NEW t \in Tokens(disk) PROVE Age(e) < Age(t)
    <3>1. Before(issued, e, t)
      BY <1>1, <2>1 DEF WritesOK, EvictedOlder, OlderThan
    <3>. QED  BY <1>1, <3>1, Aged DEF IssuedOK
  <2>. QED  BY <2>1 DEF OldestEvictedFirst
<1>. QED  BY <1>1, WritesCorrect, IssuedCorrect, PTL

-----------------------------------------------------------------------------
(* What a written list did not have any more comes back nowhere: only a    *)
(* token issued anew enters the list, the file is a copy of the list, and  *)
(* at the sync both are the one that was written (WritesOK).               *)

ErasedOK == erased \subseteq Range(issued) /\ ErasedStaysErased

LEMMA ErasedUntouched ==
    ASSUME ErasedOK, erased' = erased, issued' = issued,
           Tokens(disk') \subseteq Tokens(disk) \cup Tokens(file) \cup Tokens(durable),
           Tokens(file') \subseteq Tokens(disk) \cup Tokens(file) \cup Tokens(durable),
           Tokens(durable') \subseteq Tokens(disk) \cup Tokens(file) \cup Tokens(durable)
    PROVE  ErasedOK'
<1>1. ErasedStaysErased'
  BY DEF ErasedOK, ErasedStaysErased
<1>. QED  BY <1>1 DEF ErasedOK

LEMMA IssueErases ==
    ASSUME TypeInv, IssuedOK, ErasedOK, NEW k \in Calls, Issue(k)
    PROVE  ErasedOK'
<1>. DEFINE e == [token |-> k, app |-> armed[k].app, source |-> armed[k].source]
            o == req[k].owner
<1>1. pc[k] = "issuing" /\ writer = None /\ UNCHANGED <<file, durable, erased>>
  BY DEF Issue
<1>2. k \notin Range(issued)
  BY <1>1, NotYet
<1>3. e \in Entry /\ e.token = k
  BY <1>1 DEF TypeInv, TasksOK, Selection, Entry
<1>. HIDE DEF e, o
<1>4. CASE UNCHANGED <<disk, issued>>
  BY <1>1, <1>4, ErasedUntouched
<1>5. CASE issued' = Append(issued, k) /\ disk' \in {disk, Push(disk, e, MaxDisk)}
  <2>1. Range(issued') = Range(issued) \cup {k}
    BY <1>2, <1>5, Issuance DEF IssuedOK
  <2>2. Tokens(Push(disk, e, MaxDisk)) \subseteq Tokens(disk) \cup {k}
    BY <1>3, Pushed DEF TypeInv, StoresOK, Entries
  <2>3. Tokens(disk') \subseteq Tokens(disk) \cup {k} /\ k \notin erased
    BY <1>2, <1>5, <2>2 DEF ErasedOK
  <2>4. ErasedStaysErased'
    BY <1>1, <2>3 DEF ErasedOK, ErasedStaysErased
  <2>. QED  BY <1>1, <2>1, <2>4 DEF ErasedOK
<1>. QED  BY <1>4, <1>5 DEF Issue, e, o

LEMMA WriteErases ==
    ASSUME WritesOK, ErasedOK, Write
    PROVE  ErasedOK'
<1>1. CASE WriteFails
  BY <1>1, ErasedUntouched DEF WriteFails, stores, ghosts
<1>2. CASE Rename
  BY <1>2, ErasedUntouched DEF Rename, ghosts
<1>3. CASE SyncDir
  <2>1. /\ durable' = file /\ file = disk /\ UNCHANGED <<disk, file, issued>>
        /\ erased' = erased \cup Lapsed
    BY <1>3 DEF SyncDir, WritesOK, AckedKept
  <2>2. Lapsed \cap Tokens(disk) = {} /\ Lapsed \subseteq Range(issued)
    BY DEF Lapsed
  <2>3. ErasedStaysErased'
    BY <2>1, <2>2 DEF ErasedOK, ErasedStaysErased
  <2>. QED  BY <2>1, <2>2, <2>3 DEF ErasedOK
<1>. QED  BY <1>1, <1>2, <1>3 DEF Write

LEMMA RestartErases ==
    ASSUME ErasedOK, NEW powerLoss \in BOOLEAN, NEW readable \in BOOLEAN,
           Restart(powerLoss, readable)
    PROVE  ErasedOK'
<1>1. /\ file' \in {durable, file} /\ disk' \in {file', <<>>}
      /\ UNCHANGED <<durable, issued, erased>>
  BY DEF Restart
<1>2. Tokens(<<>>) = {}
  BY NothingListed
<1>. QED  BY <1>1, <1>2, ErasedUntouched

LEMMA NextErased ==
    TypeInv /\ IssuedOK /\ WritesOK /\ ErasedOK /\ [Next]_vars => ErasedOK'
<1>. SUFFICES ASSUME TypeInv, IssuedOK, WritesOK, ErasedOK, [Next]_vars PROVE ErasedOK'
  OBVIOUS
<1>1. CASE UNCHANGED vars
  BY <1>1, ErasedUntouched DEF vars, stores, ghosts
<1>2. ASSUME NEW k \in Calls, Task(k)
      PROVE  ErasedOK'
  <2>1. CASE \/ \E r \in Request, list \in SUBSET Connectors : Begin(k, r, list)
             \/ Validate(k) \/ Ask(k) \/ Arm(k)
    BY <2>1, ErasedUntouched DEF Begin, Validate, Ask, Arm, stores, ghosts
  <2>2. CASE Prune(k)
    <3>1. disk' \in {disk, Retained(k)} /\ UNCHANGED <<file, durable, issued, erased>>
      BY <2>2 DEF Prune
    <3>2. Tokens(Retained(k)) \subseteq Tokens(disk)
      BY Pruned DEF Retained, TypeInv, StoresOK, Entries
    <3>. QED  BY <3>1, <3>2, ErasedUntouched
  <2>. QED  BY <1>2, <2>1, <2>2, IssueErases DEF Task
<1>3. CASE Environment
  <2>1. CASE \E o \in Owners : OwnerLeaves(o) \/ DropOwner(o)
    BY <2>1, ErasedUntouched DEF OwnerLeaves, DropOwner, stores, ghosts
  <2>2. CASE Flush
    BY <2>2, ErasedUntouched DEF Flush, ghosts
  <2>. QED  BY <1>3, <2>1, <2>2, RestartErases DEF Environment
<1>. QED  BY <1>1, <1>2, <1>3, WriteErases DEF Next

(* A token that a successful write did not have any more, because it was   *)
(* evicted, pruned or lost, is in no list from then on, in memory or on    *)
(* the disk, whatever write fails, is interrupted or is lost after it.     *)
THEOREM ErasedCorrect == Spec => []ErasedStaysErased
<1>1. Init => ErasedOK
  BY DEF Init, ErasedOK, ErasedStaysErased
<1>2. ErasedOK => ErasedStaysErased
  BY DEF ErasedOK
<1>. QED  BY <1>1, <1>2, NextErased, TypeInvCorrect, IssuedCorrect, WritesCorrect, PTL DEF Spec
=============================================================================
