--------------------------- MODULE SessionRegistry ---------------------------
(***************************************************************************)
(* The cast-session registry behind the ScreenCast portal (session.rs):    *)
(* live sessions keyed by object path.  Every method of the registry runs  *)
(* under one mutex, so each is one operator from registry to registry and  *)
(* one predicate that says when it succeeds.                               *)
(*                                                                         *)
(* The path is chosen by the frontend and may come back after the session  *)
(* is gone.  To tell the incarnations of a path apart, a session carries   *)
(* the CreateSession call that made it (id); the code has no such field,   *)
(* and no guard below reads it.                                            *)
(***************************************************************************)
EXTENDS Naturals, FiniteSets

CONSTANTS
    Paths,          \* session object paths
    Apps,           \* application identities supplied by the frontend
    CreateCalls,    \* CreateSession method calls; each is made at most once
    SelectCalls,    \* SelectSources method calls
    StartCalls,     \* Start method calls; a cast thread is named by its Start
    MaxSessions,    \* MAX_SESSIONS
    MaxLiveCasts,   \* MAX_LIVE_CASTS
    None            \* "no value": Option::None, no session, not replied yet

ASSUME RegistryAssumption ==
    /\ None \notin Paths \cup Apps \cup CreateCalls \cup SelectCalls \cup StartCalls
    /\ CreateCalls \cap SelectCalls = {}
    /\ CreateCalls \cap StartCalls = {}
    /\ SelectCalls \cap StartCalls = {}
    /\ MaxSessions \in Nat \ {0}
    /\ MaxLiveCasts \in Nat \ {0}

(* CastSession.  sel names the SelectSources call whose consent armed the  *)
(* session (None: sources_selected is false) and stands for the source,    *)
(* the cursor mode and the grant it stored; cast is the joinable cast      *)
(* thread together with the stop socket that ends it.                      *)
Session ==
    [ id       : CreateCalls,
      app      : Apps,
      sel      : SelectCalls \cup {None},
      starting : BOOLEAN,
      cast     : StartCalls \cup {None} ]

ASSUME NoneIsNoSession == None \notin Session

Registry == [Paths -> Session \cup {None}]

Present(r) == {p \in Paths : r[p] # None}

(* Sessions that count against MAX_LIVE_CASTS. *)
Live(r) == {p \in Present(r) : r[p].starting \/ r[p].cast # None}

CanInsert(r, p) ==
    /\ r[p] = None
    /\ Cardinality(Present(r)) < MaxSessions

Insert(r, p, a, k) ==
    [r EXCEPT ![p] = [id |-> k, app |-> a, sel |-> None,
                      starting |-> FALSE, cast |-> None]]

(* Mutant: sources may be selected again. *)
CanSelectAgain(r, p, a) ==
    /\ r[p] # None
    /\ r[p].app = a

CanSelect(r, p, a) ==
    /\ r[p] # None
    /\ r[p].sel = None
    /\ r[p].app = a

MarkSourcesSelected(r, p, k) == [r EXCEPT ![p] = [r[p] EXCEPT !.sel = k]]

(* Mutant: a session that is starting or started may be started anew. *)
CanReserveTwice(r, p, a) ==
    /\ r[p] # None
    /\ r[p].app = a
    /\ r[p].sel # None
    /\ Cardinality(Live(r)) < MaxLiveCasts

CanReserve(r, p, a) ==
    /\ r[p] # None
    /\ r[p].app = a
    /\ r[p].sel # None
    /\ ~r[p].starting
    /\ r[p].cast = None
    /\ Cardinality(Live(r)) < MaxLiveCasts

ReserveStart(r, p) == [r EXCEPT ![p] = [r[p] EXCEPT !.starting = TRUE]]

ClearStart(r, p) ==
    IF r[p] = None THEN r ELSE [r EXCEPT ![p] = [r[p] EXCEPT !.starting = FALSE]]

MarkStarted(r, p, k) ==
    [r EXCEPT ![p] = [r[p] EXCEPT !.starting = FALSE, !.cast = k]]

Remove(r, p) == [r EXCEPT ![p] = None]

(* Dropping a CastSession closes the write end of its stop socket: the     *)
(* casts that are told to stop when the session at p is dropped.           *)
Dropped(r, p) == IF r[p] = None THEN {} ELSE {r[p].cast} \ {None}
=============================================================================
