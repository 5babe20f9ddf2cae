------------------------------ MODULE OpenWith ------------------------------
(***************************************************************************)
(* AppChooser and OpenURI, and the user's mimeapps.list they share: both   *)
(* let the user pick an application, and both record the pick as the       *)
(* default of its content type when the user asked to have it remembered.  *)
(* Desktop files do not change here.                                       *)
(***************************************************************************)
EXTENDS RequestTask, SequencesExt, Lists

CONSTANTS
    ContentTypes,
    Apps,           \* desktop files that resolve
    TerminalApps,   \* those that need a terminal
    Registered,     \* per content type: the applications that declare it
    InitialList     \* the user's mimeapps.list at the start

VARIABLES
    list,           \* mimeapps.list and its temporary, as a NamedTemp
    offered,        \* per task: the applications its dialog lists
    edit,           \* per task: the text it read, then the text it writes
    pick,           \* per task: the application its user picked
    remembered,     \* history: per type, the default last recorded
    crossedLists    \* history: two tasks edited the list at once

openVars == <<list, offered, edit, pick, remembered, crossedLists>>

List == INSTANCE NamedTemp WITH Empty <- <<>>

-----------------------------------------------------------------------------
(* A line of the list is a group header, a key with its ids, or neither    *)
(* (a comment).  ended is whether a newline follows it, which the last     *)
(* line of a list edited by hand may lack.  The groups are [Default        *)
(* Applications], [Added Associations], [Removed Associations] and others; *)
(* ids that resolve to no desktop file are "missing".                      *)
Groups == {"added", "removed", "defaults", "other"}
Ids == Apps \cup {"missing"}
Lines ==
    {line \in [group : Groups \cup {None}, key : ContentTypes \cup {None},
               ids : Seq(Ids), ended : BOOLEAN] : line.group = None \/ line.key = None}

Header(group) == [group |-> group, key |-> None, ids |-> <<>>, ended |-> TRUE]
Key(type, ids) == [group |-> None, key |-> type, ids |-> ids, ended |-> TRUE]

IsHeader(line) == line.group # None

(* The group a line is in, None before the first header.                   *)
GroupOf(text, n) ==
    LET above == {m \in 1..n : IsHeader(text[m])}
    IN IF above = {} THEN None ELSE text[CHOOSE m \in above : \A l \in above : l <= m].group

KeysOf(text, group, type) == {n \in 1..Len(text) : text[n].key = type /\ GroupOf(text, n) = group}

(* The ids of a type in a group: a later line of the same key replaces an  *)
(* earlier one when the file is read.                                      *)
Listed(text, group, type) ==
    LET keys == KeysOf(text, group, type)
    IN IF keys = {} THEN <<>> ELSE text[CHOOSE n \in keys : \A m \in keys : m <= n].ids

DefaultApp(text, type) ==
    LET ids == Filter(Listed(text, "defaults", type), Apps)
    IN IF ids = <<>> THEN None ELSE Head(ids)

(* Those added by the user and those that declare the type, without those  *)
(* the user removed.                                                       *)
AppsForContentType(text, type) ==
    ((ToSet(Listed(text, "added", type)) \cup Registered[type])
        \ ToSet(Listed(text, "removed", type))) \cap Apps

-----------------------------------------------------------------------------
(* update_default_applications.  The pick is put first in every key of the *)
(* type in a defaults group; every other line stays.                       *)
PutFirst(line, app) == Key(line.key, <<app>> \o Filter(line.ids, Ids \ {app}))

Edited(text, type, app) ==
    [n \in 1..Len(text) |->
        IF n \in KeysOf(text, "defaults", type) THEN PutFirst(text[n], app)
        ELSE [text[n] EXCEPT !.ended = TRUE]]

(* A line that is not ended and the key written after it are one line: a   *)
(* header is none any more, and the last id runs into the new key.         *)
RunTogether(line) ==
    [line EXCEPT !.group = None, !.ended = TRUE,
                 !.ids = IF IsHeader(line) THEN <<>> ELSE Append(Front(line.ids), "missing")]

InsertAfter(text, n, line) ==
    [m \in 1..(Len(text) + 1) |->
        IF m <= n THEN text[m] ELSE IF m = n + 1 THEN line ELSE text[m - 1]]

(* Where a defaults group ends. *)
GroupEnds(text) ==
    {n \in 1..Len(text) : /\ GroupOf(text, n) = "defaults"
                          /\ n = Len(text) \/ IsHeader(text[n + 1])}

(* Mutant: a key of the type is edited in whatever group it stands. *)
UpdateAnyGroup(text, type, app) ==
    IF \E n \in 1..Len(text) : text[n].key = type
    THEN [n \in 1..Len(text) |->
             IF text[n].key = type THEN PutFirst(text[n], app) ELSE text[n]]
    ELSE text \o <<Header("defaults"), Key(type, <<app>>)>>

(* The first defaults group gets a key at its end if none was written by   *)
(* then, and so does a new group at the end of a list that has none.       *)
Update(text, type, app) ==
    LET edited == Edited(text, type, app)
        line == Key(type, <<app>>)
        ends == GroupEnds(text)
        end == CHOOSE n \in ends : \A m \in ends : n <= m
    IN IF ends = {}
       THEN Append(Append(edited, Header("defaults")), line)
       ELSE IF \E m \in KeysOf(text, "defaults", type) : m <= end
       THEN edited
       ELSE IF text[end].ended THEN InsertAfter(edited, end, line)
       ELSE [edited EXCEPT ![end] = RunTogether(text[end])]

OpenInit ==
    /\ list = List!Holding(Requests, InitialList)
    /\ offered = [r \in Requests |-> {}]
    /\ edit = [r \in Requests |-> <<>>]
    /\ pick = [r \in Requests |-> None]
    /\ remembered = [t \in ContentTypes |-> DefaultApp(InitialList, t)]
    /\ crossedLists = FALSE

-----------------------------------------------------------------------------
(* AppChooser.  The frontend names the candidates, or leaves them to the   *)
(* content type.                                                           *)
ResolveCandidates(supplied, type) ==
    IF supplied = {} THEN AppsForContentType(List!Contents(list), type)
    ELSE supplied \cap Apps

ChooseApplication(r) ==
    \E type \in ContentTypes, supplied \in {{}, TerminalApps, {None}} :
        LET apps == ResolveCandidates(supplied, type)
        IN /\ Arrive(r, "choose", [type |-> type], apps # {})
           /\ offered' = [offered EXCEPT ![r] = apps]
           /\ UNCHANGED <<list, edit, pick, remembered, crossedLists>>

AppChooserWorker(r) == Admit(r, "choose", "asking")

(* A pick that was not offered is no answer. *)
ValidFor(r, app) == app \in offered[r]

(* The user's pick, with the remember box ticked or not. *)
Picked(r, app) ==
    \/ Answer(r, "success") /\ UNCHANGED pick
    \/ Goto(r, "reading") /\ pick' = [pick EXCEPT ![r] = app]

AppChooserRun(r) ==
    /\ \/ Recheck(r, "choose") /\ UNCHANGED pick
       \/ StillOpen(r, "choose") /\ \E app \in Apps :
            \/ ~ValidFor(r, app) /\ Answer(r, "refused") /\ UNCHANGED pick
            \/ ValidFor(r, app) /\ Picked(r, app)
    /\ UNCHANGED <<list, offered, edit, remembered, crossedLists>>

(* OpenURI and OpenFile.  A URI that is malformed, or a descriptor without *)
(* a path, has no type.                                                    *)
ClassifiedTypes == ContentTypes \cup {None}

OpenUri(r) ==
    \E type \in ClassifiedTypes, ask \in BOOLEAN :
        /\ Arrive(r, "open", [type |-> type, ask |-> ask], type # None)
        /\ UNCHANGED openVars

OpenUriWorker(r) == Admit(r, "open", "deciding")

Candidates(type) == AppsForContentType(List!Contents(list), type) \ TerminalApps

(* What needs a terminal is not launched, and what does not may still not  *)
(* start.                                                                  *)
LaunchApp(app) == IF app \in TerminalApps THEN {FALSE} ELSE BOOLEAN

(* With a default and no wish to be asked it is launched at once; else the *)
(* user picks, if there is anything to pick.                               *)
Decide(r) ==
    /\ kind[r] = "open" /\ at[r] = "deciding"
    /\ LET default == DefaultApp(List!Contents(list), arg[r].type)
           apps == Candidates(arg[r].type)
       IN IF ~arg[r].ask /\ default # None
          THEN /\ \E launched \in LaunchApp(default) :
                     Answer(r, IF launched THEN "success" ELSE "refused")
               /\ UNCHANGED offered
          ELSE /\ IF apps = {} THEN Answer(r, "refused") ELSE Goto(r, "asking")
               /\ offered' = [offered EXCEPT ![r] = apps]
    /\ UNCHANGED <<list, edit, pick, remembered, crossedLists>>

OpenUriRun(r) ==
    /\ \/ Recheck(r, "open") /\ UNCHANGED pick
       \/ StillOpen(r, "open") /\ \E app \in Apps : \E launched \in LaunchApp(app) :
            IF ValidFor(r, app) /\ launched THEN Picked(r, app)
            ELSE Answer(r, "refused") /\ UNCHANGED pick
    /\ UNCHANGED <<list, offered, edit, remembered, crossedLists>>

-----------------------------------------------------------------------------
(* set_default_app, step by step.  A failure of any of them is logged and  *)
(* the request succeeds all the same.                                      *)
Editors == {r \in Requests : at[r] \in {"opening", "rewriting", "renaming"}}

ReadList(r) ==
    /\ at[r] = "reading"
    /\ \/ Answer(r, "success") /\ UNCHANGED <<edit, crossedLists>>
       \/ /\ Goto(r, "opening")
          /\ edit' = [edit EXCEPT ![r] =
                         Update(List!Contents(list), arg[r].type, pick[r])]
          /\ crossedLists' = (crossedLists \/ Editors # {})
    /\ UNCHANGED <<list, offered, pick, remembered>>

OpenTemp(r) ==
    /\ at[r] = "opening"
    /\ \/ Answer(r, "success") /\ UNCHANGED list
       \/ Goto(r, "rewriting") /\ list' = List!Open(list, r)
    /\ UNCHANGED <<offered, edit, pick, remembered, crossedLists>>

RewriteList(r) ==
    /\ at[r] = "rewriting"
    /\ \/ Goto(r, "renaming") /\ list' = List!Fill(list, r, edit[r])
       \/ Answer(r, "success") /\ list' = List!Abandon(list, r)
    /\ UNCHANGED <<offered, edit, pick, remembered, crossedLists>>

RenameList(r) ==
    /\ at[r] = "renaming"
    /\ Answer(r, "success")
    /\ \/ /\ List!CanRename(list)
          /\ list' = List!Rename(list)
          /\ remembered' = [remembered EXCEPT ![arg[r].type] = pick[r]]
       \/ UNCHANGED <<list, remembered>>
    /\ UNCHANGED <<offered, edit, pick, crossedLists>>

SetDefaultApp(r) == ReadList(r) \/ OpenTemp(r) \/ RewriteList(r) \/ RenameList(r)

OpenNext(r) ==
    \/ (AppChooserWorker(r) \/ OpenUriWorker(r)) /\ UNCHANGED openVars
    \/ ChooseApplication(r) \/ OpenUri(r) \/ AppChooserRun(r) \/ Decide(r) \/ OpenUriRun(r)
    \/ SetDefaultApp(r)

-----------------------------------------------------------------------------
(* "Record desktop_id as the default for content_type ..., preserving      *)
(* every unrelated line" (apps.rs:339): as long as one request edits the   *)
(* list at a time, the default of each content type is the one last        *)
(* recorded for it, and the user's added and removed associations are what *)
(* they were, whatever writes failed in between.                           *)
DefaultsAsRemembered ==
    ~crossedLists =>
        \A type \in ContentTypes :
            /\ DefaultApp(List!Contents(list), type) = remembered[type]
            /\ \A group \in {"added", "removed"} :
                   Listed(List!Contents(list), group, type) = Listed(InitialList, group, type)
=============================================================================
