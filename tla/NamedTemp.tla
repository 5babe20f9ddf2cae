------------------------------ MODULE NamedTemp ------------------------------
(***************************************************************************)
(* A file that is replaced through a temporary file of a fixed name: the   *)
(* autostart entry (background.rs) and mimeapps.list (apps.rs) name theirs *)
(* after the process, so two tasks that write at once share it.  A name    *)
(* refers to an inode, called after the task that created it; a writer     *)
(* goes on writing to the inode it opened wherever its name has gone.      *)
(***************************************************************************)
EXTENDS Naturals

CONSTANTS Empty, None

(* name: the file, temp: the temporary, text: the inodes, at: the inode    *)
(* each task has open.  A missing file reads as an empty one.              *)
Inodes(Tasks) == Tasks \cup {"first"}

Files(Tasks, Texts) ==
    [name : Inodes(Tasks), temp : Inodes(Tasks) \cup {None},
     at : [Tasks -> Inodes(Tasks) \cup {None}], text : [Inodes(Tasks) -> Texts]]

Holding(Tasks, contents) ==
    [name |-> "first", temp |-> None, at |-> [r \in Tasks |-> None],
     text |-> [i \in Inodes(Tasks) |-> IF i = "first" THEN contents ELSE Empty]]

(* fs::write opens and truncates, *)
Open(f, r) ==
    LET i == IF f.temp = None THEN r ELSE f.temp
    IN [f EXCEPT !.temp = i, !.text[i] = Empty, !.at[r] = i]

(* and then writes. *)
Fill(f, r, text) == [f EXCEPT !.text[f.at[r]] = text, !.at[r] = None]

(* A failed write closes the file and leaves it. *)
Abandon(f, r) == [f EXCEPT !.at[r] = None]

(* fs::rename fails if the temporary is gone. *)
CanRename(f) == f.temp # None
Rename(f) == [f EXCEPT !.name = f.temp, !.temp = None]

Contents(f) == f.text[f.name]
=============================================================================
