------------------------ MODULE MCDesktopPreferences ------------------------
(* Symmetry for the safety runs of DesktopPreferences: looks, fonts and    *)
(* the identifiers of an application are interchangeable.                  *)
EXTENDS DesktopPreferences, TLC

Symmetry == UNION {Permutations(S) : S \in {Looks, Fonts, Apps, Ids}}
=============================================================================
