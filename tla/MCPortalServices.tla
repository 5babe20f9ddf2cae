--------------------------- MODULE MCPortalServices ---------------------------
(* Limits and a mimeapps.list for PortalServices.  The workers of Account  *)
(* and Access run one task so that their limit is met; the others run both *)
(* requests at once.  The list has an association of each kind; the        *)
(* default of the second content type needs a terminal.                    *)
EXTENDS PortalServices

MCMaxActive == [k \in Kinds |-> IF k \in {"account", "access"} THEN 1 ELSE 2]

MCRegistered == [t \in ContentTypes |-> {"editor", "term"}]

MCInitialList ==
    << Header("added"), Key("plain", <<"viewer">>),
       Header("removed"), Key("plain", <<"term">>),
       Header("defaults"), Key("html", <<"missing", "term">>) >>

Symmetry == Permutations(Requests)

MCCompositors ==
    [versions : {{}, {24, 25}, {29, 30}}, control : BOOLEAN, renewable : BOOLEAN]
=============================================================================
