---------------------------- MODULE MCRemoteSource ----------------------------
(***************************************************************************)
(* An entry on a branch.  Its first version leads to a pinned file and on   *)
(* to a third level, which is too deep; the second one names both other     *)
(* files at once, which refer to each other and back, and one version of    *)
(* the branch's other file is too large.                                   *)
(***************************************************************************)
EXTENDS RemoteSource, TLC

CONSTANTS entry, part, pin, e1, e2, p1, p2, c1

MCFiles == {entry, part, pin}
MCVersions == entry :> {e1, e2} @@ part :> {p1, p2} @@ pin :> {c1}
MCReferences == e1 :> {pin} @@ e2 :> {part, pin} @@ p1 :> {entry} @@ p2 :> {} @@ c1 :> {part}
MCHeads == {entry :> e2 @@ part :> p1 @@ pin :> c1}
MCSize == e1 :> 1 @@ e2 :> 1 @@ p1 :> 1 @@ p2 :> 2 @@ c1 :> 1

===============================================================================
