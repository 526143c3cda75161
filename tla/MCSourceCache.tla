--------------------------- MODULE MCSourceCache ---------------------------
(***************************************************************************)
(* Instances of SourceCache: two targets that require na, which a defines, *)
(* and b, which defines nb.                                                *)
(***************************************************************************)
EXTENDS SourceCache

CONSTANTS t1, t2, a, b, na, nb

MCPaths == {t1, t2, a, b}
MCTargets == {t1, t2}
MCNames == {na, nb}

Says(defines, requires) == [defines |-> defines, requires |-> requires]

(* The second target changes its mind about what it requires, a starts to  *)
(* require nb, b starts to define na as well and to require na.            *)
TextsOfAll ==
  [p \in MCPaths |->
     CASE p = t1 -> <<Says({}, {na})>>
       [] p = t2 -> <<Says({}, {nb}), Says({}, {na})>>
       [] p = a  -> <<Says({na}, {}), Says({na}, {nb})>>
       [] p = b  -> <<Says({nb}, {}), Says({nb}, {na}), Says({na, nb}, {})>>]

(* Only a changes: it starts to require nb. *)
TextsOfA ==
  [p \in MCPaths |->
     CASE p \in MCTargets -> <<Says({}, {na})>>
       [] p = a -> <<Says({na}, {}), Says({na}, {nb})>>
       [] p = b -> <<Says({nb}, {})>>]
=============================================================================
