---------------------------- MODULE MCMaterialSync ----------------------------
(* An instance of MaterialSync for TLC: one item group and two items, of which   *)
(* the second leaves the catalog with the publication, and a Site that is empty, *)
(* holds both items of an earlier release, or holds a conflict.                  *)
EXTENDS MaterialSync

CONSTANTS group, item1, item2

RankOf    == [r \in Records |-> CASE r = group -> 1 [] r = item1 -> 2 [] r = item2 -> 3]
CatalogOf == [v \in 0..MaxRevision |-> IF v < MaxRevision THEN {item1, item2} ELSE {item1}]
BeforeOf  ==
    {[r \in Records |-> Absent],
     [r \in Records |-> IF r = group THEN Unmanaged ELSE 0],
     [r \in Records |-> IF r = item2 THEN Foreign ELSE Absent],
     [r \in Records |-> IF r = item1 THEN Unmanaged ELSE Absent],
     [r \in Records |-> IF r = group THEN Foreign ELSE Absent]}
=============================================================================
