--------------------------- MODULE MCAssetReconciler ---------------------------
(* A small instance of AssetReconciler: three sources, two assets.         *)
EXTENDS AssetReconciler, TLC

CONSTANTS x, y, cmam, netbox, kaudit, v1, v2

MCFragment(source, asset_id, fields) ==
  [source |-> source, asset_id |-> asset_id, fields |-> fields]

MCFragments ==
  {MCFragment(source, x, "criticality_esp" :> v) : source \in {cmam, netbox}, v \in {v1, v2}}
    \cup {MCFragment(kaudit, x, ("criticality_esp" :> v2) @@ ("node" :> v1)),
          MCFragment(netbox, x, "node" :> v2),
          MCFragment(cmam, y, "node" :> v1)}

\* no ranking, a strict one, a tie at the top, and one that leaves a source out
MCRankings ==
  {None, (cmam :> 3) @@ (netbox :> 2) @@ (kaudit :> 1),
   (cmam :> 3) @@ (netbox :> 3) @@ (kaudit :> 1), (cmam :> 3) @@ (netbox :> 2)}
=============================================================================
