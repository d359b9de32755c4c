--------------------------- MODULE VersionCatalog ---------------------------
(***************************************************************************)
(* What publishing promises a reader of the index: versions appear whole,  *)
(* never change once they did, and the active one is always one of them.   *)
(***************************************************************************)
EXTENDS Naturals

CONSTANTS Versions, Builds

VARIABLES
    active,   \* the active version, 0 before the first
    catalog   \* version -> the build it holds, 0 while it is not finished

cvars == <<active, catalog>>

CatalogInit == active = 0 /\ catalog = [v \in Versions |-> 0]

Enter(v, n) ==
    /\ catalog[v] = 0
    /\ n # 0
    /\ catalog' = [catalog EXCEPT ![v] = n]
    /\ UNCHANGED active

MakeActive(v) ==
    /\ catalog[v] # 0
    /\ active' = v
    /\ UNCHANGED catalog

CatalogNext == \E v \in Versions : MakeActive(v) \/ \E n \in Builds : Enter(v, n)

Spec == CatalogInit /\ [][CatalogNext]_cvars
=============================================================================
