----------------------------- MODULE MCInstalls -----------------------------
(* Static releases and model bundles on small sets.  The two share nothing:  *)
(* a behaviour is about one of them, chosen at the start, and the other one  *)
(* keeps still.                                                              *)
EXTENDS StaticRelease, ModelAssets, TLC

MCVersions == {3, 4}
MCAssetFiles == <<"model.gguf", "tokenizer.json">>
Symmetry == Permutations(Builders) \cup Permutations(Activators) \cup Permutations(Sources)

VARIABLE about

MCEnv == [provider |-> "unset", bucket |-> FALSE, prefix |-> FALSE, bundleDir |-> FALSE]

MCInit ==
  /\ Init /\ AssetInit
  /\ \/ about = "release" /\ env = MCEnv /\ disk[CHOOSE f \in Range(AssetFiles) : TRUE] = Absent
     \/ about = "bundle" /\ install = CHOOSE i \in Installs : TRUE

MCNext ==
  /\ UNCHANGED about
  /\ \/ about = "release" /\ Next /\ UNCHANGED assetVars
     \/ about = "bundle" /\ AssetNext /\ UNCHANGED vars

\* Both parts stay well formed.
TypesOK == TypeOK /\ AssetTypeOK

MCSpec == MCInit /\ [][MCNext]_<<about, vars, assetVars>>
=============================================================================
