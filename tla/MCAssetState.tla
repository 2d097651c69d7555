---------------------------- MODULE MCAssetState ----------------------------
(* TLC instances of AssetState. *)
EXTENDS AssetState

NoBacklog == <<>>
OneElevated == <<"elevated">>
=============================================================================
