---------------------------- MODULE MCDeployment ----------------------------
(***************************************************************************)
(* Two assets, a price source for each, the smoke tests in one of them,    *)
(* and a few faults of every kind.                                         *)
(***************************************************************************)
EXTENDS Deployment

CONSTANTS sei, atom, multisig

MCAssets == <<sei, atom>>

MCAll ==
    {"upload", "instantiate", "set_address", "init_asset", "set_price_source", "smoke_test",
     "crash"}
=============================================================================
