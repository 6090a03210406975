-------------------------- MODULE MCConversionJobs --------------------------
(* Small instances of ConversionJobs for TLC: which rows there are. *)
EXTENDS ConversionJobs, TLC

CONSTANTS os1, bundle1, asset1, base1

Kind == os1 :> "os" @@ bundle1 :> "compose" @@ asset1 :> "asset" @@ base1 :> "base"
KindOfRow == [r \in Rows |-> Kind[r]]
=============================================================================
