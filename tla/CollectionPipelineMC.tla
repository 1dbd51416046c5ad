------------------------ MODULE CollectionPipelineMC ------------------------
(***************************************************************************)
(* An instance of CollectionPipeline for TLC: one collector with the two   *)
(* classes that overwrite the CURRENT document and one that does not.      *)
(***************************************************************************)
EXTENDS CollectionPipeline

CONSTANT nw

MCCollectors == {nw}
MCSchedules == nw :> <<"fast", "jobs", "slow">>
MCSpacing == nw :> 1
=============================================================================
