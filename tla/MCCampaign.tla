----------------------------- MODULE MCCampaign -----------------------------
(***************************************************************************)
(* Instances of Campaign for TLC.                                          *)
(***************************************************************************)
EXTENDS CampaignProperties

\* Fresh and resumed invocations over all the hosts, over the first two, over
\* all but the last two, and with a pool that cannot be created.
MCInvocations ==
    [resume : BOOLEAN, limit : {0, 2, -2}, workers : {2}]
        \cup [resume : BOOLEAN, limit : {0}, workers : {0}]

MCResumeOnly == [resume : {TRUE}, limit : {0}, workers : {2}]

=============================================================================
