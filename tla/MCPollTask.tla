----------------------------- MODULE MCPollTask -----------------------------
(* Instances of PollTask for TLC: one output register read on every poll,  *)
(* one register of the config block and one slow register outside it.      *)
EXTENDS PollTask

MCFastReads == <<{"acOn"}>>
MCNoReads == <<>>
MCSlowReads == <<{"chargeMode"}>>
\* The config block is not the first block of the tier.
MCSlowReadsLate == <<{"gridChargeA"}, {"chargeMode"}>>
MCCfgOnly == {"chargeMode"}
MCUiRegs == {"acOn", "chargeMode"}
=============================================================================
