----------------------------- MODULE MCPayloads -----------------------------
(* Constants for TLC's runs of Payloads.                                   *)
EXTENDS Payloads

SomeObjects == 1 .. 8
LastStage == {Last}
BothKinds == PayloadKinds
OnlyKafka == {"kafka"}
Discards == {"discard", "process", "drain"}
NoFaults == {}
=============================================================================
