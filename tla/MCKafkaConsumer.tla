-------------------------- MODULE MCKafkaConsumer --------------------------
(* Constants for TLC's runs of KafkaConsumer.                              *)
EXTENDS KafkaConsumer

TwoPartitions == {1, 2}
FirstPartition == {1}
SecondMessage == {<<2, 1>>}
AllFaults == FaultKinds
=============================================================================
