--------------------------- MODULE MCElasticSearch ---------------------------
(***************************************************************************)
(* Constants for TLC's runs of ElasticSearch.                              *)
(***************************************************************************)
EXTENDS ElasticSearch

\* The day changes between the second and the third of four payloads.
TwoDays == <<"monday", "monday", "tuesday", "tuesday">>

AllFaults == FaultKinds
NoFaults == {}

\* Unlimited retries, the default of none, and one.
AnyRetries == {-1, 0, 1}
\* max_retries is not set.
DefaultRetries == {0}
OneRetry == {1}
=============================================================================
