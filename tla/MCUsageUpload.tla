---------------------------- MODULE MCUsageUpload ----------------------------
(* Small instances of UsageUpload for TLC. *)
EXTENDS UsageUpload

CONSTANTS a1, a2
MCAddrs == {a1, a2}

\* Two servers on hosts of their own, as in the shipped configuration.
TwoHosts == <<a1, a2>>

\* Two servers that differ only in their url, as in the configuration of
\* test_upload_product_usage_data.
OneHost == <<a1, a1>>
=============================================================================
