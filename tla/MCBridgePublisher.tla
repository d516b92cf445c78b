------------------------- MODULE MCBridgePublisher -------------------------
(* Small instances of BridgePublisher for TLC.                             *)
EXTENDS BridgePublisher

\* The daily report is posted with a delay now and then.
ReportKeys == OfKind("daily")
=============================================================================
