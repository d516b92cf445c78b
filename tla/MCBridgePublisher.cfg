SPECIFICATION FairSpec
CONSTANTS
  Fingerprints = {f1}
  Approvals = {a1}
  Reports = {d1}
  Nothing = Nothing
  Late <- ReportKeys
  MaxEpisode = 2
  MaxFailures = 2

INVARIANTS
  ExactlyOnce

PROPERTIES
  AlertsReachZulip
