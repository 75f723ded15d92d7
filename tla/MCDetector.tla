----------------------------- MODULE MCDetector -----------------------------
\* Small instance of Detector for TLC.
EXTENDS Detector

CONSTANTS c1, c2, s1, s2

MCOwner == [s \in Sessions |-> c1]

MCActivities ==
  {[type |-> "command.executed", marks |-> {"post_login_recon", "sensitive_file_read"}],
   [type |-> "file.written", marks |-> {"persistence_attempt"}]}
=============================================================================
