---------------------------- MODULE MCSilverVersions ----------------------------
\* SilverVersions with model values for its processes.
EXTENDS SilverVersions, TLC

=============================================================================
