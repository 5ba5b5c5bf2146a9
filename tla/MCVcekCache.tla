---------------------------- MODULE MCVcekCache ----------------------------
\* A small instance of VcekCache: two verifications of one chip.
EXTENDS VcekCache, TLC

CONSTANTS l1, l2, f1, f2, f3

MCLookups == {l1, l2}
MCFiles == {f1, f2, f3}
=============================================================================
