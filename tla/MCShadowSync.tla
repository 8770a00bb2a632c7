---------------------------- MODULE MCShadowSync ----------------------------
\* Instances of ShadowSync for TLC.
EXTENDS ShadowSync

FirstOn == {<<1, "b">>}
=============================================================================
