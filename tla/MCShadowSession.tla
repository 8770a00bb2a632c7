-------------------------- MODULE MCShadowSession --------------------------
\* Instances of ShadowSession for TLC: its .cfg files give every constant.
EXTENDS ShadowSession

\* The hypothesis of the theorems holds of every instance whose InitTime is not 0.
ASSUME SidsAssumption == InitTime # 0 => SidsDiffer
=============================================================================
