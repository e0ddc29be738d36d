------------------------------ MODULE MCNxBoot ------------------------------
(* Small instances of NxBoot for TLC: three images, their versions, and the  *)
(* stages in which power may be lost.                                        *)
EXTENDS NxBootProofs

V(major, minor, patch) ==
  [major |-> major, minor |-> minor, patch |-> patch, pre_release |-> 0]

ImageABC == {"A", "B", "C"}

\* B replaces A; C has the version of B.
Versions == [A |-> V(1, 0, 0), B |-> V(2, 0, 0), C |-> V(2, 0, 0)]

\* Three releases; C is newer than B though its minor number is smaller.
Releases == [A |-> V(1, 0, 0), B |-> V(1, 1, 0), C |-> V(2, 0, 0)]

\* Power may be lost at every write.
AnyStage == Stage

\* Power may be lost at every write but those of two windows: while
\* nxboot_confirm retires the old recovery image, and while the primary image
\* is saved as the new one.
OutsideWindows == Stage \ {"retire", "backup"}

\* Power may be lost at every write but those of nxboot_confirm.
OutsideConfirm == Stage \ {"confirm", "retire"}
=============================================================================
