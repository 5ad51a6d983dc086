------------------------- MODULE MCDesktopApproval -------------------------
EXTENDS DesktopApproval, TLC

CONSTANTS s1, r1, r2, p1, p2, d1, d2, read, commit

OneTask == {1}
OneSession == [t \in OneTask |-> s1]
Actions1 == 1..1
Actions2 == 1..2
MCSymmetry == Permutations(Executor) \cup Permutations(Runner) \cup Permutations(Desk)
=============================================================================
