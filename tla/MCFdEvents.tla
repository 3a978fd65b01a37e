----------------------------- MODULE MCFdEvents -----------------------------
(* Model values and small sets for checking FdEvents with TLC. *)
EXTENDS FdEvents

CONSTANTS fd1, t1, t2, o1, o2

OneFd       == {fd1}
OneThread   == {t1}
TwoThreads  == {t1, t2}
TwoOwners   == {o1, o2}
ReadOnly    == {READ}
BothEvents  == {READ, WRITE}
AllOps      == {"del", "cancel", "cancelAll", "close"}
NoOps       == {}
CancelOnly  == {"cancel"}
DelCancel   == {"del", "cancel"}
CallOps     == {"del", "cancel", "cancelAll"}
\* Stands for SIZE_MAX: larger than any count the bounds let pending reach.
SizeMaxValue == 1000

=============================================================================
