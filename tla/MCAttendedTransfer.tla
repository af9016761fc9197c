------------------------- MODULE MCAttendedTransfer -------------------------
EXTENDS AttendedTransfer

\* For the run that checks no liveness property.
Safety == Init /\ [][Next]_vars

\* What comes later is claimed of no transfer: the call's cleanup has begun, no end of a
\* leg can begin another, and it ends, which decides whatever is on.
Timely == Orderly /\ "late" \notin odd

=============================================================================
