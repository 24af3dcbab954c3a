------------------------------- MODULE MCWrite ------------------------------
EXTENDS Write

MCSends == 1 .. 3

MCLimits ==
    { \* two processes and two faults
      [sends |-> 2, faults |-> 2, repeats |-> 1, runs |-> 2, attempts |-> 1],
      \* three sends of one process
      [sends |-> 3, faults |-> 1, repeats |-> 2, runs |-> 1, attempts |-> 1],
      \* deadlocks retried whole
      [sends |-> 2, faults |-> 0, repeats |-> 1, runs |-> 2, attempts |-> 2] }
=============================================================================
