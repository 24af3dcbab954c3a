----------------------------- MODULE MCRecovery -----------------------------
EXTENDS Adoption, TLC

CONSTANTS m1, m2, p1, p2

None == [procs |-> {p1, p2}, machines |-> {m1}, stock |-> {m1}, backups |-> 0, restores |-> 0,
         entries |-> 0, crashes |-> 0, releases |-> 0, plans |-> 0]

MCLimits ==
    { \* two adoption loops and a publication on one plan
      [None EXCEPT !.releases = 1, !.plans = 1],
      \* an entry, marks and an exit of two processes, crossed by inventory and a publication
      [None EXCEPT !.stock = {}, !.releases = 1, !.entries = 1],
      \* an adoption after a restore and the normal restart that follows its recovery
      [None EXCEPT !.procs = {p1}, !.backups = 1, !.restores = 1, !.entries = 1, !.crashes = 1,
                   !.plans = 1],
      \* a machine whose inventory the restore erased
      [None EXCEPT !.procs = {p1}, !.machines = {m1, m2}, !.restores = 1, !.entries = 1,
                   !.crashes = 1],
      \* an entry restored from a backup, and another after it
      [None EXCEPT !.backups = 1, !.restores = 1, !.entries = 2] }

Symmetry == Permutations(Keys)

=============================================================================
