----------------------------- MODULE MCDispatch -----------------------------
(***************************************************************************)
(* Small instances of Dispatch for TLC.                                     *)
(***************************************************************************)
EXTENDS Dispatch, TLC

CONSTANTS p1, m1, c1, c2, r0, r1, foreign

OneMachine == [p \in Plans |-> m1]
OneCluster == [m \in Machines |-> m1]

MCLimits ==
  \* two processes that crash, take over and lose responses, and a plan that ends
  {[procs |-> {c1, c2}, gens |-> 2, obs |-> 2, kinds |-> {"lapse", "admin", "fail", "unread"},
    events |-> 0, late |-> TRUE]}
  \* drift observations in any order, against a publication
  \cup {[procs |-> {c}, gens |-> 1, obs |-> 3, kinds |-> {"scan", "publish"}, events |-> 1,
         late |-> FALSE] : c \in Controllers}
  \* a node changed by hand, a freeze, a revert, a request that lands late; a node replaced
  \cup {[procs |-> {c}, gens |-> 1, obs |-> 3, kinds |-> {"scan", "foreign", "freeze"}, events |-> 2,
         late |-> TRUE] : c \in Controllers}
  \cup {[procs |-> {c}, gens |-> 1, obs |-> 3, kinds |-> {"scan", "replace", "freeze"}, events |-> 1,
         late |-> TRUE] : c \in Controllers}
  \* an attempt accounted for by decision and the operation retried beside the old executor
  \cup {[procs |-> {c1, c2}, gens |-> 1, obs |-> 4, kinds |-> {"admin"}, events |-> 0, late |-> TRUE],
        [procs |-> {c1, c2}, gens |-> 2, obs |-> 3, kinds |-> {"admin"}, events |-> 0, late |-> TRUE]}

\* Processes are interchangeable.
ControllerSymmetry == Permutations(Controllers)
=============================================================================
