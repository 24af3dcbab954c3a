------------------------------ MODULE MCMonitor ------------------------------
(* The dependency monitor for TLC: two processes and two releases. The limits set apart the races *)
(* of passes and publications with a changing provider from those of watchdogs and loggers.       *)
EXTENDS Monitor

CONSTANTS p1, p2, r1, r2

MCProcesses == {p1, p2}
MCReleases == {r1, r2}
L(provider, passes, dogs, loggers, clock, changes, releases, faults, failures) ==
    [provider |-> provider, passes |-> passes, dogs |-> dogs, loggers |-> loggers, clock |-> clock,
     changes |-> changes, releases |-> releases, faults |-> faults, failures |-> failures]
MCLimits ==
    { L("kv", {p1, p2}, {}, {}, 2, 1, {r1}, 1, {"none"}),
      L("kv", {p1, p2}, {}, {}, 1, 2, {r1}, 1, {"none"}),
      L("kv", {p1}, {}, {}, 3, 1, {r1, r2}, 0, {}),
      L("kv", {p1}, {}, {}, 2, 2, {r1}, 0, {}),
      L("transit", {p1}, {}, {}, 2, 2, {r1, r2}, 0, {}),
      L("kv", {p1}, {}, {}, 3, 1, {r1}, 1, {"none", "403", "503", "500", "undated", "garbled"}),
      L("kv", {p1}, {p1, p2}, {p1}, 7, 0, {}, 1, {}),
      L("kv", {p1, p2}, {p2}, {p1, p2}, 4, 0, {}, 1, {}),
      L("kv", {p1, p2}, {}, {p1, p2}, 1, 1, {r1}, 1, {}),
      L("kv", {p1}, {}, {p1, p2}, 2, 1, {r1}, 1, {}) }

=============================================================================
