-------------------------- MODULE MCNotifier --------------------------
(* Each endpoint wants one half of the health events; scans go to both.   *)
EXTENDS Notifier

CONSTANTS h1, h2

MCHooks == {h1, h2}
MCWants == (h1 :> {"health.degraded", "scan.completed"})
           @@ (h2 :> {"health.recovered", "scan.completed"})
========================================================================
