--------------------------- MODULE MCUpdater ---------------------------
(* A beta and the release it leads to, seen from the release before. *)
EXTENDS Updater

MCInstalled == [core |-> <<1, 0, 0>>, beta |-> 0, prerelease |-> FALSE]
MCCatalogue == {[core |-> <<1, 1, 0>>, beta |-> 2, prerelease |-> TRUE],
                [core |-> <<1, 1, 0>>, beta |-> 0, prerelease |-> FALSE]}
========================================================================
