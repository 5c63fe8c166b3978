------------------------------- MODULE MCTabs -------------------------------
(* Values of the constants of Tabs that a configuration can not write.       *)
EXTENDS Tabs, TLC

CONSTANTS h1, h2

MCHosts == {h1, h2}

MCValues == [suspended : BOOLEAN]

MCHidden == [host : MCHosts, cpu : {0, 1}]

\* No property tells the hosts apart, and all of them are safety properties.
HostSymmetry == Permutations(MCHosts)

=============================================================================
