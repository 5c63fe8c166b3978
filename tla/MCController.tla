---------------------------- MODULE MCController ----------------------------
(* Values for the constants of Controller.                                  *)
EXTENDS Controller

CONSTANTS h1, h2

\* One host is added twice and everything is called; the handlers post events.
Posting == [hosts |-> {h1}, adds |-> 2, ops |-> AllOps, direct |-> FALSE]

\* Two hosts with threads of their own, and handlers that call the controller
\* from inside a callback, which may deadlock.
Direct ==
  [hosts |-> {h1, h2}, adds |-> 1, ops |-> {"add", "remove", "shutdown"}, direct |-> TRUE]

\* The same with handlers that post events.
Together == [Direct EXCEPT !.direct = FALSE]

MCScenarios == {Posting, Direct, Together}

MCOnce == {[Posting EXCEPT !.adds = 1]}

MCDirect == {[Direct EXCEPT !.hosts = {h1}]}

MCAddAndRemove == {[Posting EXCEPT !.adds = 1, !.ops = {"add", "remove"}]}
=============================================================================
