---------------------------- MODULE MCHttpServer ----------------------------
(***************************************************************************)
(* Instances of HttpServer.  Each asks for one combination of things that  *)
(* may happen; together they take every action.                            *)
(***************************************************************************)
EXTENDS HttpServer, TLC

CONSTANTS c1, c2, c3, r1, r2

MCCallers == Threads \cup {"expired"}

\* Two idle connections, each with one request, whose body is declared.
Base == [idle |-> {c1, c2}, fresh |-> {}, reactors |-> {r1}, can |-> {}, faults |-> 0, sweeps |-> 0,
         reqs |-> 1, sizes |-> {3}, declared |-> {TRUE}]

\* One connection, and two reactor threads for it.
Single == [Base EXCEPT !.idle = {c1}, !.reactors = {r1, r2}]
Fresh == [Single EXCEPT !.idle = {}, !.fresh = {c1}]

MCScenarios == {
  \* three bodies that need more than the limit, and stop coming now and then
  [Base EXCEPT !.idle = {c1, c2, c3}, !.can = {"stall"}],
  \* two whose length is not known
  [Base EXCEPT !.sizes = {2, 3}, !.declared = {FALSE}, !.can = {"stall", "carry"}],
  \* the sweep runs into connections that wait for memory
  [Base EXCEPT !.can = {"expire"}, !.sweeps = 1],
  \* the server is destroyed under two requests
  [Base EXCEPT !.sizes = {2}, !.can = {"destroy"}],
  \* accept, keep-alive, requests sent ahead, failing calls
  [Fresh EXCEPT !.can = {"keep", "ahead", "error", "bad", "carry"}, !.faults = 1, !.reqs = 2, !.sizes = {0, 4}],
  \* everything that parks a connection, with the sweep
  [Single EXCEPT !.can = {"linger", "stall", "partial", "interim", "error", "keep"}, !.faults = 1, !.sweeps = 1, !.sizes = {2}],
  \* the server is destroyed while a connection comes in, with the sweep and
  \* failing calls, and may not wait for the connection to end
  [Fresh EXCEPT !.can = {"destroy", "deadline"}, !.faults = 1, !.sweeps = 1, !.sizes = {1}]}

Symmetric == Permutations(Conns) \cup Permutations(Reactors)
=============================================================================
