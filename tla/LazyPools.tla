------------------------------ MODULE LazyPools ------------------------------
(***************************************************************************)
(* The lazily built singletons of the kernel: the graph with its pool and  *)
(* checkpointer (app/graph.py, get_graph and close_graph), the pools of    *)
(* app/trace.py and app/payments.py, and the shutdown of app/main.py.      *)
(*                                                                         *)
(* Requests are coroutines of one event loop: what a request does between  *)
(* two awaits that suspend is one action.  pool.open() without `wait` does *)
(* not suspend; checkpointer.setup() talks to the database and does.       *)
(* A request opens at most one graph pool, and the pool has its name.      *)
(* The names of this module are its own, for Kernel_proofs extends it      *)
(* together with the other small modules.                                  *)
(***************************************************************************)

CONSTANTS
    Requests,
    NONE       \* Python's None

ASSUME PoolsAssumption == NONE \notin Requests

VARIABLES
    requestPc,     \* where a request is: "new", "setup", "running", "over"
    pool,          \* graph._pool
    checkpointer,  \* graph._checkpointer: the pool it uses
    graph,         \* graph._graph: the pool of its checkpointer
    open,          \* the graph pools that are open
    side,          \* the other pools that are open: of trace, of payments
    app,           \* "up", "closing" (the trace pool is closed), "down"
    overtaken,     \* history: in setup while another request opened a pool
    failed         \* history: their setup raised or was cancelled

poolsVars == <<requestPc, pool, checkpointer, graph, open, side, app, overtaken, failed>>

PoolsInit ==
    /\ requestPc = [r \in Requests |-> "new"]
    /\ pool = NONE /\ checkpointer = NONE /\ graph = NONE
    /\ open = {} /\ side = {} /\ app = "up" /\ overtaken = {} /\ failed = {}

InSetup == {r \in Requests : requestPc[r] = "setup"}

-----------------------------------------------------------------------------
\* get_graph: there is a graph.
HaveGraph(r) ==
    /\ app = "up" /\ requestPc[r] = "new" /\ graph # NONE
    /\ requestPc' = [requestPc EXCEPT ![r] = "running"]
    /\ UNCHANGED <<pool, checkpointer, graph, open, side, app, overtaken, failed>>

\* get_graph: there is none; up to the await of setup().
Build(r) ==
    /\ app = "up" /\ requestPc[r] = "new" /\ graph = NONE
    /\ requestPc' = [requestPc EXCEPT ![r] = "setup"]
    /\ pool' = r /\ checkpointer' = r /\ open' = open \cup {r}
    /\ overtaken' = overtaken \cup InSetup
    /\ UNCHANGED <<graph, side, app, failed>>

\* Fault: the graph is compiled with the checkpointer this request made.
FinishSetupWithOwn(r) ==
    /\ requestPc[r] = "setup"
    /\ graph' = r
    /\ requestPc' = [requestPc EXCEPT ![r] = "running"]
    /\ UNCHANGED <<pool, checkpointer, open, side, app, overtaken, failed>>

\* get_graph: setup() is over; the global checkpointer is read again.
FinishSetup(r) ==
    /\ requestPc[r] = "setup"
    /\ graph' = checkpointer
    /\ requestPc' = [requestPc EXCEPT ![r] = "running"]
    /\ UNCHANGED <<pool, checkpointer, open, side, app, overtaken, failed>>

\* get_graph: setup() raises, or the request is cancelled in it.
SetupFails(r) ==
    /\ requestPc[r] = "setup"
    /\ requestPc' = [requestPc EXCEPT ![r] = "over"] /\ failed' = failed \cup {r}
    /\ UNCHANGED <<pool, checkpointer, graph, open, side, app, overtaken>>

\* _get_pool of trace and of payments: the first use opens it.
GetSidePool(r, which) ==
    /\ requestPc[r] = "running" /\ which \notin side
    /\ side' = side \cup {which}
    /\ UNCHANGED <<requestPc, pool, checkpointer, graph, open, app, overtaken, failed>>

EndRequest(r) ==
    /\ requestPc[r] = "running"
    /\ requestPc' = [requestPc EXCEPT ![r] = "over"]
    /\ UNCHANGED <<pool, checkpointer, graph, open, side, app, overtaken, failed>>

\* lifespan: close_trace_pool, when the server has no request left.
CloseTracePool ==
    /\ app = "up" /\ \A r \in Requests : requestPc[r] \in {"new", "over"}
    /\ app' = "closing" /\ side' = side \ {"trace"}
    /\ UNCHANGED <<requestPc, pool, checkpointer, graph, open, overtaken, failed>>

\* lifespan: close_graph.  close_payments_pool is called by nobody.
CloseGraph ==
    /\ app = "closing"
    /\ app' = "down" /\ open' = open \ {pool}
    /\ pool' = NONE /\ checkpointer' = NONE /\ graph' = NONE
    /\ UNCHANGED <<requestPc, side, overtaken, failed>>

-----------------------------------------------------------------------------
Serve(r) ==
    \/ HaveGraph(r) \/ Build(r) \/ FinishSetup(r) \/ SetupFails(r) \/ EndRequest(r)
    \/ \E which \in {"trace", "payments"} : GetSidePool(r, which)

PoolsNext == (\E r \in Requests : Serve(r)) \/ CloseTracePool \/ CloseGraph

PoolsSpec == PoolsInit /\ [][PoolsNext]_poolsVars

-----------------------------------------------------------------------------
(* However many first requests race and fail: the graph in use always works on
   the pool that close_graph will close, which is open, and a pool that is left
   behind was opened by a request that was overtaken in its setup or that failed
   in it, at any time and after the shutdown. *)
OnlyOvertakenLeak ==
    /\ graph # NONE => graph = pool /\ pool \in open
    /\ open \ {pool} \subseteq overtaken \cup failed
=============================================================================
