----------------------- MODULE MCThreadPoolWorkQueue -----------------------
(***************************************************************************)
(* Small pools and the client code that uses them.                         *)
(***************************************************************************)
EXTENDS ThreadPoolWorkQueue

CONSTANTS f1, ta, tb, tc, td

FourTasks == {ta, tb, tc, td}

Pool(donate, ringSize, groupSize, mayRefuse, Code(_)) ==
    [donate |-> donate, ringSize |-> ringSize, groupSize |-> groupSize,
     mayRefuse |-> mayRefuse, script |-> [x \in FourTasks \cup {0, f1} |-> Code(x)]]

\* A request thread adds a task for anybody and one for worker 1 and awaits
\* both; the workers share a suspended bit.
ServerCode(x) ==
    CASE x = f1 -> <<AddTask(ta, -1), AddTask(tb, 1), Await(<<ta, tb>>)>>
      [] OTHER -> <<>>

\* The main thread awaits a task that awaits one for the other worker, adds one
\* that awaits a task of its own thread, and shuts the pool down.
ShutdownCode(x) ==
    CASE x = 0 -> <<AddTask(ta, -1), Await(<<ta>>), AddTask(tb, -1), Shutdown>>
      [] x = ta -> <<AddTask(tc, 1), Await(<<tc>>)>>
      [] x = tb -> <<AddLocalTask(td), Await(<<td>>)>>
      [] OTHER -> <<>>

Awaiting == {Pool(FALSE, 2, 2, FALSE, ServerCode), Pool(TRUE, 2, 1, FALSE, ShutdownCode)}

\* Two tasks for one worker, whose ring holds one
SpillCode(x) ==
    CASE x = f1 -> <<AddTask(ta, 0), AddTask(tb, 0), Await(<<ta, tb>>)>>
      [] OTHER -> <<>>

\* A task for anybody, which the shared queue may refuse
OverflowCode(x) ==
    CASE x = f1 -> <<AddLocalTask(ta), Await(<<ta>>)>>
      [] OTHER -> <<>>
Spilling == {Pool(FALSE, 1, 1, TRUE, SpillCode), Pool(FALSE, 1, 1, TRUE, OverflowCode)}

ClientPools == Awaiting \cup Spilling

\* The main thread may run the task a foreign thread awaits.
StrandedCode(x) ==
    CASE x = 0 -> <<AddTask(ta, 1), Await(<<ta>>)>>
      [] x = f1 -> <<AddTask(tb, -1), Await(<<tb>>)>>
      [] OTHER -> <<>>
Stranding == {Pool(TRUE, 2, 1, FALSE, StrandedCode)}

\* The main thread adds a task for a worker and shuts the pool down.
UndrainedCode(x) ==
    CASE x = 0 -> <<AddTask(ta, 1), Shutdown>>
      [] OTHER -> <<>>
Undrained == {Pool(TRUE, 2, 1, FALSE, UndrainedCode)}
=============================================================================
