----------------------------- MODULE BrowserApp -----------------------------
(***************************************************************************)
(* The page: which browser node it keeps, and what its buttons may do at   *)
(* the same time (apps/pwa/src/App.svelte, with start() and stop() of      *)
(* lib/browserNode.ts and the to-do database of lib/todoOrbitdb.ts).       *)
(*                                                                         *)
(* Every click starts an async function, a call; the page's own first run, *)
(* in onMount, is one more.  Calls share the variables busy, node,         *)
(* discoveryRows, bulkAbort and the fields of the to-do database, and read *)
(* them again after an await.  The step of a call that waits for something *)
(* outside (libp2p, OrbitDB, the network) may come at any time; the steps  *)
(* between run before the next event, as the promise queue has it.         *)
(*                                                                         *)
(* A call makes one node at most, so a node is named by the call that made *)
(* it, and so are a database and an AbortController.  What a dial or an    *)
(* upload answers makes no difference here: every call goes on to its      *)
(* finally block.                                                          *)
(***************************************************************************)
EXTENDS Integers, FiniteSets

CONSTANTS Clicks,       \* the calls the user can start (a bound: one click each)
          OnMount,      \* the call of onMount
          None,         \* null
          Ops           \* the buttons the user can use

AllOps == {"start", "stop", "restart", "dial", "bulk", "file", "todo", "relay",
           "check"}
Calls == Clicks \cup {OnMount}

ASSUME CallAssumption ==
    OnMount \notin Clicks /\ None \notin Calls /\ Ops \subseteq AllOps

VARIABLES busy,         \* the flag that disables buttons
          node,         \* the node the page keeps
          inst,         \* what became of the node each call made
          table,        \* the node whose rows the discovery table shows
          db,           \* the to-do database in use
          openDbs,      \* the databases that were opened and not closed
          bulkAbort,    \* the controller of the Abort button
          aborted,      \* the controllers that were aborted
          calls,        \* per call: op, where it is, and its locals
          filePicked,   \* history: a file was uploaded
          disturbed     \* history: two calls ran at the same time

vars == <<busy, node, inst, table, db, openDbs, bulkAbort, aborted,
          calls, filePicked, disturbed>>
dbVars == <<db, openDbs>>
bulkVars == <<bulkAbort, aborted>>
history == <<filePicked, disturbed>>

Running(c) == calls[c].at \notin {"idle", "done"}

\* The functions of "Check relay replication" and "Trigger relay sync" only ask
\* the relay: they never set busy, and share nothing else with the others.
SetsBusy(op) == op # "check"
Engaged(c) == Running(c) /\ SetsBusy(calls[c].op)

\* A call waits for an event at these points, and runs on at the others.
Awaits == {"idle", "status", "starting", "work", "closing", "closingOrbit",
           "stopping", "opening", "saving", "done"}
Quiet == \A c \in Calls : calls[c].at \in Awaits

Goto(c, at) == calls' = [calls EXCEPT ![c].at = at]

\* The finally block.  onMount has none, nor has a function that only asks.
ReleaseBusy(c) ==
    busy' = IF c # OnMount /\ SetsBusy(calls[c].op) THEN FALSE ELSE busy

\* The function is over; of its locals only the node a database was opened on
\* still matters.
Finish(c) ==
    /\ calls' = [calls EXCEPT ![c] = [op |-> "none", at |-> "done", n |-> @.n,
                                     d |-> None, signal |-> None]]
    /\ ReleaseBusy(c)

Init ==
    /\ busy = FALSE
    /\ node = None
    /\ inst = [c \in Calls |-> "none"]
    /\ table = None
    /\ db = None
    /\ openDbs = {}
    /\ bulkAbort = None
    /\ aborted = {}
    /\ calls = [c \in Calls |->
                  [op |-> IF c = OnMount THEN "auto" ELSE "none",
                   at |-> IF c = OnMount THEN "status" ELSE "idle",
                   n |-> None, d |-> None, signal |-> None]]
    /\ filePicked = FALSE
    /\ disturbed = FALSE

-----------------------------------------------------------------------------
(* Clicks *)

\* Mutant: the Restart button is never disabled.
EnabledRestart(op) ==
    CASE op \in {"file", "restart"} -> TRUE
      [] op = "start" -> ~busy /\ node = None
      [] op = "stop" -> ~busy /\ node # None
      [] OTHER -> ~busy

\* The disabled attributes.  "restart" is also "Apply & recreate node", which
\* needs no node; the upload field is never disabled; "check" stands for the
\* two buttons that look at busy and do not set it.
Enabled(op) ==
    CASE op = "file" -> TRUE
      [] op = "start" -> ~busy /\ node = None
      [] op = "stop" -> ~busy /\ node # None
      [] OTHER -> ~busy

\* Where the function goes first: stop and restart close the database; a to-do
\* function goes straight on when the database of the name entered is open.
Entries(op) ==
    CASE op \in {"stop", "restart"} -> {"close"}
      [] op \in {"relay", "check"} -> {"work"}
      [] op = "todo" /\ db # None -> {"saving", "ensure"}
      [] OTHER -> {"ensure"}

\* Mutant: nobody asks whether there is a controller yet.
AbortPreviousUnasked == aborted' = aborted \cup {bulkAbort}

\* Mutant: the transfer before it goes on.
AbortPreviousForgotten == UNCHANGED aborted

\* runBulkOn aborts the transfer before it and makes a controller of its own.
AbortPrevious == aborted' = aborted \cup ({bulkAbort} \ {None})

Click(c, op) ==
    /\ Quiet
    /\ calls[c].at = "idle"
    /\ op \in Ops /\ Enabled(op)
    /\ busy' = (busy \/ SetsBusy(op))
    /\ \E at \in Entries(op) :
         calls' = [calls EXCEPT ![c].op = op, ![c].at = at]
    /\ IF op = "bulk" THEN AbortPrevious /\ bulkAbort' = c
                      ELSE UNCHANGED bulkVars
    /\ filePicked' = (filePicked \/ op = "file")
    /\ disturbed' = (disturbed \/ (SetsBusy(op) /\ \E e \in Calls : Engaged(e)))
    /\ UNCHANGED <<node, inst, table, dbVars>>

\* The Abort button, disabled while busy like the others.
StopBulk ==
    /\ Quiet
    /\ ~busy /\ bulkAbort # None
    /\ aborted' = aborted \cup {bulkAbort}
    /\ UNCHANGED <<busy, node, inst, table, dbVars, bulkAbort, calls,
                   history>>

\* onMount has the relay's status, or not, and goes on to ensureNode.
StatusRead(c) ==
    /\ Quiet
    /\ calls[c].at = "status"
    /\ Goto(c, "ensure")
    /\ UNCHANGED <<busy, node, inst, table, dbVars, bulkVars, history>>

-----------------------------------------------------------------------------
(* Making a node *)

NewNode(c) ==
    /\ inst' = [inst EXCEPT ![c] = "starting"]
    /\ calls' = [calls EXCEPT ![c].at = "starting", ![c].n = c]

\* ensureNode: the node the page keeps, or a new one.
EnsureNode(c) ==
    /\ calls[c].at = "ensure"
    /\ IF node = None THEN NewNode(c)
       ELSE calls' = [calls EXCEPT ![c].at = "ready", ![c].n = node]
            /\ UNCHANGED inst
    /\ UNCHANGED <<busy, node, table, dbVars, bulkVars, history>>

Recreate(c) ==
    /\ calls[c].at = "create"
    /\ NewNode(c)
    /\ UNCHANGED <<busy, node, table, dbVars, bulkVars, history>>

\* n.start() is done.  The caller stores n whatever node has become since.
Started(c) ==
    /\ Quiet
    /\ calls[c].at = "starting"
    /\ inst' = [inst EXCEPT ![c] = "running"]
    /\ node' = c
    /\ Goto(c, "ready")
    /\ UNCHANGED <<busy, table, dbVars, bulkVars, history>>

\* n.start() throws: before libp2p runs, or after it, when Helia fails and
\* nobody holds the libp2p node any more.
StartFails(c) ==
    /\ Quiet
    /\ calls[c].at = "starting"
    /\ \E s \in {"failed", "leaked"} : inst' = [inst EXCEPT ![c] = s]
    /\ Finish(c)
    /\ UNCHANGED <<node, table, dbVars, bulkVars, history>>

\* With a node at hand.  runBulkOn reads bulkAbort.signal only now.  A to-do
\* function dials the relay if it has no peer.
Ready(c) ==
    /\ calls[c].at = "ready"
    /\ \E next \in IF calls[c].op = "todo" THEN {"work", "helia"} ELSE {"work"} :
         calls' = [calls EXCEPT ![c].at = next,
                                ![c].signal = IF calls[c].op = "bulk"
                                              THEN bulkAbort ELSE None]
    /\ UNCHANGED <<busy, node, inst, table, dbVars, bulkVars, history>>

\* The dial, the echo, the transfer, the upload, the relay's restart or what
\* was asked of the relay is over.
WorkEnds(c) ==
    /\ Quiet
    /\ calls[c].at = "work"
    /\ IF calls[c].op = "todo" THEN Goto(c, "helia") /\ UNCHANGED busy
                               ELSE Finish(c)
    /\ UNCHANGED <<node, inst, table, dbVars, bulkVars, history>>

-----------------------------------------------------------------------------
(* The to-do database *)

\* n.getHelia(): null once stop() is past helia.stop().
HeliaTaken(c) ==
    /\ calls[c].at = "helia"
    /\ \/ /\ inst[calls[c].n] \in {"running", "stopping"}
          /\ Goto(c, "close")
          /\ UNCHANGED busy
       \/ /\ inst[calls[c].n] # "running"
          /\ Finish(c)
    /\ UNCHANGED <<node, inst, table, dbVars, bulkVars, history>>

\* close(), called by resetTodoState and by open(): db.close(), then stop() of
\* the OrbitDB, if the field holds one (which is not modelled).
Close(c) ==
    /\ calls[c].at = "close"
    /\ \E at \in IF db = None THEN {"closed", "closingOrbit"} ELSE {"closing"} :
         calls' = [calls EXCEPT ![c].at = at, ![c].d = db]
    /\ UNCHANGED <<busy, node, inst, table, dbVars, bulkVars, history>>

\* Mutant: the closed database stays in the field.
ForgetDbForgotten == UNCHANGED db

ForgetDb == db' = None

Closing(c) ==
    /\ Quiet
    /\ calls[c].at = "closing"
    /\ openDbs' = openDbs \ {calls[c].d}
    /\ ForgetDb
    /\ \E at \in {"closed", "closingOrbit"} : Goto(c, at)
    /\ UNCHANGED <<busy, node, inst, table, bulkVars, history>>

OrbitStopped(c) ==
    /\ Quiet
    /\ calls[c].at = "closingOrbit"
    /\ Goto(c, "closed")
    /\ UNCHANGED <<busy, node, inst, table, dbVars, bulkVars, history>>

\* open() goes on to create OrbitDB; stop and restart go on to node.stop().
Closed(c) ==
    /\ calls[c].at = "closed"
    /\ CASE calls[c].op = "todo" -> Goto(c, "opening") /\ UNCHANGED <<busy, inst>>
         [] calls[c].op # "todo" /\ node # None ->
              /\ calls' = [calls EXCEPT ![c].at = "stopping", ![c].n = node]
              /\ inst' = [inst EXCEPT ![node] = "stopping"]
              /\ UNCHANGED busy
         [] calls[c].op = "restart" /\ node = None ->
              Goto(c, "create") /\ UNCHANGED <<busy, inst>>
         [] calls[c].op = "stop" /\ node = None -> Finish(c) /\ UNCHANGED inst
    /\ UNCHANGED <<node, table, dbVars, bulkVars, history>>

\* OrbitDB is there: open() stores it and lists the documents.
Opened(c) ==
    /\ Quiet
    /\ calls[c].at = "opening"
    /\ db' = c
    /\ openDbs' = openDbs \cup {c}
    /\ Goto(c, "saving")
    /\ UNCHANGED <<busy, node, inst, table, bulkVars, history>>

\* The creation fails, or the document has been written, or not.
TodoEnds(c) ==
    /\ Quiet
    /\ calls[c].at \in {"opening", "saving"}
    /\ Finish(c)
    /\ UNCHANGED <<node, inst, table, dbVars, bulkVars, history>>

-----------------------------------------------------------------------------
(* Stopping a node, and the table *)

\* Mutant: the stopped node stays in the variable.
ForgetNodeForgotten == UNCHANGED node

ForgetNode == node' = None

\* node.stop() is done; it has emptied its table and told the page.  The
\* caller clears node, whatever node has become since.
Stopped(c) ==
    /\ Quiet
    /\ calls[c].at = "stopping"
    /\ inst' = [inst EXCEPT ![calls[c].n] = "stopped"]
    /\ table' = None
    /\ ForgetNode
    /\ IF calls[c].op = "stop" THEN Finish(c)
                               ELSE Goto(c, "create") /\ UNCHANGED busy
    /\ UNCHANGED <<dbVars, bulkVars, history>>

\* The rows a node hands to the page: a stopped one has dropped its own.
RowsOf(i) == IF inst[i] = "stopped" THEN None ELSE i

\* The notification timer of a node fires.  It runs whenever the node heard of
\* a peer in the last 50 ms; stop() does not clear it, and the dials a stopped
\* node had begun start it once more.
Notify(i) ==
    /\ Quiet
    /\ inst[i] \notin {"none", "failed"}
    /\ table' = RowsOf(i)
    /\ UNCHANGED <<busy, node, inst, dbVars, bulkVars, calls, history>>

Proceed(c) ==
    \/ StatusRead(c) \/ EnsureNode(c) \/ Recreate(c) \/ Started(c)
    \/ StartFails(c) \/ Ready(c) \/ WorkEnds(c) \/ HeliaTaken(c) \/ Close(c)
    \/ Closing(c) \/ OrbitStopped(c) \/ Closed(c) \/ Opened(c) \/ TodoEnds(c)
    \/ Stopped(c)

Next ==
    \/ \E c \in Clicks, op \in Ops : Click(c, op)
    \/ \E c \in Calls : Proceed(c) \/ Notify(c)
    \/ StopBulk

Spec == Init /\ [][Next]_vars

-----------------------------------------------------------------------------
(* Properties *)

Fates == {"none", "starting", "running", "stopping", "stopped", "failed", "leaked"}
Steps == Awaits \cup {"ensure", "ready", "create", "helia", "close", "closed"}
Call == [op : Ops \cup {"auto", "none"}, at : Steps, n : Calls \cup {None},
         d : Calls \cup {None}, signal : Calls \cup {None}]

\* Every variable keeps its type.
TypeOK ==
    /\ busy \in BOOLEAN
    /\ node \in Calls \cup {None}
    /\ inst \in [Calls -> Fates]
    /\ table \in Calls \cup {None}
    /\ db \in Calls \cup {None}
    /\ openDbs \subseteq Calls
    /\ bulkAbort \in Calls \cup {None}
    /\ aborted \subseteq Calls
    /\ calls \in [Calls -> Call]
    /\ filePicked \in BOOLEAN
    /\ disturbed \in BOOLEAN

\* The node the page keeps is never one that has stopped or has not started,
\* although ensureNode, stop and restart assign the variable after an await
\* without looking at it again; and the table never shows the rows of a node
\* that has stopped, although its timer and its dials outlive stop().
KeptNodeIsAlive ==
    /\ node # None => inst[node] \in {"running", "stopping"}
    /\ table # None => inst[table] # "stopped"

\* No transfer loses its controller: one that goes on has the controller that
\* bulkAbort holds, or has been told to end, although runBulkOn replaces
\* bulkAbort before an await and reads it again after it.  (That the Abort
\* button can be clicked is not said: it is disabled while busy.)
BulkKeepsItsController ==
    \A c \in Clicks :
        calls[c].op = "bulk" /\ calls[c].at = "work" =>
            calls[c].signal = bulkAbort \/ calls[c].signal \in aborted

\* busy never stays set with no function left that clears it, which would
\* disable the buttons for good; and as long as no file is uploaded (the upload
\* neither waits for the flag nor leaves it as it was) it is set while a
\* function that sets it runs, and one of them runs at a time.
BusyIsTrue ==
    /\ busy => \E c \in Clicks : Engaged(c)
    /\ ~filePicked =>
         \A c, e \in Clicks : Engaged(c) /\ Engaged(e) => busy /\ c = e

\* As long as no two calls have run at the same time (those that only ask the
\* relay apart), the page loses no node and no database: a node that runs is the
\* one it keeps, the database that is open is the one in use, and it belongs to
\* that node.  (A start that fails may still leave a libp2p node behind.)
AloneNothingIsLost ==
    ~disturbed =>
        /\ \A c \in Calls : inst[c] \in {"running", "stopping"} => node = c
        /\ openDbs = {db} \ {None}
        /\ db # None => node = calls[db].n
=============================================================================
