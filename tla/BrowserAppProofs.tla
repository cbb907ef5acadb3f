--------------------------- MODULE BrowserAppProofs ---------------------------
(***************************************************************************)
(* Proofs about the page: its variables keep their types, it keeps no node *)
(* that has stopped, no transfer loses its controller, the busy flag is    *)
(* always some function's to clear and keeps apart those that set it, and  *)
(* nothing is lost while calls run one at a time - for any number of       *)
(* clicks of any buttons.                                                  *)
(*                                                                         *)
(* The first four need one another, and where each function can be (the    *)
(* parts of IInv below), since a call that ends an await assigns node,     *)
(* busy and the table without looking at them again.                       *)
(***************************************************************************)
EXTENDS BrowserApp, TLAPS

----------------------------------------------------------------------------
\* The inductive invariant.

\* The steps of a to-do function that has its node, up to the open database.
Holding == {"ready", "work", "helia", "close", "closing", "closingOrbit",
            "closed", "opening"}

\* The steps of stop and restart up to the end of node.stop().
Stops == {"close", "closing", "closingOrbit", "closed", "stopping"}

\* Which functions pass where.
StepInv ==
  \A c \in Calls :
    /\ calls[c].at \in {"close", "closing", "closingOrbit", "closed"}
         => calls[c].op \in {"stop", "restart", "todo"}
    /\ calls[c].at = "stopping"
         => calls[c].op \in {"stop", "restart"} /\ calls[c].n # None
    /\ calls[c].at = "create" => calls[c].op = "restart"
    /\ calls[c].at = "starting" => calls[c].n = c
    /\ calls[c].at \in {"helia", "opening", "saving"} => calls[c].op = "todo"
    /\ calls[c].op = "todo" /\ calls[c].at \in Holding => calls[c].n # None
    /\ calls[c].op = "check" => calls[c].at = "work"

\* A call that has yet to make its node has made none before, and the node a
\* call stops was running.
InstInv ==
  \A c \in Calls :
    /\ calls[c].at = "starting" => inst[c] = "starting"
    /\ calls[c].at = "stopping" => inst[calls[c].n] \in {"stopping", "stopped"}
    /\ calls[c].at \in {"idle", "status", "ensure", "create"} => inst[c] = "none"
    /\ calls[c].op \in {"stop", "restart"} /\ calls[c].at \in Stops => inst[c] = "none"

\* Once there was a transfer there is a controller, and a transfer has one.
BulkInv ==
  \A c \in Calls :
    /\ calls[c].op = "bulk" => bulkAbort # None
    /\ calls[c].op = "bulk" /\ calls[c].at = "work" => calls[c].signal # None

\* The two parts of BusyIsTrue: someone will clear the flag, and without an
\* upload it is up while a function that sets it runs, which runs alone.
ClearInv == busy => \E c \in Clicks : Engaged(c)
BusyInv ==
  ~filePicked => \A c, e \in Clicks : Engaged(c) /\ Engaged(e) => busy /\ c = e

\* A database in use was opened by a call that had a node then.
DbInv ==
  \A c \in Calls : db = c => calls[c].at \in {"saving", "done"} /\ calls[c].n # None

\* A call that runs alone finds the page's variables as it left them at its
\* last step.
AloneInv ==
  ~disturbed =>
    /\ \A c, e \in Calls : Engaged(c) /\ Engaged(e) => c = e
    /\ \A c \in Calls :
         /\ calls[c].at \in {"create", "starting"} => node = None
         /\ calls[c].at \in {"closingOrbit", "closed", "opening", "stopping", "create"}
              => db = None
         /\ calls[c].at = "stopping" => calls[c].n = node
         /\ calls[c].at = "closing" => calls[c].d = db
         /\ calls[c].op = "todo" /\ calls[c].at \in Holding => calls[c].n = node

IInv ==
  /\ TypeOK /\ StepInv /\ InstInv /\ BulkInv /\ BusyInv /\ DbInv /\ AloneInv
  /\ KeptNodeIsAlive /\ BulkKeepsItsController /\ ClearInv
  /\ AloneNothingIsLost

----------------------------------------------------------------------------
\* What the helpers do to the calls.

Becomes(c, op, at, n, d, signal) ==
  /\ \A e \in Calls : e # c => calls'[e] = calls[e]
  /\ calls'[c].op = op /\ calls'[c].at = at /\ calls'[c].n = n
  /\ calls'[c].d = d /\ calls'[c].signal = signal

LEMMA GotoEffect ==
  ASSUME TypeOK, NEW c \in Calls, NEW at, Goto(c, at)
  PROVE  Becomes(c, calls[c].op, at, calls[c].n, calls[c].d, calls[c].signal)
  BY DEF TypeOK, Call, Goto, Becomes

LEMMA FinishEffect ==
  ASSUME TypeOK, NEW c \in Calls, Finish(c)
  PROVE  Becomes(c, "none", "done", calls[c].n, None, None) /\ ReleaseBusy(c)
  <1>1. calls' = [calls EXCEPT ![c] = [op |-> "none", at |-> "done", n |-> calls[c].n,
                                       d |-> None, signal |-> None]]
    BY DEF Finish
  <1>2. Becomes(c, "none", "done", calls[c].n, None, None)
    BY <1>1 DEF TypeOK, Call, Becomes
  <1>3. ReleaseBusy(c)
    BY DEF Finish
  <1> QED
    BY <1>2, <1>3

LEMMA GotoType ==
  ASSUME TypeOK, NEW c \in Calls, NEW at \in Steps, Goto(c, at)
  PROVE  calls' \in [Calls -> Call]
  BY DEF TypeOK, Call, Goto

LEMMA NodeType ==
  ASSUME TypeOK, NEW c \in Calls, NEW at \in Steps, NEW x \in Calls \cup {None},
         calls' = [calls EXCEPT ![c].at = at, ![c].n = x]
  PROVE  calls' \in [Calls -> Call]
  <1>1. calls \in [Calls -> Call] /\ calls[c] \in Call
    BY DEF TypeOK
  <1>2. [calls[c] EXCEPT !.at = at, !.n = x] \in Call
    BY <1>1 DEF Call
  <1> QED
    BY <1>1, <1>2

LEMMA DbType ==
  ASSUME TypeOK, NEW c \in Calls, NEW at \in Steps, NEW x \in Calls \cup {None},
         calls' = [calls EXCEPT ![c].at = at, ![c].d = x]
  PROVE  calls' \in [Calls -> Call]
  <1>1. calls \in [Calls -> Call] /\ calls[c] \in Call
    BY DEF TypeOK
  <1>2. [calls[c] EXCEPT !.at = at, !.d = x] \in Call
    BY <1>1 DEF Call
  <1> QED
    BY <1>1, <1>2

LEMMA SignalType ==
  ASSUME TypeOK, NEW c \in Calls, NEW at \in Steps, NEW x \in Calls \cup {None},
         calls' = [calls EXCEPT ![c].at = at, ![c].signal = x]
  PROVE  calls' \in [Calls -> Call]
  <1>1. calls \in [Calls -> Call] /\ calls[c] \in Call
    BY DEF TypeOK
  <1>2. [calls[c] EXCEPT !.at = at, !.signal = x] \in Call
    BY <1>1 DEF Call
  <1> QED
    BY <1>1, <1>2

LEMMA FinishType ==
  ASSUME TypeOK, NEW c \in Calls, Finish(c)
  PROVE  calls' \in [Calls -> Call] /\ busy' \in BOOLEAN
  <1>1. [op |-> "none", at |-> "done", n |-> calls[c].n, d |-> None, signal |-> None]
          \in Call
    BY DEF TypeOK, Call, Steps, Awaits
  <1>2. calls' = [calls EXCEPT ![c] = [op |-> "none", at |-> "done", n |-> calls[c].n,
                                       d |-> None, signal |-> None]]
    BY DEF Finish
  <1>3. busy' \in BOOLEAN
    BY DEF TypeOK, Finish, ReleaseBusy
  <1> QED
    BY <1>1, <1>2, <1>3 DEF TypeOK

\* The steps that end a function or take it on.

Ends(c) ==
  Becomes(c, "none", "done", calls[c].n, None, None) /\ ReleaseBusy(c)

GoesOn(c, at) ==
  /\ Becomes(c, calls[c].op, at, calls[c].n, calls[c].d, calls[c].signal)
  /\ busy' = busy

LEMMA WorkEndsCases ==
  ASSUME TypeOK, NEW c \in Calls, WorkEnds(c)
  PROVE  /\ calls[c].at = "work"
         /\ UNCHANGED <<node, inst, table, db, openDbs, bulkAbort, aborted,
                        filePicked, disturbed>>
         /\ (calls[c].op = "todo" /\ GoesOn(c, "helia")) \/ Ends(c)
  BY GotoEffect, FinishEffect
     DEF WorkEnds, GoesOn, Ends, dbVars, bulkVars, history

LEMMA HeliaTakenCases ==
  ASSUME TypeOK, NEW c \in Calls, HeliaTaken(c)
  PROVE  /\ calls[c].at = "helia"
         /\ UNCHANGED <<node, inst, table, db, openDbs, bulkAbort, aborted,
                        filePicked, disturbed>>
         /\ \/ inst[calls[c].n] \in {"running", "stopping"} /\ GoesOn(c, "close")
            \/ Ends(c)
  BY GotoEffect, FinishEffect
     DEF HeliaTaken, GoesOn, Ends, dbVars, bulkVars, history

LEMMA ClosedCases ==
  ASSUME IInv, NEW c \in Calls, Closed(c)
  PROVE  /\ calls[c].at = "closed"
         /\ UNCHANGED <<node, table, db, openDbs, bulkAbort, aborted, filePicked,
                        disturbed>>
         /\ \/ calls[c].op = "todo" /\ GoesOn(c, "opening") /\ inst' = inst
            \/ /\ calls[c].op \in {"stop", "restart"} /\ node # None
               /\ Becomes(c, calls[c].op, "stopping", node, calls[c].d,
                          calls[c].signal)
               /\ inst' = [inst EXCEPT ![node] = "stopping"] /\ busy' = busy
            \/ /\ calls[c].op = "restart" /\ node = None
               /\ GoesOn(c, "create") /\ inst' = inst
            \/ calls[c].op = "stop" /\ node = None /\ Ends(c) /\ inst' = inst
  <1> USE DEF IInv
  <1>1. /\ calls[c].at = "closed"
        /\ UNCHANGED <<node, table, db, openDbs, bulkAbort, aborted, filePicked,
                       disturbed>>
    BY DEF Closed, dbVars, bulkVars, history
  <1>2. calls[c].op \in {"stop", "restart", "todo"}
    BY <1>1 DEF StepInv
  <1>3. CASE calls[c].op = "todo"
    BY <1>1, <1>3, GotoEffect DEF Closed, GoesOn
  <1>4. CASE calls[c].op # "todo" /\ node # None
    <2>1. /\ calls' = [calls EXCEPT ![c].at = "stopping", ![c].n = node]
          /\ inst' = [inst EXCEPT ![node] = "stopping"] /\ busy' = busy
      BY <1>4 DEF Closed
    <2>2. Becomes(c, calls[c].op, "stopping", node, calls[c].d, calls[c].signal)
      BY <2>1 DEF TypeOK, Call, Becomes
    <2> QED
      BY <1>1, <1>2, <1>4, <2>1, <2>2
  <1>5. CASE calls[c].op = "restart" /\ node = None
    BY <1>1, <1>5, GotoEffect DEF Closed, GoesOn
  <1>6. CASE calls[c].op = "stop" /\ node = None
    BY <1>1, <1>6, FinishEffect DEF Closed, Ends
  <1> QED
    BY <1>2, <1>3, <1>4, <1>5, <1>6

LEMMA StoppedCases ==
  ASSUME TypeOK, NEW c \in Calls, Stopped(c)
  PROVE  /\ calls[c].at = "stopping"
         /\ node' = None /\ inst' = [inst EXCEPT ![calls[c].n] = "stopped"]
         /\ table' = None
         /\ UNCHANGED <<db, openDbs, bulkAbort, aborted, filePicked, disturbed>>
         /\ (calls[c].op # "stop" /\ GoesOn(c, "create")) \/ Ends(c)
  BY GotoEffect, FinishEffect
     DEF Stopped, ForgetNode, GoesOn, Ends, dbVars, bulkVars, history


----------------------------------------------------------------------------
\* The types of the variables that no function keeps for itself.
PageTypes ==
  /\ node \in Calls \cup {None} /\ table \in Calls \cup {None}
  /\ db \in Calls \cup {None} /\ openDbs \subseteq Calls
  /\ bulkAbort \in Calls \cup {None} /\ aborted \subseteq Calls
  /\ filePicked \in BOOLEAN /\ disturbed \in BOOLEAN

\* Every step keeps the types.
LEMMA TypeNext == IInv /\ [Next]_vars => TypeOK'
  <1> SUFFICES ASSUME IInv, [Next]_vars PROVE TypeOK'
    OBVIOUS
  <1> USE DEF IInv
  <1>1. ASSUME NEW c \in Clicks, NEW op \in Ops, Click(c, op)
        PROVE  TypeOK'
    <2>0. op \in Ops \cup {"auto", "none"} /\ Entries(op) \subseteq Steps /\ c \in Calls
      BY <1>1 DEF Entries, Steps, Awaits, Calls
    <2>1. calls' \in [Calls -> Call] /\ busy' \in BOOLEAN
      <3>1. PICK at \in Entries(op) : calls' = [calls EXCEPT ![c].op = op, ![c].at = at]
        BY <1>1 DEF Click
      <3>2. at \in Steps
        BY <2>0, <3>1
      <3>3. calls' \in [Calls -> Call]
        <4>1. calls \in [Calls -> Call] /\ calls[c] \in Call
          BY <2>0 DEF TypeOK
        <4>2. [calls[c] EXCEPT !.op = op, !.at = at] \in Call
          BY <2>0, <3>2, <4>1 DEF Call
        <4> QED
          BY <2>0, <3>1, <4>1, <4>2
      <3> QED
        BY <1>1, <3>3 DEF Click
    <2>2. inst' \in [Calls -> Fates]
      BY <1>1 DEF Click, Enabled, Entries, AbortPrevious, bulkVars, dbVars,
                  history, TypeOK, Fates
    <2>3. PageTypes'
      BY <2>0, <1>1 DEF Click, Enabled, Entries, AbortPrevious, bulkVars,
                        dbVars, history, TypeOK, PageTypes
    <2> QED
      BY <2>1, <2>2, <2>3 DEF TypeOK, PageTypes
  <1>2. ASSUME NEW c \in Calls, StatusRead(c)
        PROVE  TypeOK'
    <2>1. calls' \in [Calls -> Call] /\ busy' \in BOOLEAN
      BY <1>2, GotoType DEF StatusRead, Goto, bulkVars, dbVars, history, TypeOK,
                            Steps, Awaits
    <2>2. inst' \in [Calls -> Fates]
      BY <1>2 DEF StatusRead, Goto, bulkVars, dbVars, history, TypeOK, Fates
    <2>3. PageTypes'
      BY <1>2 DEF StatusRead, Goto, bulkVars, dbVars, history, TypeOK, PageTypes
    <2> QED
      BY <2>1, <2>2, <2>3 DEF TypeOK, PageTypes
  <1>3. ASSUME NEW c \in Calls, EnsureNode(c)
        PROVE  TypeOK'
    <2>1. calls' \in [Calls -> Call] /\ busy' \in BOOLEAN
      BY <1>3 DEF EnsureNode, NewNode, bulkVars, dbVars, history, TypeOK, Call,
                  Steps, Awaits, AllOps
    <2>2. inst' \in [Calls -> Fates]
      BY <1>3 DEF EnsureNode, NewNode, bulkVars, dbVars, history, TypeOK, Fates
    <2>3. PageTypes'
      BY <1>3 DEF EnsureNode, NewNode, bulkVars, dbVars, history, TypeOK,
                  PageTypes
    <2> QED
      BY <2>1, <2>2, <2>3 DEF TypeOK, PageTypes
  <1>4. ASSUME NEW c \in Calls, Recreate(c)
        PROVE  TypeOK'
    <2>1. calls' \in [Calls -> Call] /\ busy' \in BOOLEAN
      <3>1. calls' = [calls EXCEPT ![c].at = "starting", ![c].n = c]
        BY <1>4 DEF Recreate, NewNode
      <3>2. calls' \in [Calls -> Call]
        BY <3>1, NodeType DEF Steps, Awaits
      <3> QED
        BY <1>4, <3>2 DEF Recreate, TypeOK
    <2>2. inst' \in [Calls -> Fates]
      BY <1>4 DEF Recreate, NewNode, bulkVars, dbVars, history, TypeOK, Fates
    <2>3. PageTypes'
      BY <1>4 DEF Recreate, NewNode, bulkVars, dbVars, history, TypeOK,
                  PageTypes
    <2> QED
      BY <2>1, <2>2, <2>3 DEF TypeOK, PageTypes
  <1>5. ASSUME NEW c \in Calls, Started(c)
        PROVE  TypeOK'
    <2>1. calls' \in [Calls -> Call] /\ busy' \in BOOLEAN
      BY <1>5, GotoType DEF Started, Goto, bulkVars, dbVars, history, TypeOK,
                            Steps, Awaits
    <2>2. inst' \in [Calls -> Fates]
      BY <1>5 DEF Started, Goto, bulkVars, dbVars, history, TypeOK, Fates
    <2>3. PageTypes'
      BY <1>5 DEF Started, Goto, bulkVars, dbVars, history, TypeOK, PageTypes
    <2> QED
      BY <2>1, <2>2, <2>3 DEF TypeOK, PageTypes
  <1>6. ASSUME NEW c \in Calls, StartFails(c)
        PROVE  TypeOK'
    <2>1. calls' \in [Calls -> Call] /\ busy' \in BOOLEAN
      BY <1>6, FinishType DEF StartFails
    <2>2. inst' \in [Calls -> Fates]
      BY <1>6 DEF StartFails, TypeOK, Fates, dbVars, bulkVars, history
    <2>3. PageTypes'
      BY <1>6 DEF StartFails, Finish, ReleaseBusy, bulkVars, dbVars, history,
                  TypeOK, PageTypes
    <2> QED
      BY <2>1, <2>2, <2>3 DEF TypeOK, PageTypes
  <1>7. ASSUME NEW c \in Calls, Ready(c)
        PROVE  TypeOK'
    <2>1. calls' \in [Calls -> Call] /\ busy' \in BOOLEAN
      <3>1. PICK next \in {"work", "helia"} :
              calls' = [calls EXCEPT ![c].at = next,
                                     ![c].signal = IF calls[c].op = "bulk"
                                                   THEN bulkAbort ELSE None]
        BY <1>7 DEF Ready
      <3>2. (IF calls[c].op = "bulk" THEN bulkAbort ELSE None) \in Calls \cup {None}
        BY DEF TypeOK
      <3>3. calls' \in [Calls -> Call]
        BY <3>1, <3>2, SignalType DEF Steps, Awaits
      <3> QED
        BY <1>7, <3>3 DEF Ready, TypeOK
    <2>2. inst' \in [Calls -> Fates]
      BY <1>7 DEF Ready, bulkVars, dbVars, history, TypeOK, Fates
    <2>3. PageTypes'
      BY <1>7 DEF Ready, bulkVars, dbVars, history, TypeOK, PageTypes
    <2> QED
      BY <2>1, <2>2, <2>3 DEF TypeOK, PageTypes
  <1>8. ASSUME NEW c \in Calls, WorkEnds(c)
        PROVE  TypeOK'
    <2>1. calls' \in [Calls -> Call] /\ busy' \in BOOLEAN
      BY <1>8, GotoType, FinishType DEF WorkEnds, TypeOK, Steps, Awaits
    <2>2. inst' \in [Calls -> Fates]
      BY <1>8, WorkEndsCases DEF TypeOK
    <2>3. PageTypes'
      BY <1>8, WorkEndsCases DEF TypeOK, PageTypes
    <2> QED
      BY <2>1, <2>2, <2>3 DEF TypeOK, PageTypes
  <1>9. ASSUME NEW c \in Calls, HeliaTaken(c)
        PROVE  TypeOK'
    <2>1. calls' \in [Calls -> Call] /\ busy' \in BOOLEAN
      BY <1>9, GotoType, FinishType DEF HeliaTaken, TypeOK, Steps, Awaits
    <2>2. inst' \in [Calls -> Fates]
      BY <1>9, HeliaTakenCases DEF TypeOK
    <2>3. PageTypes'
      BY <1>9, HeliaTakenCases DEF TypeOK, PageTypes
    <2> QED
      BY <2>1, <2>2, <2>3 DEF TypeOK, PageTypes
  <1>10. ASSUME NEW c \in Calls, Close(c)
        PROVE  TypeOK'
    <2>1. calls' \in [Calls -> Call] /\ busy' \in BOOLEAN
      <3>1. PICK at \in {"closed", "closing", "closingOrbit"} :
              calls' = [calls EXCEPT ![c].at = at, ![c].d = db]
        BY <1>10 DEF Close
      <3>2. calls' \in [Calls -> Call]
        BY <3>1, DbType DEF Steps, Awaits, TypeOK
      <3> QED
        BY <1>10, <3>2 DEF Close, TypeOK
    <2>2. inst' \in [Calls -> Fates]
      BY <1>10 DEF Close, bulkVars, dbVars, history, TypeOK, Fates
    <2>3. PageTypes'
      BY <1>10 DEF Close, bulkVars, dbVars, history, TypeOK, PageTypes
    <2> QED
      BY <2>1, <2>2, <2>3 DEF TypeOK, PageTypes
  <1>11. ASSUME NEW c \in Calls, Closing(c)
        PROVE  TypeOK'
    <2>1. calls' \in [Calls -> Call] /\ busy' \in BOOLEAN
      BY <1>11, GotoType DEF Closing, ForgetDb, Goto, bulkVars, dbVars, history,
                             TypeOK, Steps, Awaits
    <2>2. inst' \in [Calls -> Fates]
      BY <1>11 DEF Closing, ForgetDb, Goto, bulkVars, dbVars, history, TypeOK,
                   Fates
    <2>3. PageTypes'
      BY <1>11 DEF Closing, ForgetDb, Goto, bulkVars, dbVars, history, TypeOK,
                   PageTypes
    <2> QED
      BY <2>1, <2>2, <2>3 DEF TypeOK, PageTypes
  <1>12. ASSUME NEW c \in Calls, Closed(c)
        PROVE  TypeOK'
    <2>1. calls' \in [Calls -> Call] /\ busy' \in BOOLEAN
      <3>1. CASE \E at \in {"opening", "create"} : Goto(c, at) /\ busy' = busy
        BY <3>1, GotoType DEF Steps, Awaits, TypeOK
      <3>2. CASE /\ calls' = [calls EXCEPT ![c].at = "stopping", ![c].n = node]
                 /\ busy' = busy
        BY <3>2, NodeType DEF TypeOK, Steps, Awaits
      <3>3. CASE Finish(c)
        BY <3>3, FinishType
      <3> QED
        BY <1>12, <3>1, <3>2, <3>3 DEF Closed, StepInv
    <2>2. inst' \in [Calls -> Fates]
      BY <1>12, ClosedCases DEF TypeOK, Fates
    <2>3. PageTypes'
      BY <1>12, ClosedCases DEF TypeOK, PageTypes
    <2> QED
      BY <2>1, <2>2, <2>3 DEF TypeOK, PageTypes
  <1>13. ASSUME NEW c \in Calls, Opened(c)
        PROVE  TypeOK'
    <2>1. calls' \in [Calls -> Call] /\ busy' \in BOOLEAN
      BY <1>13, GotoType DEF Opened, Goto, bulkVars, dbVars, history, TypeOK,
                             Steps, Awaits
    <2>2. inst' \in [Calls -> Fates]
      BY <1>13 DEF Opened, Goto, bulkVars, dbVars, history, TypeOK, Fates
    <2>3. PageTypes'
      BY <1>13 DEF Opened, Goto, bulkVars, dbVars, history, TypeOK, PageTypes
    <2> QED
      BY <2>1, <2>2, <2>3 DEF TypeOK, PageTypes
  <1>14. ASSUME NEW c \in Calls, TodoEnds(c)
        PROVE  TypeOK'
    <2>1. calls' \in [Calls -> Call] /\ busy' \in BOOLEAN
      BY <1>14, FinishType DEF TodoEnds
    <2>2. inst' \in [Calls -> Fates]
      BY <1>14 DEF TodoEnds, TypeOK, Fates, dbVars, bulkVars, history
    <2>3. PageTypes'
      BY <1>14 DEF TodoEnds, Finish, ReleaseBusy, bulkVars, dbVars, history,
                   TypeOK, PageTypes
    <2> QED
      BY <2>1, <2>2, <2>3 DEF TypeOK, PageTypes
  <1>15. ASSUME NEW c \in Calls, Stopped(c)
        PROVE  TypeOK'
    <2>1. calls' \in [Calls -> Call] /\ busy' \in BOOLEAN
      BY <1>15, GotoType, FinishType DEF Stopped, TypeOK, Steps, Awaits
    <2>2. inst' \in [Calls -> Fates]
      BY <1>15, StoppedCases DEF TypeOK, Fates
    <2>3. PageTypes'
      BY <1>15, StoppedCases DEF TypeOK, PageTypes
    <2> QED
      BY <2>1, <2>2, <2>3 DEF TypeOK, PageTypes
  <1>16. ASSUME NEW c \in Calls, Notify(c)
        PROVE  TypeOK'
    BY <1>16 DEF Notify, RowsOf, TypeOK, dbVars, bulkVars, history
  <1>17. CASE StopBulk
    BY <1>17 DEF StopBulk, TypeOK, dbVars, history
  <1>18. CASE UNCHANGED vars
    BY <1>18 DEF vars, dbVars, bulkVars, history, TypeOK
  <1>19. ASSUME NEW c \in Calls, OrbitStopped(c)
        PROVE  TypeOK'
    <2>1. calls' \in [Calls -> Call] /\ busy' \in BOOLEAN
      BY <1>19, GotoType DEF OrbitStopped, Goto, bulkVars, dbVars, history, TypeOK,
                            Steps, Awaits
    <2>2. inst' \in [Calls -> Fates]
      BY <1>19 DEF OrbitStopped, Goto, bulkVars, dbVars, history, TypeOK, Fates
    <2>3. PageTypes'
      BY <1>19 DEF OrbitStopped, Goto, bulkVars, dbVars, history, TypeOK, PageTypes
    <2> QED
      BY <2>1, <2>2, <2>3 DEF TypeOK, PageTypes
  <1> QED
    BY <1>1, <1>2, <1>3, <1>4, <1>5, <1>6, <1>7, <1>8, <1>9,
       <1>10, <1>11, <1>12, <1>13, <1>14, <1>15, <1>16, <1>17, <1>18, <1>19
    DEF Next, Proceed

----------------------------------------------------------------------------
\* Every step keeps the other parts of the invariant.

\* Every step takes a function where its kind may go.
LEMMA StepNext == IInv /\ [Next]_vars => StepInv'
  <1> SUFFICES ASSUME IInv, [Next]_vars PROVE StepInv'
    OBVIOUS
  <1> USE CallAssumption DEF IInv, TypeOK, Calls, Call, Steps, Fates,
                              bulkVars, dbVars, history
  <1>1. ASSUME NEW c \in Clicks, NEW op \in Ops, Click(c, op)
        PROVE  StepInv'
    BY <1>1 DEF Click, Enabled, Entries, AbortPrevious, bulkVars, dbVars,
                StepInv, Holding, Running
  <1>2. ASSUME NEW c \in Calls, StatusRead(c)
        PROVE  StepInv'
    BY <1>2 DEF StatusRead, Goto, StepInv, Holding, Running
  <1>3. ASSUME NEW c \in Calls, EnsureNode(c)
        PROVE  StepInv'
    BY <1>3 DEF EnsureNode, NewNode, StepInv, Holding, Running
  <1>4. ASSUME NEW c \in Calls, Recreate(c)
        PROVE  StepInv'
    BY <1>4 DEF Recreate, NewNode, StepInv, Holding, Running
  <1>5. ASSUME NEW c \in Calls, Started(c)
        PROVE  StepInv'
    BY <1>5 DEF Started, Goto, StepInv, Holding, Running
  <1>6. ASSUME NEW c \in Calls, StartFails(c)
        PROVE  StepInv'
    BY <1>6 DEF StartFails, Finish, ReleaseBusy, StepInv, Holding, Running
  <1>7. ASSUME NEW c \in Calls, Ready(c)
        PROVE  StepInv'
    BY <1>7 DEF Ready, StepInv, Holding, Running
  <1>8. ASSUME NEW c \in Calls, WorkEnds(c)
        PROVE  StepInv'
    BY <1>8, WorkEndsCases DEF Becomes, GoesOn, Ends, StepInv, Holding, Running
  <1>9. ASSUME NEW c \in Calls, HeliaTaken(c)
        PROVE  StepInv'
    BY <1>9, HeliaTakenCases DEF Becomes, GoesOn, Ends, StepInv, Holding,
                                 Running
  <1>10. ASSUME NEW c \in Calls, Close(c)
        PROVE  StepInv'
    BY <1>10 DEF Close, StepInv, Holding, Running
  <1>11. ASSUME NEW c \in Calls, Closing(c)
        PROVE  StepInv'
    BY <1>11 DEF Closing, ForgetDb, Goto, StepInv, Holding, Running
  <1>12. ASSUME NEW c \in Calls, Closed(c)
        PROVE  StepInv'
    BY <1>12, ClosedCases DEF Becomes, GoesOn, Ends, StepInv, Holding, Running
  <1>13. ASSUME NEW c \in Calls, Opened(c)
        PROVE  StepInv'
    BY <1>13 DEF Opened, Goto, StepInv, Holding, Running
  <1>14. ASSUME NEW c \in Calls, TodoEnds(c)
        PROVE  StepInv'
    BY <1>14 DEF TodoEnds, Finish, ReleaseBusy, StepInv, Holding, Running
  <1>15. ASSUME NEW c \in Calls, Stopped(c)
        PROVE  StepInv'
    BY <1>15, StoppedCases DEF Becomes, GoesOn, Ends, StepInv, Holding, Running
  <1>16. ASSUME NEW c \in Calls, Notify(c)
        PROVE  StepInv'
    BY <1>16 DEF Notify, RowsOf, StepInv, Holding, Running
  <1>17. CASE StopBulk
    BY <1>17 DEF StopBulk, StepInv, Holding, Running
  <1>18. CASE UNCHANGED vars
    BY <1>18 DEF vars, StepInv, Holding, Running
  <1>19. ASSUME NEW c \in Calls, OrbitStopped(c)
        PROVE  StepInv'
    BY <1>19 DEF OrbitStopped, Goto, StepInv, Holding, Running
  <1> QED
    BY <1>1, <1>2, <1>3, <1>4, <1>5, <1>6, <1>7, <1>8, <1>9,
       <1>10, <1>11, <1>12, <1>13, <1>14, <1>15, <1>16, <1>17, <1>18, <1>19
    DEF Next, Proceed

\* A call makes its node once, and only a node that runs is stopped.
LEMMA InstNext == IInv /\ [Next]_vars => InstInv'
  <1> SUFFICES ASSUME IInv, [Next]_vars PROVE InstInv'
    OBVIOUS
  <1> USE CallAssumption DEF IInv, TypeOK, Calls, Call, Steps, Fates,
                              bulkVars, dbVars, history
  <1>1. ASSUME NEW c \in Clicks, NEW op \in Ops, Click(c, op)
        PROVE  InstInv'
    BY <1>1 DEF Click, Enabled, Entries, AbortPrevious, bulkVars, dbVars,
                InstInv, Stops, StepInv, KeptNodeIsAlive
  <1>2. ASSUME NEW c \in Calls, StatusRead(c)
        PROVE  InstInv'
    BY <1>2 DEF StatusRead, Goto, InstInv, Stops, StepInv, KeptNodeIsAlive
  <1>3. ASSUME NEW c \in Calls, EnsureNode(c)
        PROVE  InstInv'
    <2>1. inst[c] = "none"
      BY <1>3 DEF EnsureNode, InstInv
    <2> QED
      BY <1>3, <2>1 DEF EnsureNode, NewNode, InstInv, Stops, StepInv,
                        KeptNodeIsAlive
  <1>4. ASSUME NEW c \in Calls, Recreate(c)
        PROVE  InstInv'
    <2>1. inst[c] = "none"
      BY <1>4 DEF Recreate, InstInv
    <2> QED
      BY <1>4, <2>1 DEF Recreate, NewNode, InstInv, Stops, StepInv,
                        KeptNodeIsAlive
  <1>5. ASSUME NEW c \in Calls, Started(c)
        PROVE  InstInv'
    BY <1>5 DEF Started, Goto, InstInv, Stops, StepInv, KeptNodeIsAlive
  <1>6. ASSUME NEW c \in Calls, StartFails(c)
        PROVE  InstInv'
    BY <1>6 DEF StartFails, Finish, ReleaseBusy, InstInv, Stops, StepInv,
                KeptNodeIsAlive
  <1>7. ASSUME NEW c \in Calls, Ready(c)
        PROVE  InstInv'
    BY <1>7 DEF Ready, InstInv, Stops, StepInv, KeptNodeIsAlive
  <1>8. ASSUME NEW c \in Calls, WorkEnds(c)
        PROVE  InstInv'
    BY <1>8, WorkEndsCases DEF Becomes, GoesOn, Ends, InstInv, Stops, StepInv,
                               KeptNodeIsAlive
  <1>9. ASSUME NEW c \in Calls, HeliaTaken(c)
        PROVE  InstInv'
    BY <1>9, HeliaTakenCases DEF Becomes, GoesOn, Ends, InstInv, Stops, StepInv,
                                 KeptNodeIsAlive
  <1>10. ASSUME NEW c \in Calls, Close(c)
        PROVE  InstInv'
    BY <1>10 DEF Close, InstInv, Stops, StepInv, KeptNodeIsAlive
  <1>11. ASSUME NEW c \in Calls, Closing(c)
        PROVE  InstInv'
    BY <1>11 DEF Closing, ForgetDb, Goto, InstInv, Stops, StepInv,
                 KeptNodeIsAlive
  <1>12. ASSUME NEW c \in Calls, Closed(c)
        PROVE  InstInv'
    BY <1>12, ClosedCases DEF Becomes, GoesOn, Ends, InstInv, Stops, StepInv,
                              KeptNodeIsAlive
  <1>13. ASSUME NEW c \in Calls, Opened(c)
        PROVE  InstInv'
    BY <1>13 DEF Opened, Goto, InstInv, Stops, StepInv, KeptNodeIsAlive
  <1>14. ASSUME NEW c \in Calls, TodoEnds(c)
        PROVE  InstInv'
    BY <1>14 DEF TodoEnds, Finish, ReleaseBusy, InstInv, Stops, StepInv,
                 KeptNodeIsAlive
  <1>15. ASSUME NEW c \in Calls, Stopped(c)
        PROVE  InstInv'
    BY <1>15, StoppedCases DEF Becomes, GoesOn, Ends, InstInv, Stops, StepInv,
                               KeptNodeIsAlive
  <1>16. ASSUME NEW c \in Calls, Notify(c)
        PROVE  InstInv'
    BY <1>16 DEF Notify, RowsOf, InstInv, Stops, StepInv, KeptNodeIsAlive
  <1>17. CASE StopBulk
    BY <1>17 DEF StopBulk, InstInv, Stops, StepInv, KeptNodeIsAlive
  <1>18. CASE UNCHANGED vars
    BY <1>18 DEF vars, InstInv, Stops, StepInv, KeptNodeIsAlive
  <1>19. ASSUME NEW c \in Calls, OrbitStopped(c)
        PROVE  InstInv'
    BY <1>19 DEF OrbitStopped, Goto, InstInv, Stops, StepInv, KeptNodeIsAlive
  <1> QED
    BY <1>1, <1>2, <1>3, <1>4, <1>5, <1>6, <1>7, <1>8, <1>9,
       <1>10, <1>11, <1>12, <1>13, <1>14, <1>15, <1>16, <1>17, <1>18, <1>19
    DEF Next, Proceed

\* A transfer's controller is replaced, and never removed.
LEMMA BulkNext == IInv /\ [Next]_vars => BulkInv'
  <1> SUFFICES ASSUME IInv, [Next]_vars PROVE BulkInv'
    OBVIOUS
  <1> USE CallAssumption DEF IInv, TypeOK, Calls, Call, Steps, Fates,
                              bulkVars, dbVars, history
  <1>1. ASSUME NEW c \in Clicks, NEW op \in Ops, Click(c, op)
        PROVE  BulkInv'
    BY <1>1 DEF Click, Enabled, Entries, AbortPrevious, bulkVars, dbVars,
                BulkInv, StepInv
  <1>2. ASSUME NEW c \in Calls, StatusRead(c)
        PROVE  BulkInv'
    BY <1>2 DEF StatusRead, Goto, BulkInv, StepInv
  <1>3. ASSUME NEW c \in Calls, EnsureNode(c)
        PROVE  BulkInv'
    BY <1>3 DEF EnsureNode, NewNode, BulkInv, StepInv
  <1>4. ASSUME NEW c \in Calls, Recreate(c)
        PROVE  BulkInv'
    BY <1>4 DEF Recreate, NewNode, BulkInv, StepInv
  <1>5. ASSUME NEW c \in Calls, Started(c)
        PROVE  BulkInv'
    BY <1>5 DEF Started, Goto, BulkInv, StepInv
  <1>6. ASSUME NEW c \in Calls, StartFails(c)
        PROVE  BulkInv'
    BY <1>6 DEF StartFails, Finish, ReleaseBusy, BulkInv, StepInv
  <1>7. ASSUME NEW c \in Calls, Ready(c)
        PROVE  BulkInv'
    BY <1>7 DEF Ready, BulkInv, StepInv
  <1>8. ASSUME NEW c \in Calls, WorkEnds(c)
        PROVE  BulkInv'
    BY <1>8, WorkEndsCases DEF Becomes, GoesOn, Ends, BulkInv, StepInv
  <1>9. ASSUME NEW c \in Calls, HeliaTaken(c)
        PROVE  BulkInv'
    BY <1>9, HeliaTakenCases DEF Becomes, GoesOn, Ends, BulkInv, StepInv
  <1>10. ASSUME NEW c \in Calls, Close(c)
        PROVE  BulkInv'
    BY <1>10 DEF Close, BulkInv, StepInv
  <1>11. ASSUME NEW c \in Calls, Closing(c)
        PROVE  BulkInv'
    BY <1>11 DEF Closing, ForgetDb, Goto, BulkInv, StepInv
  <1>12. ASSUME NEW c \in Calls, Closed(c)
        PROVE  BulkInv'
    BY <1>12, ClosedCases DEF Becomes, GoesOn, Ends, BulkInv, StepInv
  <1>13. ASSUME NEW c \in Calls, Opened(c)
        PROVE  BulkInv'
    BY <1>13 DEF Opened, Goto, BulkInv, StepInv
  <1>14. ASSUME NEW c \in Calls, TodoEnds(c)
        PROVE  BulkInv'
    BY <1>14 DEF TodoEnds, Finish, ReleaseBusy, BulkInv, StepInv
  <1>15. ASSUME NEW c \in Calls, Stopped(c)
        PROVE  BulkInv'
    BY <1>15, StoppedCases DEF Becomes, GoesOn, Ends, BulkInv, StepInv
  <1>16. ASSUME NEW c \in Calls, Notify(c)
        PROVE  BulkInv'
    BY <1>16 DEF Notify, RowsOf, BulkInv, StepInv
  <1>17. CASE StopBulk
    BY <1>17 DEF StopBulk, BulkInv, StepInv
  <1>18. CASE UNCHANGED vars
    BY <1>18 DEF vars, BulkInv, StepInv
  <1>19. ASSUME NEW c \in Calls, OrbitStopped(c)
        PROVE  BulkInv'
    BY <1>19 DEF OrbitStopped, Goto, BulkInv, StepInv
  <1> QED
    BY <1>1, <1>2, <1>3, <1>4, <1>5, <1>6, <1>7, <1>8, <1>9,
       <1>10, <1>11, <1>12, <1>13, <1>14, <1>15, <1>16, <1>17, <1>18, <1>19
    DEF Next, Proceed

\* A step that ends a function or takes one on engages no other, and the end of
\* a function leaves the flag to one that is still engaged.
LEMMA EndsBusy ==
  ASSUME IInv, NEW c \in Calls, Ends(c), calls[c].at \notin {"idle", "done"},
         filePicked' = filePicked
  PROVE  BusyInv'
  <1> SUFFICES ASSUME ~filePicked, NEW e \in Clicks, NEW f \in Clicks,
                      Engaged(e)', Engaged(f)'
               PROVE  busy' /\ e = f
    BY DEF BusyInv
  <1>1. e \in Calls /\ f \in Calls
    BY DEF Calls
  <1>2. e # c /\ f # c
    BY DEF Ends, Becomes, Engaged, Running
  <1>3. Engaged(e) /\ Engaged(f)
    BY <1>1, <1>2 DEF Ends, Becomes, Engaged, Running
  <1>4. busy /\ e = f
    BY <1>3 DEF IInv, BusyInv
  <1>5. c = OnMount \/ ~SetsBusy(calls[c].op)
    BY <1>2, <1>3 DEF IInv, BusyInv, Engaged, Running, Calls
  <1>6. busy'
    BY <1>4, <1>5 DEF Ends, ReleaseBusy
  <1> QED
    BY <1>4, <1>6

LEMMA GoingOnBusy ==
  ASSUME IInv, NEW c \in Calls, NEW at, NEW n, NEW d, NEW signal,
         Becomes(c, calls[c].op, at, n, d, signal),
         calls[c].at \notin {"idle", "done"}, busy' = busy, filePicked' = filePicked
  PROVE  BusyInv'
  <1> SUFFICES ASSUME ~filePicked, NEW e \in Clicks, NEW f \in Clicks,
                      Engaged(e)', Engaged(f)'
               PROVE  busy /\ e = f
    BY DEF BusyInv
  <1>1. Engaged(e) /\ Engaged(f)
    BY DEF Becomes, Engaged, Running, SetsBusy, Calls
  <1> QED
    BY <1>1 DEF IInv, BusyInv

\* Leaving "closed", "stopping", "work" or "helia", a call goes on or ends.
LEMMA ClosedBusy ==
  ASSUME IInv, NEW c \in Calls, Closed(c)
  PROVE  BusyInv'
  <1>1. calls[c].at \notin {"idle", "done"} /\ filePicked' = filePicked
    BY ClosedCases
  <1>2. \/ \E at, n : Becomes(c, calls[c].op, at, n, calls[c].d, calls[c].signal)
                     /\ busy' = busy
        \/ Ends(c)
    BY ClosedCases DEF GoesOn
  <1> QED
    BY <1>1, <1>2, EndsBusy, GoingOnBusy

LEMMA StoppedBusy ==
  ASSUME IInv, NEW c \in Calls, Stopped(c)
  PROVE  BusyInv'
  <1> TypeOK
    BY DEF IInv
  <1>1. calls[c].at \notin {"idle", "done"} /\ filePicked' = filePicked
    BY StoppedCases
  <1>2. GoesOn(c, "create") \/ Ends(c)
    BY StoppedCases
  <1> QED
    BY <1>1, <1>2, EndsBusy, GoingOnBusy DEF GoesOn

LEMMA WorkBusy ==
  ASSUME IInv, NEW c \in Calls, WorkEnds(c)
  PROVE  BusyInv'
  <1> TypeOK
    BY DEF IInv
  <1>1. calls[c].at \notin {"idle", "done"} /\ filePicked' = filePicked
    BY WorkEndsCases
  <1>2. GoesOn(c, "helia") \/ Ends(c)
    BY WorkEndsCases
  <1> QED
    BY <1>1, <1>2, EndsBusy, GoingOnBusy DEF GoesOn

LEMMA HeliaBusy ==
  ASSUME IInv, NEW c \in Calls, HeliaTaken(c)
  PROVE  BusyInv'
  <1> TypeOK
    BY DEF IInv
  <1>1. calls[c].at \notin {"idle", "done"} /\ filePicked' = filePicked
    BY HeliaTakenCases
  <1>2. GoesOn(c, "close") \/ Ends(c)
    BY HeliaTakenCases
  <1> QED
    BY <1>1, <1>2, EndsBusy, GoingOnBusy DEF GoesOn

\* Without an upload, a button that looks at busy works alone, if it sets it.
LEMMA BusyNext == IInv /\ [Next]_vars => BusyInv'
  <1> SUFFICES ASSUME IInv, [Next]_vars PROVE BusyInv'
    OBVIOUS
  <1> USE CallAssumption DEF IInv, TypeOK, Calls, Call, Steps, Fates,
                              bulkVars, dbVars, history
  <1>1. ASSUME NEW c \in Clicks, NEW op \in Ops, Click(c, op)
        PROVE  BusyInv'
    BY <1>1 DEF Click, Enabled, Entries, AbortPrevious, bulkVars, dbVars,
                BusyInv, Engaged, SetsBusy, Running
  <1>2. ASSUME NEW c \in Calls, StatusRead(c)
        PROVE  BusyInv'
    BY <1>2 DEF StatusRead, Goto, BusyInv, Engaged, SetsBusy, Running
  <1>3. ASSUME NEW c \in Calls, EnsureNode(c)
        PROVE  BusyInv'
    BY <1>3 DEF EnsureNode, NewNode, BusyInv, Engaged, SetsBusy, Running
  <1>4. ASSUME NEW c \in Calls, Recreate(c)
        PROVE  BusyInv'
    BY <1>4 DEF Recreate, NewNode, BusyInv, Engaged, SetsBusy, Running
  <1>5. ASSUME NEW c \in Calls, Started(c)
        PROVE  BusyInv'
    BY <1>5 DEF Started, Goto, BusyInv, Engaged, SetsBusy, Running
  <1>6. ASSUME NEW c \in Calls, StartFails(c)
        PROVE  BusyInv'
    BY <1>6 DEF StartFails, Finish, ReleaseBusy, BusyInv,
                Engaged, SetsBusy, Running
  <1>7. ASSUME NEW c \in Calls, Ready(c)
        PROVE  BusyInv'
    BY <1>7 DEF Ready, BusyInv, Engaged, SetsBusy, Running
  <1>8. ASSUME NEW c \in Calls, WorkEnds(c)
        PROVE  BusyInv'
    BY <1>8, WorkBusy
  <1>9. ASSUME NEW c \in Calls, HeliaTaken(c)
        PROVE  BusyInv'
    BY <1>9, HeliaBusy
  <1>10. ASSUME NEW c \in Calls, Close(c)
        PROVE  BusyInv'
    BY <1>10 DEF Close, BusyInv, Engaged, SetsBusy, Running
  <1>11. ASSUME NEW c \in Calls, Closing(c)
        PROVE  BusyInv'
    BY <1>11 DEF Closing, ForgetDb, Goto, BusyInv, Engaged, SetsBusy,
                 Running
  <1>12. ASSUME NEW c \in Calls, Closed(c)
        PROVE  BusyInv'
    BY <1>12, ClosedBusy
  <1>13. ASSUME NEW c \in Calls, Opened(c)
        PROVE  BusyInv'
    BY <1>13 DEF Opened, Goto, BusyInv, Engaged, SetsBusy, Running
  <1>14. ASSUME NEW c \in Calls, TodoEnds(c)
        PROVE  BusyInv'
    BY <1>14 DEF TodoEnds, Finish, ReleaseBusy, BusyInv,
                 Engaged, SetsBusy, Running
  <1>15. ASSUME NEW c \in Calls, Stopped(c)
        PROVE  BusyInv'
    BY <1>15, StoppedBusy
  <1>16. ASSUME NEW c \in Calls, Notify(c)
        PROVE  BusyInv'
    BY <1>16 DEF Notify, RowsOf, BusyInv, Engaged, SetsBusy, Running
  <1>17. CASE StopBulk
    BY <1>17 DEF StopBulk, BusyInv, Engaged, SetsBusy, Running
  <1>18. CASE UNCHANGED vars
    BY <1>18 DEF vars, BusyInv, Engaged, SetsBusy, Running
  <1>19. ASSUME NEW c \in Calls, OrbitStopped(c)
        PROVE  BusyInv'
    BY <1>19 DEF OrbitStopped, Goto, BusyInv, Engaged, SetsBusy, Running
  <1> QED
    BY <1>1, <1>2, <1>3, <1>4, <1>5, <1>6, <1>7, <1>8, <1>9,
       <1>10, <1>11, <1>12, <1>13, <1>14, <1>15, <1>16, <1>17, <1>18, <1>19
    DEF Next, Proceed

\* A database comes into use with the call that opened it.
LEMMA DbNext == IInv /\ [Next]_vars => DbInv'
  <1> SUFFICES ASSUME IInv, [Next]_vars PROVE DbInv'
    OBVIOUS
  <1> USE CallAssumption DEF IInv, TypeOK, Calls, Call, Steps, Fates,
                              bulkVars, dbVars, history
  <1>1. ASSUME NEW c \in Clicks, NEW op \in Ops, Click(c, op)
        PROVE  DbInv'
    BY <1>1 DEF Click, Enabled, Entries, AbortPrevious, bulkVars, dbVars, DbInv,
                StepInv, Holding
  <1>2. ASSUME NEW c \in Calls, StatusRead(c)
        PROVE  DbInv'
    BY <1>2 DEF StatusRead, Goto, DbInv, StepInv, Holding
  <1>3. ASSUME NEW c \in Calls, EnsureNode(c)
        PROVE  DbInv'
    BY <1>3 DEF EnsureNode, NewNode, DbInv, StepInv, Holding
  <1>4. ASSUME NEW c \in Calls, Recreate(c)
        PROVE  DbInv'
    BY <1>4 DEF Recreate, NewNode, DbInv, StepInv, Holding
  <1>5. ASSUME NEW c \in Calls, Started(c)
        PROVE  DbInv'
    BY <1>5 DEF Started, Goto, DbInv, StepInv, Holding
  <1>6. ASSUME NEW c \in Calls, StartFails(c)
        PROVE  DbInv'
    BY <1>6 DEF StartFails, Finish, ReleaseBusy, DbInv, StepInv, Holding
  <1>7. ASSUME NEW c \in Calls, Ready(c)
        PROVE  DbInv'
    BY <1>7 DEF Ready, DbInv, StepInv, Holding
  <1>8. ASSUME NEW c \in Calls, WorkEnds(c)
        PROVE  DbInv'
    BY <1>8, WorkEndsCases DEF Becomes, GoesOn, Ends, DbInv, StepInv, Holding
  <1>9. ASSUME NEW c \in Calls, HeliaTaken(c)
        PROVE  DbInv'
    BY <1>9, HeliaTakenCases DEF Becomes, GoesOn, Ends, DbInv, StepInv, Holding
  <1>10. ASSUME NEW c \in Calls, Close(c)
        PROVE  DbInv'
    BY <1>10 DEF Close, DbInv, StepInv, Holding
  <1>11. ASSUME NEW c \in Calls, Closing(c)
        PROVE  DbInv'
    BY <1>11 DEF Closing, ForgetDb, Goto, DbInv, StepInv, Holding
  <1>12. ASSUME NEW c \in Calls, Closed(c)
        PROVE  DbInv'
    BY <1>12, ClosedCases DEF Becomes, GoesOn, Ends, DbInv, StepInv, Holding
  <1>13. ASSUME NEW c \in Calls, Opened(c)
        PROVE  DbInv'
    BY <1>13 DEF Opened, Goto, DbInv, StepInv, Holding
  <1>14. ASSUME NEW c \in Calls, TodoEnds(c)
        PROVE  DbInv'
    BY <1>14 DEF TodoEnds, Finish, ReleaseBusy, DbInv, StepInv, Holding
  <1>15. ASSUME NEW c \in Calls, Stopped(c)
        PROVE  DbInv'
    BY <1>15, StoppedCases DEF Becomes, GoesOn, Ends, DbInv, StepInv, Holding
  <1>16. ASSUME NEW c \in Calls, Notify(c)
        PROVE  DbInv'
    BY <1>16 DEF Notify, RowsOf, DbInv, StepInv, Holding
  <1>17. CASE StopBulk
    BY <1>17 DEF StopBulk, DbInv, StepInv, Holding
  <1>18. CASE UNCHANGED vars
    BY <1>18 DEF vars, DbInv, StepInv, Holding
  <1>19. ASSUME NEW c \in Calls, OrbitStopped(c)
        PROVE  DbInv'
    BY <1>19 DEF OrbitStopped, Goto, DbInv, StepInv, Holding
  <1> QED
    BY <1>1, <1>2, <1>3, <1>4, <1>5, <1>6, <1>7, <1>8, <1>9,
       <1>10, <1>11, <1>12, <1>13, <1>14, <1>15, <1>16, <1>17, <1>18, <1>19
    DEF Next, Proceed

\* No await lets the page keep a node that has stopped.
LEMMA KeptNext == IInv /\ [Next]_vars => KeptNodeIsAlive'
  <1> SUFFICES ASSUME IInv, [Next]_vars PROVE KeptNodeIsAlive'
    OBVIOUS
  <1> USE CallAssumption DEF IInv, TypeOK, Calls, Call, Steps, Fates,
                              bulkVars, dbVars, history
  <1>1. ASSUME NEW c \in Clicks, NEW op \in Ops, Click(c, op)
        PROVE  KeptNodeIsAlive'
    BY <1>1 DEF Click, Enabled, Entries, AbortPrevious, bulkVars, dbVars,
                KeptNodeIsAlive, StepInv, InstInv, Stops
  <1>2. ASSUME NEW c \in Calls, StatusRead(c)
        PROVE  KeptNodeIsAlive'
    BY <1>2 DEF StatusRead, Goto, KeptNodeIsAlive, StepInv, InstInv, Stops
  <1>3. ASSUME NEW c \in Calls, EnsureNode(c)
        PROVE  KeptNodeIsAlive'
    BY <1>3 DEF EnsureNode, NewNode, KeptNodeIsAlive, StepInv, InstInv, Stops
  <1>4. ASSUME NEW c \in Calls, Recreate(c)
        PROVE  KeptNodeIsAlive'
    <2>1. inst' = [inst EXCEPT ![c] = "starting"] /\ node' = node /\ table' = table
      BY <1>4 DEF Recreate, NewNode
    <2>2. inst[c] = "none"
      BY <1>4 DEF Recreate, InstInv
    <2>3. node # c
      BY <2>2 DEF KeptNodeIsAlive
    <2> QED
      BY <2>1, <2>2, <2>3 DEF KeptNodeIsAlive
  <1>5. ASSUME NEW c \in Calls, Started(c)
        PROVE  KeptNodeIsAlive'
    BY <1>5 DEF Started, Goto, KeptNodeIsAlive, StepInv, InstInv, Stops
  <1>6. ASSUME NEW c \in Calls, StartFails(c)
        PROVE  KeptNodeIsAlive'
    BY <1>6 DEF StartFails, Finish, ReleaseBusy, KeptNodeIsAlive, StepInv,
                InstInv, Stops
  <1>7. ASSUME NEW c \in Calls, Ready(c)
        PROVE  KeptNodeIsAlive'
    BY <1>7 DEF Ready, KeptNodeIsAlive, StepInv, InstInv, Stops
  <1>8. ASSUME NEW c \in Calls, WorkEnds(c)
        PROVE  KeptNodeIsAlive'
    BY <1>8, WorkEndsCases DEF Becomes, GoesOn, Ends, KeptNodeIsAlive, StepInv,
                               InstInv, Stops
  <1>9. ASSUME NEW c \in Calls, HeliaTaken(c)
        PROVE  KeptNodeIsAlive'
    BY <1>9, HeliaTakenCases DEF Becomes, GoesOn, Ends, KeptNodeIsAlive,
                                 StepInv, InstInv, Stops
  <1>10. ASSUME NEW c \in Calls, Close(c)
        PROVE  KeptNodeIsAlive'
    BY <1>10 DEF Close, KeptNodeIsAlive, StepInv, InstInv, Stops
  <1>11. ASSUME NEW c \in Calls, Closing(c)
        PROVE  KeptNodeIsAlive'
    BY <1>11 DEF Closing, ForgetDb, Goto, KeptNodeIsAlive, StepInv, InstInv,
                 Stops
  <1>12. ASSUME NEW c \in Calls, Closed(c)
        PROVE  KeptNodeIsAlive'
    BY <1>12, ClosedCases DEF Becomes, GoesOn, Ends, KeptNodeIsAlive, StepInv,
                              InstInv, Stops
  <1>13. ASSUME NEW c \in Calls, Opened(c)
        PROVE  KeptNodeIsAlive'
    BY <1>13 DEF Opened, Goto, KeptNodeIsAlive, StepInv, InstInv, Stops
  <1>14. ASSUME NEW c \in Calls, TodoEnds(c)
        PROVE  KeptNodeIsAlive'
    BY <1>14 DEF TodoEnds, Finish, ReleaseBusy, KeptNodeIsAlive, StepInv,
                 InstInv, Stops
  <1>15. ASSUME NEW c \in Calls, Stopped(c)
        PROVE  KeptNodeIsAlive'
    BY <1>15, StoppedCases DEF Becomes, GoesOn, Ends, KeptNodeIsAlive, StepInv,
                               InstInv, Stops
  <1>16. ASSUME NEW c \in Calls, Notify(c)
        PROVE  KeptNodeIsAlive'
    BY <1>16 DEF Notify, RowsOf, KeptNodeIsAlive, StepInv, InstInv, Stops
  <1>17. CASE StopBulk
    BY <1>17 DEF StopBulk, KeptNodeIsAlive, StepInv, InstInv, Stops
  <1>18. CASE UNCHANGED vars
    BY <1>18 DEF vars, KeptNodeIsAlive, StepInv, InstInv, Stops
  <1>19. ASSUME NEW c \in Calls, OrbitStopped(c)
        PROVE  KeptNodeIsAlive'
    BY <1>19 DEF OrbitStopped, Goto, KeptNodeIsAlive, StepInv, InstInv, Stops
  <1> QED
    BY <1>1, <1>2, <1>3, <1>4, <1>5, <1>6, <1>7, <1>8, <1>9,
       <1>10, <1>11, <1>12, <1>13, <1>14, <1>15, <1>16, <1>17, <1>18, <1>19
    DEF Next, Proceed

\* A transfer that loses its controller has been aborted.
LEMMA AbortNext == IInv /\ [Next]_vars => BulkKeepsItsController'
  <1> SUFFICES ASSUME IInv, [Next]_vars PROVE BulkKeepsItsController'
    OBVIOUS
  <1> USE CallAssumption DEF IInv, TypeOK, Calls, Call, Steps, Fates,
                              bulkVars, dbVars, history
  <1>1. ASSUME NEW c \in Clicks, NEW op \in Ops, Click(c, op)
        PROVE  BulkKeepsItsController'
    BY <1>1 DEF Click, Enabled, Entries, AbortPrevious, bulkVars, dbVars,
                BulkKeepsItsController, BulkInv, StepInv
  <1>2. ASSUME NEW c \in Calls, StatusRead(c)
        PROVE  BulkKeepsItsController'
    BY <1>2 DEF StatusRead, Goto, BulkKeepsItsController, BulkInv, StepInv
  <1>3. ASSUME NEW c \in Calls, EnsureNode(c)
        PROVE  BulkKeepsItsController'
    BY <1>3 DEF EnsureNode, NewNode, BulkKeepsItsController, BulkInv, StepInv
  <1>4. ASSUME NEW c \in Calls, Recreate(c)
        PROVE  BulkKeepsItsController'
    BY <1>4 DEF Recreate, NewNode, BulkKeepsItsController, BulkInv, StepInv
  <1>5. ASSUME NEW c \in Calls, Started(c)
        PROVE  BulkKeepsItsController'
    BY <1>5 DEF Started, Goto, BulkKeepsItsController, BulkInv, StepInv
  <1>6. ASSUME NEW c \in Calls, StartFails(c)
        PROVE  BulkKeepsItsController'
    BY <1>6 DEF StartFails, Finish, ReleaseBusy, BulkKeepsItsController, BulkInv,
                StepInv
  <1>7. ASSUME NEW c \in Calls, Ready(c)
        PROVE  BulkKeepsItsController'
    BY <1>7 DEF Ready, BulkKeepsItsController, BulkInv, StepInv
  <1>8. ASSUME NEW c \in Calls, WorkEnds(c)
        PROVE  BulkKeepsItsController'
    BY <1>8, WorkEndsCases DEF Becomes, GoesOn, Ends, BulkKeepsItsController,
                               BulkInv, StepInv
  <1>9. ASSUME NEW c \in Calls, HeliaTaken(c)
        PROVE  BulkKeepsItsController'
    BY <1>9, HeliaTakenCases DEF Becomes, GoesOn, Ends, BulkKeepsItsController,
                                 BulkInv, StepInv
  <1>10. ASSUME NEW c \in Calls, Close(c)
        PROVE  BulkKeepsItsController'
    BY <1>10 DEF Close, BulkKeepsItsController, BulkInv, StepInv
  <1>11. ASSUME NEW c \in Calls, Closing(c)
        PROVE  BulkKeepsItsController'
    BY <1>11 DEF Closing, ForgetDb, Goto, BulkKeepsItsController, BulkInv,
                 StepInv
  <1>12. ASSUME NEW c \in Calls, Closed(c)
        PROVE  BulkKeepsItsController'
    BY <1>12, ClosedCases DEF Becomes, GoesOn, Ends, BulkKeepsItsController,
                              BulkInv, StepInv
  <1>13. ASSUME NEW c \in Calls, Opened(c)
        PROVE  BulkKeepsItsController'
    BY <1>13 DEF Opened, Goto, BulkKeepsItsController, BulkInv, StepInv
  <1>14. ASSUME NEW c \in Calls, TodoEnds(c)
        PROVE  BulkKeepsItsController'
    BY <1>14 DEF TodoEnds, Finish, ReleaseBusy, BulkKeepsItsController, BulkInv,
                 StepInv
  <1>15. ASSUME NEW c \in Calls, Stopped(c)
        PROVE  BulkKeepsItsController'
    BY <1>15, StoppedCases DEF Becomes, GoesOn, Ends, BulkKeepsItsController,
                               BulkInv, StepInv
  <1>16. ASSUME NEW c \in Calls, Notify(c)
        PROVE  BulkKeepsItsController'
    BY <1>16 DEF Notify, RowsOf, BulkKeepsItsController, BulkInv, StepInv
  <1>17. CASE StopBulk
    BY <1>17 DEF StopBulk, BulkKeepsItsController, BulkInv, StepInv
  <1>18. CASE UNCHANGED vars
    BY <1>18 DEF vars, BulkKeepsItsController, BulkInv, StepInv
  <1>19. ASSUME NEW c \in Calls, OrbitStopped(c)
        PROVE  BulkKeepsItsController'
    BY <1>19 DEF OrbitStopped, Goto, BulkKeepsItsController, BulkInv, StepInv
  <1> QED
    BY <1>1, <1>2, <1>3, <1>4, <1>5, <1>6, <1>7, <1>8, <1>9,
       <1>10, <1>11, <1>12, <1>13, <1>14, <1>15, <1>16, <1>17, <1>18, <1>19
    DEF Next, Proceed

\* A step that ends a function clears busy if the function sets it, and a step
\* that takes a function on leaves it running.
LEMMA EndsClears ==
  ASSUME IInv, NEW c \in Calls, Ends(c)
  PROVE  ClearInv'
  <1> SUFFICES ASSUME busy' PROVE \E e \in Clicks : Engaged(e)'
    BY DEF ClearInv
  <1>1. busy /\ (c = OnMount \/ ~SetsBusy(calls[c].op))
    BY DEF Ends, ReleaseBusy, IInv, TypeOK
  <1>2. PICK e \in Clicks : Engaged(e)
    BY <1>1 DEF IInv, ClearInv
  <1>3. e # c /\ e \in Calls
    BY <1>1, <1>2, CallAssumption DEF Engaged, Calls
  <1>4. calls'[e] = calls[e]
    BY <1>3 DEF Ends, Becomes
  <1> QED
    BY <1>2, <1>4 DEF Engaged, Running, SetsBusy

LEMMA GoingOnClears ==
  ASSUME IInv, NEW c \in Calls, NEW at, NEW n, NEW d, NEW signal,
         Becomes(c, calls[c].op, at, n, d, signal),
         at \notin {"idle", "done"}, busy' = busy
  PROVE  ClearInv'
  <1> SUFFICES ASSUME busy PROVE \E e \in Clicks : Engaged(e)'
    BY DEF ClearInv
  <1>1. PICK e \in Clicks : Engaged(e)
    BY DEF IInv, ClearInv
  <1>2. e \in Calls
    BY DEF Calls
  <1>3. Engaged(e)'
    BY <1>1, <1>2 DEF Becomes, Engaged, Running, SetsBusy
  <1> QED
    BY <1>3

LEMMA SplitClears ==
  ASSUME IInv, NEW c \in Calls,
         WorkEnds(c) \/ HeliaTaken(c) \/ Closed(c) \/ Stopped(c)
  PROVE  ClearInv'
  <1>1. TypeOK
    BY DEF IInv
  <1>2. ASSUME Ends(c) PROVE ClearInv'
    BY <1>2, EndsClears
  <1>3. ASSUME NEW at \in Steps \ {"idle", "done"}, GoesOn(c, at) PROVE ClearInv'
    BY <1>3, GoingOnClears DEF GoesOn
  <1>4. ASSUME Becomes(c, calls[c].op, "stopping", node, calls[c].d, calls[c].signal),
               busy' = busy
        PROVE  ClearInv'
    BY <1>4, GoingOnClears
  <1>5. {"helia", "close", "opening", "create"} \subseteq Steps \ {"idle", "done"}
    BY DEF Steps, Awaits
  <1>6. CASE WorkEnds(c)
    BY <1>1, <1>2, <1>3, <1>5, <1>6, WorkEndsCases
  <1>7. CASE HeliaTaken(c)
    BY <1>1, <1>2, <1>3, <1>5, <1>7, HeliaTakenCases
  <1>8. CASE Closed(c)
    BY <1>2, <1>3, <1>4, <1>5, <1>8, ClosedCases
  <1>9. CASE Stopped(c)
    BY <1>1, <1>2, <1>3, <1>5, <1>9, StoppedCases
  <1> QED
    BY <1>6, <1>7, <1>8, <1>9

\* What clears busy is the end of a function that sets it.
LEMMA ClearNext == IInv /\ [Next]_vars => ClearInv'
  <1> SUFFICES ASSUME IInv, [Next]_vars PROVE ClearInv'
    OBVIOUS
  <1> USE CallAssumption DEF IInv, TypeOK, Calls, Call, Steps, Fates,
                              bulkVars, dbVars, history
  <1>1. ASSUME NEW c \in Clicks, NEW op \in Ops, Click(c, op)
        PROVE  ClearInv'
    BY <1>1 DEF Click, Enabled, Entries, AbortPrevious, bulkVars, dbVars,
                ClearInv, Engaged, SetsBusy, Running
  <1>2. ASSUME NEW c \in Calls, StatusRead(c)
        PROVE  ClearInv'
    BY <1>2 DEF StatusRead, Goto, ClearInv, Engaged, SetsBusy, Running
  <1>3. ASSUME NEW c \in Calls, EnsureNode(c)
        PROVE  ClearInv'
    BY <1>3 DEF EnsureNode, NewNode, ClearInv, Engaged, SetsBusy, Running
  <1>4. ASSUME NEW c \in Calls, Recreate(c)
        PROVE  ClearInv'
    BY <1>4 DEF Recreate, NewNode, ClearInv, Engaged, SetsBusy, Running
  <1>5. ASSUME NEW c \in Calls, Started(c)
        PROVE  ClearInv'
    BY <1>5 DEF Started, Goto, ClearInv, Engaged, SetsBusy, Running
  <1>6. ASSUME NEW c \in Calls, StartFails(c)
        PROVE  ClearInv'
    BY <1>6, FinishEffect, EndsClears DEF StartFails, Ends
  <1>7. ASSUME NEW c \in Calls, Ready(c)
        PROVE  ClearInv'
    BY <1>7 DEF Ready, ClearInv, Engaged, SetsBusy, Running
  <1>8. ASSUME NEW c \in Calls, WorkEnds(c)
        PROVE  ClearInv'
    BY <1>8, SplitClears
  <1>9. ASSUME NEW c \in Calls, HeliaTaken(c)
        PROVE  ClearInv'
    BY <1>9, SplitClears
  <1>10. ASSUME NEW c \in Calls, Close(c)
        PROVE  ClearInv'
    BY <1>10 DEF Close, ClearInv, Engaged, SetsBusy, Running
  <1>11. ASSUME NEW c \in Calls, Closing(c)
        PROVE  ClearInv'
    BY <1>11 DEF Closing, ForgetDb, Goto, ClearInv, Engaged, SetsBusy, Running
  <1>12. ASSUME NEW c \in Calls, Closed(c)
        PROVE  ClearInv'
    BY <1>12, SplitClears
  <1>13. ASSUME NEW c \in Calls, Opened(c)
        PROVE  ClearInv'
    BY <1>13 DEF Opened, Goto, ClearInv, Engaged, SetsBusy, Running
  <1>14. ASSUME NEW c \in Calls, TodoEnds(c)
        PROVE  ClearInv'
    BY <1>14, FinishEffect, EndsClears DEF TodoEnds, Ends
  <1>15. ASSUME NEW c \in Calls, Stopped(c)
        PROVE  ClearInv'
    BY <1>15, SplitClears
  <1>16. ASSUME NEW c \in Calls, Notify(c)
        PROVE  ClearInv'
    BY <1>16 DEF Notify, RowsOf, ClearInv, Engaged, SetsBusy, Running
  <1>17. CASE StopBulk
    BY <1>17 DEF StopBulk, ClearInv, Engaged, SetsBusy, Running
  <1>18. CASE UNCHANGED vars
    BY <1>18 DEF vars, ClearInv, Engaged, SetsBusy, Running
  <1>19. ASSUME NEW c \in Calls, OrbitStopped(c)
        PROVE  ClearInv'
    BY <1>19 DEF OrbitStopped, Goto, ClearInv, Engaged, SetsBusy, Running
  <1> QED
    BY <1>1, <1>2, <1>3, <1>4, <1>5, <1>6, <1>7, <1>8, <1>9,
       <1>10, <1>11, <1>12, <1>13, <1>14, <1>15, <1>16, <1>17, <1>18, <1>19
    DEF Next, Proceed

\* A call that runs alone finds what it left.
LEMMA AloneNext == IInv /\ [Next]_vars => AloneInv'
  <1> SUFFICES ASSUME IInv, [Next]_vars PROVE AloneInv'
    OBVIOUS
  <1> USE CallAssumption DEF IInv, TypeOK, Calls, Call, Steps, Fates,
                              bulkVars, dbVars, history
  <1>1. ASSUME NEW c \in Clicks, NEW op \in Ops, Click(c, op)
        PROVE  AloneInv'
    BY <1>1 DEF Click, Enabled, Entries, AbortPrevious, bulkVars, dbVars,
                AloneInv, AloneNothingIsLost, StepInv, InstInv, KeptNodeIsAlive,
                DbInv, Holding, Stops, Engaged, SetsBusy, Running
  <1>2. ASSUME NEW c \in Calls, StatusRead(c)
        PROVE  AloneInv'
    BY <1>2 DEF StatusRead, Goto, AloneInv, AloneNothingIsLost, StepInv,
                InstInv, KeptNodeIsAlive, DbInv, Holding, Stops, Engaged, SetsBusy, Running
  <1>3. ASSUME NEW c \in Calls, EnsureNode(c)
        PROVE  AloneInv'
    BY <1>3 DEF EnsureNode, NewNode, AloneInv, AloneNothingIsLost, StepInv,
                InstInv, KeptNodeIsAlive, DbInv, Holding, Stops, Engaged, SetsBusy, Running
  <1>4. ASSUME NEW c \in Calls, Recreate(c)
        PROVE  AloneInv'
    BY <1>4 DEF Recreate, NewNode, AloneInv, AloneNothingIsLost, StepInv,
                InstInv, KeptNodeIsAlive, DbInv, Holding, Stops, Engaged, SetsBusy, Running
  <1>5. ASSUME NEW c \in Calls, Started(c)
        PROVE  AloneInv'
    BY <1>5 DEF Started, Goto, AloneInv, AloneNothingIsLost, StepInv, InstInv,
                KeptNodeIsAlive, DbInv, Holding, Stops, Engaged, SetsBusy, Running
  <1>6. ASSUME NEW c \in Calls, StartFails(c)
        PROVE  AloneInv'
    BY <1>6 DEF StartFails, Finish, ReleaseBusy, AloneInv, AloneNothingIsLost,
                StepInv, InstInv, KeptNodeIsAlive, DbInv, Holding, Stops,
                Engaged, SetsBusy, Running
  <1>7. ASSUME NEW c \in Calls, Ready(c)
        PROVE  AloneInv'
    BY <1>7 DEF Ready, AloneInv, AloneNothingIsLost, StepInv, InstInv,
                KeptNodeIsAlive, DbInv, Holding, Stops, Engaged, SetsBusy, Running
  <1>8. ASSUME NEW c \in Calls, WorkEnds(c)
        PROVE  AloneInv'
    BY <1>8, WorkEndsCases DEF Becomes, GoesOn, Ends, AloneInv,
                               AloneNothingIsLost, StepInv, InstInv,
                               KeptNodeIsAlive, DbInv, Holding, Stops, Engaged, SetsBusy, Running
  <1>9. ASSUME NEW c \in Calls, HeliaTaken(c)
        PROVE  AloneInv'
    BY <1>9, HeliaTakenCases DEF Becomes, GoesOn, Ends, AloneInv,
                                 AloneNothingIsLost, StepInv, InstInv,
                                 KeptNodeIsAlive, DbInv, Holding, Stops, Engaged, SetsBusy, Running
  <1>10. ASSUME NEW c \in Calls, Close(c)
        PROVE  AloneInv'
    BY <1>10 DEF Close, AloneInv, AloneNothingIsLost, StepInv, InstInv,
                 KeptNodeIsAlive, DbInv, Holding, Stops, Engaged, SetsBusy, Running
  <1>11. ASSUME NEW c \in Calls, Closing(c)
        PROVE  AloneInv'
    BY <1>11 DEF Closing, ForgetDb, Goto, AloneInv, AloneNothingIsLost, StepInv,
                 InstInv, KeptNodeIsAlive, DbInv, Holding, Stops, Engaged, SetsBusy, Running
  <1>12. ASSUME NEW c \in Calls, Closed(c)
        PROVE  AloneInv'
    BY <1>12, ClosedCases DEF Becomes, GoesOn, Ends, AloneInv,
                              AloneNothingIsLost, StepInv, InstInv,
                              KeptNodeIsAlive, DbInv, Holding, Stops, Engaged, SetsBusy, Running
  <1>13. ASSUME NEW c \in Calls, Opened(c)
        PROVE  AloneInv'
    BY <1>13 DEF Opened, Goto, AloneInv, AloneNothingIsLost, StepInv, InstInv,
                 KeptNodeIsAlive, DbInv, Holding, Stops, Engaged, SetsBusy, Running
  <1>14. ASSUME NEW c \in Calls, TodoEnds(c)
        PROVE  AloneInv'
    BY <1>14 DEF TodoEnds, Finish, ReleaseBusy, AloneInv, AloneNothingIsLost,
                 StepInv, InstInv, KeptNodeIsAlive, DbInv, Holding, Stops,
                 Engaged, SetsBusy, Running
  <1>15. ASSUME NEW c \in Calls, Stopped(c)
        PROVE  AloneInv'
    BY <1>15, StoppedCases DEF Becomes, GoesOn, Ends, AloneInv,
                               AloneNothingIsLost, StepInv, InstInv,
                               KeptNodeIsAlive, DbInv, Holding, Stops, Engaged, SetsBusy, Running
  <1>16. ASSUME NEW c \in Calls, Notify(c)
        PROVE  AloneInv'
    BY <1>16 DEF Notify, RowsOf, AloneInv, AloneNothingIsLost, StepInv, InstInv,
                 KeptNodeIsAlive, DbInv, Holding, Stops, Engaged, SetsBusy, Running
  <1>17. CASE StopBulk
    BY <1>17 DEF StopBulk, AloneInv, AloneNothingIsLost, StepInv, InstInv,
                 KeptNodeIsAlive, DbInv, Holding, Stops, Engaged, SetsBusy, Running
  <1>18. CASE UNCHANGED vars
    BY <1>18 DEF vars, AloneInv, AloneNothingIsLost, StepInv, InstInv,
                 KeptNodeIsAlive, DbInv, Holding, Stops, Engaged, SetsBusy, Running
  <1>19. ASSUME NEW c \in Calls, OrbitStopped(c)
        PROVE  AloneInv'
    BY <1>19 DEF OrbitStopped, Goto, AloneInv, AloneNothingIsLost, StepInv,
                InstInv, KeptNodeIsAlive, DbInv, Holding, Stops, Engaged, SetsBusy, Running
  <1> QED
    BY <1>1, <1>2, <1>3, <1>4, <1>5, <1>6, <1>7, <1>8, <1>9,
       <1>10, <1>11, <1>12, <1>13, <1>14, <1>15, <1>16, <1>17, <1>18, <1>19
    DEF Next, Proceed

\* A call that runs alone stops what it replaces.
LEMMA LostNext == IInv /\ [Next]_vars => AloneNothingIsLost'
  <1> SUFFICES ASSUME IInv, [Next]_vars PROVE AloneNothingIsLost'
    OBVIOUS
  <1> USE CallAssumption DEF IInv, TypeOK, Calls, Call, Steps, Fates,
                              bulkVars, dbVars, history
  <1>1. ASSUME NEW c \in Clicks, NEW op \in Ops, Click(c, op)
        PROVE  AloneNothingIsLost'
    BY <1>1 DEF Click, Enabled, Entries, AbortPrevious, bulkVars, dbVars,
                AloneInv, AloneNothingIsLost, StepInv, InstInv, KeptNodeIsAlive,
                DbInv, Holding, Stops, Engaged, SetsBusy, Running
  <1>2. ASSUME NEW c \in Calls, StatusRead(c)
        PROVE  AloneNothingIsLost'
    BY <1>2 DEF StatusRead, Goto, AloneInv, AloneNothingIsLost, StepInv,
                InstInv, KeptNodeIsAlive, DbInv, Holding, Stops, Engaged, SetsBusy, Running
  <1>3. ASSUME NEW c \in Calls, EnsureNode(c)
        PROVE  AloneNothingIsLost'
    BY <1>3 DEF EnsureNode, NewNode, AloneInv, AloneNothingIsLost, StepInv,
                InstInv, KeptNodeIsAlive, DbInv, Holding, Stops, Engaged, SetsBusy, Running
  <1>4. ASSUME NEW c \in Calls, Recreate(c)
        PROVE  AloneNothingIsLost'
    BY <1>4 DEF Recreate, NewNode, AloneInv, AloneNothingIsLost, StepInv,
                InstInv, KeptNodeIsAlive, DbInv, Holding, Stops, Engaged, SetsBusy, Running
  <1>5. ASSUME NEW c \in Calls, Started(c)
        PROVE  AloneNothingIsLost'
    BY <1>5 DEF Started, Goto, AloneInv, AloneNothingIsLost, StepInv, InstInv,
                KeptNodeIsAlive, DbInv, Holding, Stops, Engaged, SetsBusy, Running
  <1>6. ASSUME NEW c \in Calls, StartFails(c)
        PROVE  AloneNothingIsLost'
    BY <1>6 DEF StartFails, Finish, ReleaseBusy, AloneInv, AloneNothingIsLost,
                StepInv, InstInv, KeptNodeIsAlive, DbInv, Holding, Stops,
                Engaged, SetsBusy, Running
  <1>7. ASSUME NEW c \in Calls, Ready(c)
        PROVE  AloneNothingIsLost'
    BY <1>7 DEF Ready, AloneInv, AloneNothingIsLost, StepInv, InstInv,
                KeptNodeIsAlive, DbInv, Holding, Stops, Engaged, SetsBusy, Running
  <1>8. ASSUME NEW c \in Calls, WorkEnds(c)
        PROVE  AloneNothingIsLost'
    BY <1>8, WorkEndsCases DEF Becomes, GoesOn, Ends, AloneInv,
                               AloneNothingIsLost, StepInv, InstInv,
                               KeptNodeIsAlive, DbInv, Holding, Stops, Engaged, SetsBusy, Running
  <1>9. ASSUME NEW c \in Calls, HeliaTaken(c)
        PROVE  AloneNothingIsLost'
    BY <1>9, HeliaTakenCases DEF Becomes, GoesOn, Ends, AloneInv,
                                 AloneNothingIsLost, StepInv, InstInv,
                                 KeptNodeIsAlive, DbInv, Holding, Stops, Engaged, SetsBusy, Running
  <1>10. ASSUME NEW c \in Calls, Close(c)
        PROVE  AloneNothingIsLost'
    BY <1>10 DEF Close, AloneInv, AloneNothingIsLost, StepInv, InstInv,
                 KeptNodeIsAlive, DbInv, Holding, Stops, Engaged, SetsBusy, Running
  <1>11. ASSUME NEW c \in Calls, Closing(c)
        PROVE  AloneNothingIsLost'
    BY <1>11 DEF Closing, ForgetDb, Goto, AloneInv, AloneNothingIsLost, StepInv,
                 InstInv, KeptNodeIsAlive, DbInv, Holding, Stops, Engaged, SetsBusy, Running
  <1>12. ASSUME NEW c \in Calls, Closed(c)
        PROVE  AloneNothingIsLost'
    BY <1>12, ClosedCases DEF Becomes, GoesOn, Ends, AloneInv,
                              AloneNothingIsLost, StepInv, InstInv,
                              KeptNodeIsAlive, DbInv, Holding, Stops, Engaged, SetsBusy, Running
  <1>13. ASSUME NEW c \in Calls, Opened(c)
        PROVE  AloneNothingIsLost'
    BY <1>13 DEF Opened, Goto, AloneInv, AloneNothingIsLost, StepInv, InstInv,
                 KeptNodeIsAlive, DbInv, Holding, Stops, Engaged, SetsBusy, Running
  <1>14. ASSUME NEW c \in Calls, TodoEnds(c)
        PROVE  AloneNothingIsLost'
    BY <1>14 DEF TodoEnds, Finish, ReleaseBusy, AloneInv, AloneNothingIsLost,
                 StepInv, InstInv, KeptNodeIsAlive, DbInv, Holding, Stops,
                 Engaged, SetsBusy, Running
  <1>15. ASSUME NEW c \in Calls, Stopped(c)
        PROVE  AloneNothingIsLost'
    BY <1>15, StoppedCases DEF Becomes, GoesOn, Ends, AloneInv,
                               AloneNothingIsLost, StepInv, InstInv,
                               KeptNodeIsAlive, DbInv, Holding, Stops, Engaged, SetsBusy, Running
  <1>16. ASSUME NEW c \in Calls, Notify(c)
        PROVE  AloneNothingIsLost'
    BY <1>16 DEF Notify, RowsOf, AloneInv, AloneNothingIsLost, StepInv, InstInv,
                 KeptNodeIsAlive, DbInv, Holding, Stops, Engaged, SetsBusy, Running
  <1>17. CASE StopBulk
    BY <1>17 DEF StopBulk, AloneInv, AloneNothingIsLost, StepInv, InstInv,
                 KeptNodeIsAlive, DbInv, Holding, Stops, Engaged, SetsBusy, Running
  <1>18. CASE UNCHANGED vars
    BY <1>18 DEF vars, AloneInv, AloneNothingIsLost, StepInv, InstInv,
                 KeptNodeIsAlive, DbInv, Holding, Stops, Engaged, SetsBusy, Running
  <1>19. ASSUME NEW c \in Calls, OrbitStopped(c)
        PROVE  AloneNothingIsLost'
    BY <1>19 DEF OrbitStopped, Goto, AloneInv, AloneNothingIsLost, StepInv,
                InstInv, KeptNodeIsAlive, DbInv, Holding, Stops, Engaged, SetsBusy, Running
  <1> QED
    BY <1>1, <1>2, <1>3, <1>4, <1>5, <1>6, <1>7, <1>8, <1>9,
       <1>10, <1>11, <1>12, <1>13, <1>14, <1>15, <1>16, <1>17, <1>18, <1>19
    DEF Next, Proceed

----------------------------------------------------------------------------
\* The invariant holds initially and is kept by every step.

LEMMA IInvInit == Init => IInv
  <1> SUFFICES ASSUME Init PROVE IInv
    OBVIOUS
  <1> USE CallAssumption DEF Init, Calls
  <1>1. TypeOK
    BY DEF TypeOK, Call, Steps, Awaits, Fates
  <1>2. StepInv /\ InstInv /\ BulkInv /\ DbInv
    BY DEF StepInv, InstInv, Stops, Holding, BulkInv, DbInv
  <1>3. BusyInv /\ AloneInv
    BY DEF BusyInv, AloneInv, Holding, Engaged, Running
  <1>4. /\ KeptNodeIsAlive /\ BulkKeepsItsController
        /\ ClearInv /\ AloneNothingIsLost
    BY DEF KeptNodeIsAlive, BulkKeepsItsController, ClearInv, AloneNothingIsLost
  <1> QED
    BY <1>1, <1>2, <1>3, <1>4 DEF IInv

LEMMA Inductive == Spec => []IInv
  <1>1. IInv /\ [Next]_vars => IInv'
    BY TypeNext, StepNext, InstNext, BulkNext, BusyNext, DbNext, AloneNext, KeptNext,
       AbortNext, ClearNext, LostNext DEF IInv
  <1> QED
    BY <1>1, IInvInit, PTL DEF Spec

----------------------------------------------------------------------------
\* Every reachable state is well typed.
THEOREM TypeCorrect == Spec => []TypeOK
  BY Inductive, PTL DEF IInv

\* The node the page keeps runs or is being stopped, and the table shows no
\* stopped node's rows (startBrowserNode, stopBrowserNode and restartBrowserNode
\* of App.svelte assign both after an await).
THEOREM KeptNodeAlive == Spec => []KeptNodeIsAlive
  BY Inductive, PTL DEF IInv

\* The controller of every transfer that goes on is the one bulkAbort holds, or
\* was aborted already (runBulkOn, App.svelte).
THEOREM ControllersKept == Spec => []BulkKeepsItsController
  BY Inductive, PTL DEF IInv

\* Some function is always left to clear the busy flag; and without an upload it
\* is set while a function that sets it runs, and no two of those overlap (the
\* flag, the finally blocks and the disabled attributes of App.svelte).
THEOREM BusyFlagIsTrue == Spec => []BusyIsTrue
  <1>1. IInv => BusyIsTrue
    BY DEF IInv, ClearInv, BusyInv, BusyIsTrue
  <1> QED
    BY <1>1, Inductive, PTL

\* Until two calls have run at the same time (those that only ask the relay do
\* not count), every node whose start succeeded and that runs is the page's,
\* and the open database is the one in use, on that node
\* (resetTodoState, stopBrowserNode and restartBrowserNode of App.svelte, open()
\* and close() of todoOrbitdb.ts).
THEOREM NothingLostAlone == Spec => []AloneNothingIsLost
  BY Inductive, PTL DEF IInv
=============================================================================
