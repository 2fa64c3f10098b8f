--------------------------- MODULE NodeLifecycle ---------------------------
(***************************************************************************)
(* The libp2p nodes of one device.  They share one peer identity, so no    *)
(* two may live at once: the persistent node, which a starter builds       *)
(* (electron/sync/automerge/syncStarter.js, with the starters replaced by  *)
(* syncStarterHolder.js), and the temporary node of a join or of "pair     *)
(* again" (joinStart, joinAwaitData and joinCancel of electron/main.js).   *)
(*                                                                         *)
(* A step is the code between two awaits.  Starters and sessions are       *)
(* numbered in the order they are made.                                    *)
(***************************************************************************)
EXTENDS Naturals, FiniteSets

CONSTANTS
    MaxSessions,     \* bound on join attempts
    MaxFailures,     \* bound on starts of a node that fail
    StopFails,       \* the calls whose stop of a node may fail: "cancel" is
                     \* joinCancel, "data" joinAwaitData, "sync" the holder
    Overlaps         \* "leave": the join screen may be left during joinStart;
                     \* "retry": retrySync during any other call

Calls == {"cancel", "data", "sync"}
ASSUME LifecycleAssumption ==
    /\ MaxSessions \in Nat /\ MaxFailures \in Nat
    /\ StopFails \subseteq Calls /\ Overlaps \subseteq {"leave", "retry"}

VARIABLES
    member,      \* this device has a camps row
    starter,     \* the holder's starter
    latch,       \* starters with a start in flight (automergeSyncNodeStarting)
    up,          \* starters whose persistent node lives
    tried,       \* starters whose start ended (automergeStartupAttempted)
    awaited,     \* the holder's `starting`: that starter's start, or none
    quitting,    \* the holder's close()
    call,        \* the joinStart under way
    sessions,    \* sessions made so far
    temp,        \* sessions whose temporary node lives
    active,      \* activeJoin
    again,       \* activeJoinIsRejoin
    stopping,    \* the stop of a session's node under way, and for whom
    stuck,       \* sessions whose node could not be stopped
    screen,      \* the join screen is open
    failures     \* starts that failed so far

device == <<member, starter, latch, up, tried, awaited, quitting, call, sessions,
            temp, active, again, stopping, stuck, screen, failures>>
holder == <<starter, latch, up, tried, awaited>>
joining == <<call, sessions, temp, active, again, stopping, stuck, screen>>

Attempts == 1 .. MaxSessions
Starters == 1 .. MaxSessions + 1
Idle == [at |-> "idle", again |-> FALSE, node |-> 0]
NotStopping == [by |-> "none", of |-> 0]

TypeOKDevice ==
    /\ member \in BOOLEAN /\ again \in BOOLEAN /\ screen \in BOOLEAN
    /\ starter \in Starters
    /\ latch \subseteq Starters /\ up \subseteq Starters /\ tried \subseteq Starters
    /\ awaited \in Starters \cup {0}
    /\ quitting \in [at : {"no", "settle", "stop", "done"}, node : Starters \cup {0}]
    /\ call \in [at : {"idle", "cancel", "settle", "stop", "start"},
                 again : BOOLEAN, node : Starters \cup {0}]
    /\ sessions \in 0 .. MaxSessions
    /\ temp \subseteq Attempts /\ stuck \subseteq Attempts
    /\ active \in Attempts \cup {0}
    /\ stopping \in [by : {"none", "cancel", "data"}, of : Attempts \cup {0}]
    /\ failures \in 0 .. MaxFailures

\* At boot a device of a camp starts its node; one without a camp has none.
InitDevice(known) ==
    /\ member = known
    /\ starter = 1 /\ up = {} /\ tried = {}
    /\ latch = IF known THEN {1} ELSE {}
    /\ awaited = IF known THEN 1 ELSE 0
    /\ quitting = [at |-> "no", node |-> 0]
    /\ call = Idle /\ sessions = 0
    /\ temp = {} /\ active = 0 /\ again = FALSE
    /\ stopping = NotStopping /\ stuck = {} /\ screen = FALSE
    /\ failures = 0
-----------------------------------------------------------------------------
(* The holder and its starter.                                             *)

\* The guards of the starter, in the one tick before its first await.
Starts(session, camp) == starter \notin up \cup latch /\ session = 0 /\ camp

\* holder.start(): a call the guards turn away still replaces `starting`.
\* Mutant: it is not asked whether the app is quitting.
StartAlways(session, camp) ==
    /\ latch' = IF Starts(session, camp) THEN latch \cup {starter} ELSE latch
    /\ awaited' = IF Starts(session, camp) THEN starter ELSE 0

Start(session, camp) ==
    IF quitting.at # "no" THEN UNCHANGED <<latch, awaited>>
    ELSE /\ latch' = IF Starts(session, camp) THEN latch \cup {starter} ELSE latch
         /\ awaited' = IF Starts(session, camp) THEN starter ELSE 0

StartEnds(g, lands) ==
    /\ g \in latch
    /\ latch' = latch \ {g}
    /\ tried' = tried \cup {g}
    /\ awaited' = IF awaited = g THEN 0 ELSE awaited
    /\ up' = IF lands THEN up \cup {g} ELSE up
    /\ IF lands THEN UNCHANGED failures
                ELSE failures < MaxFailures /\ failures' = failures + 1
    /\ UNCHANGED <<member, starter, quitting, joining>>

\* The node shutdown() stops: the one its starter has when it looks.
Running == IF starter \in up THEN starter ELSE 0

Quiet == call = Idle /\ stopping = NotStopping /\ latch = {}

Retry ==
    /\ active = 0 /\ quitting.at = "no"
    /\ "retry" \in Overlaps \/ (Quiet /\ starter \in tried \ up)
    /\ Start(0, member)
    /\ UNCHANGED <<member, starter, up, tried, quitting, joining, failures>>

\* close(): no start after it; one in flight settles, then the node stops.
Quit ==
    /\ quitting.at = "no"
    /\ quitting' = [quitting EXCEPT !.at = "settle"]
    /\ UNCHANGED <<member, holder, joining, failures>>

QuitSettles ==
    /\ quitting.at = "settle" /\ awaited = 0
    /\ quitting' = [at |-> "stop", node |-> Running]
    /\ UNCHANGED <<member, holder, joining, failures>>

QuitStops ==
    /\ quitting.at = "stop"
    /\ quitting' = [quitting EXCEPT !.at = "done"]
    /\ up' = up \ {quitting.node}
    /\ UNCHANGED <<member, starter, latch, tried, awaited, joining, failures>>
-----------------------------------------------------------------------------
(* joinStart: a session left over is stopped first; to pair again the      *)
(* persistent node is stopped; then the temporary node comes up.           *)

Then(again1) == IF again1 THEN "settle" ELSE "start"

JoinStart(pairAgain) ==
    /\ call = Idle /\ stopping = NotStopping
    /\ pairAgain => member
    /\ ~pairAgain => starter = 1 /\ latch \cup up \cup tried = {}
    /\ sessions < MaxSessions
    /\ screen' = TRUE
    /\ call' = [at |-> IF active # 0 THEN "cancel" ELSE Then(pairAgain),
                again |-> pairAgain, node |-> 0]
    /\ UNCHANGED <<member, holder, quitting, sessions, temp, active, again, stopping,
                   stuck, failures>>

\* The end of a cancelled session: pair again starts sync again.
Ended ==
    /\ active' = 0 /\ again' = FALSE
    /\ IF again THEN Start(0, member) ELSE UNCHANGED <<latch, awaited>>

StopsFirst ==
    /\ call.at = "cancel"
    /\ temp' = temp \ {active}
    /\ Ended
    /\ call' = [call EXCEPT !.at = Then(call.again)]
    /\ UNCHANGED <<member, starter, up, tried, quitting, sessions, stopping, stuck,
                   screen, failures>>

StopFirstFails ==
    /\ call.at = "cancel" /\ "cancel" \in StopFails
    /\ stuck' = stuck \cup {active}
    /\ call' = Idle
    /\ UNCHANGED <<member, holder, quitting, sessions, temp, active, again, stopping,
                   screen, failures>>

\* holder.stop(): every start in flight settles, then the node is read.
\* Mutant of Settled: a start in flight is not waited for.
SettledAtOnce == TRUE
Settled == awaited = 0

StopsSync ==
    /\ call.at = "settle" /\ Settled
    /\ call' = [call EXCEPT !.at = "stop", !.node = Running]
    /\ UNCHANGED <<member, holder, quitting, sessions, temp, active, again, stopping,
                   stuck, screen, failures>>

\* A stop that fails is logged; either way a fresh starter takes over.
SyncStopped(ok) ==
    /\ call.at = "stop"
    /\ ok \/ "sync" \in StopFails
    /\ up' = IF ok THEN up \ {call.node} ELSE up
    /\ starter' = starter + 1
    /\ call' = [call EXCEPT !.at = "start"]
    /\ UNCHANGED <<member, latch, tried, awaited, quitting, sessions, temp, active, again,
                   stopping, stuck, screen, failures>>

JoinStarts ==
    /\ call.at = "start"
    /\ sessions' = sessions + 1
    /\ temp' = temp \cup {sessions'}
    /\ active' = sessions' /\ again' = call.again
    /\ call' = Idle
    /\ UNCHANGED <<member, holder, quitting, stopping, stuck, screen, failures>>

\* Mutant of JoinFails: sync is not started again.
JoinFailsSilently ==
    /\ call.at = "start"
    /\ sessions' = sessions + 1
    /\ call' = Idle
    /\ UNCHANGED <<latch, awaited>>
    /\ UNCHANGED <<member, starter, up, tried, quitting, temp, active, again, stopping,
                   stuck, screen, failures>>

\* A mistyped code, or a temporary node that does not start.
JoinFails ==
    /\ call.at = "start"
    /\ sessions' = sessions + 1
    /\ call' = Idle
    /\ IF call.again THEN Start(active, member) ELSE UNCHANGED <<latch, awaited>>
    /\ UNCHANGED <<member, starter, up, tried, quitting, temp, active, again, stopping,
                   stuck, screen, failures>>
-----------------------------------------------------------------------------
(* Leaving: joinCancel from the screen, or because the renderer went away; *)
(* the camp's data arriving.                                               *)

\* Nothing is active: joinCancel has nothing to stop, even while joinStart runs.
Leave ==
    /\ active = 0 /\ screen
    /\ call = Idle \/ "leave" \in Overlaps
    /\ screen' = FALSE
    /\ UNCHANGED <<member, holder, quitting, call, sessions, temp, active, again, stopping,
                   stuck, failures>>

Cancel(leaves) ==
    /\ call = Idle /\ active # 0 /\ stopping = NotStopping
    /\ stopping' = [by |-> "cancel", of |-> active]
    /\ screen' = (screen /\ ~leaves)
    /\ UNCHANGED <<member, holder, quitting, call, sessions, temp, active, again, stuck,
                   failures>>

Cancelled(ok) ==
    /\ stopping.by = "cancel"
    /\ ok \/ "cancel" \in StopFails
    /\ stopping' = NotStopping
    /\ IF ok THEN temp' = temp \ {stopping.of} /\ Ended /\ UNCHANGED stuck
             ELSE /\ stuck' = stuck \cup {stopping.of}
                  /\ UNCHANGED <<temp, active, again, latch, awaited>>
    /\ UNCHANGED <<member, starter, up, tried, quitting, call, sessions, screen, failures>>

\* The camp is here: the session is over before its node is stopped.
DataArrives(s) ==
    /\ s = active /\ call = Idle /\ stopping = NotStopping
    /\ active' = 0 /\ again' = FALSE
    /\ stopping' = [by |-> "data", of |-> s]
    /\ screen' = FALSE
    /\ UNCHANGED <<member, holder, quitting, call, sessions, temp, stuck, failures>>

DataStopped(ok) ==
    /\ stopping.by = "data"
    /\ ok \/ "data" \in StopFails
    /\ stopping' = NotStopping
    /\ IF ok THEN temp' = temp \ {stopping.of} /\ Start(active, member) /\ UNCHANGED stuck
             ELSE stuck' = stuck \cup {stopping.of} /\ UNCHANGED <<temp, latch, awaited>>
    /\ UNCHANGED <<member, starter, up, tried, quitting, call, sessions, active, again,
                   screen, failures>>

\* The login of a session writes the camps row (joinSession.js login).
BecomesMember(s) ==
    /\ s = active /\ call = Idle /\ stopping = NotStopping
    /\ member' = TRUE
    /\ UNCHANGED <<holder, quitting, joining, failures>>

Lifecycle ==
    \/ \E g \in Starters, lands \in BOOLEAN : StartEnds(g, lands)
    \/ Retry \/ Quit \/ QuitSettles \/ QuitStops
    \/ \E pairAgain \in BOOLEAN : JoinStart(pairAgain)
    \/ StopsFirst \/ StopFirstFails \/ StopsSync
    \/ JoinStarts \/ JoinFails
    \/ Leave
    \/ \E leaves \in BOOLEAN : Cancel(leaves)
    \/ \E ok \in BOOLEAN : SyncStopped(ok) \/ Cancelled(ok) \/ DataStopped(ok)
-----------------------------------------------------------------------------
(* The device alone, whatever the other side answers.                      *)

NextDevice == Lifecycle \/ \E s \in Attempts : BecomesMember(s) \/ DataArrives(s)

SpecDevice == (\E known \in BOOLEAN : InitDevice(known)) /\ [][NextDevice]_device
-----------------------------------------------------------------------------
\* One peer identity, one live node, whichever calls, failed stops and starts
\* in flight came before (the guards of syncStarter.js start() and joinCancel).
OneNode == Cardinality(up) + Cardinality(temp) <= 1

\* Once close() has returned no persistent node lives and none is coming up:
\* what follows closes the database under them (quit, disable, reset).
ClosedIsQuiet == quitting.at = "done" => up = {} /\ latch = {}
=============================================================================
