----------------------------- MODULE Reconnect -----------------------------
(***************************************************************************)
(* The reconnect ladder (electron/sync/automerge/reconnectCoordinator.js,  *)
(* fed by punchReconnectWiring.js): a trusted peer this device is not      *)
(* connected to is tried on the LAN, over its remembered address, over     *)
(* signals through the camp, and, only when those fail, through the        *)
(* rendezvous, which is asked for by a demand for that peer.               *)
(*                                                                         *)
(* A ladder runs between awaits; sweeps start ladders and wait for them,   *)
(* share those in flight, and may overlap.  Times are left out: a timer    *)
(* that is set may fire, a backoff that is set may run out.                *)
(***************************************************************************)
EXTENDS Naturals, SequencesExt

CONSTANTS
    Peers,
    ErrorLimit,      \* RUNG_ERROR_LIMIT
    MaxSweeps,       \* bound on sweeps under way at once
    ErringRungs,     \* bound: the rungs that may end in an error
    Rendezvous,      \* TRUE: a rendezvous is configured
    ListFails        \* TRUE: listPeers may throw when a sweep begins

ASSUME ReconnectAssumption ==
    /\ {ErrorLimit, MaxSweeps} \subseteq Nat \ {0} /\ ErringRungs \subseteq 1 .. 2
    /\ {Rendezvous, ListFails} \subseteq BOOLEAN
    /\ {"none", "soon"} \cap Peers = {}

VARIABLES
    trust,      \* listPeers: trusted, or removed
    link,       \* connected only, admitted too, or neither
    ladder,     \* inFlight: where the peer's ladder is
    erred,      \* the ladder's rungError
    waiter,     \* what ended the ladder's wait for a connection
    errors,     \* rungErrors: errors in a row, by rung
    backoff,    \* peers with a backoff entry
    due,        \* those whose nextAt has passed
    seen,       \* lastConnected
    demanded,   \* peers asked of the rendezvous
    timer,      \* a sweep is scheduled: soon, or for when a peer's backoff is over
    sweeps,     \* those under way, oldest first: what they look at and wait for
    stopped

ladders == <<ladder, erred, waiter, errors, demanded>>
memory == <<backoff, due, seen>>
vars == <<trust, link, ladders, memory, timer, sweeps, stopped>>

Members == {p \in Peers : trust[p] = "member"}
Up == {p \in Peers : link[p] # "down"}   \* isConnected
Waits == {"grace", "rung3"}
Results == {"ok", "fail", "cancelled"}   \* ended, backs off, neither

\* The sweeps whose every result is in, and the ladders whose wait is over: a
\* promise that is settled goes on before any timer or message is looked at.
Ready == {k \in DOMAIN sweeps : \A p \in sweeps[k].due : sweeps[k].result[p] # "none"}
Woke == {p \in Peers : ladder[p] \in Waits /\ waiter[p] # "waits"}
Settled == Ready = {} /\ Woke = {}

TypeOK ==
    /\ trust \in [Peers -> {"member", "gone"}]
    /\ link \in [Peers -> {"down", "dialed", "admitted"}]
    /\ ladder \in [Peers -> {"idle", "lan", "rung1", "rung2"} \cup Waits]
    /\ erred \in [Peers -> BOOLEAN]
    /\ waiter \in [Peers -> {"waits", "connected", "timeout", "cancelled"}]
    /\ errors \in [Peers -> [1 .. 2 -> 0 .. ErrorLimit]]
    /\ backoff \subseteq Peers /\ due \subseteq backoff
    /\ seen \in [Peers -> {"never", "up", "down"}]
    /\ demanded \subseteq Peers
    /\ timer \in {"none", "soon"} \cup Peers /\ stopped \in BOOLEAN
    /\ Len(sweeps) <= MaxSweeps
    /\ sweeps \in Seq([all : SUBSET Peers, due : SUBSET Peers,
                       result : [Peers -> Results \cup {"none"}]])
    /\ \A p \in Peers :
          /\ waiter[p] # "waits" => ladder[p] \in Waits
          /\ erred[p] => ladder[p] = "rung2"

NoErrors == [n \in 1 .. 2 |-> 0]

Init ==
    /\ trust = [p \in Peers |-> "member"]
    /\ link = [p \in Peers |-> "down"]
    /\ ladder = [p \in Peers |-> "idle"]
    /\ erred = [p \in Peers |-> FALSE]
    /\ waiter = [p \in Peers |-> "waits"]
    /\ errors = [p \in Peers |-> NoErrors]
    /\ backoff = {} /\ due = {} /\ demanded = {}
    /\ seen = [p \in Peers |-> "never"]
    /\ timer = "soon" /\ stopped = FALSE
    /\ sweeps = <<>>
-----------------------------------------------------------------------------
(* One peer's ladder.                                                      *)

\* The ladder is over: every sweep that waits for it gets its result.
Ends(p, result) ==
    /\ ladder' = [ladder EXCEPT ![p] = "idle"]
    /\ waiter' = [waiter EXCEPT ![p] = "waits"]
    /\ erred' = [erred EXCEPT ![p] = FALSE]
    /\ sweeps' = [k \in DOMAIN sweeps |->
                     IF p \in sweeps[k].due /\ sweeps[k].result[p] = "none"
                     THEN [sweeps[k] EXCEPT !.result[p] = result] ELSE sweeps[k]]

GoesTo(p, stage) ==
    /\ ladder' = [ladder EXCEPT ![p] = stage]
    /\ waiter' = [waiter EXCEPT ![p] = "waits"]
    /\ UNCHANGED sweeps

\* Connected after all: the demand, if any, is released (connectedNow).
Reached(p) == p \in Up /\ Ends(p, "ok") /\ demanded' = demanded \ {p}

LanEnds(p) ==
    /\ ladder[p] = "lan"
    /\ \/ Reached(p)
       \/ p \notin Up /\ GoesTo(p, "grace") /\ UNCHANGED <<erred, demanded>>
    /\ UNCHANGED <<trust, link, errors, memory, timer, stopped>>

\* The wait is over: the time, or for the grace a pass of mDNS.
TimesOut(p) ==
    /\ ladder[p] \in Waits
    /\ waiter' = [waiter EXCEPT ![p] = "timeout"]
    /\ UNCHANGED <<trust, link, ladder, erred, errors, demanded, memory, timer, sweeps, stopped>>

GraceEnds(p) ==
    /\ ladder[p] = "grace"
    /\ \/ waiter[p] = "cancelled" /\ Ends(p, "cancelled") /\ UNCHANGED demanded
       \/ waiter[p] # "cancelled" /\ Reached(p)
       \/ /\ waiter[p] # "cancelled" /\ p \notin Up
          /\ GoesTo(p, "rung1")
          /\ UNCHANGED <<erred, demanded>>
    /\ UNCHANGED <<trust, link, errors, memory, timer, stopped>>

\* A rung that dials a connection, or a peer that came up meanwhile.
RungReaches(p) ==
    /\ ladder[p] \in {"rung1", "rung2"}
    /\ Reached(p)
    /\ errors' = [errors EXCEPT ![p] = NoErrors]
    /\ UNCHANGED <<trust, link, memory, timer, stopped>>

Outcomes(n) == IF n \in ErringRungs THEN BOOLEAN ELSE {FALSE}

AtLimit(n) == IF n < ErrorLimit THEN n + 1 ELSE ErrorLimit

\* Mutant of Counted: a removed peer gets its count back.
CountedAnyway(p, n, error) == IF error THEN AtLimit(errors[p][n]) ELSE 0

Counted(p, n, error) ==
    IF ~error THEN 0 ELSE IF p \in Members THEN AtLimit(errors[p][n]) ELSE errors[p][n]

\* An error holds the ladder below the rendezvous, until it is one too many.
Holds(p, n, error) ==
    error /\ (p \notin Members \/ Counted(p, n, error) < ErrorLimit)

Rung1Fails(p) ==
    /\ ladder[p] = "rung1" /\ p \notin Up
    /\ \E error \in Outcomes(1) :
         /\ errors' = [errors EXCEPT ![p][1] = Counted(p, 1, error)]
         /\ erred' = [erred EXCEPT ![p] = Holds(p, 1, error)]
    /\ GoesTo(p, "rung2")
    /\ UNCHANGED <<trust, link, demanded, memory, timer, stopped>>

\* The rendezvous is asked for a peer that is trusted still.
MayAsk(p) == ~stopped /\ p \in Members

Rung2Fails(p) ==
    /\ ladder[p] = "rung2" /\ p \notin Up
    /\ \E error \in Outcomes(2) :
         LET held == erred[p] \/ Holds(p, 2, error)
         IN  /\ errors' = [errors EXCEPT ![p][2] = Counted(p, 2, error)]
             /\ \/ /\ Rendezvous /\ ~held /\ MayAsk(p)
                   /\ GoesTo(p, "rung3")
                   /\ erred' = [erred EXCEPT ![p] = FALSE]
                   /\ demanded' = demanded \cup {p}
                \/ /\ ~stopped /\ (held \/ ~Rendezvous)
                   /\ Ends(p, "fail")
                   /\ UNCHANGED demanded
                \/ /\ stopped \/ (Rendezvous /\ ~held)
                   /\ ~MayAsk(p)
                   /\ Ends(p, "cancelled")
                   /\ UNCHANGED demanded
    /\ UNCHANGED <<trust, link, memory, timer, stopped>>

\* Mutant of AskedEnds: the demand outlives the wait.
AskedEndsDemanding(p) ==
    /\ Ends(p, IF waiter[p] = "connected" \/ p \in Up THEN "ok" ELSE "fail")
    /\ demanded' = IF p \in Up THEN demanded \ {p} ELSE demanded

AskedEnds(p) ==
    /\ Ends(p, IF waiter[p] = "connected" \/ p \in Up THEN "ok" ELSE "fail")
    /\ demanded' = demanded \ {p}

Rung3Ends(p) ==
    /\ ladder[p] = "rung3"
    /\ \/ waiter[p] = "cancelled" /\ Ends(p, "cancelled") /\ UNCHANGED demanded
       \/ waiter[p] # "cancelled" /\ AskedEnds(p)
    /\ UNCHANGED <<trust, link, errors, memory, timer, stopped>>
-----------------------------------------------------------------------------
(* What the coordinator remembers, and the sweeps.                         *)

Woken(S, outcome) ==
    [p \in Peers |-> IF p \in S /\ ladder[p] \in Waits THEN outcome ELSE waiter[p]]

\* currentPeers: whoever it remembers and does not see is forgotten.
Forgotten(present) ==
    {p \in Peers \ present : \/ p \in backoff \cup demanded \/ seen[p] # "never"
                             \/ errors[p] # NoErrors}

ConnectedNow(p) == IF p \in Up THEN "up" ELSE "down"

\* A ladder in flight is shared, a connected peer needs none.
Sweep(present) ==
    /\ timer # "none" /\ timer \notin backoff \ due
    /\ ~stopped /\ Len(sweeps) < MaxSweeps
    /\ timer' = "none"
    /\ LET gone == Forgotten(present)
           tried == {p \in present : p \notin backoff \ due}
           begins == {p \in tried : ladder[p] = "idle"}
       IN  /\ backoff' = backoff \ gone /\ due' = due \ gone
           /\ seen' = [p \in Peers |-> IF p \in gone THEN "never" ELSE seen[p]]
           /\ errors' = [p \in Peers |-> IF p \in gone THEN NoErrors ELSE errors[p]]
           /\ demanded' = demanded \ (gone \cup (begins \cap Up))
           /\ waiter' = Woken(gone, "cancelled")
           /\ ladder' = [p \in Peers |-> IF p \in begins \ Up THEN "lan" ELSE ladder[p]]
           /\ sweeps' = Append(sweeps,
                 [all |-> present, due |-> tried,
                  result |-> [p \in Peers |-> IF p \in begins \cap Up THEN "ok" ELSE "none"]])
    /\ UNCHANGED <<trust, link, erred, stopped>>

Lists == {Members} \cup (IF ListFails THEN {{}} ELSE {})

\* Mutant of Rescheduled: only when this sweep saw a failure.
RescheduledOnFailure(s) ==
    IF \E p \in s.due : s.result[p] = "fail" THEN {"soon"} ELSE {timer}

\* The earliest of the backoffs that are left, or the timer that is earlier.
Rescheduled(s) ==
    (IF backoff' = {} \/ timer # "none" THEN {timer} ELSE {})
        \cup (IF due' # {} THEN due' ELSE backoff')

\* The results are in, of the oldest first: failures back off, what is
\* connected is forgotten.
SweepEnds ==
    \E first \in Ready :
        LET s == sweeps[first]
            failed == {p \in s.due : s.result[p] = "fail"}
            reached == {p \in s.due : s.result[p] = "ok"}
            up == s.all \cap Up
        IN  /\ \A k \in Ready : first <= k
            /\ sweeps' = RemoveAt(sweeps, first)
            /\ IF stopped THEN UNCHANGED <<memory, demanded, timer>>
               ELSE /\ backoff' = ((backoff \ reached) \cup failed) \ up
                    /\ due' = due \ (reached \cup failed \cup up)
                    /\ seen' = [p \in Peers |-> IF p \in s.all THEN ConnectedNow(p) ELSE seen[p]]
                    /\ demanded' = demanded \ up
                    /\ timer' \in Rescheduled(s)
            /\ UNCHANGED <<trust, link, ladder, erred, waiter, errors, stopped>>

BacksOff(p) ==
    /\ p \in backoff \ due
    /\ due' = due \cup {p}
    /\ UNCHANGED <<trust, link, ladders, backoff, seen, timer, sweeps, stopped>>
-----------------------------------------------------------------------------
(* The peers, and the end.                                                 *)

\* onPeersChanged: an admission or a lost connection.
PeersChanged ==
    LET here == {p \in Members : link'[p] # "down"}
        gone == IF stopped THEN {} ELSE Forgotten(Members)
        now == [p \in Peers |-> IF link'[p] # "down" THEN "up" ELSE "down"]
        fresh == {p \in Members : seen[p] # "never" /\ seen[p] # now[p]}
    IN  /\ waiter' = [p \in Peers |-> IF p \in here THEN Woken(here, "connected")[p]
                                                    ELSE Woken(gone, "cancelled")[p]]
        /\ demanded' = demanded \ (here \cup gone)
        /\ IF stopped THEN UNCHANGED <<memory, errors, timer>>
           ELSE /\ backoff' = backoff \ (gone \cup fresh)
                /\ due' = due \ (gone \cup fresh)
                /\ seen' = [p \in Peers |-> IF p \in Members THEN now[p]
                                            ELSE IF p \in gone THEN "never" ELSE seen[p]]
                /\ errors' = [p \in Peers |-> IF p \in gone THEN NoErrors ELSE errors[p]]
                /\ timer' \in {"soon", timer} \ {"none"}
        /\ UNCHANGED <<trust, ladder, erred, sweeps, stopped>>

\* A connection by itself tells the coordinator nothing.
Connects(p) ==
    /\ link[p] = "down"
    /\ link' = [link EXCEPT ![p] = "dialed"]
    /\ UNCHANGED <<trust, ladders, memory, timer, sweeps, stopped>>

Admitted(p) ==
    /\ link[p] = "dialed" /\ p \in Members
    /\ link' = [link EXCEPT ![p] = "admitted"]
    /\ PeersChanged

Drops(p) ==
    /\ link[p] # "down"
    /\ link' = [link EXCEPT ![p] = "down"]
    /\ PeersChanged

\* The devices table: a peer is removed, for good.
Removes(p) ==
    /\ p \in Members
    /\ trust' = [trust EXCEPT ![p] = "gone"]
    /\ UNCHANGED <<link, ladders, memory, timer, sweeps, stopped>>

Stop ==
    /\ ~stopped
    /\ stopped' = TRUE /\ timer' = "none"
    /\ waiter' = Woken(Peers, "cancelled")
    /\ demanded' = {}
    /\ UNCHANGED <<trust, link, ladder, erred, errors, memory, sweeps>>
-----------------------------------------------------------------------------
LadderStep(p) ==
    \/ LanEnds(p) \/ TimesOut(p) \/ Rung1Fails(p) \/ Rung2Fails(p) \/ RungReaches(p)

Continues ==
    \/ SweepEnds
    \/ Ready = {} /\ \E p \in Woke : GraceEnds(p) \/ Rung3Ends(p)

Fires == \E present \in Lists : Sweep(present)

Next ==
    \/ Continues
    \/ \E p \in Peers : BacksOff(p)
    \/ /\ Settled
       /\ \/ Fires \/ Stop
          \/ \E p \in Peers :
               \/ LadderStep(p)
               \/ Connects(p) \/ Admitted(p) \/ Drops(p) \/ Removes(p)

Spec == Init /\ [][Next]_vars

-----------------------------------------------------------------------------
\* Whoever is asked of the rendezvous is waited for by a ladder that has come
\* to its last rung, and not for a peer that was admitted, nor once the
\* coordinator is stopped: no demand outlives the wait ("strictly on failure",
\* lines 3-8).
DemandIsWaited ==
    \A p \in demanded : ladder[p] = "rung3" /\ link[p] # "admitted" /\ ~stopped

\* A removed peer is never asked for, and what the coordinator forgot of it
\* does not come back (lines 120 and 154).
RemovedStaysForgotten ==
    [][\A p \in Peers : trust[p] = "gone" =>
          /\ p \in demanded' => p \in demanded
          /\ errors[p] = NoErrors => errors'[p] = NoErrors]_vars

\* Whoever backs off is tried again: once no sweep is under way that would
\* schedule the next, the next is scheduled, whichever of two overlapping sweeps
\* ended last and whoever was connected or removed meanwhile (line 189); and
\* nothing is scheduled after the stop.
BackoffIsArmed ==
    IF stopped THEN timer = "none" ELSE backoff # {} /\ sweeps = <<>> => timer # "none"

\* "retries that peer on its own backoff" (line 13): the same of each trusted
\* peer that is not connected, in backoff or not.
TryIsArmed ==
    \A p \in Members \ Up : ladder[p] = "idle" /\ sweeps = <<>> /\ ~stopped => timer # "none"
=============================================================================
