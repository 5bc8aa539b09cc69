---------------------------- MODULE ManagedOracle ----------------------------
(***************************************************************************)
(* The managed oracle: Oracle.Start/Close (offchainreporting/oracle.go)    *)
(* around RunManagedOracle (internal/managed/managed_oracle.go), composed  *)
(* with TrackConfig and the chain (ConfigTracker), the database and the    *)
(* inner protocol task protocol.RunOracle.  A process crash loses          *)
(* everything but the database and the chain.                              *)
(*                                                                         *)
(* A config is its ConfigDigest.  Resolution[c] is what                    *)
(* SharedConfigFromContractConfig returns for this node on c: "ok", or the *)
(* error it fails with.  An inner protocol task is a record [cfg,          *)
(* cancelled]; its network endpoint is named by the same digest.           *)
(***************************************************************************)
EXTENDS Naturals, Sequences, FiniteSets, SequencesExt

CONSTANTS
    Configs, NoConfig, ChainPlan, Version, Confirmations, SkipConfirmations,
    MaxHeight, ChanCap, MaxRpcFailures,
    Resolution,       \* Resolution[c]: outcome of SharedConfigFromContractConfig
    EndpointCanFail,  \* may NewEndpoint / netEndpoint.Start() return an error
    MaxCrashes        \* bound: process crashes in a behaviour

ASSUME /\ Resolution \in [Configs -> {"ok", "notInConfig", "identityMismatch",
                                      "decryptFailed"}]
       /\ EndpointCanFail \in BOOLEAN
       /\ MaxCrashes \in Nat

VARIABLES
    height, chainLog, rpcFailures, subChan, subscription, openSubs,
    tResubscribe, trackerPc, trackerBh, trackerDigest, pending, checkDue,
    chNewConfig, ctxDone,
    ocrState,      \* Oracle.state: "unstarted", "started", "closed"
    closePc,       \* an Oracle.Close call: "idle", "waiting" (in Wait), "returned"
    moPc,          \* RunManagedOracle: "off", "boot", "loop", "closing", "stopping", "waitOthers", "done"
    changeArg,     \* the config configChanged is applying while "closing"
    others,        \* live otherSubprocesses besides TrackConfig
    inners,        \* live inner protocol tasks
    hasInner,      \* mo.oracleCancel != nil
    netEndpoint,   \* mo.netEndpoint: the digest of the endpoint held, or NoConfig
    unclosedEps,   \* endpoints NewEndpoint created and nobody has Close()d
    moConfig,      \* mo.config.ConfigDigest
    db,            \* the config Database.WriteConfig last stored
    crashes,       \* crashes so far
    wroteRestored  \* WriteConfig was issued for a config restored from the database

T == INSTANCE ConfigTracker

chainVars   == <<height, chainLog, rpcFailures, subChan>>
trackerVars == <<subscription, openSubs, tResubscribe, trackerPc, trackerBh,
                 trackerDigest, pending, checkDue>>
tVars       == <<chainVars, trackerVars, chNewConfig, ctxDone>>
moVars == <<ocrState, closePc, moPc, changeArg, others, inners, hasInner,
            netEndpoint, unclosedEps, moConfig, db, crashes, wroteRestored>>
vars == <<tVars, moVars>>

-----------------------------------------------------------------------------
(* Oracle (oracle.go).                                                     *)

\* The oracleState enumeration of Oracle.state.
OracleStates == {"unstarted", "started", "closed"}

\* The first thing run() does: spawn forwardTelemetry (with chTelemetry)
\* and collectGarbage into otherSubprocesses.
SpawnSiblings == {"telemetry", "gc"}

\* Start: only from Unstarted; spawns RunManagedOracle, which first spawns
\* forwardTelemetry and collectGarbage.
OracleStart ==
    /\ ocrState = "unstarted"
    /\ ocrState' = "started"
    /\ moPc' = "boot"
    /\ others' = SpawnSiblings
    /\ UNCHANGED <<tVars, closePc, changeArg, inners, hasInner, netEndpoint,
                   unclosedEps, moConfig, db, crashes, wroteRestored>>

\* Close: only from Started; cancel() the root context, then Wait.
OracleClose ==
    /\ ocrState = "started"
    /\ ocrState' = "closed"
    /\ ctxDone' = TRUE
    /\ closePc' = "waiting"
    /\ UNCHANGED <<chainVars, trackerVars, chNewConfig, moPc, changeArg,
                   others, inners, hasInner, netEndpoint, unclosedEps, moConfig,
                   db, crashes, wroteRestored>>

\* Fault variant: Close returns without waiting for RunManagedOracle.
ManagedOracleReturnedEarly == TRUE

\* o.subprocesses.Wait() returns once RunManagedOracle has returned.
ManagedOracleReturned == moPc = "done"

CloseReturns ==
    /\ closePc = "waiting"
    /\ ManagedOracleReturned
    /\ closePc' = "returned"
    /\ UNCHANGED <<tVars, ocrState, moPc, changeArg, others, inners, hasInner,
                   netEndpoint, unclosedEps, moConfig, db, crashes, wroteRestored>>

-----------------------------------------------------------------------------
(* RunManagedOracle.                                                       *)

\* The rest of configChanged once closeOracle is done, with eps the
\* endpoints left unclosed: resolve the config (mo.config is zeroed on an
\* error), NewEndpoint, Start it, spawn RunOracle, then WriteConfig, whose
\* error is only logged.
ApplyConfig(c, origin, eps) ==
    /\ moConfig' = IF Resolution[c] = "ok" THEN c ELSE NoConfig
    /\ \/ /\ Resolution[c] # "ok"
          /\ unclosedEps' = eps
          /\ hasInner' = FALSE /\ netEndpoint' = NoConfig
          /\ UNCHANGED <<inners, db, wroteRestored>>
       \/ /\ Resolution[c] = "ok"                    \* NewEndpoint error
          /\ EndpointCanFail
          /\ unclosedEps' = eps
          /\ hasInner' = FALSE /\ netEndpoint' = NoConfig
          /\ UNCHANGED <<inners, db, wroteRestored>>
       \/ /\ Resolution[c] = "ok"                    \* netEndpoint.Start() error
          /\ EndpointCanFail
          /\ unclosedEps' = eps \cup {c}
          /\ hasInner' = FALSE /\ netEndpoint' = NoConfig
          /\ UNCHANGED <<inners, db, wroteRestored>>
       \/ /\ Resolution[c] = "ok"
          /\ unclosedEps' = eps \cup {c}
          /\ netEndpoint' = c
          /\ inners' = inners \cup {[cfg |-> c, cancelled |-> FALSE]}
          /\ hasInner' = TRUE
          /\ \E written \in BOOLEAN : db' = IF written THEN c ELSE db
          /\ wroteRestored' = (wroteRestored \/ origin = "db")

\* Fault variant: the endpoint is closed together with the cancel, before
\* the task has returned.
CancelInnerClosingEndpoint ==
    /\ inners' = {IF i.cfg = netEndpoint THEN [i EXCEPT !.cancelled = TRUE] ELSE i
                  : i \in inners}
    /\ unclosedEps' = unclosedEps \ {netEndpoint}

\* closeOracle, first half: oracleCancel() on the running inner task.
CancelInner ==
    /\ inners' = {IF i.cfg = netEndpoint THEN [i EXCEPT !.cancelled = TRUE] ELSE i
                  : i \in inners}
    /\ UNCHANGED unclosedEps

\* Fault variant: closeOracle does not wait for the cancelled task.
InnerGoneNoWait == TRUE

\* closeOracle blocks in oracleSubprocesses.Wait() until the task is gone.
InnerGone == inners = {}

\* Fault variant: TrackConfig starts from the zero digest.
StartTrackerUnseeded == T!TrackConfigStart(NoConfig)

\* TrackConfig is spawned with mo.config.ConfigDigest once the restore
\* attempt is over.
StartTracker == T!TrackConfigStart(moConfig')

\* The restore from the database under BlockForAtMost: a timeout leaves
\* the loader running; a read error or nil restores nothing; a config is
\* applied by configChanged (nothing is running yet, so closeOracle does
\* nothing).  Then TrackConfig starts.
RestoreConfig ==
    /\ moPc = "boot"
    /\ moPc' = "loop"
    /\ \/ /\ others' = others \cup {"load"}
          /\ UNCHANGED <<inners, hasInner, netEndpoint, unclosedEps, moConfig,
                         db, wroteRestored>>
       \/ /\ UNCHANGED <<others, inners, hasInner, netEndpoint, unclosedEps,
                         moConfig, db, wroteRestored>>
       \/ /\ db # NoConfig
          /\ ApplyConfig(db, "db", unclosedEps)
          /\ UNCHANGED others
    /\ StartTracker
    /\ UNCHANGED <<chainVars, chNewConfig, ctxDone, ocrState, closePc,
                   changeArg, crashes>>

\* Fault variant: configChanged resolves first and returns on an error,
\* leaving the old task running.
ConfigChangedKeepOnError(c) ==
    \/ /\ Resolution[c] # "ok"
       /\ moConfig' = NoConfig
       /\ UNCHANGED <<inners, hasInner, netEndpoint, unclosedEps, db, wroteRestored,
                      moPc, changeArg>>
    \/ /\ Resolution[c] = "ok"
       /\ hasInner
       /\ CancelInner
       /\ moPc' = "closing"
       /\ changeArg' = c
       /\ UNCHANGED <<hasInner, netEndpoint, moConfig, db, wroteRestored>>
    \/ /\ Resolution[c] = "ok"
       /\ ~hasInner
       /\ ApplyConfig(c, "tracker", unclosedEps)
       /\ UNCHANGED <<moPc, changeArg>>

\* configChanged(c) from the main loop: with an inner task running,
\* closeOracle cancels it and waits ("closing"); otherwise the config is
\* applied at once.
ConfigChanged(c) ==
    \/ /\ hasInner
       /\ CancelInner
       /\ moPc' = "closing"
       /\ changeArg' = c
       /\ UNCHANGED <<hasInner, netEndpoint, moConfig, db, wroteRestored>>
    \/ /\ ~hasInner
       /\ ApplyConfig(c, "tracker", unclosedEps)
       /\ UNCHANGED <<moPc, changeArg>>

\* case change := <-chNewConfig
ReceiveConfig ==
    /\ moPc = "loop"
    /\ chNewConfig # <<>>
    /\ chNewConfig' = Tail(chNewConfig)
    /\ ConfigChanged(Head(chNewConfig))
    /\ UNCHANGED <<chainVars, trackerVars, ctxDone, ocrState, closePc,
                   others, crashes>>

\* case <-mo.ctx.Done(): closeOracle, then otherSubprocesses.Wait().
Shutdown ==
    /\ moPc = "loop"
    /\ ctxDone
    /\ \/ /\ hasInner
          /\ CancelInner
          /\ moPc' = "stopping"
       \/ /\ ~hasInner
          /\ moPc' = "waitOthers"
          /\ UNCHANGED inners
    /\ UNCHANGED <<tVars, ocrState, closePc, changeArg, others, hasInner,
                   netEndpoint, unclosedEps, moConfig, db, crashes, wroteRestored>>

\* closeOracle, second half, once Wait returns: netEndpoint.Close(), clear
\* oracleCancel and netEndpoint; then configChanged goes on, or the
\* shutdown goes on to wait for the other subprocesses.
InnerClosed ==
    LET eps == unclosedEps \ {netEndpoint} IN
    /\ moPc \in {"closing", "stopping"}
    /\ InnerGone
    /\ \/ /\ moPc = "closing"
          /\ ApplyConfig(changeArg, "tracker", eps)
          /\ moPc' = "loop"
       \/ /\ moPc = "stopping"
          /\ unclosedEps' = eps
          /\ netEndpoint' = NoConfig
          /\ hasInner' = FALSE
          /\ moPc' = "waitOthers"
          /\ UNCHANGED <<inners, moConfig, db, wroteRestored>>
    /\ UNCHANGED <<tVars, ocrState, closePc, changeArg, others, crashes>>

ManagedOracleReturn ==
    /\ moPc = "waitOthers"
    /\ others = {}
    /\ trackerPc = "exited"
    /\ moPc' = "done"
    /\ UNCHANGED <<tVars, ocrState, closePc, changeArg, others, inners, hasInner,
                   netEndpoint, unclosedEps, moConfig, db, crashes, wroteRestored>>

SupervisorNext ==
    ReceiveConfig \/ Shutdown \/ InnerClosed \/ RestoreConfig \/ ManagedOracleReturn

-----------------------------------------------------------------------------
(* The tasks RunManagedOracle waits for.                                   *)

\* RunOracle returns once its context (derived from the root) is done.
InnerExit ==
    /\ \E i \in inners :
          /\ i.cancelled \/ ctxDone
          /\ inners' = inners \ {i}
    /\ UNCHANGED <<tVars, ocrState, closePc, moPc, changeArg, others, hasInner,
                   netEndpoint, unclosedEps, moConfig, db, crashes, wroteRestored>>

\* Fault variant: the siblings do not select on ctx.Done().
SiblingMayExitNoCtx(t) == t = "load"

\* forwardTelemetry leaves its loop only on ctx.Done(): its other exit, a
\* closed chTelemetry, cannot happen, as nothing closes the channel.
ForwardTelemetryReturns == ctxDone

\* collectGarbage's only return is the ctx.Done() case of its select.
CollectGarbageReturns == ctxDone

\* loadConfigFromDatabase returns when ReadConfig does, with or without an
\* error; the loader left behind by a restore timeout may return at any time.
LoaderReturns == TRUE

\* When a task of otherSubprocesses may return.
SiblingMayExit(t) ==
    CASE t = "telemetry" -> ForwardTelemetryReturns
      [] t = "gc"        -> CollectGarbageReturns
      [] t = "load"      -> LoaderReturns

SiblingExit ==
    /\ \E t \in others :
          /\ SiblingMayExit(t)
          /\ others' = others \ {t}
    /\ UNCHANGED <<tVars, ocrState, closePc, moPc, changeArg, inners, hasInner,
                   netEndpoint, unclosedEps, moConfig, db, crashes, wroteRestored>>

\* The process dies: every task, channel, endpoint and subscription with
\* it; the database and the chain remain.  A new Oracle is created.
Crash ==
    /\ crashes < MaxCrashes
    /\ crashes' = crashes + 1
    /\ ocrState' = "unstarted" /\ closePc' = "idle" /\ moPc' = "off"
    /\ changeArg' = NoConfig /\ others' = {} /\ inners' = {} /\ hasInner' = FALSE
    /\ netEndpoint' = NoConfig /\ unclosedEps' = {} /\ moConfig' = NoConfig
    /\ chNewConfig' = <<>> /\ ctxDone' = FALSE /\ subChan' = "nil"
    /\ trackerPc' = "none" /\ trackerDigest' = NoConfig /\ trackerBh' = 0
    /\ pending' = NoConfig /\ checkDue' = "now" /\ tResubscribe' = FALSE
    /\ subscription' = "nil" /\ openSubs' = 0
    /\ UNCHANGED <<height, chainLog, rpcFailures, db, wroteRestored>>

-----------------------------------------------------------------------------

Init ==
    /\ T!InitChain
    /\ chNewConfig = <<>> /\ ctxDone = FALSE
    /\ trackerPc = "none" /\ trackerDigest = NoConfig /\ trackerBh = 0
    /\ pending = NoConfig /\ checkDue = "now" /\ tResubscribe = FALSE
    /\ subscription = "nil" /\ openSubs = 0
    /\ ocrState = "unstarted" /\ closePc = "idle" /\ moPc = "off"
    /\ changeArg = NoConfig /\ others = {} /\ inners = {} /\ hasInner = FALSE
    /\ netEndpoint = NoConfig /\ unclosedEps = {} /\ moConfig = NoConfig
    /\ db = NoConfig /\ crashes = 0 /\ wroteRestored = FALSE

ChainStep   == T!ChainNext /\ UNCHANGED moVars
TrackerStep == T!TrackerNext /\ UNCHANGED moVars

Next ==
    \/ ChainStep \/ TrackerStep
    \/ OracleStart \/ OracleClose \/ CloseReturns
    \/ SupervisorNext \/ InnerExit \/ SiblingExit \/ Crash

\* Every task of the process is scheduled (Go's select picks a ready case at
\* random, timers keep firing), and the chain keeps mining blocks.  The
\* operator's Start and Close, setConfig, crashes are not fair.  The inner
\* RunOracle is not assumed to return once cancelled: its plain sends can
\* block it for good (ProtocolOracle, protocol_oracle_stuck), so its exit
\* is a hypothesis of the liveness properties (InnerReturnsOnCancel).
Fairness ==
    /\ WF_vars(T!ChainMine /\ UNCHANGED moVars)
    /\ WF_vars(T!TrackerCheckHeight /\ UNCHANGED moVars)
    /\ WF_vars(T!TrackerCheckDetails /\ UNCHANGED moVars)
    /\ WF_vars(T!TrackerSend /\ UNCHANGED moVars)
    /\ WF_vars(T!TrackerSendCancelled /\ UNCHANGED moVars)
    /\ WF_vars(T!TrackerExit /\ UNCHANGED moVars)
    /\ WF_vars(SupervisorNext)
    /\ WF_vars(SiblingExit)
    /\ WF_vars(CloseReturns)

Spec == Init /\ [][Next]_vars /\ Fairness


-----------------------------------------------------------------------------
(* Properties.                                                             *)

InnerTasks == [cfg : Configs, cancelled : BOOLEAN]

TypeOK ==
    /\ T!TypeOK
    /\ ocrState \in OracleStates
    /\ closePc \in {"idle", "waiting", "returned"}
    /\ moPc \in {"off", "boot", "loop", "closing", "stopping", "waitOthers", "done"}
    /\ changeArg \in T!Digests
    /\ others \subseteq {"telemetry", "gc", "load"}
    /\ inners \subseteq InnerTasks
    /\ hasInner \in BOOLEAN
    /\ netEndpoint \in T!Digests
    /\ unclosedEps \subseteq Configs
    /\ moConfig \in T!Digests
    /\ db \in T!Digests
    /\ crashes \in 0..MaxCrashes
    /\ wroteRestored \in BOOLEAN

\* An inner task the supervisor has not cancelled and that is not winding
\* down with the root context.
Running(i) == ~i.cancelled /\ ~ctxDone

\* At most one inner protocol task is alive at any instant, counting one
\* that has been cancelled and not yet returned: configChanged's
\* closeOracle waits for the old RunOracle before it spawns the next.
AtMostOneInner == Cardinality(inners) <= 1

\* The network endpoint an inner task uses stays open until that task has
\* returned: closeOracle closes it only after oracleSubprocesses.Wait().
EndpointOutlivesInner == \A i \in inners : i.cfg \in unclosedEps

\* Whenever the supervisor is idle in its loop with nothing queued and the
\* tracker holds no change it has yet to send, the only running inner task
\* runs the config the tracker last decided on: a config that fails to
\* resolve tears the old task down rather than leaving it running, and the
\* tracker's initial digest is the one the restored config runs under.
NoStaleInner ==
    (/\ moPc = "loop" /\ chNewConfig = <<>> /\ trackerPc \in {"idle", "checking"})
        => \A i \in inners : Running(i) => i.cfg = trackerDigest

\* The tracker never queues (or holds for sending) the config a running
\* inner task already runs, so no config change restarts the protocol
\* under the same digest: TrackConfig is seeded with the digest of the
\* config restored from the database.
NoRedundantRestart ==
    \A i \in inners :
        Running(i) => /\ i.cfg \notin ToSet(chNewConfig)
                      /\ trackerPc = "sending" => pending # i.cfg

\* When Oracle.Close returns, RunManagedOracle has returned, every task it
\* spawned has returned, and it holds no endpoint.
CloseReturnsClean ==
    closePc = "returned" =>
        /\ inners = {} /\ others = {} /\ trackerPc = "exited"
        /\ ~hasInner /\ netEndpoint = NoConfig

\* The hypothesis under which the supervisor's liveness is checked: a
\* RunOracle task whose context is done keeps being able to return until
\* it does.  protocol/oracle.go does not guarantee it (the plain sends at
\* lines 222 and 248), and closeOracle's Wait depends on it.
InnerReturnsOnCancel == WF_vars(InnerExit)

\* Oracle.Close, once called, returns (unless the process crashes first),
\* provided the inner RunOracle returns once cancelled: TrackConfig (even
\* blocked on a full chNewConfig), forwardTelemetry, collectGarbage and a
\* loader left behind by a restore timeout all leave, and the
\* supervisor's waits all end.
CloseTerminates ==
    InnerReturnsOnCancel => (closePc = "waiting" ~> closePc # "waiting")

\* The config the chain holds now, when the tracker accepts it (version 1),
\* is what runs: an inner task under it if it resolves for this node, no
\* inner task if not.
Converged ==
    LET c == T!LatestConfig IN
    c # NoConfig /\ Version[c] = 1 =>
        IF Resolution[c] = "ok" THEN \E i \in inners : Running(i) /\ i.cfg = c
                                ELSE inners = {}

\* Once the oracle runs for good (started, not closed; crashes, RPC errors
\* and setConfig calls are bounded), it ends up running the chain's config,
\* whatever the database held when it booted, provided a cancelled inner
\* RunOracle returns (each switch goes through closeOracle's Wait).
ConvergesToChain ==
    InnerReturnsOnCancel =>
        (<>[](ocrState = "started" /\ ~ctxDone) => <>[]Converged)

\* Scenario S2 of the spec: a config restored from the database while the
\* chain is unreachable runs, and no write_config is issued for it.
RestoredConfigNotRewritten == ~wroteRestored

\* No network endpoint is leaked: every endpoint NewEndpoint created and
\* nobody has closed is the one held in mo.netEndpoint, which the next
\* closeOracle closes (spec: on a config change or shutdown the supervisor
\* closes the endpoint it constructed).
NoLeakedEndpoint == unclosedEps \subseteq {netEndpoint}

=============================================================================
