------------------------- MODULE ManagedBootstrapNode -------------------------
(***************************************************************************)
(* RunManagedBootstrapNode (internal/managed/managed_bootstrap_node.go)    *)
(* composed with TrackConfig and the chain (ConfigTracker) and the         *)
(* database.  Its caller cancels ctx to stop it; a process crash loses     *)
(* everything but the database and the chain.                              *)
(*                                                                         *)
(* A config is its ConfigDigest.  Decodes[c] is whether                    *)
(* PublicConfigFromContractConfig(nil, true, c) succeeds; a bootstrapper   *)
(* is named by the digest it was created for.                              *)
(***************************************************************************)
EXTENDS Naturals, Sequences, SequencesExt

CONSTANTS
    Configs, NoConfig, ChainPlan, Version, Confirmations, SkipConfirmations,
    MaxHeight, ChanCap, MaxRpcFailures,
    Decodes,              \* Decodes[c]: PublicConfigFromContractConfig succeeds on c
    BootstrapperCanFail,  \* may NewBootstrapper / bootstrapper.Start() return an error
    MaxCrashes            \* bound: process crashes in a behaviour

ASSUME /\ Decodes \in [Configs -> BOOLEAN]
       /\ BootstrapperCanFail \in BOOLEAN
       /\ MaxCrashes \in Nat

VARIABLES
    height, chainLog, rpcFailures, subChan, subscription, openSubs,
    tResubscribe, trackerPc, trackerBh, trackerDigest, pending, checkDue,
    chNewConfig, ctxDone,
    mbPc,          \* run(): "boot", "loop", "waiting" (subprocesses.Wait), "done"
    loading,       \* the loader BlockForAtMost left behind is still running
    bootstrapper,  \* mb.bootstrapper: the digest of the one held, or NoConfig
    unclosed,      \* bootstrappers NewBootstrapper created and nobody has Close()d
    mbConfig,      \* mb.config.ConfigDigest
    db,            \* the config Database.WriteConfig last stored
    crashes        \* crashes so far

T == INSTANCE ConfigTracker

chainVars   == <<height, chainLog, rpcFailures, subChan>>
trackerVars == <<subscription, openSubs, tResubscribe, trackerPc, trackerBh,
                 trackerDigest, pending, checkDue>>
tVars       == <<chainVars, trackerVars, chNewConfig, ctxDone>>
mbVars      == <<mbPc, loading, bootstrapper, unclosed, mbConfig, db, crashes>>
vars        == <<tVars, mbVars>>

-----------------------------------------------------------------------------

\* closeBootstrapper: Close() the one held (an error is only logged) and
\* forget it.
CloseBootstrapper == unclosed \ {bootstrapper}

\* Fault variant: configChanged does not close the running bootstrapper.
ConfigChangedNoClose(c) ==
    /\ mbConfig' = IF Decodes[c] THEN c ELSE NoConfig
    /\ \/ /\ ~Decodes[c]
          /\ UNCHANGED <<bootstrapper, unclosed, db>>
       \/ /\ Decodes[c]
          /\ bootstrapper' = c
          /\ unclosed' = unclosed \cup {c}
          /\ \E written \in BOOLEAN : db' = IF written THEN c ELSE db

\* configChanged(c): closeBootstrapper, then decode (mb.config is
\* overwritten, zero on an error), NewBootstrapper, Start() it, keep it,
\* and WriteConfig, whose error is only logged.  Each failure returns early
\* with no bootstrapper held; one whose Start() failed is never closed.
ConfigChanged(c) ==
    LET rest == CloseBootstrapper IN
    /\ mbConfig' = IF Decodes[c] THEN c ELSE NoConfig
    /\ \/ /\ ~Decodes[c]
          /\ bootstrapper' = NoConfig /\ unclosed' = rest
          /\ UNCHANGED db
       \/ /\ Decodes[c] /\ BootstrapperCanFail          \* NewBootstrapper error
          /\ bootstrapper' = NoConfig /\ unclosed' = rest
          /\ UNCHANGED db
       \/ /\ Decodes[c] /\ BootstrapperCanFail          \* bootstrapper.Start() error
          /\ bootstrapper' = NoConfig /\ unclosed' = rest \cup {c}
          /\ UNCHANGED db
       \/ /\ Decodes[c]
          /\ bootstrapper' = c /\ unclosed' = rest \cup {c}
          /\ \E written \in BOOLEAN : db' = IF written THEN c ELSE db

\* Fault variant: TrackConfig starts from the zero digest.
StartTrackerUnseeded == T!TrackConfigStart(NoConfig)

\* Fault variant: TrackConfig is seeded with the database's config even
\* when the restore timed out and nothing was applied.
StartTrackerFromDb == T!TrackConfigStart(db)

\* TrackConfig is spawned with mb.config.ConfigDigest once the restore
\* attempt is over.
StartTracker == T!TrackConfigStart(mbConfig')

\* The restore under BlockForAtMost: a timeout (or a cancelled ctx) leaves
\* the loader running; a read error or nil restores nothing; a config is
\* applied by configChanged.  Then TrackConfig starts.
RestoreConfig ==
    /\ mbPc = "boot"
    /\ mbPc' = "loop"
    /\ \/ /\ loading' = TRUE
          /\ UNCHANGED <<bootstrapper, unclosed, mbConfig, db>>
       \/ /\ UNCHANGED <<loading, bootstrapper, unclosed, mbConfig, db>>
       \/ /\ db # NoConfig
          /\ ConfigChanged(db)
          /\ UNCHANGED loading
    /\ StartTracker
    /\ UNCHANGED <<chainVars, chNewConfig, ctxDone, crashes>>

\* case cc := <-chNewConfig
ReceiveConfig ==
    /\ mbPc = "loop"
    /\ chNewConfig # <<>>
    /\ chNewConfig' = Tail(chNewConfig)
    /\ ConfigChanged(Head(chNewConfig))
    /\ UNCHANGED <<chainVars, trackerVars, ctxDone, mbPc, loading, crashes>>

\* case <-mb.ctx.Done(): closeBootstrapper, then subprocesses.Wait().
Shutdown ==
    /\ mbPc = "loop"
    /\ ctxDone
    /\ unclosed' = CloseBootstrapper
    /\ bootstrapper' = NoConfig
    /\ mbPc' = "waiting"
    /\ UNCHANGED <<tVars, loading, mbConfig, db, crashes>>

\* subprocesses.Wait() returns once TrackConfig and the loader are gone.
BootstrapNodeReturn ==
    /\ mbPc = "waiting"
    /\ ~loading
    /\ trackerPc = "exited"
    /\ mbPc' = "done"
    /\ UNCHANGED <<tVars, loading, bootstrapper, unclosed, mbConfig, db, crashes>>

\* The loader returns when ReadConfig does (its context has a timeout).
LoaderReturns ==
    /\ loading
    /\ loading' = FALSE
    /\ UNCHANGED <<tVars, mbPc, bootstrapper, unclosed, mbConfig, db, crashes>>

NodeNext == RestoreConfig \/ ReceiveConfig \/ Shutdown \/ BootstrapNodeReturn

\* The caller cancels ctx.
Cancel ==
    /\ ~ctxDone
    /\ ctxDone' = TRUE
    /\ UNCHANGED <<chainVars, trackerVars, chNewConfig, mbVars>>

\* The process dies and is started again with RunManagedBootstrapNode.
Crash ==
    /\ crashes < MaxCrashes
    /\ crashes' = crashes + 1
    /\ mbPc' = "boot" /\ loading' = FALSE /\ bootstrapper' = NoConfig
    /\ unclosed' = {} /\ mbConfig' = NoConfig
    /\ chNewConfig' = <<>> /\ ctxDone' = FALSE /\ subChan' = "nil"
    /\ trackerPc' = "none" /\ trackerDigest' = NoConfig /\ trackerBh' = 0
    /\ pending' = NoConfig /\ checkDue' = "now" /\ tResubscribe' = FALSE
    /\ subscription' = "nil" /\ openSubs' = 0
    /\ UNCHANGED <<height, chainLog, rpcFailures, db>>

Init ==
    /\ T!InitChain
    /\ chNewConfig = <<>> /\ ctxDone = FALSE
    /\ trackerPc = "none" /\ trackerDigest = NoConfig /\ trackerBh = 0
    /\ pending = NoConfig /\ checkDue = "now" /\ tResubscribe = FALSE
    /\ subscription = "nil" /\ openSubs = 0
    /\ mbPc = "boot" /\ loading = FALSE /\ bootstrapper = NoConfig
    /\ unclosed = {} /\ mbConfig = NoConfig /\ db = NoConfig /\ crashes = 0

Next ==
    \/ T!ChainNext /\ UNCHANGED mbVars
    \/ T!TrackerNext /\ UNCHANGED mbVars
    \/ NodeNext \/ LoaderReturns \/ Cancel \/ Crash

\* The node's goroutine, TrackConfig and the loader are scheduled and the
\* chain keeps mining; the caller's cancel, setConfig and crashes are not
\* fair.
Spec ==
    /\ Init /\ [][Next]_vars
    /\ WF_vars(T!ChainMine /\ UNCHANGED mbVars)
    /\ WF_vars(T!TrackerCheckHeight /\ UNCHANGED mbVars)
    /\ WF_vars(T!TrackerCheckDetails /\ UNCHANGED mbVars)
    /\ WF_vars(T!TrackerSend /\ UNCHANGED mbVars)
    /\ WF_vars(T!TrackerSendCancelled /\ UNCHANGED mbVars)
    /\ WF_vars(T!TrackerExit /\ UNCHANGED mbVars)
    /\ WF_vars(NodeNext)
    /\ WF_vars(LoaderReturns)

-----------------------------------------------------------------------------
(* Properties.                                                             *)

TypeOK ==
    /\ T!TypeOK
    /\ mbPc \in {"boot", "loop", "waiting", "done"}
    /\ loading \in BOOLEAN
    /\ bootstrapper \in T!Digests
    /\ unclosed \subseteq Configs
    /\ mbConfig \in T!Digests
    /\ db \in T!Digests
    /\ crashes \in 0..MaxCrashes

\* Whenever the node, not cancelled, is idle in its loop with nothing
\* queued and the tracker holds no change it has yet to send, the
\* bootstrapper it holds
\* serves the config the tracker last decided on: a config that fails to
\* decode tears the old bootstrapper down rather than leaving it running.
NoStaleBootstrapper ==
    (/\ mbPc = "loop" /\ ~ctxDone /\ chNewConfig = <<>>
     /\ trackerPc \in {"idle", "checking"})
        => bootstrapper \in {NoConfig, trackerDigest}

\* The tracker never queues (or holds for sending) the config the running
\* bootstrapper already serves, so no config change restarts it under the
\* same digest: TrackConfig is seeded with mb.config's digest.
NoRedundantRestart ==
    bootstrapper # NoConfig =>
        /\ bootstrapper \notin ToSet(chNewConfig)
        /\ trackerPc = "sending" => pending # bootstrapper

\* The chain's latest config (if the tracker accepts its version) is what
\* the node serves: a bootstrapper for it if it decodes, none if it does
\* not.  A bootstrapper that failed to be created or started leaves the
\* node cold with mb.config recording the config, as the spec accepts.
Converged ==
    LET c == T!LatestConfig IN
    c # NoConfig /\ Version[c] = 1 =>
        IF Decodes[c] THEN bootstrapper = c \/ (bootstrapper = NoConfig /\ mbConfig = c)
                      ELSE bootstrapper = NoConfig

\* Once the node runs for good (not cancelled; crashes, RPC errors and
\* setConfig calls are bounded), it ends up serving the chain's config,
\* whatever the database held when it booted and however the restore went.
ConvergesToChain == <>[](~ctxDone) => <>[]Converged

\* Once its caller cancels ctx, RunManagedBootstrapNode returns (unless the
\* process crashes first): subprocesses.Wait() ends because TrackConfig
\* leaves a send on a full chNewConfig, which nobody reads any more, by
\* its ctx.Done() case, and the loader's read has a timeout.
CancelledNodeReturns == ctxDone ~> (mbPc = "done" \/ ~ctxDone)

\* No bootstrapper is leaked: every bootstrapper NewBootstrapper created
\* and nobody has closed is the one held in mb.bootstrapper, which the next
\* closeBootstrapper closes.
NoLeakedBootstrapper == unclosed \subseteq {bootstrapper}

=============================================================================
