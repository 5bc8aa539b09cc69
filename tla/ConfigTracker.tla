---------------------------- MODULE ConfigTracker ----------------------------
(***************************************************************************)
(* TrackConfig (internal/managed/track_config.go): the long-lived task that *)
(* polls the chain for the latest contract config, waits for block         *)
(* confirmations, and sends every new config on chNewConfig.  Beside it,   *)
(* the chain as the ContractConfigTracker interface shows it: blocks,      *)
(* setConfig events, RPC errors and a subscription its sender may close.   *)
(*                                                                         *)
(* A config is identified by its ConfigDigest, a model value; NoConfig is  *)
(* the zero digest.  Timers are not timed: an armed timer may fire at any  *)
(* step, and checkDue records which duration tCheckLatestConfigDetails    *)
(* was armed with.                                                         *)
(***************************************************************************)
EXTENDS Naturals, Sequences, FiniteSets, SequencesExt

CONSTANTS
    Configs,            \* digests setConfig may publish (model values)
    NoConfig,           \* the zero ConfigDigest
    ChainPlan,          \* the order in which setConfig publishes them
    Version,            \* Version[c]: EncodedConfigVersion carried by c
    Confirmations,      \* LocalConfig.ContractConfigConfirmations
    SkipConfirmations,  \* LocalConfig.SkipContractConfigConfirmations
    MaxHeight,          \* bound: the last block the chain mines
    ChanCap,            \* capacity of chNewConfig (managed_oracle.go:109)
    MaxRpcFailures      \* bound: RPC errors the chain returns in a behaviour

ASSUME /\ NoConfig \notin Configs
       /\ ChainPlan \in Seq(Configs) /\ ToSet(ChainPlan) = Configs
       /\ Version \in [Configs -> {1, 2}]
       /\ Confirmations \in 1..MaxHeight
       /\ SkipConfirmations \in BOOLEAN
       /\ ChanCap \in Nat \ {0}
       /\ MaxRpcFailures \in Nat

VARIABLES
    height,        \* latest block height of the chain
    chainLog,      \* setConfig events so far, oldest first: [cfg, block]
    rpcFailures,   \* RPC errors the chain has returned so far
    subChan,       \* chSubscription: "nil", "open", or "closed" by its sender
    subscription,  \* the subscription variable: "nil", "live", "closed" (Close() called)
    openSubs,      \* subscriptions returned by SubscribeToNewConfigs, not yet Close()d
    tResubscribe,  \* the resubscribe timer is armed
    trackerPc,     \* "none", "idle" (in select), "checking", "sending", "exited"
    trackerBh,     \* the blockheight checkLatestConfigDetails read first
    trackerDigest, \* state.configDigest
    pending,       \* the change being sent on chChanges
    checkDue,      \* tCheckLatestConfigDetails armed with "now", "fast" or "poll"
    chNewConfig,   \* the buffered channel towards the supervisor
    ctxDone        \* the root context is cancelled

chainVars   == <<height, chainLog, rpcFailures, subChan>>
trackerVars == <<subscription, openSubs, tResubscribe, trackerPc, trackerBh,
                 trackerDigest, pending, checkDue>>
vars        == <<chainVars, trackerVars, chNewConfig, ctxDone>>

Digests == Configs \cup {NoConfig}

-----------------------------------------------------------------------------
(* The chain, as LatestBlockHeight, LatestConfigDetails and ConfigFromLogs *)
(* report it.                                                              *)

LatestConfig == IF chainLog = <<>> THEN NoConfig ELSE Last(chainLog).cfg

ChangedInBlock == IF chainLog = <<>> THEN 0 ELSE Last(chainLog).block

\* An RPC may fail while the failure budget lasts.
RpcFails == /\ rpcFailures < MaxRpcFailures
            /\ rpcFailures' = rpcFailures + 1

ChainMine ==
    /\ height < MaxHeight
    /\ height' = height + 1
    /\ UNCHANGED <<chainLog, rpcFailures, subChan, trackerVars, chNewConfig, ctxDone>>

\* setConfig is mined in the next block, leaving room below MaxHeight for
\* its confirmations.
ChainSetConfig ==
    /\ Len(chainLog) < Len(ChainPlan)
    /\ height + Confirmations <= MaxHeight
    /\ height' = height + 1
    /\ chainLog' = Append(chainLog, [cfg |-> ChainPlan[Len(chainLog) + 1],
                                     block |-> height + 1])
    /\ UNCHANGED <<rpcFailures, subChan, trackerVars, chNewConfig, ctxDone>>

\* "May be closed by sender at any time."
SubscriptionClosedBySender ==
    /\ subChan = "open"
    /\ subChan' = "closed"
    /\ UNCHANGED <<height, chainLog, rpcFailures, trackerVars, chNewConfig, ctxDone>>

ChainNext == ChainMine \/ ChainSetConfig \/ SubscriptionClosedBySender

-----------------------------------------------------------------------------
(* TrackConfig.                                                            *)

\* TrackConfig starts with initialConfigDigest; both timers fire at once.
TrackConfigStart(initialDigest) ==
    /\ trackerPc' = "idle"
    /\ trackerDigest' = initialDigest
    /\ trackerBh' = 0
    /\ pending' = NoConfig
    /\ checkDue' = "now"
    /\ tResubscribe' = TRUE
    /\ subscription' = "nil"
    /\ openSubs' = 0

\* case _, ok := <-chSubscription, ok: check at once.
TrackerSubscriptionFired ==
    /\ trackerPc = "idle"
    /\ subChan = "open"
    /\ checkDue' = "now"
    /\ UNCHANGED <<chainVars, subscription, openSubs, tResubscribe, trackerPc,
                   trackerBh, trackerDigest, pending, chNewConfig, ctxDone>>

\* Fault variant: the closed subscription is dropped without Close().
TrackerSubscriptionClosedNoClose ==
    /\ trackerPc = "idle"
    /\ subChan = "closed"
    /\ subChan' = "nil"
    /\ tResubscribe' = TRUE
    /\ UNCHANGED <<height, chainLog, rpcFailures, subscription, openSubs, trackerPc,
                   trackerBh, trackerDigest, pending, checkDue, chNewConfig, ctxDone>>

\* case _, ok := <-chSubscription, !ok: Close() it and arm tResubscribe.
TrackerSubscriptionClosed ==
    /\ trackerPc = "idle"
    /\ subChan = "closed"
    /\ subChan' = "nil"
    /\ subscription' = "closed"
    /\ openSubs' = openSubs - 1
    /\ tResubscribe' = TRUE
    /\ UNCHANGED <<height, chainLog, rpcFailures, trackerPc, trackerBh,
                   trackerDigest, pending, checkDue, chNewConfig, ctxDone>>

\* case <-tResubscribe: SubscribeToNewConfigs; on error the returned nil
\* replaces the subscription and the timer is re-armed.
TrackerResubscribe ==
    /\ trackerPc = "idle"
    /\ tResubscribe
    /\ \/ /\ subscription' = "nil"
          /\ UNCHANGED <<subChan, openSubs, tResubscribe>>
       \/ /\ subscription' = "live"
          /\ subChan' = "open"
          /\ openSubs' = openSubs + 1
          /\ tResubscribe' = FALSE
    /\ UNCHANGED <<height, chainLog, rpcFailures, trackerPc, trackerBh,
                   trackerDigest, pending, checkDue, chNewConfig, ctxDone>>

\* case <-tCheckLatestConfigDetails, first call of checkLatestConfigDetails:
\* LatestBlockHeight.  An error returns (nil, false): re-armed with the poll
\* interval.
TrackerCheckHeight ==
    /\ trackerPc = "idle"
    /\ \/ /\ RpcFails
          /\ checkDue' = "poll"
          /\ UNCHANGED <<trackerPc, trackerBh>>
       \/ /\ trackerBh' = height
          /\ trackerPc' = "checking"
          /\ UNCHANGED <<rpcFailures, checkDue>>
    /\ UNCHANGED <<height, chainLog, subChan, subscription, openSubs, tResubscribe,
                   trackerDigest, pending, chNewConfig, ctxDone>>

\* Fault variants of the confirmation check: one block short, one over.
AwaitingConfirmationEarly(bh, changedIn) ==
    /\ ~SkipConfirmations
    /\ bh < changedIn + Confirmations - 2

AwaitingConfirmationLate(bh, changedIn) ==
    /\ ~SkipConfirmations
    /\ bh <= changedIn + Confirmations - 1

\* blockheight < changedInBlock + ContractConfigConfirmations - 1, in uint64.
AwaitingConfirmation(bh, changedIn) ==
    /\ ~SkipConfirmations
    /\ bh < changedIn + Confirmations - 1

\* The rest of checkLatestConfigDetails (LatestConfigDetails, the digest and
\* confirmation checks, ConfigFromLogs, the version check) and what the
\* case does with its result: re-arm the timer ("fast" while awaiting
\* confirmation), record the new digest and go on to send it.
TrackerCheckDetails ==
    LET latest == LatestConfig
        ready  == /\ latest \notin {NoConfig, trackerDigest}
                  /\ ~AwaitingConfirmation(trackerBh, ChangedInBlock)
    IN
    /\ trackerPc = "checking"
    /\ \/ /\ RpcFails                                 \* LatestConfigDetails error
          /\ checkDue' = "poll"
          /\ UNCHANGED <<trackerDigest, pending>>
          /\ trackerPc' = "idle"
       \/ /\ latest \in {NoConfig, trackerDigest}      \* unconfigured or unchanged
          /\ checkDue' = "poll"
          /\ UNCHANGED <<rpcFailures, trackerDigest, pending>>
          /\ trackerPc' = "idle"
       \/ /\ latest \notin {NoConfig, trackerDigest}
          /\ AwaitingConfirmation(trackerBh, ChangedInBlock)
          /\ checkDue' = "fast"
          /\ UNCHANGED <<rpcFailures, trackerDigest, pending>>
          /\ trackerPc' = "idle"
       \/ /\ ready                                    \* ConfigFromLogs error
          /\ RpcFails
          /\ checkDue' = "fast"
          /\ UNCHANGED <<trackerDigest, pending>>
          /\ trackerPc' = "idle"
       \/ /\ ready                                    \* unknown EncodedConfigVersion
          /\ Version[latest] # 1
          /\ checkDue' = "poll"
          /\ UNCHANGED <<rpcFailures, trackerDigest, pending>>
          /\ trackerPc' = "idle"
       \/ /\ ready
          /\ Version[latest] = 1
          /\ checkDue' = "poll"
          /\ trackerDigest' = latest
          /\ pending' = latest
          /\ trackerPc' = "sending"
          /\ UNCHANGED rpcFailures
    /\ UNCHANGED <<height, chainLog, subChan, subscription, openSubs,
                   tResubscribe, trackerBh, chNewConfig, ctxDone>>

\* select { case chChanges <- *change: ... }
TrackerSend ==
    /\ trackerPc = "sending"
    /\ Len(chNewConfig) < ChanCap
    /\ chNewConfig' = Append(chNewConfig, pending)
    /\ trackerPc' = "idle"
    /\ UNCHANGED <<chainVars, subscription, openSubs, tResubscribe, trackerBh,
                   trackerDigest, pending, checkDue, ctxDone>>

\* Fault variant: a plain send on chChanges, with no case for ctx.Done().
TrackerSendIgnoringCtx == FALSE

\* select { ... case <-state.ctx.Done(): }: the change is dropped.
TrackerSendCancelled ==
    /\ trackerPc = "sending"
    /\ ctxDone
    /\ trackerPc' = "idle"
    /\ UNCHANGED <<chainVars, subscription, openSubs, tResubscribe, trackerBh,
                   trackerDigest, pending, checkDue, chNewConfig, ctxDone>>

\* Fault variant: the exit path counts a Close() of an already closed
\* subscription as closing one more.
TrackerExitDoubleClose ==
    /\ trackerPc \in {"idle", "checking"}
    /\ ctxDone
    /\ trackerPc' = "exited"
    /\ subscription' = IF subscription = "nil" THEN "nil" ELSE "closed"
    /\ openSubs' = IF subscription = "nil" THEN openSubs ELSE openSubs - 1
    /\ UNCHANGED <<chainVars, tResubscribe, trackerBh, trackerDigest, pending,
                   checkDue, chNewConfig, ctxDone>>

\* The prompt-exit select: Close() whatever subscription is held, then exit.
\* (From "checking" the remaining RPCs fail on the cancelled context.)
TrackerExit ==
    /\ trackerPc \in {"idle", "checking"}
    /\ ctxDone
    /\ trackerPc' = "exited"
    /\ subscription' = IF subscription = "nil" THEN "nil" ELSE "closed"
    /\ openSubs' = IF subscription = "live" THEN openSubs - 1 ELSE openSubs
    /\ UNCHANGED <<chainVars, tResubscribe, trackerBh, trackerDigest, pending,
                   checkDue, chNewConfig, ctxDone>>

TrackerNext ==
    \/ TrackerSubscriptionFired \/ TrackerSubscriptionClosed
    \/ TrackerResubscribe \/ TrackerCheckHeight \/ TrackerCheckDetails
    \/ TrackerSend \/ TrackerSendCancelled \/ TrackerExit

-----------------------------------------------------------------------------
(* Standalone specification: the tracker against the chain, with a consumer *)
(* draining chNewConfig and the context cancelled at some point.           *)

InitChain ==
    /\ height = 1
    /\ chainLog = <<>>
    /\ rpcFailures = 0
    /\ subChan = "nil"

Init ==
    /\ InitChain
    /\ chNewConfig = <<>>
    /\ ctxDone = FALSE
    /\ trackerPc = "idle" /\ trackerDigest = NoConfig /\ trackerBh = 0
    /\ pending = NoConfig /\ checkDue = "now" /\ tResubscribe = TRUE
    /\ subscription = "nil" /\ openSubs = 0

Consume ==
    /\ chNewConfig # <<>>
    /\ chNewConfig' = Tail(chNewConfig)
    /\ UNCHANGED <<chainVars, trackerVars, ctxDone>>

Cancel ==
    /\ ~ctxDone
    /\ ctxDone' = TRUE
    /\ UNCHANGED <<chainVars, trackerVars, chNewConfig>>

Next == ChainNext \/ TrackerNext \/ Consume \/ Cancel

Spec == Init /\ [][Next]_vars

\* The tracker goroutine is scheduled and its check timer is always
\* re-armed, so each of its steps that stays enabled is taken; the consumer
\* drains chNewConfig and the chain keeps mining.  setConfig, the cancel,
\* RPC errors and subscription churn are the environment's and not fair.
FairSpec ==
    /\ Spec
    /\ WF_vars(TrackerCheckHeight) /\ WF_vars(TrackerCheckDetails)
    /\ WF_vars(TrackerSend) /\ WF_vars(TrackerSendCancelled) /\ WF_vars(TrackerExit)
    /\ WF_vars(Consume) /\ WF_vars(ChainMine)

-----------------------------------------------------------------------------
(* Properties.                                                             *)

TypeOK ==
    /\ height \in 0..MaxHeight
    /\ chainLog \in Seq([cfg : Configs, block : 0..MaxHeight])
    /\ rpcFailures \in 0..MaxRpcFailures
    /\ subChan \in {"nil", "open", "closed"}
    /\ subscription \in {"nil", "live", "closed"}
    /\ openSubs \in Nat
    /\ tResubscribe \in BOOLEAN
    /\ trackerPc \in {"none", "idle", "checking", "sending", "exited"}
    /\ trackerBh \in 0..MaxHeight
    /\ trackerDigest \in Digests
    /\ pending \in Digests
    /\ checkDue \in {"now", "fast", "poll"}
    /\ chNewConfig \in Seq(Configs) /\ Len(chNewConfig) <= ChanCap
    /\ ctxDone \in BOOLEAN

\* The feed the consumer sees: the configs queued on chNewConfig, then the
\* one the tracker is blocked sending.
Feed == INSTANCE ConfigFeed
            WITH log <- chainLog,
                 feed <- chNewConfig \o (IF trackerPc = "sending" THEN <<pending>> ELSE <<>>),
                 current <- trackerDigest,
                 cancelled <- ctxDone

\* TrackConfig implements the config feed: it only ever hands on the
\* chain's latest config, once it has ContractConfigConfirmations
\* confirmations at the current height (although the check compares with a
\* blockheight read one RPC earlier), only with EncodedConfigVersion 1,
\* never the digest it is at, in chain order; and it loses one only by
\* dropping the change it is sending when the context is cancelled.
ImplementsConfigFeed == Feed!Spec

\* TrackConfig never holds more than one subscription it has not closed,
\* and it has closed every one when it exits: the sender-closed handler
\* and the exit path between them Close() each subscription obtained.
SubscriptionNoLeak ==
    /\ openSubs <= 1
    /\ trackerPc = "exited" => openSubs = 0
=============================================================================
