# TLA+ models of libocr's offchainreporting supervisor and config path

This directory holds TLA+ models of the Go code under `src/`, together with
the TLC configurations that check them. `PROJECT.json` lists every
component, every run, the mutants that show each property is sensitive to
the code, the mapping from each definition to source lines, the findings,
and the hazards.

## 1. The system

| Part | Source | State | Operations |
|---|---|---|---|
| Oracle lifecycle | `offchainreporting/oracle.go` | `state` (Unstarted/Started/Closed), `cancel`, `subprocesses` | `NewOracle`, `Start`, `Close` (cancel, then `Wait`) |
| Managed oracle supervisor | `internal/managed/managed_oracle.go` | `config`, `oracleCancel`, `netEndpoint`, `oracleSubprocesses`, `otherSubprocesses` | `run` (spawn telemetry and GC, restore from the DB, start TrackConfig, loop), `configChanged`, `closeOracle` |
| Config tracker | `internal/managed/track_config.go` | `configDigest`, two timers, `subscription`, `chSubscription` | select over the subscription, the check timer and the resubscribe timer; `checkLatestConfigDetails` |
| DB restore / GC / telemetry | `load_from_database.go`, `collect_garbage.go`, `forward_telemetry.go` | none of their own | read the config; delete old transmissions; forward logs; all leave on `ctx.Done()` |
| Inner protocol oracle | `internal/protocol/oracle.go` | `epoch`, per-sender future-message buffers | `run`, `epochChanged`, `reportGenerationMessage` |
| Shared config resolution | `internal/config/shared_config.go`, `shared_secret*.go` | none (pure) | find this node's identity, `Decrypt` the shared secret |
| Config codec and digest | `internal/config/encode.go`, `config_digest.go` | none (pure) | ABI encode/decode, digest |
| Managed bootstrap node | `internal/managed/managed_bootstrap_node.go` | `bootstrapper`, `config` | the same loop as the supervisor, around a bootstrapper |
| DHT permit-list ACL | `networking/dht-router/acl.go` | `allowed` map | `Activate`, `Deactivate`, `Permit`, `Reject` (panics), `IsAllowed` |
| Signature, local config, overrider | `signature/`, `types/local_config.go`, `config_overrider.go` | none | cryptography, declarations, passthrough |

The parts interact as follows.
- `Oracle.Start` runs `RunManagedOracle` in a goroutine.
- `RunManagedOracle` starts the telemetry and GC tasks, then tries to restore
  the last config from the database. It waits for that at most
  `DatabaseTimeout`; after a timeout the loader keeps running.
- Only after the restore does it start `TrackConfig`, seeded with the
  restored digest. TrackConfig sends every new confirmed config on
  `chNewConfig`, a channel of capacity 5.
- For each change, `configChanged` runs these steps in order:
  1. `closeOracle`: cancel the inner task, wait for it, then close its
     endpoint.
  2. Resolve the config for this node.
  3. `NewEndpoint`, then `Start` it.
  4. Spawn `protocol.RunOracle`.
  5. `WriteConfig`.

  Every step can fail and return early. Only the failure of the last step is
  ignored.
- `Oracle.Close` cancels the root context and waits. Every task must then
  leave on `ctx.Done()`, and the supervisor waits for each of them in turn.

Behaviours that make this hard:
- a config change that arrives while the previous inner task is winding down;
- a failure halfway through `configChanged`;
- a crash between spawning the inner task and writing the database;
- RPC errors and confirmation counting in the tracker, against a block height
  read one RPC earlier;
- a subscription closed by its sender;
- a restore that times out;
- the shutdown ordering that `Close` relies on.

## 2. Modules

**`ConfigTracker`** models TrackConfig, and the chain as the
`ContractConfigTracker` interface shows it.
- Chain state: `height`; `chainLog` (the setConfig events); an RPC-error
  budget; and `subChan`, the subscription channel, which its sender may close
  at any time.
- The tracker's program counter `trackerPc` splits the check-timer case in
  two at the RPC boundary. `TrackerCheckHeight` reads the height.
  `TrackerCheckDetails` models the rest of `checkLatestConfigDetails`, one
  disjunct per return, then re-arms the timer. `checkDue` records the
  duration the timer was re-armed with.
- After an accepted change, `TrackerSend` and `TrackerSendCancelled` model the
  select on `chChanges` and `ctx.Done()`.
- `TrackerExit` models the prompt-exit select. It calls `Close()` on whatever
  subscription is held.
- `openSubs` counts the subscriptions obtained and not yet closed.
- A standalone `Spec` adds a consumer and a cancel; `FairSpec` adds the
  fairness of section 3.

**`ManagedOracle`** composes `Oracle`, `RunManagedOracle`, the sibling tasks
and the inner task with `T == INSTANCE ConfigTracker`.
- Configs are digests (model values). `Resolution[c]` is the outcome of
  `SharedConfigFromContractConfig` for this node. `MCManagedOracle` builds
  the setConfig behind each digest with the dealer's
  `ContractSetConfigArgs` from `SharedConfig`, and an `ASSUME` has TLC check
  that `SharedConfigFromContractConfig` yields exactly the `Resolution`
  the supervisor is run with (c3 misstates this node's transmit address).
- `moPc` follows `run()`:
  - `boot`: the restore, `RestoreConfig`;
  - `loop`: `ReceiveConfig` or `Shutdown`;
  - `closing` and `stopping`: `closeOracle` blocked in `Wait`;
  - `waitOthers`: `otherSubprocesses.Wait`;
  - `done`.
- `ApplyConfig` is `configChanged` after `closeOracle`, with one disjunct per
  early return. `WriteConfig`'s outcome is a free choice, because its error
  is only logged.
- `inners` is the set of live `RunOracle` tasks, each with a cancelled flag.
- `unclosedEps` is the set of endpoints created and not closed.
- `db` is the persisted config.
- `Crash` loses everything except `db` and the chain.
- `wroteRestored` is a history variable for scenario S2.

`ProtocolOracle` models the Oracle routine of `protocol/oracle.go`.
- `epoch` is `o.epoch`. `buffers` are the per-sender MessageBuffers: rings of
  `futureMessageBufferSize` messages, where a push onto a full ring drops the
  oldest message.
- `Classify` is the three-way epoch comparison. It is shared by
  `reportGenerationMessage` (`ReceiveNet`) and `epochChanged`.
- `EpochChanged` and `Flush` model `epochChanged`, one buffered message per
  step, with `cursor` as the sender loop. `BreakAt` is the inner loop's two
  breaks: an empty buffer, or an oldest message for a future epoch.
- `SendToReportGeneration` is the plain send on the unbuffered channel. It
  completes only when ReportGeneration is receiving.
- `EndOfIteration` is the prompt-exit select.
- Pacemaker and ReportGeneration are not under `src/`. They are peers with
  the discipline the comment above `run()` states: each of their sends is in
  a select with the child context. An epoch change replaces
  ReportGeneration, then is offered to the Oracle.
- Each link from a sender is FIFO. Honest senders send epochs that do not go
  down; one sender is arbitrary.
- `NetSenders` adds the first OracleID out of range, which an endpoint that
  breaks its contract could hand over (one message, `SendBound`).
  `ValidSender` is the defence-in-depth bounds check of `run()`: such a
  message is logged and ignored. No property is stated about it: the check
  is a single comparison in front of the dispatch.

**`ConfigFeed`** is the abstract specification of the tracker's promise
(spec sections 4.4 and 5): a chain (`height`, `log`), a `feed` of configs
handed on, the `current` config and a `cancelled` flag. `Emit` appends the
latest config when it is confirmed, has version 1 and differs from
`current`; `DropLast` loses the config in flight once cancelled.
`ConfigTracker` maps onto it with `chainLog` as `log`, `chNewConfig` plus
the pending config (while `trackerPc = "sending"`) as `feed`,
`trackerDigest` as `current` and `ctxDone` as `cancelled`. Its `Spec` has
weak fairness on `Emit` while not cancelled: a qualifying config is handed
on eventually.

**`ManagedBootstrapNode`** composes `RunManagedBootstrapNode` with
`ConfigTracker`. `mbPc` follows `run()` (`boot`, `loop`, `waiting`,
`done`); `bootstrapper` is the digest of the bootstrapper held, `unclosed`
the bootstrappers created and not closed, `mbConfig` is `mb.config`,
`db` the database, `loading` the loader left running by a restore timeout.
`ConfigChanged` has one disjunct per return of `configChanged`: decode
error, `NewBootstrapper` error, `Start()` error (the bootstrapper stays in
`unclosed`), success with a free `WriteConfig` outcome. `Crash` keeps only
`db` and the chain.

**`ConfigCodec`** models the lossy parts of `encode.go`: S narrowed to
uint8, and peer IDs joined with "," and split again, where an empty string
decodes to no peer IDs. Strings are sequences of one-character strings, so
join and split are modelled by what they do.

**`SharedConfig`** also holds `ConfigDigest` (config_digest.go): keccak256
of the ABI packing of the contract address, configCount and the setConfig
arguments, modelled as the hash of the tuple since that packing is
injective. `ContractSetConfigArgs` carries the threshold `uint8(F)` and
version 1.

**`SharedConfig`** models `SharedConfigFromContractConfig`, `Decrypt` and
the dealer's `XXXEncryptSharedSecretInternal` and
`XXXContractSetConfigArgsFromSharedConfig` as operators. Keys name the
oracle they belong to; an AES block is `[to, plain]`, and decrypting it
with another key gives a value unrelated to every secret; keccak256 is
injective. `publicConfigFromContractConfig` is not under `src/` and is
modelled from the spec (decode and zip, lists of unequal length rejected).

**`ConfigDistribution`** puts these together: an honest dealer (any
identity list with distinct signers, any recipient keys, possibly
misaligned) or a malicious one (correct identities, any block per
recipient) publishes a config, and each oracle resolves it. It also holds
`SpecResolve`, the ConfigResolver as the spec states it, as the reference.
`SetConfig` is the contract's setConfig: it increments `configCount` and
publishes the `ContractConfig` with the digest of the new count.

`PermitListACL` models the DHT router's ACL. `active` is the set of keys
of `acl.allowed`, and `allowed[p]` is the permit set of protocol `p`. Only
membership matters to `IsAllowed`, so a list is modelled as a set. `Reject`
panics, and the model then stops.

## 3. Runs

| Run | What it checks |
|---|---|
| `tracker` | `ImplementsConfigFeed` (refinement, with liveness): TrackConfig, with its RPC errors, timers and resubscriptions, implements the abstract `ConfigFeed` under `FairSpec` — every qualifying config is eventually handed on unless cancelled (a confirmation check one block late breaks this), the feed only gains the chain's latest config once it is confirmed, has version 1 and differs from the last one handed on, and only a cancelled consumer may lose the config in flight. `SubscriptionNoLeak`: at most one unclosed subscription, and none after exit. |
| `supervisor_safety` | `AtMostOneInner`; `EndpointOutlivesInner` (an inner task's endpoint is open while the task lives); `NoStaleInner` (when the supervisor and tracker are quiescent, any running inner task runs the tracker's digest); `NoRedundantRestart` (the tracker never queues the digest already running); `CloseReturnsClean` (when `Close` returns, every task is gone and no endpoint is held). |
| `supervisor_liveness` | Both properties are stated under the hypothesis `InnerReturnsOnCancel`: an inner `RunOracle` whose context is cancelled eventually returns (`protocol_oracle_stuck` shows the real RunOracle can fail to). `CloseTerminates`: then `Close`, once called, returns; a tracker or sibling task that does not leave on `ctx.Done()` breaks it. `ConvergesToChain`: then, once the oracle runs for good, it ends up running the chain's latest config if that config resolves for this node, and runs nothing if it does not. |
| `protocol_oracle` | `HonestNotStranded`: between iterations, no honest sender's buffer holds a message of the current or a past epoch, so `epochChanged`'s early break at the first future message (line 229) strands nothing of theirs, through pushes, evictions of a full two-slot ring and epoch jumps past several buffered epochs. A loop that breaks at the first message not for the new epoch (past ones included) breaks it. `TypeOK` bounds each ring by its capacity; a push that does not evict breaks it. |
| `protocol_oracle_stuck` (violation) | `CancelledOracleExits` is violated. The Oracle is blocked in the plain send at line 248 (or 222), ReportGeneration is blocked sending to the Pacemaker, and the Pacemaker is blocked offering an epoch. The Oracle never reaches the prompt-exit select, so `childCtx` is never cancelled and `RunOracle` never returns. The comment at line 96 says every send is in a select for exactly this reason. |
| `acl` | `NoSilentRevocation` (an action property): no step takes a peer off a protocol that stays enforced. For example, a second `Activate` with a narrower list is ignored. |
| `s2_restore_rewritten` (violation) | A restored config is written back to the database, unlike scenario S2 of the spec. |
| `bootstrap` | `NoStaleBootstrapper` (when the node is idle, the bootstrapper it holds serves the tracker's digest); `NoRedundantRestart`; `ConvergesToChain` (once the node runs for good, it serves the chain's latest config if it decodes and none if it does not); `CancelledNodeReturns` (once cancelled, `run()` returns: it stops reading chNewConfig and waits for TrackConfig, which may be blocked on the full channel and leaves by its `ctx.Done()` case; a plain send breaks it). |
| `bootstrap_leak` (violation) | `NoLeakedBootstrapper` is violated: a bootstrapper whose `Start()` failed is never closed (`managed_bootstrap_node.go:137`); `mb.bootstrapper` stays nil, so no later `closeBootstrapper` reaches it. |
| `config_distribution` | `ResolveMatchesSpec` (each oracle's `SharedConfigFromContractConfig` outcome equals the spec's ConfigResolver, including the oracle ID the break-less loop picks); `AgreeOnSecret` (two oracles that resolve a config hold the secret committed in `SharedSecretHash`, even against an equivocating dealer); `RoundTrip` (the identities and S the dealer encoded are what the oracles decode, through the uint8 narrowing and the comma join/split of peer IDs, the empty list included). |
| `s3_endpoint_leak` (violation) | `NoLeakedEndpoint` is violated: an endpoint whose `Start()` failed is never closed (`managed_oracle.go:202`); `mo.netEndpoint` stays nil, so no later `closeOracle` reaches it, whereas the spec has the supervisor close the endpoint it constructed. |

Each property of a passing run has a mutant in `PROJECT.json`: a plausible
bug in the mapped code that TLC shows breaks it. Examples: closeOracle not
waiting, the endpoint closed with the cancel, the confirmation check off by
one, the tracker seeded with the zero digest, the sibling tasks not selecting
on `ctx.Done()`.

### Bounds
- Three configs, in the order c1, c2, c3. c1 and c2 resolve. c3 fails with an
  identity mismatch (scenario S5). The tracker run uses two configs, the
  second with an unknown `EncodedConfigVersion`.
- `Confirmations = 2`, so the "awaiting confirmation" branch is taken.
- Each setConfig needs `height + Confirmations <= MaxHeight`, so that every
  published config can be confirmed.
- `MaxHeight` is 6 in the safety run, which allows every config of the plan
  to be published. It is 5 in the liveness run.
- One RPC error, one crash. Endpoint failures are on in the safety run.
- ProtocolOracle: two senders (0 honest, 1 arbitrary), epochs 0..2 with
  jumps, three messages per sender, one message from the out-of-range
  sender 2, and a ring of capacity 2 (the code's is 10). Two slots are the
  least in which a ring holds two epochs, so that the early break has
  something behind it to strand; three messages overflow it (9.4 million
  states, about a minute).
- Bootstrap run: the same three configs (c3 does not decode), `MaxHeight`
  6, one RPC error, one crash, bootstrapper failures on; 609,230 states,
  liveness included.
- Config distribution: two oracles, two secrets, at most two identities
  with distinct signers, S of at most one delay from {0, 255} (the uint8
  edge), peer IDs of one character so that join and split are exercised;
  every identity list, key assignment and malicious block choice is
  enumerated for the first setConfig. Two setConfigs (`MaxSetConfigs`);
  the second re-configures the same oracles (same identities and S, any F,
  secret and keys, honest or malicious dealer), which includes repeating
  the first exactly, so the oracles re-resolve while the first result is
  still held: a free second config squares the state space (48 million
  states) without adding a case the properties distinguish.
- `ChanCap = 1`; the code's chNewConfig holds 5. With three configs a
  channel of 5 never fills, so the tracker never blocks on the send and the
  `ctx.Done()` case that lets it out is never needed. A full channel
  behaves the same at any capacity, and at capacity 1 it fills: the
  tracker then waits in the send while the supervisor is busy or gone. A
  send without the `ctx.Done()` case then makes `Close` hang
  (`CloseTerminates`), which TLC cannot see at capacity 5.

The liveness run has no RPC errors and no endpoint failures. With endpoint
failures, convergence fails by design: the tracker has already recorded the
digest, and the spec accepts that the node stays cold until the next config.
The liveness run also keeps the state space small enough for TLC's liveness
check.

### Fairness
In the standalone tracker run (`FairSpec`), weak fairness is assumed for
the tracker's height and details checks, its send and exit, the consumer
and the chain mining: the check timer is re-armed on every path, so a
polling step is always pending.

In ManagedOracle, weak fairness is assumed for:
- every tracker step except resubscription and the subscription cases;
- the supervisor and the sibling tasks;
- `Close` returning;
- the chain mining blocks.

The inner task's return (`InnerExit`) is not assumed fair: the inner
`RunOracle` is not in this module, and `protocol_oracle_stuck` shows it
can block for good. Its weak fairness is the hypothesis
`InnerReturnsOnCancel` of both liveness properties instead.

Go's `select` picks among ready cases at random. The tracker's timers are
always re-armed, and every task's loop selects on `ctx.Done()`. Starting,
closing, setConfig, crashes, RPC errors and subscription churn are the
environment's choices, so they are not fair.

In ManagedBootstrapNode, weak fairness is assumed for the chain mining,
the tracker's timer and send steps, the node's loop and the loader
returning (its read has a timeout); cancel, setConfig, RPC errors and
crashes are not fair.

In ProtocolOracle, weak fairness is assumed for:
- the Oracle's steps;
- the child routines leaving on the cancelled child context;
- the Pacemaker receiving a progress event.

What the Pacemaker and ReportGeneration choose to do is not forced. The
circular wait found by `protocol_oracle_stuck` holds under this fairness,
because no step of the cycle is enabled.

## 4. Not modelled, and the plan

Not modelled:
- signing (`signature/`), the local config declarations and the config
  overrider passthrough: no state;
- the ABI byte layout, `configSizeBound` and the startup self-checks of
  `encode.go` (reflection on field names): the codec is modelled by its
  lossy steps only, the ABI Pack/Unpack is taken to round-trip;
- `computeTokenBucketRefillRate` (floating-point arithmetic for the
  endpoint's rate limiter, no control effect);
- the F/N and timing checks of `publicConfigFromContractConfig`, which is
  not under `src/`;
- curve25519 and the failure of `ConfigDiffieHellman`;
- GC deletions and telemetry forwarding (I/O with no effect on control);
- Pacemaker, ReportGeneration and Transmission, which are not under `src/`.

Later work, in this order:
1. **ManagedOracle + ProtocolOracle**: compose them, so that the circular
   wait of the inner task shows up as `Oracle.Close` hanging. The run
   budget is spent; this would replace `protocol_oracle_stuck`, which
   already shows `RunOracle` not returning, and `closeOracle` waits for
   it.
2. Chain reorganisations: the chain here only grows, so a config that is
   confirmed and then reorganised away is never seen.
