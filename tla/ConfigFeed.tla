------------------------------ MODULE ConfigFeed ------------------------------
(***************************************************************************)
(* What the config tracker promises its consumer (section 4.4 and the      *)
(* ordering guarantees of section 5 of the spec), with no RPCs, timers or  *)
(* subscriptions: the feed only ever gains the chain's latest config, once *)
(* it is confirmed, carries EncodedConfigVersion 1 and differs from the    *)
(* config the feed is at; the consumer takes configs from the front; once  *)
(* cancelled, the config not yet handed over may be lost.  A config that   *)
(* qualifies is handed on eventually, unless the consumer cancels.         *)
(***************************************************************************)
EXTENDS Naturals, Sequences, SequencesExt

CONSTANTS Configs, NoConfig, ChainPlan, Version, Confirmations,
          SkipConfirmations, MaxHeight

VARIABLES
    height,     \* the chain's latest block
    log,        \* setConfig events, oldest first: [cfg, block]
    feed,       \* configs handed on and not yet consumed, oldest first
    current,    \* the config the feed is at
    cancelled   \* the consumer's context is cancelled

vars == <<height, log, feed, current, cancelled>>

Latest == IF log = <<>> THEN NoConfig ELSE Last(log).cfg

Confirmed == SkipConfirmations \/ Last(log).block + Confirmations - 1 <= height

Mine ==
    /\ height < MaxHeight
    /\ height' = height + 1
    /\ UNCHANGED <<log, feed, current, cancelled>>

Publish ==
    /\ Len(log) < Len(ChainPlan)
    /\ height' = height + 1
    /\ log' = Append(log, [cfg |-> ChainPlan[Len(log) + 1], block |-> height + 1])
    /\ UNCHANGED <<feed, current, cancelled>>

Emit ==
    /\ Latest \notin {NoConfig, current}
    /\ Confirmed
    /\ Version[Latest] = 1
    /\ feed' = Append(feed, Latest)
    /\ current' = Latest
    /\ UNCHANGED <<height, log, cancelled>>

Consume ==
    /\ feed # <<>>
    /\ feed' = Tail(feed)
    /\ UNCHANGED <<height, log, current, cancelled>>

Cancel ==
    /\ ~cancelled
    /\ cancelled' = TRUE
    /\ UNCHANGED <<height, log, feed, current>>

DropLast ==
    /\ cancelled
    /\ feed # <<>>
    /\ feed' = Front(feed)
    /\ UNCHANGED <<height, log, current, cancelled>>

Init ==
    /\ height = 1 /\ log = <<>> /\ feed = <<>>
    /\ current = NoConfig /\ cancelled = FALSE

Next == Mine \/ Publish \/ Emit \/ Consume \/ Cancel \/ DropLast

\* A config that is the chain's latest, confirmed, of version 1 and new to
\* the feed is handed on unless the consumer cancels.
Spec == Init /\ [][Next]_vars /\ WF_vars(~cancelled /\ Emit)

=============================================================================
