--------------------------- MODULE ProtocolOracle ---------------------------
(***************************************************************************)
(* The Oracle routine of the inner protocol (internal/protocol/oracle.go): *)
(* it takes report-generation messages from the network and epoch changes  *)
(* from the Pacemaker, hands the messages of the current epoch to          *)
(* ReportGeneration over the unbuffered chNetToReportGeneration, keeps the *)
(* messages of future epochs in one MessageBuffer per sender and replays   *)
(* them in epochChanged, and winds the protocol down when its context is   *)
(* cancelled.                                                              *)
(*                                                                         *)
(* Pacemaker and ReportGeneration are not in this repository's source;    *)
(* they appear only as the peers of the channels, with the discipline the  *)
(* comment above run() gives them: every send of theirs is in a select     *)
(* with a case for the cancelled child context.  An epoch change replaces  *)
(* the ReportGeneration instance and is then offered to the Oracle.        *)
(***************************************************************************)
EXTENDS Naturals, Sequences, FiniteSets

CONSTANTS
    N,          \* Config.N(): the oracles, numbered 0..N-1
    Honest,     \* senders whose messages carry non-decreasing epochs
    MaxEpoch,   \* bound: the last epoch the Pacemaker reaches
    MaxSends,   \* bound: messages each sender sends
    BufCap      \* futureMessageBufferSize (oracle.go:13)

Senders == 0..N-1
\* The OracleIDs the network endpoint may hand over: the N valid ones and,
\* for an endpoint that breaks its contract, the first one out of range.
NetSenders == 0..N
Epochs  == 0..MaxEpoch
Msgs    == [from : NetSenders, ep : Epochs, n : 1..MaxSends]
NoMsg   == [from |-> 0, ep |-> 0, n |-> 0]

ASSUME /\ N \in Nat \ {0} /\ Honest \subseteq Senders
       /\ MaxEpoch \in Nat /\ MaxSends \in Nat /\ BufCap \in Nat \ {0}

VARIABLES
    epoch,      \* o.epoch
    link,       \* link[s]: messages from s the network has yet to deliver, in order
    sent,       \* sent[s]: messages s has sent
    lastEp,     \* lastEp[s]: epoch of the last message s sent
    buffers,    \* o.bufferedMessages
    opc,        \* Oracle: "loop", "flush" (in epochChanged), "send" (chNetToReportGeneration <-),
                \*         "waiting" (subprocesses.Wait), "exited"
    cursor,     \* the sender's buffer epochChanged is at
    out,        \* the message being sent to ReportGeneration
    resume,     \* where the send returns to: "loop" or "flush"
    pmEpoch,    \* the Pacemaker's epoch
    pmPc,       \* Pacemaker: "loop", "toOracle" (sending on chPacemakerToOracle), "gone"
    rgPc,       \* ReportGeneration: "recv", "toPacemaker" (sending a progress event), "gone"
    ctxDone,    \* o.ctx is cancelled
    childDone   \* o.childCtx is cancelled

netVars    == <<link, sent, lastEp>>
oracleVars == <<epoch, buffers, opc, cursor, out, resume>>
vars == <<netVars, oracleVars, pmEpoch, pmPc, rgPc, ctxDone, childDone>>

-----------------------------------------------------------------------------
(* MessageBuffer: a ring of BufCap messages; Push onto a full ring drops    *)
(* the oldest.                                                              *)

\* The defence-in-depth bounds check on msg.Sender in run().
ValidSender(s) == 0 <= s /\ s < N

\* Fault variant: the ring grows past its capacity.
PushNoEvict(b, m) == Append(b, m)

Push(b, m) == IF Len(b) = BufCap THEN Append(Tail(b), m) ELSE Append(b, m)

\* The three-way comparison of a message's epoch with the oracle's, shared
\* by reportGenerationMessage and epochChanged.
Classify(msgEpoch, e) ==
    IF msgEpoch < e THEN "drop" ELSE IF msgEpoch = e THEN "deliver" ELSE "keep"

\* Fault variant: the inner loop breaks at the first message that is not
\* for the new epoch, past ones included.
BreakAtNotDue(b, e) == b = <<>> \/ (b # <<>> /\ Classify(Head(b).ep, e) # "deliver")

\* The two breaks of epochChanged's inner loop: the buffer is empty, or its
\* oldest message is for a future epoch ("this and all subsequent messages
\* are for future epochs").
BreakAt(b, e) == b = <<>> \/ (b # <<>> /\ Classify(Head(b).ep, e) = "keep")

\* The prompt-exit select at the end of every iteration of run(): on a
\* cancelled context childCancel() and go on to subprocesses.Wait().
EndOfIteration ==
    /\ opc' = IF ctxDone THEN "waiting" ELSE "loop"
    /\ childDone' = ctxDone

-----------------------------------------------------------------------------
(* The network and the environment.                                       *)

\* Bound: one message under the out-of-range sender is enough to reach
\* every branch the bounds check guards.
SendBound(s) == IF s \in Senders THEN MaxSends ELSE 1

\* Sender s sends a report-generation message; an honest sender's epochs
\* never go down.
Send(s) ==
    /\ sent[s] < SendBound(s)
    /\ \E e \in Epochs :
          /\ s \in Honest => e >= lastEp[s]
          /\ link' = [link EXCEPT ![s] = Append(@, [from |-> s, ep |-> e, n |-> sent[s] + 1])]
          /\ lastEp' = [lastEp EXCEPT ![s] = e]
    /\ sent' = [sent EXCEPT ![s] = @ + 1]
    /\ UNCHANGED <<oracleVars, pmEpoch, pmPc, rgPc, ctxDone, childDone>>

Cancel ==
    /\ ~ctxDone
    /\ ctxDone' = TRUE
    /\ UNCHANGED <<netVars, oracleVars, pmEpoch, pmPc, rgPc, childDone>>

\* The Pacemaker moves to a later epoch: it replaces ReportGeneration and
\* offers the epoch to the Oracle.
PacemakerNewEpoch ==
    /\ pmPc = "loop"
    /\ \E e \in Epochs : e > pmEpoch /\ pmEpoch' = e
    /\ pmPc' = "toOracle"
    /\ rgPc' = "recv"
    /\ UNCHANGED <<netVars, oracleVars, ctxDone, childDone>>

\* ReportGeneration reports progress to the Pacemaker.
RGProgress ==
    /\ rgPc = "recv"
    /\ rgPc' = "toPacemaker"
    /\ UNCHANGED <<netVars, oracleVars, pmEpoch, pmPc, ctxDone, childDone>>

PacemakerReceiveProgress ==
    /\ pmPc = "loop" /\ rgPc = "toPacemaker"
    /\ rgPc' = "recv"
    /\ UNCHANGED <<netVars, oracleVars, pmEpoch, pmPc, ctxDone, childDone>>

\* Both leave their selects on the cancelled child context.
ChildExit ==
    /\ childDone
    /\ \/ pmPc # "gone" /\ pmPc' = "gone" /\ UNCHANGED rgPc
       \/ rgPc # "gone" /\ rgPc' = "gone" /\ UNCHANGED pmPc
    /\ UNCHANGED <<netVars, oracleVars, pmEpoch, ctxDone, childDone>>

-----------------------------------------------------------------------------
(* The Oracle routine.                                                     *)

\* case msg := <-chNet: a sender out of range is logged and ignored, a
\* valid one's message is dispatched to reportGenerationMessage.
ReceiveNet(s) ==
    LET m == Head(link[s]) IN
    /\ opc = "loop"
    /\ link[s] # <<>>
    /\ link' = [link EXCEPT ![s] = Tail(@)]
    /\ \/ /\ ~ValidSender(s)
          /\ EndOfIteration
          /\ UNCHANGED <<buffers, out, resume>>
       \/ /\ ValidSender(s)
          /\ Classify(m.ep, epoch) = "drop"
          /\ EndOfIteration
          /\ UNCHANGED <<buffers, out, resume>>
       \/ /\ ValidSender(s)
          /\ Classify(m.ep, epoch) = "deliver"
          /\ opc' = "send" /\ out' = m /\ resume' = "loop"
          /\ UNCHANGED <<buffers, childDone>>
       \/ /\ ValidSender(s)
          /\ Classify(m.ep, epoch) = "keep"
          /\ buffers' = [buffers EXCEPT ![s] = Push(@, m)]
          /\ EndOfIteration
          /\ UNCHANGED <<out, resume>>
    /\ UNCHANGED <<sent, lastEp, epoch, cursor, pmEpoch, pmPc, rgPc, ctxDone>>

\* case epoch := <-chPacemakerToOracle: epochChanged starts with the buffer
\* of sender 0.
EpochChanged ==
    /\ opc = "loop"
    /\ pmPc = "toOracle"
    /\ pmPc' = "loop"
    /\ epoch' = pmEpoch
    /\ opc' = "flush"
    /\ cursor' = 0
    /\ UNCHANGED <<netVars, buffers, out, resume, pmEpoch, rgPc, ctxDone, childDone>>

\* One step of epochChanged's loops: break at an empty buffer or a future
\* message and move to the next sender, or else drop a past message or hand
\* on a message of the new epoch; after the last sender the iteration ends.
Flush ==
    LET b == buffers[cursor] IN
    /\ opc = "flush"
    /\ \/ /\ cursor = N
          /\ EndOfIteration
          /\ UNCHANGED <<buffers, cursor, out, resume>>
       \/ /\ cursor < N
          /\ BreakAt(b, epoch)
          /\ cursor' = cursor + 1
          /\ UNCHANGED <<buffers, opc, out, resume, childDone>>
       \/ /\ cursor < N /\ ~BreakAt(b, epoch)
          /\ Classify(Head(b).ep, epoch) = "drop"
          /\ buffers' = [buffers EXCEPT ![cursor] = Tail(@)]
          /\ UNCHANGED <<opc, cursor, out, resume, childDone>>
       \/ /\ cursor < N /\ ~BreakAt(b, epoch)
          /\ Classify(Head(b).ep, epoch) = "deliver"
          /\ buffers' = [buffers EXCEPT ![cursor] = Tail(@)]
          /\ opc' = "send" /\ out' = Head(b) /\ resume' = "flush"
          /\ UNCHANGED <<cursor, childDone>>
    /\ UNCHANGED <<netVars, epoch, pmEpoch, pmPc, rgPc, ctxDone>>

\* o.chNetToReportGeneration <- ...: a plain send, completed only when
\* ReportGeneration receives it.
SendToReportGeneration ==
    /\ opc = "send"
    /\ rgPc = "recv"
    /\ IF resume = "flush" THEN opc' = "flush" /\ UNCHANGED childDone
                          ELSE EndOfIteration
    /\ UNCHANGED <<netVars, epoch, buffers, cursor, out, resume, pmEpoch, pmPc, rgPc, ctxDone>>

\* case <-chDone: the iteration ends and the prompt-exit select winds down.
OracleDone ==
    /\ opc = "loop"
    /\ ctxDone
    /\ EndOfIteration
    /\ UNCHANGED <<netVars, epoch, buffers, cursor, out, resume,
                   pmEpoch, pmPc, rgPc, ctxDone>>

\* subprocesses.Wait() returns once Pacemaker and ReportGeneration are gone.
OracleReturn ==
    /\ opc = "waiting"
    /\ pmPc = "gone" /\ rgPc = "gone"
    /\ opc' = "exited"
    /\ UNCHANGED <<netVars, epoch, buffers, cursor, out, resume,
                   pmEpoch, pmPc, rgPc, ctxDone, childDone>>

-----------------------------------------------------------------------------

Init ==
    /\ epoch = 0 /\ pmEpoch = 0
    /\ link = [s \in NetSenders |-> <<>>] /\ sent = [s \in NetSenders |-> 0]
    /\ lastEp = [s \in NetSenders |-> 0]
    /\ buffers = [s \in Senders |-> <<>>]
    /\ opc = "loop" /\ cursor = 0 /\ out = NoMsg /\ resume = "loop"
    /\ pmPc = "loop" /\ rgPc = "recv"
    /\ ctxDone = FALSE /\ childDone = FALSE

OracleNext ==
    \/ \E s \in NetSenders : ReceiveNet(s)
    \/ EpochChanged \/ Flush \/ SendToReportGeneration \/ OracleDone \/ OracleReturn

Next ==
    \/ \E s \in NetSenders : Send(s)
    \/ Cancel \/ PacemakerNewEpoch \/ RGProgress \/ PacemakerReceiveProgress
    \/ ChildExit \/ OracleNext

\* The goroutines are scheduled; what the Pacemaker and ReportGeneration
\* decide to do, the senders and the cancel are not forced.
Spec == Init /\ [][Next]_vars /\ WF_vars(OracleNext) /\ WF_vars(ChildExit)
                              /\ WF_vars(PacemakerReceiveProgress)

-----------------------------------------------------------------------------
(* Properties.                                                             *)

TypeOK ==
    /\ epoch \in Epochs /\ pmEpoch \in Epochs
    /\ link \in [NetSenders -> Seq(Msgs)]
    /\ sent \in [NetSenders -> 0..MaxSends] /\ lastEp \in [NetSenders -> Epochs]
    /\ buffers \in [Senders -> Seq(Msgs)]
    /\ \A s \in Senders : Len(buffers[s]) <= BufCap
    /\ opc \in {"loop", "flush", "send", "waiting", "exited"}
    /\ cursor \in 0..N
    /\ out \in Msgs \cup {NoMsg} /\ resume \in {"loop", "flush"}
    /\ pmPc \in {"loop", "toOracle", "gone"}
    /\ rgPc \in {"recv", "toPacemaker", "gone"}
    /\ ctxDone \in BOOLEAN /\ childDone \in BOOLEAN

\* Between iterations, no buffer of an honest sender holds a message of
\* the current or a past epoch.  epochChanged stops scanning a sender's
\* ring at its first future message ("this and all subsequent messages are
\* for future epochs"); that is sound only if a ring stays ordered by epoch
\* through pushes in arrival order, evictions of the oldest, and epoch
\* jumps of the Pacemaker past several buffered epochs at once.
HonestNotStranded ==
    opc = "loop" =>
        \A s \in Honest : \A i \in DOMAIN buffers[s] : buffers[s][i].ep > epoch

\* Once its context is cancelled, RunOracle returns: the comment above
\* run() promises that every channel operation is in a select with a case
\* for the cancelled context, so no routine stays blocked.
CancelledOracleExits == ctxDone ~> opc = "exited"
=============================================================================
