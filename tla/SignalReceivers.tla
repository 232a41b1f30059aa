--------------------------- MODULE SignalReceivers ---------------------------
(***************************************************************************)
(* Two programs that count the signals other processes send them:           *)
(* practice/20.1 (sig_sender, sig_receive) keeps a counter for each signal, *)
(* routines/22.3 (send_rtsigs, recv_rtsigs) one for all.  The kernel merges *)
(* standard signals and queues realtime ones, and a handler may be          *)
(* interrupted by the handler of another signal.                            *)
(***************************************************************************)
EXTENDS Integers, Sequences, FiniteSets

CONSTANT MaxSent   \* bound: how often one signal is sent

ASSUME SentAssumption == MaxSent \in Nat

VARIABLES
  receiver,   \* "none", "20.1" or "22.3": the program that runs
  recvPc,     \* "off" "blocked" "test" "pausing" "pause" "ended"
  pend,       \* pend[s]: how many signals s are pending
  frames,     \* the handlers on the stack, the running one last; reg is the
              \* value of sigCount that "sigCount++" has read, Unread before
  sent,       \* sent[s]: how often s was sent
  caught,     \* caught[s]: how often its handler ran (sigCnt[s] of 20.1)
  sigCount,   \* sigCount of 22.3
  stop        \* gotSignal of 20.1, allDone of 22.3

signalVars == <<receiver, recvPc, pend, frames, sent, caught, sigCount, stop>>

Number == [INT |-> 2, USR |-> 10, RT |-> 34]
Signals == DOMAIN Number
RealTime == {"RT"}
Unread == -1

SignalInit ==
  /\ receiver = "none" /\ recvPc = "off"
  /\ pend = [s \in Signals |-> 0]
  /\ frames = <<>>
  /\ sent = [s \in Signals |-> 0]
  /\ caught = [s \in Signals |-> 0]
  /\ sigCount = 0 /\ stop = FALSE

\* Handlers are installed; with an argument all signals are blocked for a while.
ReceiverStarts ==
  /\ recvPc = "off"
  /\ receiver' \in {"20.1", "22.3"}
  /\ recvPc' \in {"blocked", "test"}
  /\ UNCHANGED <<pend, frames, sent, caught, sigCount, stop>>

\* A standard signal is pending once, however often it is sent.
Pends(s) ==
  /\ recvPc \notin {"off", "ended"} /\ sent[s] < MaxSent
  /\ sent' = [sent EXCEPT ![s] = @ + 1]
  /\ pend' = [pend EXCEPT ![s] = IF s \in RealTime THEN @ + 1 ELSE 1]
  /\ UNCHANGED <<receiver, recvPc, frames, caught, sigCount, stop>>

\* kill() by sig_sender, sigqueue() by send_rtsigs, each in a loop.
KillSent(s) == receiver = "20.1" /\ Pends(s)
QueueSent(s) == receiver = "22.3" /\ Pends(s)

\* A signal is blocked while its handler is on the stack (sa_mask is empty).
Deliverable ==
  {s \in Signals : /\ pend[s] > 0 /\ recvPc \notin {"off", "blocked", "ended"}
                   /\ \A i \in DOMAIN frames : frames[i].sig # s}

\* All that can be delivered is, lowest number first, before the process runs:
\* the last one delivered runs first.  A handler that interrupts pause() makes
\* it return.
SignalDelivered ==
  \E s \in Deliverable :
    /\ \A t \in Deliverable : Number[s] <= Number[t]
    /\ pend' = [pend EXCEPT ![s] = @ - 1]
    /\ frames' = Append(frames, [sig |-> s, reg |-> Unread])
    /\ recvPc' = IF recvPc = "pause" THEN "test" ELSE recvPc
    /\ UNCHANGED <<receiver, sent, caught, sigCount, stop>>

\* The handler that runs is the last one on the stack.
Top == frames[Len(frames)]
HandlerTurn ==
  /\ Deliverable = {} /\ frames # <<>>
  /\ UNCHANGED <<receiver, recvPc, pend, sent>>
Returns == frames' = SubSeq(frames, 1, Len(frames) - 1)

HandlerStops ==
  /\ HandlerTurn /\ Top.sig = "INT" /\ Returns
  /\ stop' = TRUE
  /\ UNCHANGED <<caught, sigCount>>

\* Fault: 20.1 with one flag instead of a counter for each signal.
HandlerFlags ==
  /\ HandlerTurn /\ Top.sig # "INT" /\ receiver = "20.1" /\ Returns
  /\ caught' = [caught EXCEPT ![Top.sig] = 1]
  /\ UNCHANGED <<sigCount, stop>>

\* 20.1 has a counter for each signal, which no other handler changes.
HandlerCounts ==
  /\ HandlerTurn /\ Top.sig # "INT" /\ receiver = "20.1" /\ Returns
  /\ caught' = [caught EXCEPT ![Top.sig] = @ + 1]
  /\ UNCHANGED <<sigCount, stop>>

\* "sigCount++" in 22.3 is a read and a write of what all handlers share.
HandlerReads ==
  /\ HandlerTurn /\ Top.sig # "INT" /\ receiver = "22.3" /\ Top.reg = Unread
  /\ frames' = [frames EXCEPT ![Len(frames)].reg = sigCount]
  /\ UNCHANGED <<caught, sigCount, stop>>

HandlerWrites ==
  /\ HandlerTurn /\ Top.sig # "INT" /\ receiver = "22.3" /\ Top.reg # Unread /\ Returns
  /\ caught' = [caught EXCEPT ![Top.sig] = @ + 1]
  /\ sigCount' = Top.reg + 1
  /\ UNCHANGED stop

HandlerRuns == HandlerStops \/ HandlerCounts \/ HandlerReads \/ HandlerWrites

\* The program itself runs when no handler does.
MainTurn(from, to) ==
  /\ recvPc = from /\ Deliverable = {} /\ frames = <<>>
  /\ recvPc' = to
  /\ UNCHANGED <<receiver, pend, frames, sent, caught, sigCount, stop>>

MainUnblocks == MainTurn("blocked", "test")

\* "while (!gotSignal) continue", "while (!allDone) pause()": 22.3 tests and
\* then sleeps, so that a SIGINT in between does not wake it up.
MainTests ==
  \/ stop /\ MainTurn("test", "ended")
  \/ ~stop /\ receiver = "22.3" /\ MainTurn("test", "pausing")
MainPauses == MainTurn("pausing", "pause")

ReceiverStep ==
  SignalDelivered \/ HandlerRuns \/ MainUnblocks \/ MainTests \/ MainPauses
SignalNext == ReceiverStarts \/ ReceiverStep \/ \E s \in Signals : KillSent(s) \/ QueueSent(s)
SignalFairness == WF_signalVars(ReceiverStep)

-----------------------------------------------------------------------------
\* What the receiver reports at its end: every realtime signal counted once,
\* of a standard signal at least one and at most all, and in 22.3 a total that
\* increments lost to a handler interrupting another can make as low as 1.
CountsRight ==
  /\ caught["RT"] = sent["RT"]
  /\ caught["USR"] <= sent["USR"] /\ (sent["USR"] > 0 => caught["USR"] > 0)
  /\ receiver = "22.3" =>
       /\ sigCount <= caught["USR"] + caught["RT"]
       /\ caught["USR"] + caught["RT"] > 0 => sigCount > 0

\* After SIGINT the receiver ends with the right counts, however signals were
\* blocked, merged and nested, or, in 22.3 only, sleeps in the pause() it
\* entered because the signal came after the test of allDone (lines 76-78).
StopIsHeeded ==
  stop ~> \/ recvPc = "ended" /\ CountsRight
          \/ receiver = "22.3" /\ recvPc = "pause"
=============================================================================
