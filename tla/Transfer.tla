------------------------------- MODULE Transfer -------------------------------
(***************************************************************************)
(* One transfer between wire.Sender and wire.Receiver                      *)
(* (packages/wire/transfer_sender.go, transfer_receiver.go), both honest,  *)
(* while the session moves from the direct channel to the relay.           *)
(*                                                                         *)
(* A block goes out as Frags data fragments and one hash frame.  The       *)
(* manifest carries a transfer id, so the receiver answers it with a       *)
(* resume_state before the first block.                                    *)
(*                                                                         *)
(* Each side has the path it sends on (out) and the path its supervisor    *)
(* accepts frames from (in).  Both start on the direct channel and move to *)
(* the relay once, each at its own time; a side that has moved no longer   *)
(* reads the direct channel, so frames still on it are lost.  All frames   *)
(* of a side on the direct channel have lower AEAD counters than its       *)
(* frames on the relay: seen, the path of the last accepted frame, is all  *)
(* the replay check needs.                                                 *)
(***************************************************************************)
EXTENDS Naturals, Sequences, FiniteSets

CONSTANTS NFiles,       \* files of the manifest
          Blocks,       \* blocks of each file
          Seeds,        \* resume seeds the receiver may start from
          Window,       \* DefaultInflightBlocks
          MaxRetries,   \* DefaultMaxBlockRetries
          Frags,        \* fragments of a block
          Cutover,      \* may the session move to the relay
          MaxTimeouts,  \* bound: timer expiries in a behaviour
          MaxPauses,    \* bound: pauses in a behaviour
          Faults,       \* may a side be canceled, a sink or a source fail
          Races         \* "late", "early": scheduling races of a move that may happen

Files == 1 .. NFiles

Sides == {"s", "r"}

ASSUME TransferAssumption ==
    /\ NFiles \in Nat /\ Window \in Nat \ {0} /\ MaxRetries \in Nat /\ Frags \in Nat \ {0}
    /\ Blocks \in [Files -> Nat]
    /\ Seeds \subseteq [Files -> Nat]
    /\ \A sd \in Seeds : \A f \in Files : sd[f] <= Blocks[f]
    /\ MaxTimeouts \in Nat /\ MaxPauses \in Nat
    /\ Cutover \in BOOLEAN /\ Faults \in BOOLEAN /\ Races \subseteq {"late", "early"}

VARIABLES snd,       \* the Sender
          rcv,       \* the Receiver
          seed,      \* blocks the receiver holds from an earlier session
          net,       \* frames on each path towards each side
          link,      \* each side's paths
          timeouts,  \* timer expiries so far
          pauses     \* pauses so far

vars == <<snd, rcv, seed, net, link, timeouts, pauses>>

Peer(e) == IF e = "s" THEN "r" ELSE "s"

Frame(t, f, b, off) == [t |-> t, f |-> f, b |-> b, off |-> off]

Msg(t) == Frame(t, 0, 0, 0)

NoFrame == Msg("none")

NoPlan == [f \in Files |-> Blocks[f] + 1]

Init ==
    /\ snd = [phase |-> "manifest", file |-> 0, nextNew |-> 0, inflight |-> <<>>,
              retryQueue |-> <<>>, retryQueued |-> {}, sending |-> <<>>,
              acked |-> 0, paused |-> FALSE, plan |-> NoPlan, resendManifest |-> FALSE,
              res |-> "none"]
    /\ rcv = [manifest |-> FALSE, file |-> 1, next |-> 0, buf |-> NoFrame, awaiting |-> FALSE,
              ahead |-> {}, nack |-> NoFrame, paused |-> FALSE, closed |-> FALSE,
              settling |-> FALSE, res |-> "none"]
    /\ seed \in Seeds
    /\ net = [path \in {"direct", "relay"} |-> [e \in Sides |-> <<>>]]
    /\ link = [e \in Sides |-> [out |-> "direct", in |-> "direct", seen |-> "direct", late |-> NoFrame]]
    /\ timeouts = 0
    /\ pauses = 0

-----------------------------------------------------------------------------
(***************************************************************************)
(* The byte paths.                                                         *)
(***************************************************************************)

\* n with frames sent by side e.  A side that moved to the relay has closed the
\* direct channel: what is still sent to it there is lost.
Put(e, n, frames) ==
    IF link[e].out = "relay" THEN [n EXCEPT !["relay"][Peer(e)] = @ \o frames]
    ELSE IF link[Peer(e)].in = "relay" THEN n
    ELSE [n EXCEPT !["direct"][Peer(e)] = @ \o frames]

\* The frames side e may be handed next: the head of the path it reads, or the
\* one that passed the supervisor's check just before the move.
Arrivals(e) ==
    LET q == net[link[e].in][e]
    IN  (IF q = <<>> THEN {}
         ELSE {[fr |-> Head(q), via |-> link[e].in, late |-> link[e].late,
                net |-> [net EXCEPT ![link[e].in][e] = Tail(@)]]})
        \cup
        (IF link[e].late = NoFrame THEN {}
         ELSE {[fr |-> link[e].late, via |-> "direct", late |-> NoFrame, net |-> net]})

\* OpenSequenced: a counter below the expected one is a replay.
Replay(e, m) == m.via = "direct" /\ link[e].seen = "relay"

Opened(e, m) == link' = [link EXCEPT ![e].late = m.late, ![e].seen = m.via]

SReceives(m, t) == /\ m \in Arrivals("s") /\ m.fr.t = t /\ ~Replay("s", m)
                   /\ snd.res = "none" /\ (snd.resendManifest => m.via = "direct")
                   /\ Opened("s", m)
                   /\ UNCHANGED <<seed, timeouts, pauses>>

RReceives(m, t) == /\ m \in Arrivals("r") /\ m.fr.t = t /\ ~Replay("r", m)
                   /\ ~rcv.settling
                   /\ Opened("r", m)
                   /\ UNCHANGED <<snd, seed, timeouts, pauses>>

\* A replay, or a frame for a side that settled, is dropped.
Dropped(e) ==
    \E m \in Arrivals(e) :
        /\ \/ Replay(e, m)
           \/ e = "s" /\ snd.res # "none"
           \/ e = "r" /\ rcv.res # "none" /\ ~(rcv.res = "ok" /\ m.fr.t = "complete")
        /\ e = "s" /\ snd.resendManifest => m.via = "direct"
        /\ e = "r" => ~rcv.settling
        /\ net' = m.net
        /\ link' = [link EXCEPT ![e].late = m.late]
        /\ UNCHANGED <<snd, rcv, seed, timeouts, pauses>>

-----------------------------------------------------------------------------
(***************************************************************************)
(* Sender.Run and the timers.                                              *)
(***************************************************************************)
Running(phase) == snd.phase = phase /\ snd.res = "none"

Without(fn, x) == [y \in DOMAIN fn \ {x} |-> fn[y]]

With(fn, x, v) == [y \in DOMAIN fn \cup {x} |-> IF y = x THEN v ELSE fn[y]]

\* sendBlock: the fragments, then the hash.
BlockFrames(f, b) == [i \in 1 .. Frags |-> Frame("data", f, b, i - 1)] \o <<Frame("hash", f, b, 0)>>

SendManifest ==
    /\ Running("manifest")
    /\ snd' = [snd EXCEPT !.phase = "resume"]
    /\ net' = Put("s", net, <<Msg("manifest")>>)
    /\ UNCHANGED <<rcv, seed, link, timeouts, pauses>>

\* waitResume has its answer; then one iteration of Run's loop per file.
NextFile ==
    /\ Running("resume") \/ Running("file")
    /\ snd.plan # NoPlan
    /\ snd' = IF snd.file = NFiles THEN [snd EXCEPT !.phase = "complete"]
              ELSE [snd EXCEPT !.phase = "stream", !.file = @ + 1,
                               !.nextNew = snd.plan[snd.file + 1],
                               !.acked = @ + snd.plan[snd.file + 1]]
    /\ UNCHANGED <<rcv, seed, net, link, timeouts, pauses>>

\* nextRetryOrWait may hand out work.
Ready == Running("stream") /\ ~snd.paused /\ snd.sending = <<>>

\* Fault: the first transmission counts as a retry.
RetryCountsFirst ==
    /\ Ready /\ snd.retryQueue # <<>>
    /\ LET b == Head(snd.retryQueue)
           s == [snd EXCEPT !.retryQueue = Tail(@), !.retryQueued = @ \ {b}]
       IN  IF b \notin DOMAIN snd.inflight
           THEN snd' = s /\ UNCHANGED net
           ELSE IF snd.inflight[b] + 1 < MaxRetries
           THEN /\ snd' = [s EXCEPT !.inflight[b] = @ + 1, !.sending = BlockFrames(snd.file, b)]
                /\ UNCHANGED net
           ELSE snd' = [s EXCEPT !.res = "retry"] /\ net' = Put("s", net, <<Msg("fail")>>)
    /\ UNCHANGED <<rcv, seed, link, timeouts, pauses>>

\* One entry of the retry queue: resent, or skipped when it was acknowledged.
Retry ==
    /\ Ready /\ snd.retryQueue # <<>>
    /\ LET b == Head(snd.retryQueue)
           s == [snd EXCEPT !.retryQueue = Tail(@), !.retryQueued = @ \ {b}]
       IN  \/ /\ b \notin DOMAIN snd.inflight
              /\ snd' = s
              /\ UNCHANGED net
           \/ /\ b \in DOMAIN snd.inflight /\ snd.inflight[b] < MaxRetries
              /\ snd' = [s EXCEPT !.inflight[b] = @ + 1, !.sending = BlockFrames(snd.file, b)]
              /\ UNCHANGED net
           \/ /\ b \in DOMAIN snd.inflight /\ snd.inflight[b] >= MaxRetries
              /\ snd' = [s EXCEPT !.res = "retry"]
              /\ net' = Put("s", net, <<Msg("fail")>>)
    /\ UNCHANGED <<rcv, seed, link, timeouts, pauses>>

\* Fault: the window is not consulted.
NewBlockAnyWindow ==
    /\ Ready /\ snd.retryQueue = <<>>
    /\ snd.nextNew < Blocks[snd.file]
    /\ snd' = [snd EXCEPT !.inflight = With(@, snd.nextNew, 0), !.nextNew = @ + 1,
                          !.sending = BlockFrames(snd.file, snd.nextNew)]
    /\ UNCHANGED <<rcv, seed, net, link, timeouts, pauses>>

NewBlock ==
    /\ Ready /\ snd.retryQueue = <<>>
    /\ snd.nextNew < Blocks[snd.file]
    /\ Cardinality(DOMAIN snd.inflight) < Window
    /\ snd' = [snd EXCEPT !.inflight = With(@, snd.nextNew, 0), !.nextNew = @ + 1,
                          !.sending = BlockFrames(snd.file, snd.nextNew)]
    /\ UNCHANGED <<rcv, seed, net, link, timeouts, pauses>>

\* sendFrame: the path may change between two frames of a block.
SendFrame ==
    /\ snd.sending # <<>>
    /\ net' = Put("s", net, <<Head(snd.sending)>>)
    /\ snd' = [snd EXCEPT !.sending = Tail(@)]
    /\ UNCHANGED <<rcv, seed, link, timeouts, pauses>>

\* Fault: an acknowledged window ends the file, whatever is queued.
WaitInflightOnly ==
    /\ Ready
    /\ snd.nextNew = Blocks[snd.file] /\ DOMAIN snd.inflight = {}
    /\ snd' = [snd EXCEPT !.phase = "file"]
    /\ UNCHANGED <<rcv, seed, net, link, timeouts, pauses>>

WaitInflight ==
    /\ Ready /\ snd.retryQueue = <<>>
    /\ snd.nextNew = Blocks[snd.file] /\ DOMAIN snd.inflight = {}
    /\ snd' = [snd EXCEPT !.phase = "file"]
    /\ UNCHANGED <<rcv, seed, net, link, timeouts, pauses>>

SendComplete ==
    /\ Running("complete")
    /\ snd' = [snd EXCEPT !.phase = "done"]
    /\ net' = Put("s", net, <<Msg("complete")>>)
    /\ UNCHANGED <<rcv, seed, link, timeouts, pauses>>

UnderWay(t) == \E path \in {"direct", "relay"}, e \in Sides :
                   \E i \in DOMAIN net[path][e] : net[path][e][i].t = t

\* The ticker of waitDone.  Bound: one Complete, or its Done, under way at a time.
RetransmitComplete ==
    /\ Running("done")
    /\ ~UnderWay("complete") /\ ~UnderWay("done")
    /\ net' = Put("s", net, <<Msg("complete")>>)
    /\ UNCHANGED <<snd, rcv, seed, link, timeouts, pauses>>

\* queueRetry, by an ack timer or a nack.
QueueRetry(b) ==
    IF b \notin DOMAIN snd.inflight \/ b \in snd.retryQueued THEN snd
    ELSE [snd EXCEPT !.retryQueue = Append(@, b), !.retryQueued = @ \cup {b}]

\* Nothing is under way, a move neither: what the sender waits for was lost.
Quiet == /\ snd.sending = <<>> /\ snd.retryQueue = <<>>
         /\ \E path \in {"direct", "relay"} : \A e \in Sides : link[e].out = path /\ link[e].in = path
         /\ \A path \in {"direct", "relay"}, e \in Sides : net[path][e] = <<>>
         /\ \A e \in Sides : link[e].late = NoFrame

\* The timer of armTimeout.  Bound: expiries while something is under way.
AckTimeout ==
    /\ Quiet \/ timeouts < MaxTimeouts
    /\ Running("stream") /\ ~snd.paused
    /\ \E b \in DOMAIN snd.inflight \ snd.retryQueued : snd' = QueueRetry(b)
    /\ timeouts' = IF Quiet THEN timeouts ELSE timeouts + 1
    /\ UNCHANGED <<rcv, seed, net, link, pauses>>

DoneTimeout ==
    /\ timeouts < MaxTimeouts
    /\ Running("done")
    /\ snd' = [snd EXCEPT !.res = "retry"]
    /\ timeouts' = timeouts + 1
    /\ UNCHANGED <<rcv, seed, net, link, pauses>>

\* A source read error ends the send without a word to the receiver.
SourceError ==
    /\ Faults
    /\ Running("stream") /\ snd.sending = <<>>
    /\ snd' = [snd EXCEPT !.res = "source"]
    /\ UNCHANGED <<rcv, seed, net, link, timeouts, pauses>>

-----------------------------------------------------------------------------
(***************************************************************************)
(* Sender.Handle.                                                          *)
(***************************************************************************)
OnAck(m) ==
    /\ SReceives(m, "ack")
    /\ net' = m.net /\ UNCHANGED rcv
    /\ snd' = IF m.fr.f > snd.file THEN [snd EXCEPT !.res = "integrity"]
              ELSE IF m.fr.f < snd.file \/ m.fr.b \notin DOMAIN snd.inflight THEN snd
              ELSE [snd EXCEPT !.inflight = Without(@, m.fr.b), !.retryQueued = @ \ {m.fr.b},
                               !.acked = @ + 1]

OnNack(m) ==
    /\ SReceives(m, "nack")
    /\ net' = m.net /\ UNCHANGED rcv
    /\ snd' = IF m.fr.f > snd.file THEN [snd EXCEPT !.res = "integrity"]
              ELSE IF m.fr.f < snd.file THEN snd
              ELSE QueueRetry(m.fr.b)

\* The first resume_state is the plan; an identical one is idempotent.
OnResumeState(m) ==
    /\ SReceives(m, "resume")
    /\ net' = m.net /\ UNCHANGED rcv
    /\ snd' = [snd EXCEPT !.plan = seed]

OnDone(m) ==
    /\ SReceives(m, "done")
    /\ net' = m.net /\ UNCHANGED rcv
    /\ snd' = [snd EXCEPT !.res = IF snd.phase = "done" THEN "ok" ELSE "integrity"]

OnReceiverFail(m) ==
    /\ \/ SReceives(m, "fail") /\ snd' = [snd EXCEPT !.res = "peer"]
       \/ SReceives(m, "cancel") /\ snd' = [snd EXCEPT !.res = "canceled"]
    /\ net' = m.net /\ UNCHANGED rcv

SetPausedByReceiver(m) ==
    /\ \/ SReceives(m, "pause") /\ snd' = [snd EXCEPT !.paused = TRUE]
       \/ SReceives(m, "unpause") /\ snd' = [snd EXCEPT !.paused = FALSE]
    /\ net' = m.net /\ UNCHANGED rcv

-----------------------------------------------------------------------------
(***************************************************************************)
(* Receiver.Handle.                                                        *)
(***************************************************************************)
Reply(m, r, frames) == rcv' = r /\ net' = Put("r", m.net, frames)

AbortWith(m, reason) == Reply(m, [rcv EXCEPT !.res = reason], <<Msg("fail")>>)

SinkError(m) == Faults /\ AbortWith(m, "sink")

\* openNextFile from file f on: files held in full are finished at once.
OpenNextFile(r, f) ==
    LET open == {g \in f .. NFiles : seed[g] < Blocks[g]}
        g == IF open = {} THEN NFiles + 1 ELSE CHOOSE x \in open : \A y \in open : x <= y
    IN  [r EXCEPT !.file = g, !.next = IF open = {} THEN 0 ELSE seed[g],
                  !.ahead = {}, !.nack = NoFrame]

\* An identical duplicate of the manifest is answered again.
ApplyManifest(m) ==
    /\ RReceives(m, "manifest") /\ rcv.res = "none"
    /\ IF rcv.manifest THEN Reply(m, rcv, <<Msg("resume")>>)
       ELSE \/ Reply(m, OpenNextFile([rcv EXCEPT !.manifest = TRUE, !.awaiting = TRUE], 1),
                     <<Msg("resume")>>)
            \/ SinkError(m)

\* buf is the last fragment of the block being assembled.
OnBlockData(m) ==
    LET x == m.fr
        fresh == x.off = 0
        continues == rcv.buf # NoFrame /\ rcv.buf = [x EXCEPT !.off = x.off - 1]
    IN  /\ RReceives(m, "data") /\ rcv.res = "none"
        /\ IF ~rcv.manifest THEN Reply(m, rcv, <<>>)
           ELSE IF x.f > rcv.file THEN AbortWith(m, "integrity")
           ELSE IF rcv.awaiting /\ ~fresh THEN Reply(m, rcv, <<>>)
           ELSE IF IF fresh THEN rcv.buf = NoFrame ELSE continues
                THEN Reply(m, [rcv EXCEPT !.buf = x, !.awaiting = @ /\ ~fresh], <<>>)
           ELSE AbortWith(m, "integrity")

\* requestMissing: one nack per missing block.
RequestMissing(m, r, frames) ==
    LET nack == Frame("nack", r.file, r.next, 0)
    IN  IF r.nack = nack THEN Reply(m, r, frames)
        ELSE Reply(m, [r EXCEPT !.nack = nack], Append(frames, nack))

\* Fault: a block ahead of the expected one is acknowledged.
PastNextAcked(m, r) == Reply(m, r, <<Frame("ack", m.fr.f, m.fr.b, 0)>>)

PastNext(m, r) ==
    RequestMissing(m, [r EXCEPT !.ahead = IF Cardinality(@) < Window THEN @ \cup {m.fr.b} ELSE @], <<>>)

\* The expected block: written and checkpointed, then acknowledged.
WriteBlock(m, r) ==
    LET ack == <<Frame("ack", m.fr.f, m.fr.b, 0)>>
        w == [r EXCEPT !.next = @ + 1, !.nack = NoFrame]
    IN  \/ SinkError(m)
        \/ IF w.next = Blocks[w.file] THEN Reply(m, OpenNextFile(w, w.file + 1), ack)
           ELSE IF w.next \in w.ahead
                THEN RequestMissing(m, [w EXCEPT !.ahead = @ \ {w.next}], ack)
           ELSE Reply(m, w, ack)

OnBlockHash(m) ==
    LET x == m.fr
        r == [rcv EXCEPT !.buf = NoFrame]
    IN  /\ RReceives(m, "hash") /\ rcv.res = "none"
        /\ IF ~rcv.manifest \/ (rcv.buf = NoFrame /\ rcv.awaiting) THEN Reply(m, rcv, <<>>)
           ELSE IF rcv.buf # Frame("data", x.f, x.b, Frags - 1) THEN AbortWith(m, "integrity")
           ELSE IF x.f < rcv.file \/ x.b < rcv.next THEN Reply(m, r, <<Frame("ack", x.f, x.b, 0)>>)
           ELSE IF x.b > rcv.next THEN PastNext(m, r)
           ELSE WriteBlock(m, r)

\* Fault: a receiver that settled answers Done whatever its result.
ReplyDoneAlways(m) ==
    /\ RReceives(m, "complete") /\ rcv.res # "none"
    /\ Reply(m, rcv, <<Msg("done")>>)

\* replyDoneAfterCutover: the Done may have been lost in the move.
ReplyDoneAfterCutover(m) ==
    /\ RReceives(m, "complete") /\ rcv.res = "ok"
    /\ Reply(m, rcv, <<Msg("done")>>)

\* destination.Close and Done; the result is set in a later step.
OnComplete(m) ==
    /\ RReceives(m, "complete") /\ rcv.res = "none"
    /\ IF ~rcv.manifest THEN AbortWith(m, "integrity")
       ELSE IF rcv.file <= NFiles THEN RequestMissing(m, rcv, <<>>)
       ELSE \/ Reply(m, [rcv EXCEPT !.closed = TRUE, !.settling = TRUE], <<Msg("done")>>)
            \/ SinkError(m)

\* settle; a Cancel that came in between keeps its result.
Settle ==
    /\ rcv.settling
    /\ rcv' = [rcv EXCEPT !.settling = FALSE, !.res = IF @ = "none" THEN "ok" ELSE @]
    /\ UNCHANGED <<snd, seed, net, link, timeouts, pauses>>

\* onControl and onPeerFail.
OnSenderControl(m) ==
    /\ rcv.res = "none"
    /\ \/ RReceives(m, "pause") /\ Reply(m, [rcv EXCEPT !.paused = TRUE], <<>>)
       \/ RReceives(m, "unpause") /\ Reply(m, [rcv EXCEPT !.paused = FALSE], <<>>)
       \/ RReceives(m, "cancel") /\ Reply(m, [rcv EXCEPT !.res = "canceled"], <<>>)
       \/ RReceives(m, "fail") /\ Reply(m, [rcv EXCEPT !.res = "peer"], <<>>)

-----------------------------------------------------------------------------
(***************************************************************************)
(* Pause, Resume and Cancel of either side.                                *)
(***************************************************************************)
Pause ==
    /\ pauses < MaxPauses
    /\ pauses' = pauses + 1
    /\ \/ /\ snd.res = "none" /\ ~snd.paused
          /\ snd' = [snd EXCEPT !.paused = TRUE]
          /\ net' = Put("s", net, <<Msg("pause")>>)
          /\ UNCHANGED rcv
       \/ /\ rcv.res = "none" /\ ~rcv.paused
          /\ rcv' = [rcv EXCEPT !.paused = TRUE]
          /\ net' = Put("r", net, <<Msg("pause")>>)
          /\ UNCHANGED snd
    /\ UNCHANGED <<seed, link, timeouts>>

Resume ==
    /\ \/ /\ snd.res = "none" /\ snd.paused
          /\ snd' = [snd EXCEPT !.paused = FALSE]
          /\ net' = Put("s", net, <<Msg("unpause")>>)
          /\ UNCHANGED rcv
       \/ /\ rcv.res = "none" /\ rcv.paused
          /\ rcv' = [rcv EXCEPT !.paused = FALSE]
          /\ net' = Put("r", net, <<Msg("unpause")>>)
          /\ UNCHANGED snd
    /\ UNCHANGED <<seed, link, timeouts, pauses>>

Cancel ==
    /\ Faults
    /\ \/ /\ snd.res = "none"
          /\ snd' = [snd EXCEPT !.res = "canceled"]
          /\ net' = Put("s", net, <<Msg("cancel")>>)
          /\ UNCHANGED rcv
       \/ /\ rcv.res = "none"
          /\ rcv' = [rcv EXCEPT !.res = "canceled"]
          /\ net' = Put("r", net, <<Msg("cancel")>>)
          /\ UNCHANGED snd
    /\ UNCHANGED <<seed, link, timeouts, pauses>>

-----------------------------------------------------------------------------
(***************************************************************************)
(* The move to the relay.                                                  *)
(***************************************************************************)

\* A side's supervisor makes the relay its active path; the direct channel is
\* closed.  With "late", the direct pump may already have a frame in hand.
ActivateRelay(e) ==
    LET q == net["direct"][e]
    IN  /\ net' = [net EXCEPT !["direct"][e] = <<>>]
        /\ \E late \in {NoFrame} \cup (IF "late" \in Races /\ q # <<>> THEN {Head(q)} ELSE {}) :
               link' = [link EXCEPT ![e].out = "relay", ![e].in = "relay", ![e].late = late]

Orders(S) == {q \in [1 .. Cardinality(S) -> S] : \A i, j \in DOMAIN q : q[i] = q[j] => i = j}

\* Sender.TransportChanged: every block in flight is queued, in the order of a
\* Go map, and the manifest is resent while nothing is acknowledged.
SenderTransportChanged ==
    IF snd.res # "none" THEN UNCHANGED snd
    ELSE LET lost == DOMAIN snd.inflight \ snd.retryQueued
         IN  \E q \in Orders(lost) :
                 snd' = [snd EXCEPT !.retryQueue = @ \o q, !.retryQueued = @ \cup lost,
                                    !.inflight = [b \in DOMAIN @ |-> 0],
                                    !.resendManifest = snd.phase # "manifest" /\ snd.acked = 0]

\* Fault: the partial block of the old path is kept.
ReceiverKeepsPartial ==
    rcv' = [rcv EXCEPT !.ahead = {}, !.nack = NoFrame, !.awaiting = TRUE]

\* Receiver.TransportChanged.
ReceiverTransportChanged ==
    rcv' = [rcv EXCEPT !.buf = NoFrame, !.ahead = {}, !.nack = NoFrame, !.awaiting = TRUE]

TransportChanged(e) ==
    IF e = "s" THEN SenderTransportChanged /\ UNCHANGED rcv
    ELSE ~rcv.settling /\ ReceiverTransportChanged /\ UNCHANGED snd

\* activateRelay, first half: frames go out on the relay.
SwitchOut(e) ==
    /\ Cutover
    /\ link[e].out = "direct"
    /\ link' = [link EXCEPT ![e].out = "relay"]
    /\ UNCHANGED <<snd, rcv, seed, net, timeouts, pauses>>

\* activateRelay, second half: Supervisor.Activate and its hook.
SwitchIn(e) ==
    /\ link[e].out = "relay" /\ link[e].in = "direct"
    /\ ActivateRelay(e)
    /\ TransportChanged(e)
    /\ UNCHANGED <<seed, timeouts, pauses>>

\* promoteOnData: a frame arrives on the ready relay first.  Until activateRelay
\* has run, whatever this side sends waits.
PromoteOnData(e) ==
    /\ net["relay"][e] # <<>> /\ link[e].in = "direct"
    /\ ActivateRelay(e)
    /\ TransportChanged(e)
    /\ UNCHANGED <<seed, timeouts, pauses>>

\* promoteOnData of a receiver that opened the relay because the sender did: the
\* path is a candidate until activateRelay has run, and its frames are dropped.
DropOnCandidate ==
    /\ "early" \in Races
    /\ link["r"].out = "direct" /\ link["r"].in = "direct"
    /\ net["relay"]["r"] # <<>>
    /\ net' = [net EXCEPT !["relay"]["r"] = Tail(@)]
    /\ UNCHANGED <<snd, rcv, seed, link, timeouts, pauses>>

\* The rest of Sender.TransportChanged, outside its lock.
ResendManifest ==
    /\ snd.resendManifest
    /\ snd' = [snd EXCEPT !.resendManifest = FALSE]
    /\ net' = Put("s", net, <<Msg("manifest")>>)
    /\ UNCHANGED <<rcv, seed, link, timeouts, pauses>>

-----------------------------------------------------------------------------
RunThread == \/ SendManifest \/ NextFile \/ Retry \/ NewBlock \/ SendFrame
             \/ WaitInflight \/ SendComplete

SenderHandle == \/ Dropped("s")
                \/ \E m \in Arrivals("s") :
                       \/ OnAck(m) \/ OnNack(m) \/ OnResumeState(m) \/ OnDone(m)
                       \/ OnReceiverFail(m) \/ SetPausedByReceiver(m)

ReceiverHandle == \/ Dropped("r")
                  \/ Settle
                  \/ \E m \in Arrivals("r") :
                         \/ ApplyManifest(m) \/ OnBlockData(m) \/ OnBlockHash(m)
                         \/ OnComplete(m) \/ ReplyDoneAfterCutover(m) \/ OnSenderControl(m)

Moves == \/ \E e \in Sides : SwitchOut(e) \/ SwitchIn(e) \/ PromoteOnData(e)
         \/ DropOnCandidate
         \/ ResendManifest

\* The sender has returned; what is left of the session is its own.
Returned == snd.res # "none" /\ snd.sending = <<>> /\ UNCHANGED vars

Next == \/ RunThread
        \/ RetransmitComplete \/ AckTimeout \/ DoneTimeout \/ SourceError
        \/ SenderHandle
        \/ ReceiverHandle
        \/ Pause \/ Resume \/ Cancel
        \/ Moves
        \/ Returned

Spec == Init /\ [][Next]_vars

\* Each goroutine runs, timers expire, and a move that one side has begun is
\* carried through by both: the server announces a ready relay to both.
Fairness ==
    /\ WF_vars(RunThread)
    /\ WF_vars(AckTimeout)
    /\ WF_vars(RetransmitComplete)
    /\ WF_vars(SenderHandle)
    /\ WF_vars(ReceiverHandle)
    /\ WF_vars(ResendManifest)
    /\ \A e \in Sides : /\ WF_vars(SwitchOut(e) /\ link[Peer(e)].out = "relay")
                        /\ WF_vars(SwitchIn(e))

FairSpec == Spec /\ Fairness

-----------------------------------------------------------------------------
(***************************************************************************)
(* Properties.                                                             *)
(***************************************************************************)
Results == {"none", "ok", "integrity", "retry", "peer", "canceled", "sink", "source"}

Frames == [t : {"none", "manifest", "data", "hash", "complete", "pause", "unpause", "cancel",
                "fail", "ack", "nack", "resume", "done"},
           f : Nat, b : Nat, off : Nat]

\* The fields of both engines keep their types, and a block waits in the retry
\* queue under the mark of retryQueued at most once (queueRetry, nextRetryOrWait).
TypeOK ==
    /\ snd.phase \in {"manifest", "resume", "stream", "file", "complete", "done"}
    /\ snd.file \in 0 .. NFiles /\ snd.nextNew \in Nat /\ snd.acked \in Nat
    /\ DOMAIN snd.inflight \subseteq Nat /\ Cardinality(DOMAIN snd.inflight) <= Window
    /\ \A b \in DOMAIN snd.inflight : snd.inflight[b] \in 0 .. MaxRetries
    /\ snd.retryQueue \in Seq(Nat) /\ snd.retryQueued \subseteq Nat
    /\ snd.sending \in Seq(Frames) /\ snd.res \in Results
    /\ rcv.file \in 1 .. NFiles + 1 /\ rcv.next \in Nat /\ rcv.res \in Results
    /\ rcv.buf \in Frames /\ rcv.nack \in Frames /\ Cardinality(rcv.ahead) <= Window
    /\ \A path \in {"direct", "relay"}, e \in Sides : net[path][e] \in Seq(Frames)

\* Block b of file f is in the receiver's sink.
Held(f, b) == rcv.manifest /\ (f < rcv.file \/ (f = rcv.file /\ b < rcv.next) \/ b < seed[f])

\* What the sender takes for acknowledged (it left inflight by onAck, or the
\* receiver claimed it in resume_state) has been written by the receiver.
AckedIsWritten ==
    /\ \A f \in 1 .. snd.file - 1 : \A b \in 0 .. Blocks[f] - 1 : Held(f, b)
    /\ snd.file > 0 => \A b \in 0 .. snd.nextNew - 1 :
                           b \notin DOMAIN snd.inflight => Held(snd.file, b)

\* Run returns a digest only after the receiver closed a complete destination:
\* Done is authoritative (Sender.Handle) also across a move.
SuccessMeansComplete ==
    snd.res = "ok" => rcv.closed /\ \A f \in Files : \A b \in 0 .. Blocks[f] - 1 : Held(f, b)

\* Between two honest sides no interleaving of a move, timers, retransmissions
\* and pauses is taken for a protocol violation (FailIntegrity).
NoIntegrityFailure == "integrity" \notin {snd.res, rcv.res}

\* A block is queued for retransmission in the file it belongs to: entries left
\* in retryQueue never survive into the next file, whose blocks reuse the indexes.
RetryQueueOfFile ==
    \A i \in DOMAIN snd.retryQueue : snd.retryQueue[i] < snd.nextNew

\* The sender gave up waiting for Done (waitDone, DefaultDoneTimeout).
DoneTimedOut == snd.phase = "done" /\ snd.res = "retry"

\* Without faults a transfer ends well on both sides, whenever the session moves
\* and whichever block timer expires early, unless the wait for Done runs out.
Delivers == <>(snd.res = "ok" /\ rcv.res = "ok") \/ <>DoneTimedOut
=============================================================================
