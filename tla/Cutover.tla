------------------------------ MODULE Cutover ------------------------------
(***************************************************************************)
(* How one end of a transfer chooses between the direct path and the relay *)
(* and later moves from one to the other: the racing policy (adaptive.go), *)
(* the WebRTC peer with its recovery window (rtc/peer.go), the driver's    *)
(* selection and wiring (driver.go), the adaptive connection               *)
(* (adaptive_conn.go) and the path supervisor (supervisor.go).             *)
(*                                                                         *)
(* Four goroutines: the driver, the engine's Send, activateRelay, and the  *)
(* read loop that delivers relayed frames.  ICE, the partner and signaling *)
(* are the environment.                                                    *)
(***************************************************************************)
EXTENDS Naturals

CONSTANT Engines   \* which engines run over the connection, see HookNeedsLock

ASSUME CutoverAssumption == Engines \subseteq {"receiver", "newSender", "ackedSender"}

VARIABLES engine,    \* the engine of this behaviour
          drv,       \* the driver: select, wrapped, activated, registered, wired, ended
          policy,    \* AdaptivePolicy
          warm,      \* a token in warmSignal
          peer,      \* rtc.Peer
          direct,    \* the data channel: none, open, done
          relay,     \* relay.Conn
          signal,    \* is the signaling socket up
          conn,      \* adaptiveConn
          sv,        \* Supervisor
          send, act, data,  \* where the other three goroutines are
          engineMu,  \* who holds the engine's lock
          hooks,     \* history: runs of the engine's TransportChanged for the relay
          early      \* history: activateRelay ran before the relay was registered

vars == <<engine, drv, policy, warm, peer, direct, relay, signal, conn, sv, send, act, data,
          engineMu, hooks, early>>

threads == <<send, act, data, engineMu, hooks, early>>

Init ==
    /\ engine \in Engines
    /\ drv = "select"
    /\ policy = [any |-> FALSE, viable |-> FALSE, armed |-> FALSE, settled |-> "no"]
    /\ warm = FALSE
    /\ peer = [settled |-> FALSE, closed |-> FALSE, recovering |-> FALSE]
    /\ direct = "none"
    /\ relay = [opened |-> FALSE, ready |-> FALSE, closed |-> FALSE]
    /\ signal = TRUE
    /\ conn = [path |-> "direct", done |-> FALSE, err |-> FALSE, closed |-> FALSE]
    /\ sv = [direct |-> "absent", relay |-> "absent", active |-> "none", mu |-> "free"]
    /\ send = "idle" /\ act = "watch" /\ data = "idle"
    /\ engineMu = "free"
    /\ hooks = 0 /\ early = FALSE

-----------------------------------------------------------------------------
(***************************************************************************)
(* The race for the first path.                                            *)
(***************************************************************************)

\* observeLocked: what one ICE observation decides.  late: the escalation
\* deadline, armed by an earlier observation, has passed.
Decision(any, viable, ice, gathered, late) ==
    CASE policy.settled # "no" -> policy.settled
      [] ice = "connected" -> "won"
      [] ice = "failed" -> "warm"
      [] ~any /\ gathered -> "warm"
      [] any /\ viable -> "no"
      [] OTHER -> IF late THEN "warm" ELSE "no"

\* OnICEState of the driver; a later observation repeats a settled decision.
Observe(any, viable, ice, gathered, late) ==
    LET a == any \/ policy.any
        v == viable \/ policy.viable
        d == Decision(a, v, ice, gathered, late)
    IN  /\ late => policy.armed
        /\ policy' = [any |-> a, viable |-> v, armed |-> ~(a /\ v), settled |-> d]
        /\ warm' = (warm \/ d = "warm")

\* ICE gathers and checks; a viable candidate is also a candidate.
Gathers ==
    /\ drv = "select" /\ direct = "none" /\ ~peer.settled
    /\ \E any, viable, gathered, late \in BOOLEAN, ice \in {"checking", "connected"} :
         (viable => any) /\ Observe(any, viable, ice, gathered, late)
    /\ UNCHANGED <<engine, drv, peer, direct, relay, signal, conn, sv, threads>>

\* The data channel opens: wireChannel resolves Channel.
DirectOpens ==
    /\ drv = "select" /\ direct = "none" /\ ~peer.settled
    /\ Observe(TRUE, FALSE, "connected", FALSE, FALSE)
    /\ direct' = "open"
    /\ peer' = [peer EXCEPT !.settled = TRUE]
    /\ UNCHANGED <<engine, drv, relay, signal, conn, sv, threads>>

\* Peer.fail: negotiation or ICE failed before the channel opened.
DirectFails ==
    /\ drv = "select" /\ direct = "none" /\ ~peer.settled
    /\ Observe(FALSE, FALSE, "failed", FALSE, FALSE)
    /\ peer' = [peer EXCEPT !.settled = TRUE]
    /\ UNCHANGED <<engine, drv, direct, relay, signal, conn, sv, threads>>

\* Conn.Open: relay_open goes out on the signaling socket.
Opened == [relay EXCEPT !.opened = TRUE]

\* Fault: only the policy warms the relay.
WarmWantedByPolicy == warm

\* selectTransport warms the relay for a warm signal and for a channel that
\* failed, also after the policy had counted ICE as won.
WarmWanted == warm \/ (peer.settled /\ direct = "none")

WarmRelay ==
    /\ drv = "select" /\ ~relay.opened /\ WarmWanted
    /\ IF signal THEN relay' = Opened /\ UNCHANGED drv
       ELSE drv' = "ended" /\ UNCHANGED relay
    /\ warm' = FALSE
    /\ UNCHANGED <<engine, policy, peer, direct, signal, conn, sv, threads>>

\* The partner opted in: relay_required makes this end open too.
PartnerOpens ==
    /\ signal /\ ~relay.opened /\ ~relay.closed /\ drv # "ended"
    /\ relay' = Opened
    /\ UNCHANGED <<engine, drv, policy, warm, peer, direct, signal, conn, sv, threads>>

\* relay_ready closes readyCh.
RelayReady ==
    /\ signal /\ relay.opened /\ ~relay.ready /\ ~relay.closed /\ drv # "ended"
    /\ relay' = [relay EXCEPT !.ready = TRUE]
    /\ UNCHANGED <<engine, drv, policy, warm, peer, direct, signal, conn, sv, threads>>

\* selectTransport returns the relay: the peer is closed, the supervisor has
\* one path and there is nothing to move to.
SelectRelay ==
    /\ drv = "select" /\ relay.ready
    /\ drv' = "wired"
    /\ peer' = [peer EXCEPT !.closed = TRUE, !.settled = TRUE]
    /\ conn' = [conn EXCEPT !.path = "relay", !.done = TRUE]
    /\ sv' = [sv EXCEPT !.relay = "active", !.active = "relay"]
    /\ direct' = IF direct = "open" THEN "done" ELSE direct
    /\ UNCHANGED <<engine, policy, warm, relay, signal, threads>>

-----------------------------------------------------------------------------
(***************************************************************************)
(* The driver wires the direct path: newAdaptiveConn starts the two        *)
(* watchers, then the paths are registered, then the engine's hook.        *)
(***************************************************************************)
SelectDirect ==
    /\ drv = "select" /\ direct # "none"
    /\ drv' = "wrapped"
    /\ UNCHANGED <<engine, policy, warm, peer, direct, relay, signal, conn, sv, threads>>

\* Register, Warming, Ready and Activate of the direct path.
ActivateDirect ==
    /\ drv = "wrapped" /\ sv.mu = "free"
    /\ drv' = "activated"
    /\ sv' = [sv EXCEPT !.direct = "active", !.active = "direct"]
    /\ UNCHANGED <<engine, policy, warm, peer, direct, relay, signal, conn, threads>>

RegisterRelay ==
    /\ drv = "activated" /\ sv.mu = "free"
    /\ drv' = "registered"
    /\ sv' = [sv EXCEPT !.relay = "candidate"]
    /\ UNCHANGED <<engine, policy, warm, peer, direct, relay, signal, conn, threads>>

\* OnData and SetOnSwitch; from here on the engine sends.
Wire ==
    /\ drv = "registered" /\ sv.mu = "free"
    /\ drv' = "wired"
    /\ UNCHANGED <<engine, policy, warm, peer, direct, relay, signal, conn, sv, threads>>

-----------------------------------------------------------------------------
(***************************************************************************)
(* The direct path goes away.                                              *)
(***************************************************************************)
DirectDies ==
    /\ direct = "open" /\ drv # "ended"
    /\ direct' = "done"
    /\ peer' = [peer EXCEPT !.recovering = FALSE]
    /\ UNCHANGED <<engine, drv, policy, warm, relay, signal, conn, sv, threads>>

\* enterRecover, exitRecover: a transient disconnect, with the timer armed.
EnterRecover ==
    /\ direct = "open" /\ ~peer.closed /\ ~peer.recovering /\ drv # "ended"
    /\ peer' = [peer EXCEPT !.recovering = TRUE]
    /\ UNCHANGED <<engine, drv, policy, warm, direct, relay, signal, conn, sv, threads>>

ExitRecover ==
    /\ peer.recovering /\ direct = "open"
    /\ peer' = [peer EXCEPT !.recovering = FALSE]
    /\ UNCHANGED <<engine, drv, policy, warm, direct, relay, signal, conn, sv, threads>>

\* Fault: the relay is left warming.
MadeWarming == IF sv.relay = "candidate" THEN [sv EXCEPT !.relay = "warming"] ELSE sv

\* Warming and Ready of the relay: errors are ignored, an unregistered or a
\* later path stays as it is.
MadeReady == IF sv.relay = "candidate" THEN [sv EXCEPT !.relay = "ready"] ELSE sv

\* finishSwitch: the first caller decides.
Finished(failed) == IF conn.done THEN conn ELSE [conn EXCEPT !.done = TRUE, !.err = failed]

\* Fault: a relay that was opened for the race is not used again.
BlockedOnce == conn.closed \/ conn.path = "relay" \/ conn.err \/ relay.opened

\* requestRelay: nothing to ask for, or nobody to ask.
Blocked == conn.closed \/ conn.path = "relay" \/ conn.err

OpenFails == relay.closed \/ (~signal /\ ~relay.opened)

\* requestRelay on a goroutine that holds no lock.
RequestRelay ==
    IF Blocked THEN UNCHANGED <<relay, conn, sv>>
    ELSE IF OpenFails THEN conn' = Finished(TRUE) /\ UNCHANGED <<relay, sv>>
    ELSE sv.mu = "free" /\ relay' = Opened /\ sv' = MadeReady /\ UNCHANGED conn

\* failRecover: OnRecoverFailed asks for the relay if there is an adaptive
\* connection yet, then the peer connection is closed.
FailRecover ==
    /\ peer.recovering /\ drv \notin {"select", "ended"}
    /\ RequestRelay
    /\ peer' = [peer EXCEPT !.recovering = FALSE]
    /\ direct' = "done"
    /\ UNCHANGED <<engine, drv, policy, warm, signal, threads>>

\* The watcher of direct.Done.
DirectWatcher ==
    /\ direct = "done" /\ drv \notin {"select", "ended"}
    /\ ~conn.done
    /\ RequestRelay
    /\ UNCHANGED <<engine, drv, policy, warm, peer, direct, signal, threads>>

\* The signaling socket is gone for good.  Before the move the connection can
\* go on without it; after it the transfer is over.
SignalingLost ==
    /\ signal /\ drv # "ended"
    /\ signal' = FALSE
    /\ IF drv = "select" \/ conn.path = "relay"
       THEN drv' = "ended" /\ conn' = [Finished(TRUE) EXCEPT !.closed = TRUE]
       ELSE UNCHANGED drv /\ conn' = Finished(TRUE)
    /\ relay' = [relay EXCEPT !.closed = TRUE]
    /\ UNCHANGED <<engine, policy, warm, peer, direct, sv, threads>>

\* The user cancels: the connection is closed before the engine is awaited.
Cancel ==
    /\ drv # "ended"
    /\ drv' = "ended"
    /\ conn' = [Finished(TRUE) EXCEPT !.closed = TRUE]
    /\ relay' = [relay EXCEPT !.closed = TRUE]
    /\ direct' = IF direct = "open" THEN "done" ELSE direct
    /\ UNCHANGED <<engine, policy, warm, peer, signal, sv, threads>>

-----------------------------------------------------------------------------
(***************************************************************************)
(* activateRelay, on the goroutine that waited for the relay to be ready.  *)
(***************************************************************************)
Watching == drv \notin {"select"} /\ relay.ready /\ act = "watch"

ActivateRelay ==
    /\ Watching /\ ~conn.done /\ ~conn.closed /\ conn.path # "relay"
    /\ conn' = [conn EXCEPT !.path = "relay"]
    /\ act' = "ready"
    /\ UNCHANGED <<engine, drv, policy, warm, peer, direct, relay, signal, sv, send, data,
                   engineMu, hooks, early>>

ActReady ==
    /\ act = "ready" /\ sv.mu = "free"
    /\ sv' = MadeReady
    /\ act' = "activate"
    /\ UNCHANGED <<engine, drv, policy, warm, peer, direct, relay, signal, conn, send, data,
                   engineMu, hooks, early>>

\* The active path and the others closed.
Promoted(mu) == [sv EXCEPT !.relay = "active", !.active = "relay", !.mu = mu,
                           !.direct = IF @ = "absent" THEN @ ELSE "closed"]

\* Fault: Activate has no early return for the path that is active already.
NeedsActivationAlways == sv.relay \in {"ready", "active"}

\* Activate goes on with a ready path and returns for the active one.
NeedsActivation == sv.relay = "ready"

\* Supervisor.Activate runs the hook under its own lock, if there is one yet.
ActActivate ==
    /\ act = "activate" /\ sv.mu = "free"
    /\ early' = (early \/ sv.relay \in {"absent", "candidate"})
    /\ IF NeedsActivation
       THEN /\ sv' = Promoted(IF drv = "wired" THEN "act" ELSE "free")
            /\ act' = IF drv = "wired" THEN "hook" ELSE "finish"
       ELSE act' = "finish" /\ UNCHANGED sv
    /\ UNCHANGED <<engine, drv, policy, warm, peer, direct, relay, signal, conn, send, data,
                   engineMu, hooks>>

\* TransportChanged of the receiver takes the lock that Handle holds; the
\* sender's resends the manifest, under the lock that Send holds, until the
\* first block is acknowledged.
HookNeedsLock == engine \in {"receiver", "newSender"}

HookRuns == HookNeedsLock => engineMu = "free"

ActHook ==
    /\ act = "hook" /\ HookRuns
    /\ hooks' = hooks + 1
    /\ sv' = [sv EXCEPT !.mu = "free"]
    /\ act' = "finish"
    /\ UNCHANGED <<engine, drv, policy, warm, peer, direct, relay, signal, conn, send, data,
                   engineMu, early>>

\* finishSwitch, then the direct channel is closed.
ActFinish ==
    /\ act = "finish"
    /\ conn' = Finished(FALSE)
    /\ direct' = "done"
    /\ act' = "gone"
    /\ UNCHANGED <<engine, drv, policy, warm, peer, relay, signal, sv, send, data,
                   engineMu, hooks, early>>

-----------------------------------------------------------------------------
(***************************************************************************)
(* The read loop: promoteOnData makes a ready path active.                 *)
(***************************************************************************)
PromoteOnData ==
    /\ data = "idle" /\ relay.ready /\ ~relay.closed /\ drv = "wired" /\ sv.mu = "free"
    /\ sv.relay = "ready"
    /\ sv' = Promoted("free")
    /\ direct' = "done"
    /\ data' = "hook"
    /\ UNCHANGED <<engine, drv, policy, warm, peer, relay, signal, conn, send, act,
                   engineMu, hooks, early>>

DataHook ==
    /\ data = "hook" /\ HookRuns
    /\ hooks' = hooks + 1
    /\ data' = "idle"
    /\ UNCHANGED <<engine, drv, policy, warm, peer, direct, relay, signal, conn, sv, send, act,
                   engineMu, early>>

-----------------------------------------------------------------------------
(***************************************************************************)
(* adaptiveConn.Send, called with the engine's lock held.                  *)
(***************************************************************************)
BeginSend ==
    /\ drv = "wired" /\ send = "idle" /\ engineMu = "free"
    /\ engineMu' = "send"
    /\ send' = IF conn.path = "relay" THEN "relay" ELSE "direct"
    /\ UNCHANGED <<engine, drv, policy, warm, peer, direct, relay, signal, conn, sv, act, data,
                   hooks, early>>

Returned == send' = "idle" /\ engineMu' = "free"

\* A failed Send ends the transfer.
SendFailed(why) == send' = why /\ engineMu' = "free" /\ drv' = "ended"

\* requestRelay under the engine's lock: the supervisor's lock is taken only
\* after relay.Open, and activateRelay may have it by then.
SendDirect ==
    /\ send = "direct"
    /\ CASE direct = "open" -> Returned /\ UNCHANGED <<relay, conn>>
         [] direct # "open" /\ Blocked ->
              send' = "wait" /\ UNCHANGED <<relay, conn, engineMu>>
         [] direct # "open" /\ ~Blocked /\ OpenFails ->
              send' = "wait" /\ conn' = Finished(TRUE) /\ UNCHANGED <<relay, engineMu>>
         [] OTHER -> send' = "mark" /\ relay' = Opened /\ UNCHANGED <<conn, engineMu>>
    /\ UNCHANGED <<engine, drv, policy, warm, peer, direct, signal, sv, act, data, hooks, early>>

SendMarks ==
    /\ send = "mark" /\ sv.mu = "free"
    /\ sv' = MadeReady
    /\ send' = "wait"
    /\ UNCHANGED <<engine, drv, policy, warm, peer, direct, relay, signal, conn, act, data,
                   engineMu, hooks, early>>

SendWaited ==
    /\ send = "wait" /\ conn.done
    /\ IF conn.err THEN SendFailed("failed")
       ELSE send' = "relay" /\ UNCHANGED <<engineMu, drv>>
    /\ UNCHANGED <<engine, policy, warm, peer, direct, relay, signal, conn, sv, act, data,
                   hooks, early>>

\* relaySwitchTimeout is far longer than a switch takes: it passes when the
\* relay never gets ready, or when the switch waits for the sender's lock.
SendTimeout ==
    /\ send = "wait" /\ ~conn.done
    /\ ~relay.ready \/ (act = "hook" /\ ~HookRuns)
    /\ SendFailed("timeout")
    /\ UNCHANGED <<engine, policy, warm, peer, direct, relay, signal, conn, sv, act, data,
                   hooks, early>>

SendRelay ==
    /\ send = "relay"
    /\ IF relay.closed THEN SendFailed("failed") ELSE Returned /\ UNCHANGED drv
    /\ UNCHANGED <<engine, policy, warm, peer, direct, relay, signal, conn, sv, act, data,
                   hooks, early>>

Env == Gathers \/ DirectOpens \/ DirectFails \/ PartnerOpens \/ RelayReady
       \/ DirectDies \/ EnterRecover \/ ExitRecover \/ SignalingLost \/ Cancel

Driver == WarmRelay \/ SelectRelay \/ SelectDirect \/ ActivateDirect \/ RegisterRelay \/ Wire

Switch == ActivateRelay \/ ActReady \/ ActActivate \/ ActHook \/ ActFinish

Sending == BeginSend \/ SendDirect \/ SendMarks \/ SendWaited \/ SendTimeout \/ SendRelay

Next == Env \/ Driver \/ Switch \/ Sending \/ FailRecover \/ DirectWatcher
        \/ PromoteOnData \/ DataHook

Spec == Init /\ [][Next]_vars

\* Goroutines run, the recovery timer fires, ICE ends in a channel or in
\* failure (external: the agent's own timeouts), and a sent frame is sent.
FairSpec ==
    /\ Spec
    /\ WF_vars(Driver) /\ WF_vars(Switch) /\ WF_vars(DataHook)
    /\ WF_vars(DirectWatcher) /\ WF_vars(FailRecover) /\ WF_vars(DirectOpens \/ DirectFails)
    /\ WF_vars(SendDirect) /\ WF_vars(SendMarks) /\ WF_vars(SendWaited) /\ WF_vars(SendRelay)

-----------------------------------------------------------------------------
\* The engine is told of the move once, although Activate and promoteOnData
\* both find the relay ready, each on its own goroutine: a second
\* TransportChanged would throw away the new path's first block.
ToldOnce == hooks <= 1

\* The connection is on the relay only after the relay was ready, and once
\* activateRelay is through, the supervisor delivers what the relay brings, unless the relay was ready before the driver had registered it:
\* Warming, Ready and Activate then fail, their errors are dropped, and the
\* path the connection sends on is a candidate whose frames are not delivered.
PathsAgree ==
    /\ conn.path = "relay" => relay.ready
    /\ (act = "gone" /\ drv = "wired" /\ ~early) => (sv.active = "relay" /\ sv.relay = "active")

\* A direct path that is gone makes the connection ask for the relay, whoever
\* notices first: the channel, the recovery window or a Send.
AsksForRelay ==
    (drv = "wired" /\ direct = "done") ~> (conn.done \/ drv = "ended" \/ sv.relay \in {"ready", "active"})

\* selectTransport ends: with the direct path, with the relay once the partner
\* answers, or with an error; until then the relay has been asked for.
Selects == (drv = "select") ~> (drv # "select" \/ relay.opened)

\* What the driver's comment says of cancelling: closing the connection
\* unblocks an engine that is stuck inside Send.
CancelUnblocksSend == (drv = "ended") ~> (send \in {"idle", "failed", "timeout"})
=============================================================================
