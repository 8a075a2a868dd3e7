---------------------------- MODULE RelaySession ----------------------------
(***************************************************************************)
(* The relayed byte path from end to end: relay.Conn on both sides         *)
(* (relay/conn.go), the signaling socket it lives on and its re-dialing    *)
(* (wsclient/reconnecting.go, client.go), and the server's relay state of  *)
(* the two seats (hub.go, peer.go; rooms and queues are in SignalHub).     *)
(* Every frame has size one.                                               *)
(***************************************************************************)
EXTENDS Naturals, Sequences, FiniteSets, SequencesExt

CONSTANTS Window,        \* RelayWindowBytes of the server
          ClientWindow,  \* windowBytes of the clients
          Batch,         \* creditBatch
          MaxFrames,     \* bound on the frames of the transfer
          MaxBlips,      \* bound on the sockets the network drops
          Closes         \* sides that may close their end

ASSUME RelayAssumption ==
    /\ Window \in Nat \ {0} /\ ClientWindow \in Nat \ {0} /\ Batch \in Nat \ {0}
    /\ MaxFrames \in Nat /\ MaxBlips \in Nat
    /\ Closes \subseteq {"sender", "receiver"}

Sides == {"sender", "receiver"}

Other(x) == IF x = "sender" THEN "receiver" ELSE "sender"

VARIABLES cli,   \* relay.Conn
          sig,   \* ReconnectingSignal: its Run, its socket, closed
          seat,  \* the server's peer in each seat of the room
          up, down,  \* the two directions of each socket
          sent,  \* frames the sender's Conn has sent
          got,   \* frames handed to the receiver's handler
          hist   \* history: blips, refusals, grants cut short, early frames overtaken

vars == <<cli, sig, seat, up, down, sent, got, hist>>

net == <<sig, seat, up, down>>

Empty == [who |-> "none", open |-> FALSE, credit |-> 0, owe |-> "no"]

Init ==
    /\ cli = [x \in Sides |-> [opened |-> FALSE, ready |-> FALSE, closed |-> FALSE, credit |-> 0,
                               consumed |-> 0, handler |-> FALSE, pending |-> <<>>, drain |-> <<>>]]
    /\ sig = [x \in Sides |-> [run |-> "reading", sock |-> "seated", closed |-> FALSE]]
    /\ seat = [x \in Sides |-> [Empty EXCEPT !.who = "live"]]
    /\ up = [x \in Sides |-> <<>>] /\ down = [x \in Sides |-> <<>>]
    /\ sent = 0 /\ got = <<>>
    /\ hist = [blips |-> 0, refused |-> FALSE, cut |-> FALSE, overtaken |-> FALSE]

Msg(type, n) == [type |-> type, n |-> n]

\* Client.Send on the current socket; a closed one takes nothing.
Says(x, msgs) == IF sig[x].sock = "closed" THEN up ELSE [up EXCEPT ![x] = @ \o msgs]

\* A peer's writer; what goes to a stale seat is lost.
Tell(q, x, msg) == IF seat[x].who = "live" THEN [q EXCEPT ![x] = Append(@, msg)] ELSE q

-----------------------------------------------------------------------------
(***************************************************************************)
(* The socket.  A dropped one leaves its peer in the seat until teardown.  *)
(***************************************************************************)
Dropped(x) ==
    /\ sig' = [sig EXCEPT ![x].sock = "closed"]
    /\ seat' = [seat EXCEPT ![x].who = IF @ = "live" THEN "stale" ELSE @]
    /\ up' = [up EXCEPT ![x] = <<>>]
    /\ down' = [down EXCEPT ![x] = <<>>]

\* The network, or the server's idle timeout, ends a socket.
Drop(x) ==
    /\ sig[x].sock # "closed" /\ hist.blips < MaxBlips
    /\ Dropped(x)
    /\ hist' = [hist EXCEPT !.blips = @ + 1]
    /\ UNCHANGED <<cli, sent, got>>

IdleTimeout(x) ==
    /\ sig[x].sock # "closed" /\ sig[x].closed
    /\ Dropped(x)
    /\ UNCHANGED <<cli, sent, got, hist>>

\* teardown and vacate; the room goes with the last seat.  A frame of the
\* partner that is not charged yet is charged to nobody.
Vacate(x) ==
    /\ seat[x].who = "stale" /\ seat[x].owe = "no"
    /\ seat' = [seat EXCEPT ![x] = Empty, ![Other(x)].owe = IF @ = "yes" THEN "void" ELSE @]
    /\ UNCHANGED <<cli, sig, up, down, sent, got, hist>>

\* Fault: Run goes on after Close.
WantReconnectAlways(x) == TRUE

wantReconnect(x) == ~sig[x].closed

\* Run of the dead socket returns.
ReadEnds(x) ==
    /\ sig[x].run = "reading" /\ sig[x].sock = "closed"
    /\ sig' = [sig EXCEPT ![x].run = IF wantReconnect(x) THEN "dialing" ELSE "ended"]
    /\ UNCHANGED <<cli, seat, up, down, sent, got, hist>>

\* Dial and swap; Close may have come in between.
Swap(x) ==
    /\ sig[x].run = "dialing"
    /\ sig' = [sig EXCEPT ![x].run = "swapped", ![x].sock = "new"]
    /\ UNCHANGED <<cli, seat, up, down, sent, got, hist>>

\* The attempts are used up, or Close was noticed: the driver closes the relay.
GiveUp(x) ==
    /\ sig[x].run = "dialing"
    /\ sig' = [sig EXCEPT ![x].run = "ended", ![x].closed = TRUE]
    /\ cli' = [cli EXCEPT ![x].closed = TRUE]
    /\ UNCHANGED <<seat, up, down, sent, got, hist>>

\* The resume request follows the swap, so others may be ahead of it.
SendResume(x) ==
    /\ sig[x].run = "swapped"
    /\ sig' = [sig EXCEPT ![x].run = CASE sig[x].sock # "closed" -> "reading"
                                        [] sig[x].sock = "closed" /\ ~sig[x].closed -> "dialing"
                                        [] OTHER -> "ended"]
    /\ up' = Says(x, <<Msg("resume", 0)>>)
    /\ UNCHANGED <<cli, seat, down, sent, got, hist>>

\* Conn.Close and ReconnectingSignal.Close.
Close(x) ==
    /\ x \in Closes /\ ~sig[x].closed
    /\ cli' = [cli EXCEPT ![x].closed = TRUE]
    /\ sig' = [sig EXCEPT ![x].closed = TRUE, ![x].sock = "closed"]
    /\ seat' = [seat EXCEPT ![x].who = IF @ = "live" THEN "stale" ELSE @]
    /\ up' = [up EXCEPT ![x] = <<>>] /\ down' = [down EXCEPT ![x] = <<>>]
    /\ UNCHANGED <<sent, got, hist>>

-----------------------------------------------------------------------------
(***************************************************************************)
(* relay.Conn.                                                             *)
(***************************************************************************)

\* Open sends relay_open and then counts as opened; a Send that fails leaves
\* it as it was.
Opens(x) == ~cli[x].closed /\ ~cli[x].opened /\ sig[x].sock # "closed"

Open(x) ==
    /\ Opens(x)
    /\ cli' = [cli EXCEPT ![x].opened = TRUE]
    /\ up' = Says(x, <<Msg("open", 0)>>)
    /\ UNCHANGED <<sig, seat, down, sent, got, hist>>

Arrives(x, type) == down[x] # <<>> /\ Head(down[x]).type = type

Popped(x) == [down EXCEPT ![x] = Tail(@)]

\* HandleMessage: relay_required, relay_ready, credit.
HandleRequired(x) ==
    /\ Arrives(x, "required")
    /\ down' = Popped(x)
    /\ cli' = IF Opens(x) THEN [cli EXCEPT ![x].opened = TRUE] ELSE cli
    /\ up' = IF Opens(x) THEN Says(x, <<Msg("open", 0)>>) ELSE up
    /\ UNCHANGED <<sig, seat, sent, got, hist>>

\* Fault: only the side that has something to receive at once grants credit.
FirstReadyWithHandler(x) == ~cli[x].ready /\ cli[x].handler

FirstReady(x) == ~cli[x].ready

HandleReady(x) ==
    /\ Arrives(x, "ready")
    /\ down' = Popped(x)
    /\ cli' = [cli EXCEPT ![x].ready = TRUE]
    /\ up' = IF FirstReady(x) THEN Says(x, <<Msg("credit", ClientWindow)>>) ELSE up
    /\ UNCHANGED <<sig, seat, sent, got, hist>>

HandleCredit(x) ==
    /\ Arrives(x, "credit")
    /\ down' = Popped(x)
    /\ cli' = [cli EXCEPT ![x].credit = @ + Head(down[x]).n]
    /\ UNCHANGED <<sig, seat, up, sent, got, hist>>

\* Fault: a sender goes on while it has credit or is about to get some.
MaySendAhead == cli["sender"].ready /\ ~cli["sender"].closed

\* Send waits for credit, then emits the frame; on a dead socket it fails, and
\* the engine ends the transfer.
MaySend == MaySendAhead /\ cli["sender"].credit >= 1

Send ==
    /\ MaySend /\ sent < MaxFrames /\ sig["sender"].sock # "closed"
    /\ cli' = [cli EXCEPT !["sender"].credit = IF @ = 0 THEN 0 ELSE @ - 1]
    /\ sent' = sent + 1
    /\ up' = Says("sender", <<Msg("data", sent + 1)>>)
    /\ UNCHANGED <<sig, seat, down, got, hist>>

SendFails ==
    /\ MaySend /\ sent < MaxFrames /\ sig["sender"].sock = "closed"
    /\ cli' = [cli EXCEPT !["sender"].closed = TRUE]
    /\ sig' = [sig EXCEPT !["sender"].closed = TRUE]
    /\ UNCHANGED <<seat, up, down, sent, got, hist>>

\* consume: credit goes back in batches.
Consume(consumed) ==
    IF consumed + 1 >= Batch THEN [left |-> 0, grant |-> consumed + 1]
    ELSE [left |-> consumed + 1, grant |-> 0]

Granted(x, c) == IF c.grant > 0 THEN Says(x, <<Msg("credit", c.grant)>>) ELSE up

\* HandleBinary: a frame before OnData is kept while the window has room.
Full == Len(cli["receiver"].pending) + 1 > ClientWindow

HandleEarly ==
    /\ Arrives("receiver", "data") /\ ~cli["receiver"].handler
    /\ down' = Popped("receiver")
    /\ cli' = IF Full \/ cli["receiver"].closed THEN cli
              ELSE [cli EXCEPT !["receiver"].pending = Append(@, Head(down["receiver"]).n)]
    /\ UNCHANGED <<sig, seat, up, sent, got, hist>>

HandleBinary ==
    /\ Arrives("receiver", "data") /\ cli["receiver"].handler
    /\ down' = Popped("receiver")
    /\ IF cli["receiver"].closed THEN UNCHANGED <<cli, up, got, hist>>
       ELSE LET c == Consume(cli["receiver"].consumed)
            IN  /\ got' = Append(got, Head(down["receiver"]).n)
                /\ cli' = [cli EXCEPT !["receiver"].consumed = c.left]
                /\ up' = Granted("receiver", c)
                /\ hist' = [hist EXCEPT !.overtaken = @ \/ cli["receiver"].drain # <<>>]
    /\ UNCHANGED <<sig, seat, sent>>

\* OnData installs the handler, then drains the early frames on its own
\* goroutine while the read loop goes on.
OnData ==
    /\ ~cli["receiver"].handler
    /\ cli' = [cli EXCEPT !["receiver"].handler = TRUE, !["receiver"].pending = <<>>,
                          !["receiver"].drain = cli["receiver"].pending]
    /\ UNCHANGED <<sig, seat, up, down, sent, got, hist>>

OnDataDrains ==
    /\ cli["receiver"].drain # <<>>
    /\ LET c == Consume(cli["receiver"].consumed)
       IN  /\ got' = Append(got, Head(cli["receiver"].drain))
           /\ cli' = [cli EXCEPT !["receiver"].drain = Tail(@), !["receiver"].consumed = c.left]
           /\ up' = Granted("receiver", c)
    /\ UNCHANGED <<sig, seat, down, sent, hist>>

-----------------------------------------------------------------------------
(***************************************************************************)
(* The server reads one message of x at a time.                            *)
(***************************************************************************)
Reads(x, type) == up[x] # <<>> /\ Head(up[x]).type = type /\ seat[x].owe = "no"

Read(x) == [up EXCEPT ![x] = Tail(@)]

Seated(x) == sig[x].sock = "seated"

Partnered(x) == Seated(x) /\ seat[Other(x)].who # "none"

BothOpen(x) == Partnered(x) /\ seat[x].open /\ seat[Other(x)].open

\* fail: the error frame means nothing to the client, the end of the socket does.
Refuse(x) == Dropped(x) /\ hist' = [hist EXCEPT !.refused = TRUE] /\ UNCHANGED <<cli, sent, got>>

\* hub.resume: the room must still be there and the seat free.
RoomLives(x) == seat[Other(x)].who # "none"

Resume(x) ==
    /\ Reads(x, "resume")
    /\ IF seat[x].who # "none" \/ ~RoomLives(x) THEN Refuse(x)
       ELSE /\ seat' = [seat EXCEPT ![x] = [Empty EXCEPT !.who = "live"]]
            /\ sig' = [sig EXCEPT ![x].sock = "seated"]
            /\ up' = Read(x)
            /\ UNCHANGED <<cli, down, sent, got, hist>>

OpenRelay(x) ==
    /\ Reads(x, "open")
    /\ IF ~Partnered(x) THEN Refuse(x)
       ELSE /\ seat' = [seat EXCEPT ![x].open = TRUE]
            /\ down' = IF seat[Other(x)].open
                       THEN Tell(Tell(down, x, Msg("ready", 0)), Other(x), Msg("ready", 0))
                       ELSE Tell(down, Other(x), Msg("required", 0))
            /\ up' = Read(x)
            /\ UNCHANGED <<cli, sig, sent, got, hist>>

Least(a, b) == IF a < b THEN a ELSE b

Grantable(x) == Window - seat[x].credit

\* grantRelayCredit: no more than the window, counting what is not charged yet.
GrantRelayCredit(x) ==
    /\ Reads(x, "credit")
    /\ IF ~BothOpen(x) THEN Refuse(x)
       ELSE LET n == Least(Head(up[x]).n, Grantable(Other(x)))
            IN  /\ seat' = [seat EXCEPT ![Other(x)].credit = @ + n]
                /\ down' = IF n > 0 THEN Tell(down, Other(x), Msg("credit", n)) ELSE down
                /\ up' = Read(x)
                /\ hist' = [hist EXCEPT !.cut = @ \/ (n < Head(up[x]).n /\ n < Window)]
                /\ UNCHANGED <<cli, sig, sent, got>>

\* forwardRelay: checks and enqueue.
ForwardRelay(x) ==
    /\ Reads(x, "data")
    /\ IF ~BothOpen(x) \/ seat[x].credit < 1 \/ seat[Other(x)].who # "live" THEN Refuse(x)
       ELSE /\ seat' = [seat EXCEPT ![x].owe = "yes"]
            /\ down' = Tell(down, Other(x), Head(up[x]))
            /\ up' = Read(x)
            /\ UNCHANGED <<cli, sig, sent, got, hist>>

Charged(x) == IF seat[x].owe = "yes" THEN seat[x].credit - 1 ELSE seat[x].credit

RelayCharge(x) ==
    /\ seat[x].owe # "no"
    /\ seat' = [seat EXCEPT ![x].credit = Charged(x), ![x].owe = "no"]
    /\ UNCHANGED <<cli, sig, up, down, sent, got, hist>>

-----------------------------------------------------------------------------
Signal(x) == ReadEnds(x) \/ Swap(x) \/ GiveUp(x) \/ SendResume(x)

Server(x) == Resume(x) \/ OpenRelay(x) \/ GrantRelayCredit(x) \/ ForwardRelay(x)
             \/ RelayCharge(x) \/ Vacate(x)

Handle(x) == HandleRequired(x) \/ HandleReady(x) \/ HandleCredit(x)

Receive == HandleEarly \/ HandleBinary \/ OnDataDrains

Next ==
    \/ \E x \in Sides : Drop(x) \/ IdleTimeout(x) \/ Signal(x) \/ Close(x) \/ Open(x)
                        \/ Handle(x) \/ Server(x)
    \/ Send \/ SendFails \/ Receive \/ OnData

Spec == Init /\ [][Next]_vars

\* Goroutines on both ends and the server run, the sender has frames to send,
\* the receiver's engine installs its handler, and the server drops a socket
\* nobody writes to.
FairSpec ==
    /\ Spec
    /\ \A x \in Sides : /\ WF_vars(Signal(x)) /\ WF_vars(Server(x)) /\ WF_vars(Handle(x))
                        /\ WF_vars(IdleTimeout(x))
    /\ WF_vars(Open("sender")) /\ WF_vars(Send) /\ WF_vars(Receive) /\ WF_vars(OnData)

-----------------------------------------------------------------------------
(***************************************************************************)
(* The abstract channel, with the receiver's handler as its consumer.  It  *)
(* is broken once a socket was dropped or closed, and once a frame has     *)
(* overtaken the early ones.                                               *)
(***************************************************************************)
Closed == hist.blips > 0 \/ \E x \in Sides : sig[x].closed

Channel == INSTANCE RelayChannel WITH
             Bound <- ClientWindow, taken <- ToSet(got), broken <- Closed \/ hist.overtaken

\* The relayed path is a bounded channel: whatever drops, closes, resumes or
\* is refused, a frame arrives at most once and no more than one window of
\* them is outstanding; until then they arrive in order and without a gap.
IsChannel == Channel!Spec

\* The server refuses a frame, an open or a grant only on account of a socket
\* that was lost or closed: the client's count of its credit never runs ahead
\* of the server's, although the two are updated by different messages.
RefusedOnlyAfterLoss ==
    hist.refused => Closed

\* Every frame gets through while no socket is lost and no grant is cut short:
\* credit returned in batches never leaves the sender without the credit for
\* one more frame.
Flows == <>(Len(got) = MaxFrames \/ Closed \/ hist.cut)

\* Close ends Run, also when it comes while the socket is being dialed again.
CloseEnds == \A x \in Sides : sig[x].closed ~> (sig[x].run = "ended")
=============================================================================
