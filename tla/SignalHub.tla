------------------------------ MODULE SignalHub ------------------------------
(***************************************************************************)
(* The signaling server (apps/server/internal/signal: hub.go, peer.go):    *)
(* rooms that pair two WebSocket connections, the credit-gated binary      *)
(* relay between them, resumption of a vacated seat, the reaper, and the   *)
(* reader and writer goroutine of every connection.                        *)
(*                                                                         *)
(* Each hub method runs under hub.mu and is one step.  What follows it     *)
(* outside the lock is a step of its own: each control frame a handler     *)
(* hands out, the three parts of forwardRelay (check, enqueue, charge),    *)
(* and teardown some time after the read loop ended.  Only close, which    *)
(* cannot block, is taken together with the step before it.  Time is left  *)
(* out: a room may be idle, and a rate limit exceeded, at any moment.      *)
(***************************************************************************)
EXTENDS Integers, Sequences

CONSTANTS Conns,        \* WebSocket connections (struct peer), each used once
          RoomNumbers,  \* room numbers, a bound on the numbers handed out
          None,         \* a nil *peer
          Window,       \* RelayWindowBytes
          MaxFrame,     \* MaxRelayFrameBytes
          Session,      \* RelayMaxSessionBytes
          QueueBytes,   \* RelayQueueBytes
          SendBuffer    \* capacity of the outbound queue

ASSUME HubAssumption ==
    /\ RoomNumbers \subseteq Nat
    /\ None \notin Conns
    /\ Window \in Nat /\ MaxFrame \in Nat /\ Session \in Nat
    /\ QueueBytes \in Nat /\ SendBuffer \in Nat

VARIABLES rooms,    \* hub.rooms
          conn,     \* the connections
          queue,    \* peer.send of each connection
          met,      \* history: pairs of connections that shared a room
          strayBye  \* history: a bye discarded a room its sender had no seat in

vars == <<rooms, conn, queue, met, strayBye>>

history == <<met, strayBye>>

NoRoom == [live |-> FALSE, offerer |-> None, joiner |-> None, bytes |-> 0]

(***************************************************************************)
(* A connection.  phase is where its reader goroutine is:                  *)
(*   new         not yet accepted                                          *)
(*   serving     in the read loop                                          *)
(*   notifying   handing the control frames out to their queues, then next *)
(*   enqueueing  forwardRelay passed its checks and released hub.mu        *)
(*   charging    the frame is in the partner's queue, not yet charged      *)
(*   leaving     serve returned, teardown is due                           *)
(*   closing     teardown waits for the writer                             *)
(*   gone        finished                                                  *)
(* done is the closed done channel, closed that the writer ended.          *)
(***************************************************************************)
NewPeer == [phase |-> "new", room |-> -1, role |-> "none", open |-> FALSE,
            credit |-> 0, queued |-> 0, graceful |-> FALSE, done |-> FALSE,
            closed |-> FALSE, out |-> <<>>, next |-> "serving",
            other |-> None, size |-> 0]

Init == /\ rooms = [n \in RoomNumbers |-> NoRoom]
        /\ conn = [p \in Conns |-> NewPeer]
        /\ queue = [p \in Conns |-> <<>>]
        /\ met = {}
        /\ strayBye = FALSE

roomPartner(r, p) == IF p = r.offerer THEN r.joiner
                     ELSE IF p = r.joiner THEN r.offerer ELSE None

\* hub.partner: nil when p has no room, lost it, or sits there alone.
Partner(p) == IF conn[p].room \in RoomNumbers /\ rooms[conn[p].room].live
              THEN roomPartner(rooms[conn[p].room], p)
              ELSE None

Seated(p, n) == rooms[n].live /\ (rooms[n].offerer = p \/ rooms[n].joiner = p)

\* Messages are read until the writer has closed the socket.
Reading(p) == conn[p].phase = "serving" /\ ~conn[p].closed

(***************************************************************************)
(* tryEnqueue on q: the bytes are checked against the queue limit, then    *)
(* the frame waits for room in the channel or for done.  With both at hand *)
(* the select takes either.                                                *)
(***************************************************************************)
Accepts(q, size) == /\ size <= QueueBytes - conn[q].queued
                    /\ Len(queue[q]) < SendBuffer

Rejects(q, size) == size > QueueBytes - conn[q].queued \/ conn[q].done

ControlBytes == 1

\* p's reader, in connection state c, has one control frame for each of to,
\* and goes on to phase next when they are handed over.
Notify(c, p, to, next) ==
    [c EXCEPT ![p].out = to, ![p].next = next,
              ![p].phase = IF to = <<>> THEN next ELSE "notifying",
              ![p].done = @ \/ (to = <<>> /\ next # "serving")]

Notified(c, p) == Notify(c, p, Tail(c[p].out), c[p].next)

One(q) == IF q = None THEN <<>> ELSE <<q>>

\* enqueue: a recipient whose queue refuses the frame fails.
Enqueue(p) ==
    /\ conn[p].phase = "notifying"
    /\ LET q == Head(conn[p].out)
       IN  \/ /\ Accepts(q, ControlBytes)
              /\ queue' = [queue EXCEPT ![q] =
                              Append(@, [from |-> None, size |-> ControlBytes])]
              /\ conn' = Notified([conn EXCEPT ![q].queued = @ + ControlBytes], p)
           \/ /\ Rejects(q, ControlBytes)
              /\ conn' = Notified([conn EXCEPT ![q].done = TRUE], p)
              /\ UNCHANGED queue
    /\ UNCHANGED <<rooms, history>>

\* fail and return from serve.
Leave(c, p) == [c EXCEPT ![p].done = TRUE, ![p].phase = "leaving"]

(***************************************************************************)
(* Connection set-up and the requests of dispatch.                         *)
(***************************************************************************)
Connect(p) ==
    /\ conn[p].phase = "new"
    /\ conn' = [conn EXCEPT ![p].phase = "serving"]
    /\ UNCHANGED <<rooms, queue, history>>

\* A malformed, oversized, unknown or rate-limited message, and any refusal by
\* the hub.
Refuse(p) ==
    /\ Reading(p)
    /\ conn' = Leave(conn, p)
    /\ UNCHANGED <<rooms, queue, history>>

Smallest(n) == ~rooms[n].live /\ \A m \in RoomNumbers : m < n => rooms[m].live

CreateRoom(p) ==
    /\ Reading(p) /\ conn[p].room = -1
    /\ \E n \in RoomNumbers :
          /\ Smallest(n)
          /\ rooms' = [rooms EXCEPT ![n] = [NoRoom EXCEPT !.live = TRUE, !.offerer = p]]
          /\ conn' = Notify([conn EXCEPT ![p].room = n, ![p].role = "offerer"],
                            p, <<p>>, "serving")
    /\ UNCHANGED <<queue, history>>

Meet(p, q) == IF q = None THEN met ELSE met \cup {<<p, q>>, <<q, p>>}

\* Fault: a full room is joined as well.
MayJoinFull(n) == rooms[n].live /\ rooms[n].offerer # None

MayJoin(n) == rooms[n].live /\ rooms[n].joiner = None /\ rooms[n].offerer # None

Join(p, n) ==
    /\ Reading(p) /\ conn[p].room = -1
    /\ MayJoin(n)
    /\ rooms' = [rooms EXCEPT ![n].joiner = p]
    /\ conn' = Notify([conn EXCEPT ![p].room = n, ![p].role = "joiner"],
                      p, <<p, rooms[n].offerer>>, "serving")
    /\ met' = Meet(p, rooms[n].offerer)
    /\ UNCHANGED <<queue, strayBye>>

OtherRole(role) == IF role = "offerer" THEN "joiner" ELSE "offerer"

Resume(p, n, role) ==
    /\ Reading(p) /\ conn[p].room = -1
    /\ rooms[n].live /\ rooms[n][role] = None
    /\ rooms' = [rooms EXCEPT ![n][role] = p]
    /\ LET other == rooms[n][OtherRole(role)]
       IN  /\ conn' = Notify([conn EXCEPT ![p].room = n, ![p].role = role],
                             p, <<p>> \o One(other), "serving")
           /\ met' = Meet(p, other)
    /\ UNCHANGED <<queue, strayBye>>

\* A forwardable signaling message.
Forward(p) ==
    /\ Reading(p)
    /\ Partner(p) # None
    /\ conn' = Notify(conn, p, <<Partner(p)>>, "serving")
    /\ UNCHANGED <<rooms, queue, history>>

\* The partner is told; the room goes in teardown.
Bye(p) ==
    /\ Reading(p)
    /\ conn' = Notify([conn EXCEPT ![p].graceful = TRUE], p, One(Partner(p)), "leaving")
    /\ UNCHANGED <<rooms, queue, history>>

(***************************************************************************)
(* The binary relay.                                                       *)
(***************************************************************************)
\* relay_required to the partner, or relay_ready to both.
OpenRelay(p) ==
    /\ Reading(p)
    /\ Partner(p) # None
    /\ conn' = Notify([conn EXCEPT ![p].open = TRUE], p,
                      (IF conn[Partner(p)].open THEN <<p>> ELSE <<>>) \o <<Partner(p)>>,
                      "serving")
    /\ UNCHANGED <<rooms, queue, history>>

Min(a, b) == IF a <= b THEN a ELSE b

\* Fault: the grant ignores what the sender still holds.
GrantFull(sender, requested) == Min(requested, Window)

Grant(sender, requested) == Min(requested, Window - conn[sender].credit)

GrantRelayCredit(p, requested) ==
    /\ Reading(p)
    /\ Partner(p) # None
    /\ conn[p].open /\ conn[Partner(p)].open
    /\ LET sender == Partner(p)
           grant == Grant(sender, requested)
       IN  conn' = IF grant > 0
                   THEN Notify([conn EXCEPT ![sender].credit = @ + grant],
                               p, <<sender>>, "serving")
                   ELSE conn
    /\ UNCHANGED <<rooms, queue, history>>

\* Fault: the session budget is not checked.
MayForwardUnmetered(p, size) ==
    /\ Partner(p) # None
    /\ conn[p].open /\ conn[Partner(p)].open
    /\ conn[p].credit >= size

MayForward(p, size) ==
    /\ Partner(p) # None
    /\ conn[p].open /\ conn[Partner(p)].open
    /\ conn[p].credit >= size
    /\ size <= Session - rooms[conn[p].room].bytes

ForwardRelay(p, size) ==
    /\ Reading(p)
    /\ MayForward(p, size)
    /\ conn' = [conn EXCEPT ![p].phase = "enqueueing", ![p].other = Partner(p),
                            ![p].size = size]
    /\ UNCHANGED <<rooms, queue, history>>

\* Fault: the recipient is looked up again, by role, in the numbered room.
RecipientNow(p) ==
    IF conn[p].role = "offerer" THEN rooms[conn[p].room].joiner
                                ELSE rooms[conn[p].room].offerer

Recipient(p) == conn[p].other

RelayEnqueued(p) ==
    LET q == Recipient(p)
    IN  /\ conn[p].phase = "enqueueing"
        /\ q # None
        /\ Accepts(q, conn[p].size)
        /\ queue' = [queue EXCEPT ![q] = Append(@, [from |-> p, size |-> conn[p].size])]
        /\ conn' = [conn EXCEPT ![q].queued = @ + conn[p].size, ![p].phase = "charging"]
        /\ UNCHANGED <<rooms, history>>

\* A queue that refuses the frame costs both their connection.
RelayRejected(p) ==
    /\ conn[p].phase = "enqueueing"
    /\ Rejects(conn[p].other, conn[p].size)
    /\ conn' = Leave([conn EXCEPT ![conn[p].other].done = TRUE], p)
    /\ UNCHANGED <<rooms, queue, history>>

\* Nothing is charged when the pair broke up in between.
RelayCharge(p) ==
    LET idle == [conn[p] EXCEPT !.phase = "serving", !.other = None, !.size = 0]
    IN  /\ conn[p].phase = "charging"
        /\ IF Partner(p) = conn[p].other
           THEN /\ rooms' = [rooms EXCEPT ![conn[p].room].bytes = @ + conn[p].size]
                /\ conn' = [conn EXCEPT ![p] = [idle EXCEPT !.credit = @ - conn[p].size]]
           ELSE /\ conn' = [conn EXCEPT ![p] = idle]
                /\ UNCHANGED rooms
        /\ UNCHANGED <<queue, history>>

(***************************************************************************)
(* The writer goroutine, the end of the read loop, teardown and the reaper.*)
(***************************************************************************)
Writing(p) == conn[p].phase # "new" /\ ~conn[p].closed

WriteFrame(p) ==
    /\ Writing(p) /\ queue[p] # <<>>
    /\ queue' = [queue EXCEPT ![p] = Tail(@)]
    /\ conn' = [conn EXCEPT ![p].queued = @ - Head(queue[p]).size]
    /\ UNCHANGED <<rooms, history>>

WriteFails(p) ==
    /\ Writing(p) /\ queue[p] # <<>>
    /\ queue' = [queue EXCEPT ![p] = Tail(@)]
    /\ conn' = [conn EXCEPT ![p].queued = @ - Head(queue[p]).size,
                            ![p].done = TRUE, ![p].closed = TRUE]
    /\ UNCHANGED <<rooms, history>>

\* Fault: the writer leaves the socket open until the reader has torn down.
WriterEndsLast(p) ==
    /\ Writing(p) /\ conn[p].done /\ conn[p].phase = "closing"
    /\ conn' = [conn EXCEPT ![p].closed = TRUE]
    /\ UNCHANGED <<rooms, queue, history>>

WriterEnds(p) ==
    /\ Writing(p) /\ conn[p].done
    /\ conn' = [conn EXCEPT ![p].closed = TRUE]
    /\ UNCHANGED <<rooms, queue, history>>

\* The socket failed, fell silent, or was closed by the writer.
ReadEnds(p) ==
    /\ conn[p].phase = "serving"
    /\ conn' = [conn EXCEPT ![p].phase = "leaving"]
    /\ UNCHANGED <<rooms, queue, history>>

SeatOf(p, n) == IF rooms[n].offerer = p THEN "offerer" ELSE "joiner"

\* Fault: a connection that was closed already is taken to have left already.
VacatedUnlessDone(p, n) ==
    IF conn[p].done THEN rooms
    ELSE IF Partner(p) = None THEN [rooms EXCEPT ![n] = NoRoom]
    ELSE [rooms EXCEPT ![n][SeatOf(p, n)] = None]

\* vacate: the last one out deletes the room.
Vacated(p, n) == IF Partner(p) = None THEN [rooms EXCEPT ![n] = NoRoom]
                 ELSE [rooms EXCEPT ![n][SeatOf(p, n)] = None]

InRoom(p) == conn[p].room \in RoomNumbers /\ rooms[conn[p].room].live

\* After teardown only the writer is left; nothing reads the other fields.
Released(c, p) ==
    [c EXCEPT ![p] = [NewPeer EXCEPT !.queued = c[p].queued, !.done = c[p].done,
                                     !.closed = c[p].closed]]

\* discard: whatever room has p's number now is deleted.
TeardownGraceful(p) ==
    LET n == conn[p].room
    IN  /\ conn[p].phase = "leaving" /\ conn[p].graceful
        /\ rooms' = IF InRoom(p) THEN [rooms EXCEPT ![n] = NoRoom] ELSE rooms
        /\ LET c == [q \in Conns |-> [conn[q] EXCEPT !.done = @ \/ q = Partner(p)]]
           IN  conn' = Notify(Released(c, p), p, <<>>, "closing")
        /\ strayBye' = (strayBye \/ (InRoom(p) /\ ~Seated(p, n)))
        /\ UNCHANGED <<queue, met>>

TeardownDropped(p) ==
    LET n == conn[p].room
    IN  /\ conn[p].phase = "leaving" /\ ~conn[p].graceful
        /\ rooms' = IF InRoom(p) /\ Seated(p, n) THEN Vacated(p, n) ELSE rooms
        /\ conn' = Notify(Released(conn, p), p, One(Partner(p)), "closing")
        /\ UNCHANGED <<queue, history>>

Gone(p) ==
    /\ conn[p].phase = "closing" /\ conn[p].closed
    /\ conn' = [conn EXCEPT ![p].phase = "gone", ![p].queued = 0]
    /\ queue' = [queue EXCEPT ![p] = <<>>]
    /\ UNCHANGED <<rooms, history>>

\* reapOnce, for one idle room.
Reap(n) ==
    /\ rooms[n].live
    /\ rooms' = [rooms EXCEPT ![n] = NoRoom]
    /\ conn' = [p \in Conns |-> IF Seated(p, n) THEN [conn[p] EXCEPT !.done = TRUE]
                                                ELSE conn[p]]
    /\ UNCHANGED <<queue, history>>

Reader(p) == \/ Enqueue(p) \/ RelayEnqueued(p) \/ RelayRejected(p) \/ RelayCharge(p)
             \/ TeardownGraceful(p) \/ TeardownDropped(p) \/ Gone(p)

Next == \/ \E p \in Conns :
              \/ Connect(p) \/ Refuse(p) \/ CreateRoom(p)
              \/ \E n \in RoomNumbers :
                    \/ Join(p, n)
                    \/ \E role \in {"offerer", "joiner"} : Resume(p, n, role)
              \/ Forward(p) \/ Bye(p) \/ OpenRelay(p)
              \/ \E requested \in 1 .. Window : GrantRelayCredit(p, requested)
              \/ \E size \in 1 .. MaxFrame : ForwardRelay(p, size)
              \/ Reader(p)
              \/ WriteFrame(p) \/ WriteFails(p) \/ WriterEnds(p) \/ ReadEnds(p)
        \/ \E n \in RoomNumbers : Reap(n)

Spec == Init /\ [][Next]_vars

(***************************************************************************)
(* Every goroutine goes on: a handler continues (a sender blocked on a     *)
(* channel is served in turn, hence SF), the writer's write succeeds or    *)
(* times out, a closed socket ends the read loop.                          *)
(***************************************************************************)
Fairness == \A p \in Conns :
                /\ SF_vars(Reader(p))
                /\ WF_vars(WriteFrame(p) \/ WriteFails(p))
                /\ WF_vars(WriterEnds(p))
                /\ WF_vars(conn[p].closed /\ ReadEnds(p))

FairSpec == Spec /\ Fairness

-----------------------------------------------------------------------------
(***************************************************************************)
(* Properties.                                                             *)
(***************************************************************************)

Phases == {"new", "serving", "notifying", "enqueueing", "charging",
           "leaving", "closing", "gone"}

ConnType == [phase : Phases, room : RoomNumbers \cup {-1},
             role : {"none", "offerer", "joiner"}, open : BOOLEAN, credit : 0 .. Window,
             queued : Int, graceful : BOOLEAN, done : BOOLEAN, closed : BOOLEAN,
             out : Seq(Conns), next : {"serving", "leaving", "closing"},
             other : Conns \cup {None}, size : Nat]

\* Type invariant of the hub.  That a relay credit stays between zero and the
\* window is part of it: the check and the charge of forwardRelay are apart,
\* and a grant or a change of partner may come between.
TypeOK ==
    /\ rooms \in [RoomNumbers -> [live : BOOLEAN, offerer : Conns \cup {None},
                                  joiner : Conns \cup {None}, bytes : Nat]]
    /\ conn \in [Conns -> ConnType]
    /\ queue \in [Conns -> Seq([from : Conns \cup {None}, size : Nat])]
    /\ met \subseteq Conns \X Conns
    /\ strayBye \in BOOLEAN

\* A room number in use has somebody in it, so none leaks when both sides leave
\* at the same time, and no seat is held by a connection that is not there:
\* whoever sits in a room knows that room and that role, in no other room, and
\* has not been torn down (createRoom, join, resume against vacate, discard and
\* the reaper).
SeatsAgree ==
    /\ \A n \in RoomNumbers : rooms[n].live => \E p \in Conns : Seated(p, n)
    /\ \A p \in Conns, n \in RoomNumbers : Seated(p, n) =>
          /\ conn[p].room = n
          /\ rooms[n][conn[p].role] = p /\ rooms[n][OtherRole(conn[p].role)] # p
          /\ conn[p].phase \notin {"new", "closing", "gone"}

\* The relayed bytes of a room exceed the session budget by less than a frame,
\* although check and charge are apart and both directions draw on it.
OvershootBounded ==
    \A n \in RoomNumbers : rooms[n].bytes <= Session + MaxFrame

\* A relayed frame reaches only a connection its sender shared a room with,
\* also when the room is torn down and its number reused between the lookup of
\* the partner and the enqueue.
FrameOnlyToPartner ==
    \A q \in Conns : \A i \in DOMAIN queue[q] :
        queue[q][i].from # None => <<queue[q][i].from, q>> \in met

Member(p) == /\ conn[p].room # -1 /\ ~conn[p].done
             /\ \/ conn[p].phase \in {"serving", "enqueueing", "charging"}
                \/ conn[p].phase = "notifying" /\ conn[p].next = "serving"

\* A connection that created, joined or resumed a room and is not being closed
\* still has its seat: discard "tears down p's whole room", nobody else's.
MemberKeepsSeat == \A p \in Conns : Member(p) => Seated(p, conn[p].room)

\* Apart from a bye that discards the room its sender no longer sits in, no
\* interleaving takes a seat from a connection that is not being closed.
OnlyStrayByesUnseat == strayBye \/ MemberKeepsSeat

\* A connection that is being closed is torn down and released in the end: its
\* reader, blocked on a partner's queue or on its own writer, gets free.
ClosedIsReleased == \A p \in Conns : conn[p].done ~> (conn[p].phase = "gone")
=============================================================================
