--------------------------- MODULE SignalHubProofs ---------------------------
(***************************************************************************)
(* Proofs about SignalHub, for every set of connections and room numbers   *)
(* and every window, frame size, budget and queue size.                    *)
(*                                                                         *)
(* The properties are not inductive: hub.mu is released between the check  *)
(* of a frame and its charge, and a seat is given up some steps after the  *)
(* reader has decided to leave.  IInv adds what a reader holds in between. *)
(***************************************************************************)
EXTENDS SignalHub, TLAPS

\* The reader has given up its seat, or never had one.
Out(p) == \/ conn[p].phase \in {"new", "closing", "gone"}
          \/ conn[p].phase = "notifying" /\ conn[p].next = "closing"

SeatsOK ==
    /\ SeatsAgree
    /\ \A p \in Conns, n \in RoomNumbers :
          Seated(p, n) => ~Out(p) /\ conn[p].role # "none"
    /\ \A n \in RoomNumbers : ~rooms[n].live => rooms[n] = NoRoom

\* Two who share a room have met, and so have a sender and the recipient that
\* forwardRelay looked up before it released the lock.
MetOK ==
    /\ \A n \in RoomNumbers :
          rooms[n].live /\ rooms[n].offerer # None /\ rooms[n].joiner # None =>
              /\ <<rooms[n].offerer, rooms[n].joiner>> \in met
              /\ <<rooms[n].joiner, rooms[n].offerer>> \in met
    /\ FrameOnlyToPartner

Pending == {"enqueueing", "charging"}

\* What a reader knows at each of its steps; the frame it has in hand fits its
\* credit until it is charged.
ReaderOK(p) ==
    /\ conn[p].phase = "new" => conn[p].room = -1
    /\ conn[p].phase = "notifying" => conn[p].out # <<>>
    /\ conn[p].phase \in Pending =>
          /\ conn[p].other \in Conns
          /\ <<p, conn[p].other>> \in met
          /\ conn[p].size <= conn[p].credit
    /\ conn[p].size <= MaxFrame
    /\ conn[p].room = -1 => conn[p].size = 0

ReadersOK == \A p \in Conns : ReaderOK(p)

Held(p) == IF p = None THEN 0 ELSE conn[p].size

\* The frames both members have in hand count as relayed already: each was
\* checked when the other's was a frame at most.
BudgetOK ==
    \A n \in RoomNumbers :
        rooms[n].bytes + Held(rooms[n].offerer) + Held(rooms[n].joiner) <= Session + MaxFrame

IInv == TypeOK /\ SeatsOK /\ MetOK /\ ReadersOK /\ BudgetOK /\ OnlyStrayByesUnseat

-----------------------------------------------------------------------------
\* Facts about the helpers of the actions.

\* Notify changes only the reader's list of notices, its phase and done.
LEMMA NotifyEffect ==
    ASSUME NEW c \in [Conns -> ConnType], NEW p \in Conns, NEW to \in Seq(Conns),
           NEW next \in {"serving", "leaving", "closing"},
           NEW d, d = Notify(c, p, to, next)
    PROVE  /\ d \in [Conns -> ConnType]
           /\ \A q \in Conns : q # p => d[q] = c[q]
           /\ d[p].room = c[p].room /\ d[p].role = c[p].role /\ d[p].other = c[p].other
           /\ d[p].size = c[p].size /\ d[p].credit = c[p].credit
           /\ d[p].phase = IF to = <<>> THEN next ELSE "notifying"
           /\ d[p].next = next /\ d[p].out = to
           /\ d[p].done = (c[p].done \/ (to = <<>> /\ next # "serving"))
<1> DEFINE ph == IF to = <<>> THEN next ELSE "notifying"
           dn == c[p].done \/ (to = <<>> /\ next # "serving")
           r == [c[p] EXCEPT !.out = to, !.next = next, !.done = dn, !.phase = ph]
<1>1. d = [c EXCEPT ![p] = r]
      BY DEF Notify, ConnType
<1>2. ph \in Phases /\ dn \in BOOLEAN
      BY DEF Phases
<1> HIDE DEF ph, dn
<1>3. r \in ConnType
      BY <1>2 DEF ConnType
<1>4. /\ r.phase = ph /\ r.done = dn /\ r.next = next /\ r.out = to
      /\ r.room = c[p].room /\ r.role = c[p].role /\ r.other = c[p].other
      /\ r.size = c[p].size /\ r.credit = c[p].credit
      BY DEF ConnType
<1> HIDE DEF r
<1>5. d \in [Conns -> ConnType] /\ d[p] = r /\ \A q \in Conns : q # p => d[q] = c[q]
      BY <1>1, <1>3
<1> QED BY <1>4, <1>5 DEF ph, dn

LEMMA OneType == \A q \in Conns \cup {None} : One(q) \in Seq(Conns)
BY DEF One

LEMMA PartnerType == ASSUME TypeOK, NEW p \in Conns PROVE Partner(p) \in Conns \cup {None}
BY DEF TypeOK, Partner, roomPartner

\* A partner sits in the same room, in the other seat.
LEMMA PartnerSeat ==
    ASSUME TypeOK, SeatsOK, NEW p \in Conns, Partner(p) # None
    PROVE  /\ conn[p].room \in RoomNumbers /\ Seated(p, conn[p].room)
           /\ Partner(p) \in Conns /\ Seated(Partner(p), conn[p].room)
           /\ \/ p = rooms[conn[p].room].offerer /\ Partner(p) = rooms[conn[p].room].joiner
              \/ p = rooms[conn[p].room].joiner /\ Partner(p) = rooms[conn[p].room].offerer
BY HubAssumption DEF TypeOK, Partner, roomPartner, Seated

\* A step that moves no connection between rooms and takes none out of or into
\* the two sets the seats depend on leaves the seats in order.
LEMMA SeatsFrame ==
    ASSUME IInv, UNCHANGED <<met, strayBye>>,
           \A n \in RoomNumbers : /\ rooms'[n].live = rooms[n].live
                                  /\ rooms'[n].offerer = rooms[n].offerer
                                  /\ rooms'[n].joiner = rooms[n].joiner
                                  /\ ~rooms[n].live => rooms'[n] = rooms[n],
           \A q \in Conns : /\ conn'[q].room = conn[q].room
                            /\ conn'[q].role = conn[q].role
                            /\ Out(q)' => Out(q)
                            /\ Member(q)' => Member(q)
    PROVE  SeatsOK' /\ OnlyStrayByesUnseat'
<1>1. \A q \in Conns, n \in RoomNumbers : Seated(q, n)' <=> Seated(q, n)
      BY DEF Seated
<1>2. SeatsAgree'
  <2>1. \A n \in RoomNumbers : rooms'[n].live => \E p \in Conns : Seated(p, n)'
        BY <1>1 DEF IInv, SeatsOK, SeatsAgree
  <2>2. ASSUME NEW p \in Conns, NEW n \in RoomNumbers, Seated(p, n)'
        PROVE  /\ conn'[p].room = n
               /\ rooms'[n][conn'[p].role] = p /\ rooms'[n][OtherRole(conn'[p].role)] # p
               /\ conn'[p].phase \notin {"new", "closing", "gone"}
    <3>1. Seated(p, n) /\ ~Out(p)
          BY <1>1, <2>2 DEF IInv, SeatsOK
    <3>2. ~Out(p)'
          BY <3>1
    <3>3. conn'[p].phase \notin {"new", "closing", "gone"}
          BY <3>2 DEF Out
    <3>4. conn'[p].room = conn[p].room /\ conn'[p].role = conn[p].role
          OBVIOUS
    <3>5. /\ conn[p].room = n
          /\ rooms[n][conn[p].role] = p /\ rooms[n][OtherRole(conn[p].role)] # p
          /\ conn[p].role \in {"offerer", "joiner"}
          BY <3>1 DEF IInv, SeatsOK, SeatsAgree, TypeOK, ConnType
    <3>6. CASE conn[p].role = "offerer"
          BY <3>3, <3>4, <3>5, <3>6 DEF OtherRole
    <3>7. CASE conn[p].role = "joiner"
          BY <3>3, <3>4, <3>5, <3>7 DEF OtherRole
    <3> QED BY <3>5, <3>6, <3>7
  <2> QED BY <2>1, <2>2 DEF SeatsAgree
<1>3. ASSUME NEW p \in Conns, NEW n \in RoomNumbers, Seated(p, n)'
      PROVE  ~Out(p)' /\ conn'[p].role # "none"
  <2>1. Seated(p, n)
        BY <1>1, <1>3
  <2> QED BY <2>1 DEF IInv, SeatsOK
<1>5. \A n \in RoomNumbers : ~rooms'[n].live => rooms'[n] = NoRoom
      BY DEF IInv, SeatsOK
<1>4. OnlyStrayByesUnseat'
  <2>1. CASE strayBye
        BY <2>1 DEF OnlyStrayByesUnseat
  <2>2. CASE ~strayBye
    <3>1. ASSUME NEW p \in Conns, Member(p)' PROVE Seated(p, conn[p].room)'
      <4>1. Member(p)
            BY <3>1
      <4>2. Seated(p, conn[p].room) /\ conn[p].room \in RoomNumbers
            BY <2>2, <4>1 DEF IInv, OnlyStrayByesUnseat, MemberKeepsSeat, Member, TypeOK, ConnType
      <4> QED BY <1>1, <4>2
    <3> QED BY <3>1 DEF OnlyStrayByesUnseat, MemberKeepsSeat
  <2> QED BY <2>1, <2>2
<1> QED BY <1>2, <1>3, <1>4, <1>5 DEF SeatsOK

\* With rooms, queues and meetings as they were, only the frames in hand matter.
LEMMA BudgetFrame ==
    ASSUME IInv, UNCHANGED rooms, \A q \in Conns : conn'[q].size = conn[q].size
    PROVE  BudgetOK'
BY HubAssumption DEF IInv, BudgetOK, Held, TypeOK

LEMMA MetFrame ==
    ASSUME IInv, UNCHANGED met,
           \A n \in RoomNumbers : /\ rooms'[n].live = rooms[n].live
                                  /\ rooms'[n].offerer = rooms[n].offerer
                                  /\ rooms'[n].joiner = rooms[n].joiner,
           \A q \in Conns : \A i \in DOMAIN queue'[q] :
              \/ queue'[q][i].from = None
              \/ <<queue'[q][i].from, q>> \in met
    PROVE  MetOK'
<1>1. FrameOnlyToPartner'
      BY DEF FrameOnlyToPartner
<1>2. ASSUME NEW n \in RoomNumbers, rooms'[n].live, rooms'[n].offerer # None, rooms'[n].joiner # None
      PROVE  /\ <<rooms'[n].offerer, rooms'[n].joiner>> \in met'
             /\ <<rooms'[n].joiner, rooms'[n].offerer>> \in met'
      BY <1>2 DEF IInv, MetOK
<1> QED BY <1>1, <1>2 DEF MetOK

QueueType == Seq([from : Conns \cup {None}, size : Nat])

\* Every queued relay frame is for someone its sender has met.
Delivers(qs) == \A q \in Conns : \A i \in DOMAIN qs[q] :
                    qs[q][i].from # None => <<qs[q][i].from, q>> \in met

\* What a step of p's goroutines does to another connection q at most.
Bystander(q) ==
    /\ conn'[q].room = conn[q].room /\ conn'[q].role = conn[q].role
    /\ conn'[q].phase = conn[q].phase /\ conn'[q].next = conn[q].next
    /\ conn'[q].out = conn[q].out /\ conn'[q].other = conn[q].other
    /\ conn'[q].size = conn[q].size /\ conn'[q].credit >= conn[q].credit
    /\ conn[q].done => conn'[q].done

\* The steps that leave the seats alone.
LEMMA RelayStep ==
    ASSUME IInv, UNCHANGED <<met, strayBye>>, NEW p \in Conns, TypeOK', BudgetOK',
           \A n \in RoomNumbers : /\ rooms'[n].live = rooms[n].live
                                  /\ rooms'[n].offerer = rooms[n].offerer
                                  /\ rooms'[n].joiner = rooms[n].joiner
                                  /\ ~rooms[n].live => rooms'[n] = rooms[n],
           Delivers(queue'),
           \A q \in Conns \ {p} : Bystander(q),
           conn'[p].room = conn[p].room, conn'[p].role = conn[p].role,
           Out(p)' => Out(p), Member(p)' => Member(p), ReaderOK(p)'
    PROVE  IInv'
<1>2. \A q \in Conns : /\ conn'[q].room = conn[q].room
                       /\ conn'[q].role = conn[q].role
      BY DEF Bystander
<1>3. ASSUME NEW q \in Conns, q # p PROVE (Out(q)' => Out(q)) /\ (Member(q)' => Member(q))
      BY <1>3 DEF Bystander, Out, Member
<1>4. SeatsOK' /\ OnlyStrayByesUnseat'
      BY <1>2, <1>3, SeatsFrame
<1>6. MetOK'
      BY MetFrame DEF Delivers
<1>7. ASSUME NEW q \in Conns, q # p PROVE ReaderOK(q)'
  <2>1. ReaderOK(q) /\ Bystander(q)
        BY <1>7 DEF IInv, ReadersOK
  <2>2. conn[q].credit \in Nat /\ conn'[q].credit \in Nat /\ conn[q].size \in Nat
        BY DEF IInv, TypeOK, ConnType
  <2> QED BY <2>1, <2>2 DEF ReaderOK, Bystander
<1> QED BY <1>4, <1>6, <1>7 DEF IInv, ReadersOK

\* The steps that leave the rooms alone, and the frames in hand.
LEMMA ReaderStep ==
    ASSUME IInv, UNCHANGED <<rooms, met, strayBye>>, NEW p \in Conns,
           conn' \in [Conns -> ConnType],
           queue' \in [Conns -> QueueType], Delivers(queue'),
           \A q \in Conns \ {p} : Bystander(q),
           conn'[p].room = conn[p].room, conn'[p].role = conn[p].role,
           conn'[p].size = conn[p].size,
           Out(p)' => Out(p), Member(p)' => Member(p), ReaderOK(p)'
    PROVE  IInv'
<1>1. TypeOK'
      BY DEF IInv, TypeOK, QueueType
<1>2. \A q \in Conns : /\ conn'[q].room = conn[q].room
                       /\ conn'[q].role = conn[q].role
                       /\ conn'[q].size = conn[q].size
      BY DEF Bystander
<1>3. BudgetOK'
      BY <1>2, BudgetFrame
<1> QED BY <1>1, <1>3, RelayStep

\* An unchanged connection is a bystander, and an unchanged queue delivers.
LEMMA Unmoved ==
    ASSUME IInv
    PROVE  /\ \A q \in Conns : conn'[q] = conn[q] => Bystander(q)
           /\ Delivers(queue)
           /\ queue \in [Conns -> QueueType] /\ conn \in [Conns -> ConnType]
           /\ \A q \in Conns : conn[q].credit \in Nat
<1>1. conn \in [Conns -> ConnType] /\ queue \in [Conns -> QueueType]
      BY DEF IInv, TypeOK, QueueType
<1>2. \A q \in Conns : conn[q].credit \in Nat
      BY <1>1, HubAssumption DEF ConnType
<1>3. \A q \in Conns : conn'[q] = conn[q] => Bystander(q)
      BY <1>2 DEF Bystander
<1>4. Delivers(queue)
      BY DEF IInv, MetOK, FrameOnlyToPartner, Delivers
<1> QED BY <1>1, <1>2, <1>3, <1>4

-----------------------------------------------------------------------------
\* One lemma per action.

LEMMA ConnectIInv == ASSUME IInv, NEW p \in Conns, Connect(p) PROVE IInv'
<1>0. conn[p] \in ConnType /\ ReaderOK(p)
      BY DEF IInv, TypeOK, ReadersOK
<1> DEFINE r == [conn[p] EXCEPT !.phase = "serving"]
<1>1. conn' = [conn EXCEPT ![p] = r] /\ conn[p].phase = "new"
      BY DEF Connect
<1>2. /\ r \in ConnType /\ r.phase = "serving" /\ r.room = conn[p].room /\ r.role = conn[p].role
      /\ r.size = conn[p].size
      BY <1>0 DEF ConnType, Phases
<1> HIDE DEF r
<1>3. /\ conn' \in [Conns -> ConnType] /\ conn'[p] = r
      /\ \A q \in Conns \ {p} : conn'[q] = conn[q]
      BY <1>1, <1>2, Unmoved
<1>4. ReaderOK(p)' /\ ~Out(p)'
      BY <1>0, <1>1, <1>2, <1>3 DEF ReaderOK, Out, Pending
<1>5. ~Member(p)'
      BY <1>0, <1>1, <1>2, <1>3 DEF Member, ReaderOK
<1> QED BY <1>2, <1>3, <1>4, <1>5, Unmoved, ReaderStep DEF Connect, history

\* A reader in its loop hands out notices, the state of the others is as in c.
LEMMA NotifyIInv ==
    ASSUME IInv, NEW p \in Conns, conn[p].phase = "serving",
           NEW c \in [Conns -> ConnType], NEW to \in Seq(Conns), NEW next \in {"serving", "leaving"},
           /\ c[p].room = conn[p].room /\ c[p].role = conn[p].role
           /\ c[p].size = conn[p].size /\ c[p].done = conn[p].done,
           \A q \in Conns \ {p} : c[q] = conn[q] \/ \E g \in Nat : c[q] = [conn[q] EXCEPT !.credit = @ + g],
           conn' = Notify(c, p, to, next),
           UNCHANGED <<rooms, queue, met, strayBye>>
    PROVE  IInv'
<1>0. conn[p] \in ConnType /\ ReaderOK(p) /\ \A q \in Conns : conn[q] \in ConnType
      BY DEF IInv, TypeOK, ReadersOK
<1>1. /\ conn' \in [Conns -> ConnType]
      /\ \A q \in Conns : q # p => conn'[q] = c[q]
      /\ conn'[p].room = c[p].room /\ conn'[p].role = c[p].role
      /\ conn'[p].size = c[p].size
      /\ conn'[p].phase = IF to = <<>> THEN next ELSE "notifying"
      /\ conn'[p].next = next /\ conn'[p].out = to
      /\ conn'[p].done = (c[p].done \/ (to = <<>> /\ next # "serving"))
      BY NotifyEffect
<1>2. conn'[p].room = conn[p].room /\ conn'[p].role = conn[p].role /\ conn'[p].size = conn[p].size
      BY <1>1
<1>3. ASSUME NEW q \in Conns \ {p} PROVE Bystander(q)
  <2>1. CASE c[q] = conn[q]
        BY <1>1, <2>1, Unmoved
  <2>2. ASSUME NEW g \in Nat, c[q] = [conn[q] EXCEPT !.credit = @ + g] PROVE Bystander(q)
    <3>1. conn[q].credit \in Nat /\ conn'[q] = [conn[q] EXCEPT !.credit = @ + g]
          BY <1>1, <2>2, Unmoved
    <3> QED BY <1>0, <3>1 DEF Bystander, ConnType
  <2> QED BY <2>1, <2>2
<1>4. ~Out(p)'
      BY <1>1 DEF Out
<1>5. Member(p)' => Member(p)
      BY <1>1, <1>2 DEF Member
<1>6. ReaderOK(p)'
      BY <1>0, <1>1, <1>2 DEF ReaderOK, Pending
<1> QED BY <1>1, <1>2, <1>3, <1>4, <1>5, <1>6, Unmoved, ReaderStep

LEMMA RefuseIInv == ASSUME IInv, NEW p \in Conns, Refuse(p) PROVE IInv'
<1>0. conn[p] \in ConnType /\ ReaderOK(p)
      BY DEF IInv, TypeOK, ReadersOK
<1> DEFINE r == [conn[p] EXCEPT !.done = TRUE, !.phase = "leaving"]
<1>1. conn' = [conn EXCEPT ![p] = r] /\ conn[p].phase = "serving"
      BY <1>0 DEF Refuse, Leave, Reading, ConnType
<1>2. /\ r \in ConnType /\ r.phase = "leaving" /\ r.room = conn[p].room /\ r.role = conn[p].role
      /\ r.size = conn[p].size
      BY <1>0 DEF ConnType, Phases
<1> HIDE DEF r
<1>3. /\ conn' \in [Conns -> ConnType] /\ conn'[p] = r
      /\ \A q \in Conns \ {p} : conn'[q] = conn[q]
      BY <1>1, <1>2, Unmoved
<1>4. ReaderOK(p)' /\ ~Out(p)' /\ ~Member(p)'
      BY <1>0, <1>1, <1>2, <1>3 DEF ReaderOK, Out, Pending, Member
<1> QED BY <1>2, <1>3, <1>4, Unmoved, ReaderStep DEF Refuse, history

LEMMA ForwardIInv == ASSUME IInv, NEW p \in Conns, Forward(p) PROVE IInv'
<1>1. <<Partner(p)>> \in Seq(Conns)
      BY PartnerType DEF Forward, IInv
<1> QED BY <1>1, Unmoved, NotifyIInv DEF Forward, Reading, history

LEMMA ByeIInv == ASSUME IInv, NEW p \in Conns, Bye(p) PROVE IInv'
<1> DEFINE r == [conn[p] EXCEPT !.graceful = TRUE]
           c == [conn EXCEPT ![p] = r]
<1>1. One(Partner(p)) \in Seq(Conns)
      BY PartnerType, OneType DEF IInv
<1>2. conn[p] \in ConnType
      BY DEF IInv, TypeOK
<1>3. /\ r \in ConnType /\ r.room = conn[p].room /\ r.role = conn[p].role
      /\ r.size = conn[p].size /\ r.done = conn[p].done
      BY <1>2 DEF ConnType
<1>4. conn[p].phase = "serving" /\ conn' = Notify(c, p, One(Partner(p)), "leaving")
      BY DEF Bye, Reading
<1> HIDE DEF r
<1>5. c \in [Conns -> ConnType] /\ c[p] = r /\ \A q \in Conns \ {p} : c[q] = conn[q]
      BY <1>3, Unmoved
<1> HIDE DEF c
<1> QED BY <1>1, <1>3, <1>4, <1>5, NotifyIInv DEF Bye, history

LEMMA OpenRelayIInv == ASSUME IInv, NEW p \in Conns, OpenRelay(p) PROVE IInv'
<1> DEFINE r == [conn[p] EXCEPT !.open = TRUE]
           c == [conn EXCEPT ![p] = r]
           to == (IF conn[Partner(p)].open THEN <<p>> ELSE <<>>) \o <<Partner(p)>>
<1>1. to \in Seq(Conns)
      BY PartnerType DEF OpenRelay, IInv
<1>2. conn[p] \in ConnType
      BY DEF IInv, TypeOK
<1>3. /\ r \in ConnType /\ r.room = conn[p].room /\ r.role = conn[p].role
      /\ r.size = conn[p].size /\ r.done = conn[p].done
      BY <1>2 DEF ConnType
<1>4. conn[p].phase = "serving" /\ conn' = Notify(c, p, to, "serving")
      BY DEF OpenRelay, Reading
<1> HIDE DEF r
<1>5. c \in [Conns -> ConnType] /\ c[p] = r /\ \A q \in Conns \ {p} : c[q] = conn[q]
      BY <1>3, Unmoved
<1> HIDE DEF c, to
<1> QED BY <1>1, <1>3, <1>4, <1>5, NotifyIInv DEF OpenRelay, history

LEMMA NotOwnPartner == ASSUME IInv, NEW p \in Conns PROVE Partner(p) # p
<1> SUFFICES ASSUME Partner(p) = p PROVE FALSE
    OBVIOUS
<1> DEFINE n == conn[p].room
<1>1. Partner(p) # None
      BY HubAssumption
<1>2. n \in RoomNumbers /\ Seated(p, n) /\ rooms[n].offerer = p /\ rooms[n].joiner = p
      BY <1>1, PartnerSeat DEF IInv
<1>3. rooms[n][OtherRole(conn[p].role)] # p
      BY <1>2 DEF IInv, SeatsOK, SeatsAgree
<1> QED BY <1>2, <1>3 DEF OtherRole

LEMMA GrantRelayCreditIInv ==
    ASSUME IInv, NEW p \in Conns, NEW requested \in 1 .. Window, GrantRelayCredit(p, requested)
    PROVE  IInv'
<1> DEFINE q == Partner(p)
           g == Grant(q, requested)
           r == [conn[q] EXCEPT !.credit = @ + g]
           c == [conn EXCEPT ![q] = r]
<1>1. q \in Conns /\ q # p
      BY PartnerType, NotOwnPartner DEF GrantRelayCredit, IInv
<1>2. CASE g > 0
  <2>1. conn[q] \in ConnType /\ conn[q].credit \in 0 .. Window
        BY <1>1 DEF IInv, TypeOK, ConnType
  <2>2. g \in Nat /\ conn[q].credit + g \in 0 .. Window
        BY <1>2, <2>1, HubAssumption DEF Grant, Min
  <2>3. conn' = Notify(c, p, <<q>>, "serving") /\ conn[p].phase = "serving"
        BY <1>2 DEF GrantRelayCredit, Reading
  <2> HIDE DEF q, g
  <2>4. r \in ConnType
        BY <2>1, <2>2 DEF ConnType
  <2>5. /\ c \in [Conns -> ConnType] /\ c[p] = conn[p]
        /\ \A x \in Conns \ {p} : c[x] = conn[x] \/ c[x] = r
        /\ \A x \in Conns : x # q => c[x] = conn[x]
        BY <1>1, <2>4, Unmoved
  <2>6. \A x \in Conns \ {p} : c[x] = conn[x] \/ \E y \in Nat : c[x] = [conn[x] EXCEPT !.credit = @ + y]
        BY <2>2, <2>5
  <2>7. <<q>> \in Seq(Conns) /\ UNCHANGED <<rooms, queue, met, strayBye>>
        BY <1>1 DEF GrantRelayCredit, history
  <2> HIDE DEF c
  <2> QED BY <2>3, <2>5, <2>6, <2>7, NotifyIInv
<1>3. CASE ~(g > 0)
  <2>1. UNCHANGED vars
        BY <1>3 DEF GrantRelayCredit, vars, history
  <2>2. Out(p)' = Out(p) /\ Member(p)' = Member(p) /\ ReaderOK(p)'
        BY <2>1 DEF vars, Out, Member, ReaderOK, IInv, ReadersOK
  <2> QED BY <2>1, <2>2, Unmoved, ReaderStep DEF vars
<1> QED BY <1>2, <1>3

Frame == [from : Conns \cup {None}, size : Nat]

LEMMA AppendSeq ==
    ASSUME NEW s \in Seq(Frame), NEW m \in Frame
    PROVE  /\ Append(s, m) \in Seq(Frame)
           /\ \A i \in DOMAIN Append(s, m) :
                 \/ Append(s, m)[i] = m
                 \/ i \in DOMAIN s /\ Append(s, m)[i] = s[i]
<1> HIDE DEF Frame
<1> QED OBVIOUS

LEMMA TailSeq ==
    ASSUME NEW s \in Seq(Frame), s # <<>>
    PROVE  /\ Tail(s) \in Seq(Frame) /\ Head(s) \in Frame
           /\ \A i \in DOMAIN Tail(s) : i + 1 \in DOMAIN s /\ Tail(s)[i] = s[i + 1]
<1> HIDE DEF Frame
<1> QED OBVIOUS

LEMMA QueueUpdate ==
    ASSUME IInv, NEW q \in Conns, NEW s \in Seq(Frame),
           \A i \in DOMAIN s : s[i].from # None => <<s[i].from, q>> \in met,
           queue' = [queue EXCEPT ![q] = s]
    PROVE  queue' \in [Conns -> QueueType] /\ Delivers(queue')
<1>1. queue \in [Conns -> QueueType] /\ Delivers(queue) /\ s \in QueueType
      BY Unmoved DEF QueueType, Frame
<1>2. queue' \in [Conns -> QueueType] /\ queue'[q] = s /\ \A x \in Conns : x # q => queue'[x] = queue[x]
      BY <1>1
<1> QED BY <1>1, <1>2 DEF Delivers

LEMMA AppendDelivers ==
    ASSUME IInv, NEW q \in Conns, NEW m \in Frame,
           m.from # None => <<m.from, q>> \in met,
           queue' = [queue EXCEPT ![q] = Append(@, m)]
    PROVE  queue' \in [Conns -> QueueType] /\ Delivers(queue')
<1> DEFINE s == Append(queue[q], m)
<1>1. queue[q] \in Seq(Frame) /\ Delivers(queue)
      BY Unmoved DEF QueueType, Frame
<1>2. /\ s \in Seq(Frame)
      /\ \A i \in DOMAIN s : s[i] = m \/ (i \in DOMAIN queue[q] /\ s[i] = queue[q][i])
      BY <1>1, AppendSeq
<1>3. queue' = [queue EXCEPT ![q] = s]
      OBVIOUS
<1> HIDE DEF s
<1>4. \A i \in DOMAIN s : s[i].from # None => <<s[i].from, q>> \in met
      BY <1>1, <1>2 DEF Delivers
<1> QED BY <1>2, <1>3, <1>4, QueueUpdate

LEMMA TailDelivers ==
    ASSUME IInv, NEW q \in Conns, queue[q] # <<>>, queue' = [queue EXCEPT ![q] = Tail(@)]
    PROVE  queue' \in [Conns -> QueueType] /\ Delivers(queue') /\ Head(queue[q]).size \in Nat
<1> DEFINE s == Tail(queue[q])
<1>1. queue[q] \in Seq(Frame) /\ Delivers(queue)
      BY Unmoved DEF QueueType, Frame
<1>2. /\ s \in Seq(Frame) /\ Head(queue[q]) \in Frame
      /\ \A i \in DOMAIN s : i + 1 \in DOMAIN queue[q] /\ s[i] = queue[q][i + 1]
      BY <1>1, TailSeq
<1>3. queue' = [queue EXCEPT ![q] = s]
      OBVIOUS
<1> HIDE DEF s
<1>4. \A i \in DOMAIN s : s[i].from # None => <<s[i].from, q>> \in met
      BY <1>1, <1>2 DEF Delivers
<1>5. Head(queue[q]).size \in Nat
      BY <1>2 DEF Frame
<1> QED BY <1>2, <1>3, <1>4, <1>5, QueueUpdate

\* c differs from conn in the writers' bytes and in connections closed by it.
Kept(c) ==
    \A x \in Conns : /\ c[x].room = conn[x].room /\ c[x].role = conn[x].role
                     /\ c[x].phase = conn[x].phase /\ c[x].next = conn[x].next
                     /\ c[x].out = conn[x].out /\ c[x].other = conn[x].other
                     /\ c[x].size = conn[x].size /\ c[x].credit = conn[x].credit
                     /\ conn[x].done => c[x].done

LEMMA SetQueued ==
    ASSUME IInv, NEW q \in Conns, NEW k \in Int, NEW c, c = [conn EXCEPT ![q].queued = k]
    PROVE  c \in [Conns -> ConnType] /\ Kept(c)
<1> DEFINE r == [conn[q] EXCEPT !.queued = k]
<1>0. conn[q] \in ConnType /\ c = [conn EXCEPT ![q] = r]
      BY DEF IInv, TypeOK
<1>1. /\ r \in ConnType
      /\ r.room = conn[q].room /\ r.role = conn[q].role /\ r.phase = conn[q].phase
      /\ r.next = conn[q].next /\ r.out = conn[q].out /\ r.other = conn[q].other
      /\ r.size = conn[q].size /\ r.credit = conn[q].credit /\ r.done = conn[q].done
      BY <1>0 DEF ConnType
<1> HIDE DEF r
<1>2. c \in [Conns -> ConnType] /\ c[q] = r /\ \A x \in Conns : x # q => c[x] = conn[x]
      BY <1>0, <1>1, Unmoved
<1> QED BY <1>1, <1>2 DEF Kept

LEMMA SetDone ==
    ASSUME IInv, NEW q \in Conns, NEW c, c = [conn EXCEPT ![q].done = TRUE]
    PROVE  c \in [Conns -> ConnType] /\ Kept(c)
<1> DEFINE r == [conn[q] EXCEPT !.done = TRUE]
<1>0. conn[q] \in ConnType /\ c = [conn EXCEPT ![q] = r]
      BY DEF IInv, TypeOK
<1>1. /\ r \in ConnType
      /\ r.room = conn[q].room /\ r.role = conn[q].role /\ r.phase = conn[q].phase
      /\ r.next = conn[q].next /\ r.out = conn[q].out /\ r.other = conn[q].other
      /\ r.size = conn[q].size /\ r.credit = conn[q].credit /\ r.done
      BY <1>0 DEF ConnType
<1> HIDE DEF r
<1>2. c \in [Conns -> ConnType] /\ c[q] = r /\ \A x \in Conns : x # q => c[x] = conn[x]
      BY <1>0, <1>1, Unmoved
<1> QED BY <1>1, <1>2 DEF Kept

\* The reader of p takes a step, the others are as in c.
LEMMA KeptStep ==
    ASSUME IInv, NEW p \in Conns, NEW c, Kept(c),
           conn' \in [Conns -> ConnType], \A q \in Conns : q # p => conn'[q] = c[q],
           conn'[p].room = c[p].room, conn'[p].role = c[p].role, conn'[p].size = c[p].size,
           Out(p)' => Out(p), Member(p)' => Member(p), ReaderOK(p)',
           queue' \in [Conns -> QueueType], Delivers(queue'),
           UNCHANGED <<rooms, met, strayBye>>
    PROVE  IInv'
<1>1. ASSUME NEW q \in Conns \ {p} PROVE Bystander(q)
      BY Unmoved DEF Bystander, Kept
<1>2. conn'[p].room = conn[p].room /\ conn'[p].role = conn[p].role /\ conn'[p].size = conn[p].size
      BY DEF Kept
<1> QED BY <1>1, <1>2, ReaderStep

\* A reader that hands out its notices goes on to the next one, or to the
\* phase after them; the recipient's queue or done may have changed.
LEMMA HandOut ==
    ASSUME IInv, NEW p \in Conns, conn[p].phase = "notifying",
           NEW c \in [Conns -> ConnType], Kept(c), conn' = Notified(c, p),
           queue' \in [Conns -> QueueType], Delivers(queue'),
           UNCHANGED <<rooms, met, strayBye>>
    PROVE  IInv'
<1>0. ReaderOK(p) /\ conn[p].out \in Seq(Conns) /\ conn[p].next \in {"serving", "leaving", "closing"}
      BY DEF IInv, TypeOK, ReadersOK, ConnType
<1> DEFINE to == Tail(conn[p].out)
           next == conn[p].next
<1>1. conn[p].out # <<>> /\ to \in Seq(Conns)
      BY <1>0 DEF ReaderOK
<1>k. /\ c[p].room = conn[p].room /\ c[p].done \in BOOLEAN /\ (conn[p].done => c[p].done)
      /\ c[p].next = conn[p].next /\ c[p].out = conn[p].out /\ c[p].size = conn[p].size
      BY DEF Kept, ConnType
<1>2. conn' = Notify(c, p, to, next)
      BY <1>k DEF Notified
<1>n. next \in {"serving", "leaving", "closing"} /\ next = conn[p].next
      BY <1>0
<1> HIDE DEF to, next
<1>3. /\ conn' \in [Conns -> ConnType]
      /\ \A q \in Conns : q # p => conn'[q] = c[q]
      /\ conn'[p].room = c[p].room /\ conn'[p].role = c[p].role
      /\ conn'[p].size = c[p].size
      /\ conn'[p].phase = IF to = <<>> THEN next ELSE "notifying"
      /\ conn'[p].next = next /\ conn'[p].out = to
      /\ conn'[p].done = (c[p].done \/ (to = <<>> /\ next # "serving"))
      BY <1>1, <1>2, <1>n, NotifyEffect
<1>5. Out(p)' => Out(p)
      BY <1>3, <1>n DEF Out
<1>6. Member(p)' => Member(p)
      BY <1>3, <1>k, <1>n DEF Member
<1>7. ReaderOK(p)'
      BY <1>0, <1>3, <1>k, <1>n DEF ReaderOK, Pending
<1> QED BY <1>3, <1>5, <1>6, <1>7, KeptStep

LEMMA EnqueueIInv == ASSUME IInv, NEW p \in Conns, Enqueue(p) PROVE IInv'
<1> DEFINE q == Head(conn[p].out)
           m == [from |-> None, size |-> ControlBytes]
<1>0. ReaderOK(p) /\ conn[p].out \in Seq(Conns) /\ conn[p].phase = "notifying"
      BY DEF IInv, TypeOK, ReadersOK, ConnType, Enqueue
<1>1. q \in Conns
      BY <1>0 DEF ReaderOK
<1>2. conn[q].queued + ControlBytes \in Int
      BY <1>1 DEF IInv, TypeOK, ConnType, ControlBytes
<1>3. UNCHANGED <<rooms, met, strayBye>>
      BY DEF Enqueue, history
<1>m. m \in Frame /\ m.from = None
      BY DEF Frame, ControlBytes
<1>4. CASE /\ Accepts(q, ControlBytes)
           /\ queue' = [queue EXCEPT ![q] = Append(@, m)]
           /\ conn' = Notified([conn EXCEPT ![q].queued = @ + ControlBytes], p)
  <2> DEFINE c == [conn EXCEPT ![q].queued = @ + ControlBytes]
  <2> HIDE DEF m, q
  <2>1. queue' \in [Conns -> QueueType] /\ Delivers(queue')
        BY <1>1, <1>4, <1>m, AppendDelivers
  <2>2. c \in [Conns -> ConnType] /\ Kept(c)
        BY <1>1, <1>2, SetQueued
  <2> HIDE DEF c
  <2> QED BY <1>0, <1>3, <1>4, <2>1, <2>2, HandOut DEF c
<1>5. CASE /\ Rejects(q, ControlBytes)
           /\ conn' = Notified([conn EXCEPT ![q].done = TRUE], p)
           /\ UNCHANGED queue
  <2> DEFINE c == [conn EXCEPT ![q].done = TRUE]
  <2> HIDE DEF m, q
  <2>1. c \in [Conns -> ConnType] /\ Kept(c)
        BY <1>1, SetDone
  <2> HIDE DEF c
  <2> QED BY <1>0, <1>3, <1>5, <2>1, Unmoved, HandOut DEF c
<1> QED BY <1>4, <1>5 DEF Enqueue

\* forwardRelay: the frame fits the budget next to the other's frame in hand.
LEMMA ForwardRelayIInv ==
    ASSUME IInv, NEW p \in Conns, NEW size \in 1 .. MaxFrame, ForwardRelay(p, size)
    PROVE  IInv'
<1> DEFINE q == Partner(p)
           n == conn[p].room
           r == [conn[p] EXCEPT !.phase = "enqueueing", !.other = q, !.size = size]
<1>0. conn[p] \in ConnType /\ ReaderOK(p) /\ size \in Nat
      BY HubAssumption DEF IInv, TypeOK, ReadersOK
<1>1. /\ conn' = [conn EXCEPT ![p] = r] /\ conn[p].phase = "serving"
      /\ conn[p].credit >= size /\ size <= Session - rooms[n].bytes /\ q # None
      /\ UNCHANGED <<rooms, queue, met, strayBye>>
      BY <1>0 DEF ForwardRelay, MayForward, Reading, ConnType, history
<1>2. /\ n \in RoomNumbers /\ Seated(p, n) /\ q \in Conns /\ Seated(q, n) /\ q # p
      /\ \/ p = rooms[n].offerer /\ q = rooms[n].joiner
         \/ p = rooms[n].joiner /\ q = rooms[n].offerer
      BY <1>1, PartnerSeat, NotOwnPartner DEF IInv
<1>3. <<p, q>> \in met
      BY <1>2, HubAssumption DEF IInv, MetOK, Seated
<1> HIDE DEF q
<1>4. /\ r \in ConnType /\ r.phase = "enqueueing" /\ r.room = n /\ r.role = conn[p].role
      /\ r.size = size /\ r.other = q /\ r.credit = conn[p].credit /\ r.done = conn[p].done
      BY <1>0, <1>2 DEF ConnType, Phases
<1> HIDE DEF r, n
<1>5. /\ conn' \in [Conns -> ConnType] /\ conn'[p] = r
      /\ \A x \in Conns \ {p} : conn'[x] = conn[x] /\ Bystander(x)
      BY <1>1, <1>4, Unmoved
<1>6. ReaderOK(p)'
      BY <1>0, <1>1, <1>2, <1>3, <1>4, <1>5, HubAssumption DEF ReaderOK, Pending
<1>7. ~Out(p)' /\ (Member(p)' => Member(p))
      BY <1>1, <1>4, <1>5 DEF Out, Member, n
<1>8. TypeOK'
      BY <1>1, <1>5 DEF IInv, TypeOK
<1>9. BudgetOK'
  <2> SUFFICES ASSUME NEW m \in RoomNumbers
               PROVE  rooms[m].bytes + Held(rooms[m].offerer)' + Held(rooms[m].joiner)' <= Session + MaxFrame
      BY <1>1 DEF BudgetOK, Held
  <2>0. /\ rooms[m].bytes \in Nat /\ rooms[m].offerer \in Conns \cup {None}
        /\ rooms[m].joiner \in Conns \cup {None} /\ Session \in Nat /\ MaxFrame \in Nat
        BY HubAssumption DEF IInv, TypeOK
  <2>1. CASE m = n
    <3>1. conn'[p].size = size /\ conn'[q].size = conn[q].size
          BY <1>2, <1>4, <1>5
    <3>2. conn[q].size \in Nat /\ conn[q].size <= MaxFrame
          BY <1>2 DEF IInv, ReadersOK, ReaderOK, TypeOK, ConnType
    <3>3. CASE p = rooms[n].offerer /\ q = rooms[n].joiner
      <4>1. Held(rooms[m].offerer)' = size /\ Held(rooms[m].joiner)' = conn[q].size
            BY <1>1, <1>2, <2>1, <3>1, <3>3, HubAssumption DEF Held
      <4> QED BY <1>0, <1>1, <2>0, <2>1, <3>2, <4>1
    <3>4. CASE p = rooms[n].joiner /\ q = rooms[n].offerer
      <4>1. Held(rooms[m].joiner)' = size /\ Held(rooms[m].offerer)' = conn[q].size
            BY <1>1, <1>2, <2>1, <3>1, <3>4, HubAssumption DEF Held
      <4> QED BY <1>0, <1>1, <2>0, <2>1, <3>2, <4>1
    <3> QED BY <1>2, <3>3, <3>4
  <2>2. CASE m # n
    <3>1. ~Seated(p, m)
          BY <2>2 DEF IInv, SeatsOK, SeatsAgree, n
    <3>2. rooms[m].offerer # p /\ rooms[m].joiner # p
          BY <3>1, HubAssumption DEF IInv, SeatsOK, Seated, NoRoom
    <3>3. Held(rooms[m].offerer)' = Held(rooms[m].offerer) /\ Held(rooms[m].joiner)' = Held(rooms[m].joiner)
          BY <1>5, <1>1, <2>0, <3>2 DEF Held
    <3> QED BY <3>3 DEF IInv, BudgetOK
  <2> QED BY <2>1, <2>2
<1> QED BY <1>1, <1>4, <1>5, <1>6, <1>7, <1>8, <1>9, Unmoved, RelayStep DEF n

\* Nobody is named in a room that is not the one it has.
LEMMA Elsewhere ==
    ASSUME IInv, NEW p \in Conns, NEW m \in RoomNumbers, m # conn[p].room
    PROVE  rooms[m].offerer # p /\ rooms[m].joiner # p
<1>1. ~Seated(p, m)
      BY DEF IInv, SeatsOK, SeatsAgree
<1> QED BY <1>1, HubAssumption DEF IInv, SeatsOK, Seated, NoRoom

LEMMA HeldType ==
    ASSUME TypeOK, NEW x \in Conns \cup {None} PROVE Held(x) \in Nat
BY DEF TypeOK, ConnType, Held

\* A step that relays nothing and after which no seat has more in hand.
LEMMA BudgetLess ==
    ASSUME IInv, TypeOK',
           \A n \in RoomNumbers : /\ rooms'[n].bytes <= rooms[n].bytes
                                  /\ Held(rooms[n].offerer)' <= Held(rooms[n].offerer)
                                  /\ Held(rooms[n].joiner)' <= Held(rooms[n].joiner)
    PROVE  BudgetOK'
<1> SUFFICES ASSUME NEW n \in RoomNumbers
             PROVE  rooms'[n].bytes + Held(rooms[n].offerer)' + Held(rooms[n].joiner)' <= Session + MaxFrame
    BY DEF BudgetOK
<1>1. /\ rooms[n].bytes \in Nat /\ rooms'[n].bytes \in Nat /\ Session + MaxFrame \in Nat
      /\ rooms[n].offerer \in Conns \cup {None} /\ rooms[n].joiner \in Conns \cup {None}
      /\ rooms'[n].offerer \in Conns \cup {None} /\ rooms'[n].joiner \in Conns \cup {None}
      BY HubAssumption DEF IInv, TypeOK
<1>2. Held(rooms[n].offerer) \in Nat /\ Held(rooms[n].joiner) \in Nat
      BY <1>1, HeldType DEF IInv
<1>3. Held(rooms[n].offerer)' \in Nat /\ Held(rooms[n].joiner)' \in Nat
      BY <1>1 DEF Held, TypeOK, ConnType
<1>4. rooms[n].bytes + Held(rooms[n].offerer) + Held(rooms[n].joiner) <= Session + MaxFrame
      BY DEF IInv, BudgetOK
<1>5. /\ rooms'[n].bytes <= rooms[n].bytes
      /\ Held(rooms[n].offerer)' <= Held(rooms[n].offerer)
      /\ Held(rooms[n].joiner)' <= Held(rooms[n].joiner)
      OBVIOUS
<1> QED BY <1>1, <1>2, <1>3, <1>4, <1>5

\* Only the reader's own record changes.
LEMMA OwnStep ==
    ASSUME IInv, NEW p \in Conns, NEW r \in ConnType, conn' = [conn EXCEPT ![p] = r],
           r.room = conn[p].room, r.role = conn[p].role, r.size = conn[p].size,
           Out(p)' => Out(p), Member(p)' => Member(p), ReaderOK(p)',
           queue' \in [Conns -> QueueType], Delivers(queue'),
           UNCHANGED <<rooms, met, strayBye>>
    PROVE  IInv'
<1>1. conn' \in [Conns -> ConnType] /\ conn'[p] = r /\ \A q \in Conns : q # p => conn'[q] = conn[q]
      BY Unmoved
<1>2. \A q \in Conns \ {p} : Bystander(q)
      BY <1>1, Unmoved
<1> QED BY <1>1, <1>2, ReaderStep

\* The writer's own steps: what the reader and the hub look at stays.
LEMMA WriterStep ==
    ASSUME IInv, NEW p \in Conns, NEW r \in ConnType, conn' = [conn EXCEPT ![p] = r],
           /\ r.room = conn[p].room /\ r.role = conn[p].role /\ r.size = conn[p].size
           /\ r.phase = conn[p].phase /\ r.next = conn[p].next /\ r.out = conn[p].out
           /\ r.other = conn[p].other /\ r.credit = conn[p].credit
           /\ conn[p].done => r.done,
           queue' \in [Conns -> QueueType], Delivers(queue'),
           UNCHANGED <<rooms, met, strayBye>>
    PROVE  IInv'
<1>0. ReaderOK(p)
      BY DEF IInv, ReadersOK
<1>1. conn'[p] = r
      BY Unmoved
<1>2. ReaderOK(p)'
      BY <1>0, <1>1 DEF ReaderOK
<1>3. (Out(p)' => Out(p)) /\ (Member(p)' => Member(p))
      BY <1>1 DEF Out, Member
<1> QED BY <1>2, <1>3, OwnStep

LEMMA WriteFrameIInv == ASSUME IInv, NEW p \in Conns, WriteFrame(p) PROVE IInv'
<1> DEFINE k == conn[p].queued - Head(queue[p]).size
           r == [conn[p] EXCEPT !.queued = k]
<1>0. conn[p] \in ConnType
      BY DEF IInv, TypeOK
<1>1. queue' \in [Conns -> QueueType] /\ Delivers(queue') /\ Head(queue[p]).size \in Nat
      BY TailDelivers DEF WriteFrame
<1>2. k \in Int
      BY <1>0, <1>1 DEF ConnType
<1>3. conn' = [conn EXCEPT ![p] = r] /\ UNCHANGED <<rooms, met, strayBye>>
      BY DEF WriteFrame, history
<1> HIDE DEF k
<1>4. /\ r \in ConnType
      /\ r.room = conn[p].room /\ r.role = conn[p].role /\ r.size = conn[p].size
      /\ r.phase = conn[p].phase /\ r.next = conn[p].next /\ r.out = conn[p].out
      /\ r.other = conn[p].other /\ r.credit = conn[p].credit
      /\ conn[p].done => r.done
      BY <1>0, <1>2 DEF ConnType
<1> HIDE DEF r
<1> QED BY <1>1, <1>3, <1>4, WriterStep

LEMMA WriteFailsIInv == ASSUME IInv, NEW p \in Conns, WriteFails(p) PROVE IInv'
<1> DEFINE k == conn[p].queued - Head(queue[p]).size
           r == [conn[p] EXCEPT !.queued = k, !.done = TRUE, !.closed = TRUE]
<1>0. conn[p] \in ConnType
      BY DEF IInv, TypeOK
<1>1. queue' \in [Conns -> QueueType] /\ Delivers(queue') /\ Head(queue[p]).size \in Nat
      BY TailDelivers DEF WriteFails
<1>2. k \in Int
      BY <1>0, <1>1 DEF ConnType
<1>3. conn' = [conn EXCEPT ![p] = r] /\ UNCHANGED <<rooms, met, strayBye>>
      BY <1>0 DEF WriteFails, history, ConnType
<1> HIDE DEF k
<1>4. /\ r \in ConnType
      /\ r.room = conn[p].room /\ r.role = conn[p].role /\ r.size = conn[p].size
      /\ r.phase = conn[p].phase /\ r.next = conn[p].next /\ r.out = conn[p].out
      /\ r.other = conn[p].other /\ r.credit = conn[p].credit
      /\ conn[p].done => r.done
      BY <1>0, <1>2 DEF ConnType
<1> HIDE DEF r
<1> QED BY <1>1, <1>3, <1>4, WriterStep

LEMMA WriterEndsIInv == ASSUME IInv, NEW p \in Conns, WriterEnds(p) PROVE IInv'
<1> DEFINE r == [conn[p] EXCEPT !.closed = TRUE]
<1>0. conn[p] \in ConnType
      BY DEF IInv, TypeOK
<1>1. conn' = [conn EXCEPT ![p] = r] /\ UNCHANGED <<rooms, queue, met, strayBye>>
      BY DEF WriterEnds, history
<1>2. /\ r \in ConnType
      /\ r.room = conn[p].room /\ r.role = conn[p].role /\ r.size = conn[p].size
      /\ r.phase = conn[p].phase /\ r.next = conn[p].next /\ r.out = conn[p].out
      /\ r.other = conn[p].other /\ r.credit = conn[p].credit
      /\ conn[p].done => r.done
      BY <1>0 DEF ConnType
<1> HIDE DEF r
<1> QED BY <1>1, <1>2, Unmoved, WriterStep

LEMMA ReadEndsIInv == ASSUME IInv, NEW p \in Conns, ReadEnds(p) PROVE IInv'
<1> DEFINE r == [conn[p] EXCEPT !.phase = "leaving"]
<1>0. conn[p] \in ConnType /\ ReaderOK(p)
      BY DEF IInv, TypeOK, ReadersOK
<1>1. conn' = [conn EXCEPT ![p] = r] /\ UNCHANGED <<rooms, queue, met, strayBye>>
      BY DEF ReadEnds, history
<1>2. /\ r \in ConnType /\ r.phase = "leaving"
      /\ r.room = conn[p].room /\ r.role = conn[p].role /\ r.size = conn[p].size
      BY <1>0 DEF ConnType, Phases
<1> HIDE DEF r
<1>3. conn'[p] = r
      BY <1>1, Unmoved
<1>4. ReaderOK(p)' /\ ~Out(p)' /\ ~Member(p)'
      BY <1>0, <1>2, <1>3 DEF ReaderOK, Out, Pending, Member
<1> QED BY <1>1, <1>2, <1>4, Unmoved, OwnStep

LEMMA GoneIInv == ASSUME IInv, NEW p \in Conns, Gone(p) PROVE IInv'
<1> DEFINE zero == 0
           r == [conn[p] EXCEPT !.phase = "gone", !.queued = zero]
           s == <<>>
<1>0. conn[p] \in ConnType /\ ReaderOK(p)
      BY DEF IInv, TypeOK, ReadersOK
<1>1. /\ conn' = [conn EXCEPT ![p] = r] /\ UNCHANGED <<rooms, met, strayBye>>
      /\ conn[p].phase = "closing" /\ queue' = [queue EXCEPT ![p] = s]
      BY <1>0 DEF Gone, history, ConnType
<1>2. /\ r \in ConnType /\ r.phase = "gone"
      /\ r.room = conn[p].room /\ r.role = conn[p].role /\ r.size = conn[p].size
  <2>0. "gone" \in Phases
        BY DEF Phases
  <2>1. zero \in Int
        OBVIOUS
  <2> HIDE DEF zero
  <2>2. r \in ConnType
        BY <1>0, <2>0, <2>1 DEF ConnType
  <2> QED BY <1>0, <2>2 DEF ConnType
<1> HIDE DEF r
<1>3. conn'[p] = r
      BY <1>1, Unmoved
<1>4. ReaderOK(p)' /\ Out(p) /\ ~Member(p)'
      BY <1>0, <1>1, <1>2, <1>3 DEF ReaderOK, Out, Pending, Member
<1>5. s \in Seq(Frame) /\ DOMAIN s = {}
  <2>1. s \in Seq(Frame) /\ Len(s) = 0
        OBVIOUS
  <2> HIDE DEF s
  <2> QED BY <2>1
<1> HIDE DEF s
<1>6. queue' \in [Conns -> QueueType] /\ Delivers(queue')
      BY <1>1, <1>5, QueueUpdate
<1> QED BY <1>1, <1>2, <1>4, <1>6, OwnStep

LEMMA RelayEnqueuedIInv == ASSUME IInv, NEW p \in Conns, RelayEnqueued(p) PROVE IInv'
<1> DEFINE q == conn[p].other
           m == [from |-> p, size |-> conn[p].size]
           k == conn[q].queued + conn[p].size
           c == [conn EXCEPT ![q].queued = k]
           r == [c[p] EXCEPT !.phase = "charging"]
<1>0. conn[p] \in ConnType /\ ReaderOK(p) /\ conn[p].phase = "enqueueing"
      BY DEF IInv, TypeOK, ReadersOK, RelayEnqueued
<1>1. q \in Conns /\ <<p, q>> \in met
      BY <1>0 DEF ReaderOK, Pending
<1>2. conn[p].size \in Nat /\ k \in Int
      BY <1>0, <1>1 DEF ConnType, IInv, TypeOK
<1>3. m \in Frame /\ m.from = p
      BY <1>2 DEF Frame
<1>4. /\ queue' = [queue EXCEPT ![q] = Append(@, m)] /\ conn' = [c EXCEPT ![p] = r]
      /\ UNCHANGED <<rooms, met, strayBye>>
      BY DEF RelayEnqueued, Recipient, history
<1> HIDE DEF q, m, k
<1>5. queue' \in [Conns -> QueueType] /\ Delivers(queue')
      BY <1>1, <1>3, <1>4, AppendDelivers
<1>6. c \in [Conns -> ConnType] /\ Kept(c)
      BY <1>1, <1>2, SetQueued
<1> HIDE DEF c
<1>7. /\ r \in ConnType /\ r.phase = "charging" /\ r.room = c[p].room /\ r.role = c[p].role
      /\ r.size = c[p].size /\ r.other = c[p].other /\ r.credit = c[p].credit
      /\ r.done = c[p].done
      BY <1>6 DEF ConnType, Phases
<1> HIDE DEF r
<1>8. /\ conn' \in [Conns -> ConnType] /\ conn'[p] = r
      /\ \A x \in Conns : x # p => conn'[x] = c[x]
      BY <1>4, <1>6, <1>7
<1>9. ReaderOK(p)' /\ ~Out(p)' /\ (Member(p)' => Member(p))
      BY <1>0, <1>4, <1>6, <1>7, <1>8 DEF ReaderOK, Out, Pending, Member, Kept
<1> QED BY <1>4, <1>5, <1>6, <1>7, <1>8, <1>9, KeptStep

LEMMA RelayRejectedIInv == ASSUME IInv, NEW p \in Conns, RelayRejected(p) PROVE IInv'
<1> DEFINE q == conn[p].other
           c == [conn EXCEPT ![q].done = TRUE]
           r == [c[p] EXCEPT !.done = TRUE, !.phase = "leaving"]
<1>0. ReaderOK(p) /\ conn[p].phase = "enqueueing"
      BY DEF IInv, ReadersOK, RelayRejected
<1>1. q \in Conns
      BY <1>0 DEF ReaderOK, Pending
<1>2. conn' = Leave(c, p) /\ UNCHANGED <<rooms, queue, met, strayBye>>
      BY DEF RelayRejected, history
<1> HIDE DEF q
<1>3. c \in [Conns -> ConnType] /\ Kept(c)
      BY <1>1, SetDone
<1> HIDE DEF c
<1>4. conn' = [c EXCEPT ![p] = r]
      BY <1>2, <1>3 DEF Leave, ConnType
<1>5. /\ r \in ConnType /\ r.phase = "leaving" /\ r.room = c[p].room /\ r.role = c[p].role
      /\ r.size = c[p].size
  <2>0. "leaving" \in Phases
        BY DEF Phases
  <2>1. r \in ConnType
        BY <1>3, <2>0 DEF ConnType
  <2> QED BY <1>3, <2>1 DEF ConnType
<1> HIDE DEF r
<1>6. /\ conn' \in [Conns -> ConnType] /\ conn'[p] = r
      /\ \A x \in Conns : x # p => conn'[x] = c[x]
      BY <1>3, <1>4, <1>5
<1>7. ReaderOK(p)' /\ ~Out(p)' /\ ~Member(p)'
      BY <1>0, <1>3, <1>5, <1>6 DEF ReaderOK, Out, Pending, Member, Kept
<1> QED BY <1>2, <1>3, <1>5, <1>6, <1>7, Unmoved, KeptStep

\* chargeRelay: the frame in hand becomes relayed bytes, or is forgotten.
LEMMA RelayChargeIInv == ASSUME IInv, NEW p \in Conns, RelayCharge(p) PROVE IInv'
<1> DEFINE idle == [conn[p] EXCEPT !.phase = "serving", !.other = None, !.size = 0]
           n == conn[p].room
<1>0. conn[p] \in ConnType /\ ReaderOK(p) /\ conn[p].phase = "charging"
      BY DEF IInv, TypeOK, ReadersOK, RelayCharge
<1>1. /\ idle \in ConnType /\ idle.phase = "serving" /\ idle.room = conn[p].room
      /\ idle.role = conn[p].role /\ idle.size = 0 /\ idle.done = conn[p].done
      /\ idle.credit = conn[p].credit
      BY <1>0 DEF ConnType, Phases
<1>2. /\ conn[p].size \in Nat /\ conn[p].credit \in 0 .. Window /\ conn[p].size <= conn[p].credit
      /\ conn[p].other \in Conns
      BY <1>0 DEF ConnType, ReaderOK, Pending
<1>u. UNCHANGED <<queue, met, strayBye>>
      BY DEF RelayCharge, history
<1>3. ASSUME NEW r \in ConnType, conn' = [conn EXCEPT ![p] = r],
             r.phase = "serving", r.room = conn[p].room, r.role = conn[p].role, r.size = 0,
             r.done = conn[p].done
      PROVE  /\ conn' \in [Conns -> ConnType] /\ conn'[p] = r
             /\ \A x \in Conns \ {p} : conn'[x] = conn[x] /\ Bystander(x)
             /\ ReaderOK(p)' /\ ~Out(p)' /\ (Member(p)' => Member(p))
  <2>1. /\ conn' \in [Conns -> ConnType] /\ conn'[p] = r
        /\ \A x \in Conns \ {p} : conn'[x] = conn[x] /\ Bystander(x)
        BY <1>3, Unmoved
  <2>2. ReaderOK(p)' /\ ~Out(p)' /\ (Member(p)' => Member(p))
        BY <1>0, <1>3, <2>1, HubAssumption DEF ReaderOK, Out, Pending, Member
  <2> QED BY <2>1, <2>2
<1>4. CASE Partner(p) = conn[p].other
  <2> DEFINE k == conn[p].credit - conn[p].size
             r == [idle EXCEPT !.credit = k]
             b == rooms[n].bytes + conn[p].size
             o == [rooms[n] EXCEPT !.bytes = b]
  <2>1. conn' = [conn EXCEPT ![p] = r] /\ rooms' = [rooms EXCEPT ![n] = o]
        BY <1>0, <1>4 DEF RelayCharge, ConnType
  <2>2. k \in 0 .. Window
        BY <1>2, HubAssumption
  <2> HIDE DEF idle, k
  <2>3. /\ r \in ConnType /\ r.phase = "serving" /\ r.room = conn[p].room
        /\ r.role = conn[p].role /\ r.size = 0 /\ r.done = conn[p].done
        BY <1>1, <2>2 DEF ConnType
  <2> HIDE DEF r
  <2>4. /\ conn' \in [Conns -> ConnType] /\ conn'[p] = r
        /\ \A x \in Conns \ {p} : conn'[x] = conn[x] /\ Bystander(x)
        /\ ReaderOK(p)' /\ ~Out(p)' /\ (Member(p)' => Member(p))
        BY <1>3, <2>1, <2>3
  <2>5. /\ n \in RoomNumbers /\ Seated(p, n)
        /\ \/ p = rooms[n].offerer /\ rooms[n].joiner # p
           \/ p = rooms[n].joiner /\ rooms[n].offerer # p
        BY <1>2, <1>4, PartnerSeat, NotOwnPartner, HubAssumption DEF IInv
  <2>6. rooms[n] \in [live : BOOLEAN, offerer : Conns \cup {None},
                      joiner : Conns \cup {None}, bytes : Nat]
        BY <2>5 DEF IInv, TypeOK
  <2>7. b \in Nat /\ b = rooms[n].bytes + conn[p].size
        BY <1>2, <2>6
  <2> HIDE DEF b
  <2>8. /\ o \in [live : BOOLEAN, offerer : Conns \cup {None},
                  joiner : Conns \cup {None}, bytes : Nat]
        /\ o.live = rooms[n].live /\ o.offerer = rooms[n].offerer /\ o.joiner = rooms[n].joiner
        /\ o.bytes = b
        BY <2>6, <2>7
  <2> HIDE DEF o, n
  <2>9. rooms'[n] = o /\ \A x \in RoomNumbers : x # n => rooms'[x] = rooms[x]
        BY <2>1, <2>5 DEF IInv, TypeOK
  <2>10. TypeOK'
        BY <1>u, <2>1, <2>4, <2>8 DEF IInv, TypeOK
  <2>11. /\ \A x \in RoomNumbers : /\ rooms'[x].live = rooms[x].live
                                   /\ rooms'[x].offerer = rooms[x].offerer
                                   /\ rooms'[x].joiner = rooms[x].joiner
                                   /\ ~rooms[x].live => rooms'[x] = rooms[x]
        BY <2>5, <2>8, <2>9 DEF Seated
  <2>12. BudgetOK'
    <3> SUFFICES ASSUME NEW m \in RoomNumbers
                 PROVE  rooms'[m].bytes + Held(rooms[m].offerer)' + Held(rooms[m].joiner)' <= Session + MaxFrame
        BY DEF BudgetOK
    <3>1. /\ rooms[m].bytes \in Nat /\ Session + MaxFrame \in Nat
          /\ rooms[m].offerer \in Conns \cup {None} /\ rooms[m].joiner \in Conns \cup {None}
          BY HubAssumption DEF IInv, TypeOK
    <3>2. rooms[m].bytes + Held(rooms[m].offerer) + Held(rooms[m].joiner) <= Session + MaxFrame
          BY DEF IInv, BudgetOK
    <3>3. Held(rooms[m].offerer) \in Nat /\ Held(rooms[m].joiner) \in Nat
          BY <3>1, HeldType DEF IInv
    <3>4. ASSUME NEW x \in Conns \cup {None}, x # p
          PROVE  (IF x = None THEN 0 ELSE conn'[x].size) = Held(x)
          BY <2>4, <3>4 DEF Held
    <3>p. (IF p = None THEN 0 ELSE conn'[p].size) = 0 /\ Held(p) = conn[p].size
          BY <2>3, <2>4, HubAssumption DEF Held
    <3>5. CASE m # n
      <4>1. rooms[m].offerer # p /\ rooms[m].joiner # p
            BY <3>5, Elsewhere DEF n
      <4>2. Held(rooms[m].offerer)' = Held(rooms[m].offerer) /\ Held(rooms[m].joiner)' = Held(rooms[m].joiner)
            BY <2>11, <3>1, <3>4, <4>1 DEF Held
      <4> QED BY <2>9, <3>2, <3>5, <4>2
    <3>6. CASE m = n /\ p = rooms[n].offerer /\ rooms[n].joiner # p
      <4>1. Held(rooms[m].offerer)' = 0 /\ Held(rooms[m].offerer) = conn[p].size
            BY <2>11, <3>p, <3>6 DEF Held
      <4>2. Held(rooms[m].joiner)' = Held(rooms[m].joiner)
            BY <2>11, <3>1, <3>4, <3>6 DEF Held
      <4> QED BY <1>2, <2>7, <2>8, <2>9, <3>1, <3>2, <3>3, <3>6, <4>1, <4>2
    <3>7. CASE m = n /\ p = rooms[n].joiner /\ rooms[n].offerer # p
      <4>1. Held(rooms[m].joiner)' = 0 /\ Held(rooms[m].joiner) = conn[p].size
            BY <2>11, <3>p, <3>7 DEF Held
      <4>2. Held(rooms[m].offerer)' = Held(rooms[m].offerer)
            BY <2>11, <3>1, <3>4, <3>7 DEF Held
      <4> QED BY <1>2, <2>7, <2>8, <2>9, <3>1, <3>2, <3>3, <3>7, <4>1, <4>2
    <3> QED BY <2>5, <3>5, <3>6, <3>7
  <2> QED BY <1>u, <2>3, <2>4, <2>10, <2>11, <2>12, Unmoved, RelayStep
<1>5. CASE Partner(p) # conn[p].other
  <2>1. conn' = [conn EXCEPT ![p] = idle] /\ UNCHANGED rooms
        BY <1>5 DEF RelayCharge
  <2> HIDE DEF idle
  <2>2. /\ conn' \in [Conns -> ConnType] /\ conn'[p] = idle
        /\ \A x \in Conns \ {p} : conn'[x] = conn[x] /\ Bystander(x)
        /\ ReaderOK(p)' /\ ~Out(p)' /\ (Member(p)' => Member(p))
        BY <1>1, <1>3, <2>1
  <2>3. TypeOK'
        BY <1>u, <2>1, <2>2 DEF IInv, TypeOK
  <2>4. \A x \in Conns : conn'[x].size <= conn[x].size /\ conn[x].size \in Nat
    <3>1. \A x \in Conns : conn[x].size \in Nat
          BY DEF IInv, TypeOK, ConnType
    <3>2. conn'[p].size = 0
          BY <1>1, <2>2
    <3> QED BY <2>2, <3>1, <3>2
  <2>5. \A m \in RoomNumbers : /\ rooms'[m].bytes <= rooms[m].bytes
                               /\ Held(rooms[m].offerer)' <= Held(rooms[m].offerer)
                               /\ Held(rooms[m].joiner)' <= Held(rooms[m].joiner)
        BY <2>1, <2>4 DEF Held, IInv, TypeOK
  <2>6. BudgetOK'
        BY <2>3, <2>5, BudgetLess
  <2> QED BY <1>1, <1>u, <2>1, <2>2, <2>3, <2>6, Unmoved, RelayStep
<1> QED BY <1>4, <1>5

-----------------------------------------------------------------------------
\* The actions that change the seats.

RoomType == [live : BOOLEAN, offerer : Conns \cup {None}, joiner : Conns \cup {None}, bytes : Nat]

\* p sits down in room n as role; the other seat, with other in it, stays.
SitsDown(p, n, role, other) ==
    /\ rooms' \in [RoomNumbers -> RoomType]
    /\ \A m \in RoomNumbers : m # n => rooms'[m] = rooms[m]
    /\ rooms'[n].live /\ rooms'[n].bytes <= rooms[n].bytes
    /\ \/ /\ role = "offerer" /\ rooms[n].offerer = None /\ rooms'[n].offerer = p
          /\ other = rooms[n].joiner /\ rooms'[n].joiner = other
       \/ /\ role = "joiner" /\ rooms[n].joiner = None /\ rooms'[n].joiner = p
          /\ other = rooms[n].offerer /\ rooms'[n].offerer = other

Assigned(p, n, role, to) ==
    Notify([conn EXCEPT ![p].room = n, ![p].role = role], p, to, "serving")

LEMMA TakeSeat ==
    ASSUME IInv, NEW p \in Conns, NEW n \in RoomNumbers, NEW role \in {"offerer", "joiner"},
           NEW other \in Conns \cup {None}, NEW to \in Seq(Conns), to # <<>>,
           conn[p].phase = "serving", conn[p].room = -1, SitsDown(p, n, role, other),
           conn' = Assigned(p, n, role, to), met' = Meet(p, other), UNCHANGED <<queue, strayBye>>
    PROVE  IInv'
<1> DEFINE r == [conn[p] EXCEPT !.room = n, !.role = role]
           c == [conn EXCEPT ![p] = r]
<1>0. conn[p] \in ConnType /\ ReaderOK(p) /\ n # -1
      BY HubAssumption DEF IInv, TypeOK, ReadersOK
<1>1. r \in ConnType /\ r.room = n /\ r.role = role /\ r.size = conn[p].size
      BY <1>0 DEF ConnType
<1>2. conn' = Notify(c, p, to, "serving")
      BY <1>0 DEF ConnType, Assigned
<1> HIDE DEF r
<1>3. c \in [Conns -> ConnType] /\ c[p] = r /\ \A x \in Conns : x # p => c[x] = conn[x]
      BY <1>1, Unmoved
<1> HIDE DEF c
<1>4. /\ conn' \in [Conns -> ConnType] /\ \A x \in Conns : x # p => conn'[x] = c[x]
      /\ conn'[p].room = c[p].room /\ conn'[p].role = c[p].role
      /\ conn'[p].size = c[p].size /\ conn'[p].phase = "notifying"
      /\ conn'[p].next = "serving" /\ conn'[p].out = to
      BY <1>2, <1>3, NotifyEffect
<1>5. /\ conn'[p].room = n /\ conn'[p].role = role /\ conn'[p].size = 0
      /\ \A x \in Conns : x # p => conn'[x] = conn[x]
      BY <1>0, <1>1, <1>3, <1>4 DEF ReaderOK
<1>6. \A m \in RoomNumbers : rooms[m].offerer # p /\ rooms[m].joiner # p
      BY Elsewhere, HubAssumption
<1>7. other # p /\ (other # None => Seated(other, n) /\ rooms[n].live)
      BY <1>6 DEF SitsDown, IInv, SeatsOK, Seated, NoRoom
<1>8. /\ met \subseteq met' /\ met' \subseteq Conns \X Conns
      /\ other # None => <<p, other>> \in met' /\ <<other, p>> \in met'
      BY DEF Meet, IInv, TypeOK
<1>9. TypeOK'
      BY <1>4, <1>8 DEF IInv, TypeOK, SitsDown, RoomType
<1>10. \A x \in Conns, m \in RoomNumbers : Seated(x, m)' => (Seated(x, m) /\ x # p) \/ (x = p /\ m = n)
      BY <1>6, <1>7, HubAssumption DEF Seated, SitsDown
<1>11. Seated(p, n)' /\ \A x \in Conns, m \in RoomNumbers : Seated(x, m) => Seated(x, m)'
      BY HubAssumption DEF Seated, SitsDown
<1>12. SeatsOK'
  <2>1. ASSUME NEW m \in RoomNumbers, rooms'[m].live PROVE \E x \in Conns : Seated(x, m)'
    <3>1. CASE m = n
          BY <1>11, <3>1
    <3>2. CASE m # n
      <4>1. PICK x \in Conns : Seated(x, m)
            BY <2>1, <3>2 DEF SitsDown, IInv, SeatsOK, SeatsAgree
      <4> QED BY <1>11, <4>1
    <3> QED BY <3>1, <3>2
  <2>2. ASSUME NEW x \in Conns, NEW m \in RoomNumbers, Seated(x, m)'
        PROVE  /\ conn'[x].room = m
               /\ rooms'[m][conn'[x].role] = x /\ rooms'[m][OtherRole(conn'[x].role)] # x
               /\ conn'[x].phase \notin {"new", "closing", "gone"}
               /\ ~Out(x)' /\ conn'[x].role # "none"
    <3>1. CASE x = p /\ m = n
      <4>1. rooms'[n][role] = p /\ rooms'[n][OtherRole(role)] = other
            BY DEF SitsDown, OtherRole
      <4> QED BY <1>4, <1>5, <1>7, <3>1, <4>1 DEF Out
    <3>2. CASE Seated(x, m) /\ x # p
      <4>1. /\ conn[x].room = m
            /\ rooms[m][conn[x].role] = x /\ rooms[m][OtherRole(conn[x].role)] # x
            /\ conn[x].phase \notin {"new", "closing", "gone"}
            /\ ~Out(x) /\ conn[x].role # "none"
            BY <3>2 DEF IInv, SeatsOK, SeatsAgree
      <4>2. conn'[x] = conn[x] /\ conn[x].role \in {"offerer", "joiner"}
            BY <1>5, <3>2, <4>1 DEF IInv, TypeOK, ConnType
      <4>3. ~Out(x)'
            BY <4>1, <4>2 DEF Out
      <4>4. rooms'[m][conn[x].role] = x /\ rooms'[m][OtherRole(conn[x].role)] # x
        <5>1. CASE m # n
              BY <4>1, <5>1 DEF SitsDown
        <5>2. CASE m = n /\ conn[x].role = "offerer"
              BY <3>2, <4>1, <5>2, HubAssumption DEF SitsDown, OtherRole
        <5>3. CASE m = n /\ conn[x].role = "joiner"
              BY <3>2, <4>1, <5>3, HubAssumption DEF SitsDown, OtherRole
        <5> QED BY <4>2, <5>1, <5>2, <5>3
      <4> QED BY <4>1, <4>2, <4>3, <4>4
    <3> QED BY <1>10, <2>2, <3>1, <3>2
  <2>3. ASSUME NEW m \in RoomNumbers, ~rooms'[m].live PROVE rooms'[m] = NoRoom
        BY <2>3 DEF SitsDown, IInv, SeatsOK
  <2> QED BY <2>1, <2>2, <2>3 DEF SeatsOK, SeatsAgree
<1>13. MetOK'
  <2>1. FrameOnlyToPartner'
        BY <1>8 DEF IInv, MetOK, FrameOnlyToPartner
  <2>2. ASSUME NEW m \in RoomNumbers, rooms'[m].live, rooms'[m].offerer # None, rooms'[m].joiner # None
        PROVE  /\ <<rooms'[m].offerer, rooms'[m].joiner>> \in met'
               /\ <<rooms'[m].joiner, rooms'[m].offerer>> \in met'
    <3>1. CASE m = n
          BY <1>8, <2>2, <3>1 DEF SitsDown
    <3>2. CASE m # n
          BY <1>8, <2>2, <3>2 DEF SitsDown, IInv, MetOK
    <3> QED BY <3>1, <3>2
  <2> QED BY <2>1, <2>2 DEF MetOK
<1>14. ReadersOK'
  <2>1. ReaderOK(p)'
        BY <1>0, <1>4, <1>5, HubAssumption DEF ReaderOK, Pending
  <2>2. ASSUME NEW x \in Conns, x # p PROVE ReaderOK(x)'
    <3>1. ReaderOK(x) /\ conn'[x] = conn[x]
          BY <1>5, <2>2 DEF IInv, ReadersOK
    <3> QED BY <1>8, <3>1 DEF ReaderOK
  <2> QED BY <2>1, <2>2 DEF ReadersOK
<1>15. BudgetOK'
  <2>1. \A x \in Conns : conn'[x].size <= conn[x].size /\ conn[x].size \in Nat
    <3>1. \A x \in Conns : conn[x].size \in Nat
          BY DEF IInv, TypeOK, ConnType
    <3>2. conn'[p].size <= conn[p].size
          BY <1>5, <3>1
    <3>3. ASSUME NEW x \in Conns, x # p PROVE conn'[x].size <= conn[x].size
          BY <1>5, <3>1, <3>3
    <3> QED BY <3>1, <3>2, <3>3
  <2>2. ASSUME NEW m \in RoomNumbers
        PROVE  /\ rooms'[m].bytes <= rooms[m].bytes
               /\ Held(rooms[m].offerer)' <= Held(rooms[m].offerer)
               /\ Held(rooms[m].joiner)' <= Held(rooms[m].joiner)
    <3>1. /\ rooms[m].offerer \in Conns \cup {None} /\ rooms[m].joiner \in Conns \cup {None}
          /\ rooms[m].bytes \in Nat
          BY DEF IInv, TypeOK
    <3>2. CASE m # n
          BY <2>1, <3>1, <3>2 DEF Held, SitsDown
    <3>3. CASE m = n /\ role = "offerer"
      <4>1. /\ rooms'[m].offerer = p /\ rooms[m].offerer = None
            /\ rooms'[m].joiner = rooms[m].joiner /\ rooms'[m].bytes <= rooms[m].bytes
            BY <3>3 DEF SitsDown
      <4> QED BY <1>5, <2>1, <3>1, <4>1, HubAssumption DEF Held
    <3>4. CASE m = n /\ role = "joiner"
      <4>1. /\ rooms'[m].joiner = p /\ rooms[m].joiner = None
            /\ rooms'[m].offerer = rooms[m].offerer /\ rooms'[m].bytes <= rooms[m].bytes
            BY <3>4 DEF SitsDown
      <4> QED BY <1>5, <2>1, <3>1, <4>1, HubAssumption DEF Held
    <3> QED BY <3>2, <3>3, <3>4
  <2> QED BY <1>9, <2>2, BudgetLess
<1>16. OnlyStrayByesUnseat'
  <2>1. CASE strayBye
        BY <2>1 DEF OnlyStrayByesUnseat
  <2>2. CASE ~strayBye
    <3>1. ASSUME NEW x \in Conns, Member(x)' PROVE Seated(x, conn[x].room)'
      <4>1. CASE x = p
            BY <1>5, <1>11, <4>1 DEF Seated
      <4>2. CASE x # p
        <5>1. conn'[x] = conn[x] /\ Member(x)
              BY <1>5, <3>1, <4>2 DEF Member
        <5>2. Seated(x, conn[x].room) /\ conn[x].room \in RoomNumbers
              BY <2>2, <5>1 DEF IInv, OnlyStrayByesUnseat, MemberKeepsSeat, Member, TypeOK, ConnType
        <5> DEFINE m == conn[x].room
        <5>3. Seated(x, m) /\ m \in RoomNumbers /\ conn'[x].room = m
              BY <5>1, <5>2
        <5> HIDE DEF m
        <5>4. rooms'[m].live /\ (rooms'[m].offerer = x \/ rooms'[m].joiner = x)
              BY <1>11, <5>3 DEF Seated
        <5> QED BY <5>3, <5>4 DEF Seated
      <4> QED BY <4>1, <4>2
    <3> QED BY <3>1 DEF OnlyStrayByesUnseat, MemberKeepsSeat
  <2> QED BY <2>1, <2>2
<1> QED BY <1>9, <1>12, <1>13, <1>14, <1>15, <1>16 DEF IInv

LEMMA CreateRoomIInv == ASSUME IInv, NEW p \in Conns, CreateRoom(p) PROVE IInv'
<1>1. PICK n \in RoomNumbers :
         /\ Smallest(n)
         /\ rooms' = [rooms EXCEPT ![n] = [NoRoom EXCEPT !.live = TRUE, !.offerer = p]]
         /\ conn' = Assigned(p, n, "offerer", <<p>>)
      BY DEF CreateRoom, Assigned
<1>2. rooms[n] = NoRoom
      BY <1>1 DEF Smallest, IInv, SeatsOK
<1> DEFINE o == [NoRoom EXCEPT !.live = TRUE, !.offerer = p]
<1>3. o \in RoomType /\ o.live /\ o.offerer = p /\ o.joiner = None /\ o.bytes = 0
      BY DEF NoRoom, RoomType
<1>4. rooms' = [rooms EXCEPT ![n] = o] /\ rooms \in [RoomNumbers -> RoomType]
      BY <1>1 DEF IInv, TypeOK, RoomType
<1> HIDE DEF o
<1>5. /\ rooms' \in [RoomNumbers -> RoomType] /\ rooms'[n] = o
      /\ \A m \in RoomNumbers : m # n => rooms'[m] = rooms[m]
      BY <1>3, <1>4
<1>6. SitsDown(p, n, "offerer", None)
      BY <1>2, <1>3, <1>5 DEF SitsDown, NoRoom
<1>7. /\ <<p>> \in Seq(Conns) /\ <<p>> # <<>> /\ met' = Meet(p, None)
      /\ conn[p].phase = "serving" /\ conn[p].room = -1 /\ UNCHANGED <<queue, strayBye>>
      BY DEF CreateRoom, Reading, Meet, history
<1> QED BY <1>1, <1>6, <1>7, TakeSeat

LEMMA JoinIInv ==
    ASSUME IInv, NEW p \in Conns, NEW n \in RoomNumbers, Join(p, n) PROVE IInv'
<1> DEFINE other == rooms[n].offerer
           to == <<p, other>>
           o == [rooms[n] EXCEPT !.joiner = p]
<1>1. rooms[n] \in RoomType /\ rooms \in [RoomNumbers -> RoomType]
      BY DEF IInv, TypeOK, RoomType
<1>2. rooms[n].live /\ rooms[n].joiner = None /\ other \in Conns
      BY <1>1 DEF Join, MayJoin, RoomType
<1>3. /\ o \in RoomType /\ o.live = rooms[n].live /\ o.offerer = other /\ o.joiner = p
      /\ o.bytes = rooms[n].bytes /\ rooms[n].bytes \in Nat
      BY <1>1 DEF RoomType
<1>4. rooms' = [rooms EXCEPT ![n] = o] /\ conn' = Assigned(p, n, "joiner", to)
      BY DEF Join, Assigned
<1> HIDE DEF o
<1>5. /\ rooms' \in [RoomNumbers -> RoomType] /\ rooms'[n] = o
      /\ \A m \in RoomNumbers : m # n => rooms'[m] = rooms[m]
      BY <1>1, <1>3, <1>4
<1>c. rooms[n].live
      BY <1>2
<1>a. rooms'[n].live /\ rooms'[n].bytes <= rooms[n].bytes
  <2>1. rooms'[n].live = rooms[n].live
        BY <1>3, <1>5
  <2>2. rooms'[n].bytes <= rooms[n].bytes
        BY <1>3, <1>5
  <2> QED BY <1>c, <2>1, <2>2
<1>b. rooms'[n].joiner = p /\ rooms'[n].offerer = other /\ rooms[n].joiner = None
      BY <1>2, <1>3, <1>5
<1>6. SitsDown(p, n, "joiner", other)
      BY <1>5, <1>a, <1>b DEF SitsDown
<1>7. /\ met' = Meet(p, other) /\ UNCHANGED <<queue, strayBye>>
      /\ conn[p].phase = "serving" /\ conn[p].room = -1
      BY DEF Join, Reading
<1>8. to \in Seq(Conns) /\ to # <<>>
      BY <1>2
<1> HIDE DEF other, to
<1> QED BY <1>2, <1>4, <1>6, <1>7, <1>8, TakeSeat

LEMMA ResumeIInv ==
    ASSUME IInv, NEW p \in Conns, NEW n \in RoomNumbers, NEW role \in {"offerer", "joiner"},
           Resume(p, n, role)
    PROVE  IInv'
<1> DEFINE other == rooms[n][OtherRole(role)]
           to == <<p>> \o One(other)
<1>1. rooms[n] \in RoomType /\ rooms \in [RoomNumbers -> RoomType]
      BY DEF IInv, TypeOK, RoomType
<1>2. other \in Conns \cup {None}
      BY <1>1 DEF RoomType, OtherRole
<1>3. to \in Seq(Conns) /\ to # <<>>
      BY <1>2 DEF One
<1>4. /\ conn' = Assigned(p, n, role, to) /\ met' = Meet(p, other) /\ UNCHANGED <<queue, strayBye>>
      /\ conn[p].phase = "serving" /\ conn[p].room = -1
      /\ rooms[n].live /\ rooms[n][role] = None /\ rooms' = [rooms EXCEPT ![n][role] = p]
      BY DEF Resume, Assigned, Reading
<1>5. CASE role = "offerer"
  <2> DEFINE o == [rooms[n] EXCEPT !.offerer = p]
  <2>1. /\ o \in RoomType /\ o.live = rooms[n].live /\ o.offerer = p /\ o.joiner = rooms[n].joiner
        /\ o.bytes = rooms[n].bytes /\ rooms[n].bytes \in Nat
        BY <1>1 DEF RoomType
  <2>2. rooms' = [rooms EXCEPT ![n] = o] /\ rooms[n].offerer = None /\ other = rooms[n].joiner
        BY <1>4, <1>5 DEF OtherRole
  <2> HIDE DEF o, other
  <2>3. /\ rooms' \in [RoomNumbers -> RoomType] /\ rooms'[n] = o
        /\ \A m \in RoomNumbers : m # n => rooms'[m] = rooms[m]
        BY <1>1, <2>1, <2>2
  <2>4. SitsDown(p, n, role, other)
    <3>1. rooms'[n].live /\ rooms'[n].bytes <= rooms[n].bytes
          BY <1>4, <2>1, <2>3
    <3>2. rooms'[n].offerer = p /\ rooms'[n].joiner = other /\ rooms[n].offerer = None
          BY <2>1, <2>2, <2>3
    <3> QED BY <1>5, <2>2, <2>3, <3>1, <3>2 DEF SitsDown
  <2> HIDE DEF to
  <2> QED BY <1>2, <1>3, <1>4, <2>4, TakeSeat
<1>6. CASE role = "joiner"
  <2> DEFINE o == [rooms[n] EXCEPT !.joiner = p]
  <2>1. /\ o \in RoomType /\ o.live = rooms[n].live /\ o.joiner = p /\ o.offerer = rooms[n].offerer
        /\ o.bytes = rooms[n].bytes /\ rooms[n].bytes \in Nat
        BY <1>1 DEF RoomType
  <2>2. rooms' = [rooms EXCEPT ![n] = o] /\ rooms[n].joiner = None /\ other = rooms[n].offerer
        BY <1>4, <1>6 DEF OtherRole
  <2> HIDE DEF o, other
  <2>3. /\ rooms' \in [RoomNumbers -> RoomType] /\ rooms'[n] = o
        /\ \A m \in RoomNumbers : m # n => rooms'[m] = rooms[m]
        BY <1>1, <2>1, <2>2
  <2>4. SitsDown(p, n, role, other)
    <3>1. rooms'[n].live /\ rooms'[n].bytes <= rooms[n].bytes
          BY <1>4, <2>1, <2>3
    <3>2. rooms'[n].joiner = p /\ rooms'[n].offerer = other /\ rooms[n].joiner = None
          BY <2>1, <2>2, <2>3
    <3> QED BY <1>6, <2>2, <2>3, <3>1, <3>2 DEF SitsDown
  <2> HIDE DEF to
  <2> QED BY <1>2, <1>3, <1>4, <2>4, TakeSeat
<1> QED BY <1>5, <1>6

\* A room is left as it is, deleted, or keeps the one of its two members.
Thinned(m) ==
    \/ rooms'[m] = rooms[m]
    \/ rooms'[m] = NoRoom
    \/ /\ rooms[m].live /\ rooms'[m].live /\ rooms'[m].bytes = rooms[m].bytes
       /\ \/ rooms'[m].offerer = None /\ rooms'[m].joiner = rooms[m].joiner /\ rooms[m].joiner # None
          \/ rooms'[m].joiner = None /\ rooms'[m].offerer = rooms[m].offerer /\ rooms[m].offerer # None

\* The reader of x is done with the hub and is named in no room.
Parted(x) ==
    /\ Out(x)' /\ ReaderOK(x)' /\ conn'[x].size = 0 /\ conn'[x].room = -1
    /\ \A m \in RoomNumbers : rooms'[m].offerer # x /\ rooms'[m].joiner # x

LEMMA FreeSeats ==
    ASSUME IInv, UNCHANGED <<queue, met>>, TypeOK',
           \A m \in RoomNumbers : Thinned(m),
           \A x \in Conns : Bystander(x) \/ Parted(x),
           strayBye => strayBye',
           ~strayBye' => \A x \in Conns : Member(x)' /\ Seated(x, conn[x].room) => Seated(x, conn[x].room)'
    PROVE  IInv'
<1>0. /\ \A m \in RoomNumbers : rooms[m] \in RoomType
      /\ \A m \in RoomNumbers : rooms'[m] \in RoomType
      /\ \A x \in Conns : conn[x].size \in Nat /\ conn[x].role \in {"none", "offerer", "joiner"}
      BY DEF IInv, TypeOK, ConnType, RoomType
<1>1. ASSUME NEW x \in Conns, NEW m \in RoomNumbers, Seated(x, m)'
      PROVE  Seated(x, m) /\ Bystander(x)
  <2>1. ~Parted(x)
        BY <1>1 DEF Seated, Parted
  <2>2. Seated(x, m)
        BY <1>1, HubAssumption DEF Seated, Thinned, NoRoom
  <2> QED BY <2>1, <2>2
<1>2. SeatsOK'
  <2>1. ASSUME NEW m \in RoomNumbers, rooms'[m].live PROVE \E x \in Conns : Seated(x, m)'
    <3>1. CASE rooms'[m] = rooms[m]
      <4>1. PICK x \in Conns : Seated(x, m)
            BY <2>1, <3>1 DEF IInv, SeatsOK, SeatsAgree
      <4> QED BY <3>1, <4>1 DEF Seated
    <3>2. CASE rooms'[m].offerer = None /\ rooms'[m].joiner = rooms[m].joiner /\ rooms[m].joiner # None
          BY <1>0, <2>1, <3>2 DEF Seated, RoomType
    <3>3. CASE rooms'[m].joiner = None /\ rooms'[m].offerer = rooms[m].offerer /\ rooms[m].offerer # None
          BY <1>0, <2>1, <3>3 DEF Seated, RoomType
    <3>4. rooms'[m] # NoRoom
          BY <2>1 DEF NoRoom
    <3> QED BY <3>1, <3>2, <3>3, <3>4 DEF Thinned
  <2>2. ASSUME NEW x \in Conns, NEW m \in RoomNumbers, Seated(x, m)'
        PROVE  /\ conn'[x].room = m
               /\ rooms'[m][conn'[x].role] = x /\ rooms'[m][OtherRole(conn'[x].role)] # x
               /\ conn'[x].phase \notin {"new", "closing", "gone"}
               /\ ~Out(x)' /\ conn'[x].role # "none"
    <3>1. Seated(x, m) /\ Bystander(x)
          BY <1>1, <2>2
    <3>2. /\ conn[x].room = m
          /\ rooms[m][conn[x].role] = x /\ rooms[m][OtherRole(conn[x].role)] # x
          /\ conn[x].phase \notin {"new", "closing", "gone"}
          /\ ~Out(x) /\ conn[x].role # "none"
          BY <3>1 DEF IInv, SeatsOK, SeatsAgree
    <3>3. /\ conn'[x].room = m /\ conn'[x].role = conn[x].role /\ ~Out(x)'
          /\ conn'[x].phase \notin {"new", "closing", "gone"}
          BY <3>1, <3>2 DEF Bystander, Out
    <3>4. rooms'[m][conn[x].role] = x /\ rooms'[m][OtherRole(conn[x].role)] # x
      <4>1. CASE rooms'[m] = rooms[m]
            BY <3>2, <4>1
      <4>2. CASE rooms'[m] = NoRoom
            BY <2>2, <4>2 DEF Seated, NoRoom
      <4>3. CASE conn[x].role = "offerer" /\ ~(rooms'[m] = rooms[m]) /\ ~(rooms'[m] = NoRoom)
            BY <2>2, <3>2, <4>3, HubAssumption DEF Seated, OtherRole, Thinned
      <4>4. CASE conn[x].role = "joiner" /\ ~(rooms'[m] = rooms[m]) /\ ~(rooms'[m] = NoRoom)
            BY <2>2, <3>2, <4>4, HubAssumption DEF Seated, OtherRole, Thinned
      <4> QED BY <1>0, <3>2, <4>1, <4>2, <4>3, <4>4
    <3> QED BY <3>2, <3>3, <3>4
  <2>3. ASSUME NEW m \in RoomNumbers, ~rooms'[m].live PROVE rooms'[m] = NoRoom
        BY <2>3 DEF Thinned, IInv, SeatsOK
  <2> QED BY <2>1, <2>2, <2>3 DEF SeatsOK, SeatsAgree
<1>3. MetOK'
  <2>1. FrameOnlyToPartner'
        BY DEF IInv, MetOK, FrameOnlyToPartner
  <2>2. ASSUME NEW m \in RoomNumbers, rooms'[m].live, rooms'[m].offerer # None, rooms'[m].joiner # None
        PROVE  rooms'[m] = rooms[m]
        BY <2>2 DEF Thinned, NoRoom
  <2>3. ASSUME NEW m \in RoomNumbers, rooms'[m].live, rooms'[m].offerer # None, rooms'[m].joiner # None
        PROVE  /\ <<rooms'[m].offerer, rooms'[m].joiner>> \in met'
               /\ <<rooms'[m].joiner, rooms'[m].offerer>> \in met'
        BY <2>2, <2>3 DEF IInv, MetOK
  <2> QED BY <2>1, <2>3 DEF MetOK
<1>4. ReadersOK'
  <2>1. ASSUME NEW x \in Conns, Bystander(x) PROVE ReaderOK(x)'
    <3>1. ReaderOK(x) /\ Bystander(x)
          BY <2>1 DEF IInv, ReadersOK
    <3>2. conn[x].credit \in Nat /\ conn'[x].credit \in Nat /\ conn[x].size \in Nat
          BY DEF IInv, TypeOK, ConnType
    <3> QED BY <3>1, <3>2 DEF ReaderOK, Bystander
  <2> QED BY <2>1 DEF ReadersOK, Parted
<1>5. BudgetOK'
  <2>1. \A x \in Conns : conn'[x].size <= conn[x].size
        BY <1>0 DEF Bystander, Parted
  <2>2. ASSUME NEW m \in RoomNumbers
        PROVE  /\ rooms'[m].bytes <= rooms[m].bytes
               /\ Held(rooms[m].offerer)' <= Held(rooms[m].offerer)
               /\ Held(rooms[m].joiner)' <= Held(rooms[m].joiner)
    <3>1. /\ rooms[m].offerer \in Conns \cup {None} /\ rooms[m].joiner \in Conns \cup {None}
          /\ rooms[m].bytes \in Nat
          BY <1>0 DEF RoomType
    <3>2. /\ rooms'[m].bytes <= rooms[m].bytes
          /\ rooms'[m].offerer \in {rooms[m].offerer, None} /\ rooms'[m].joiner \in {rooms[m].joiner, None}
          BY <3>1 DEF Thinned, NoRoom
    <3> QED BY <1>0, <2>1, <3>1, <3>2 DEF Held
  <2> QED BY <2>2, BudgetLess
<1>6. OnlyStrayByesUnseat'
  <2>1. CASE strayBye'
        BY <2>1 DEF OnlyStrayByesUnseat
  <2>2. CASE ~strayBye'
    <3>1. ASSUME NEW x \in Conns, Member(x)' PROVE Seated(x, conn[x].room)'
      <4>1. Bystander(x)
            BY <3>1 DEF Parted, Member
      <4>2. Member(x)
            BY <3>1, <4>1 DEF Member, Bystander
      <4>3. Seated(x, conn[x].room)
            BY <2>2, <4>2 DEF IInv, OnlyStrayByesUnseat, MemberKeepsSeat
      <4> QED BY <2>2, <3>1, <4>3
    <3> QED BY <3>1 DEF OnlyStrayByesUnseat, MemberKeepsSeat
  <2> QED BY <2>1, <2>2
<1> QED BY <1>2, <1>3, <1>4, <1>5, <1>6 DEF IInv

LEMMA ReleaseEffect ==
    ASSUME NEW c \in [Conns -> ConnType], NEW p \in Conns, NEW to \in Seq(Conns),
           conn' = Notify(Released(c, p), p, to, "closing")
    PROVE  /\ conn' \in [Conns -> ConnType] /\ \A x \in Conns : x # p => conn'[x] = c[x]
           /\ conn'[p].room = -1 /\ conn'[p].size = 0 /\ Out(p)' /\ ReaderOK(p)'
<1> DEFINE r == [NewPeer EXCEPT !.queued = c[p].queued, !.done = c[p].done, !.closed = c[p].closed]
           d == [c EXCEPT ![p] = r]
<1>0. c[p].queued \in Int /\ c[p].done \in BOOLEAN /\ c[p].closed \in BOOLEAN
      BY DEF ConnType
<1>1. NewPeer \in ConnType
  <2>1. <<>> \in Seq(Conns) /\ 0 \in Int /\ 0 \in 0 .. Window /\ 0 \in Nat
        BY HubAssumption
  <2> QED BY <2>1 DEF NewPeer, ConnType, Phases
<1>2. r \in ConnType /\ r.room = NewPeer.room /\ r.size = NewPeer.size
      BY <1>0, <1>1 DEF ConnType
<1>3. NewPeer.room = -1 /\ NewPeer.size = 0
      BY DEF NewPeer
<1>4. conn' = Notify(d, p, to, "closing")
      BY DEF Released
<1> HIDE DEF r
<1>5. d \in [Conns -> ConnType] /\ d[p] = r /\ \A x \in Conns : x # p => d[x] = c[x]
      BY <1>2
<1> HIDE DEF d
<1>6. /\ conn' \in [Conns -> ConnType] /\ \A x \in Conns : x # p => conn'[x] = d[x]
      /\ conn'[p].room = d[p].room /\ conn'[p].size = d[p].size
      /\ conn'[p].phase = IF to = <<>> THEN "closing" ELSE "notifying"
      /\ conn'[p].next = "closing" /\ conn'[p].out = to
      BY <1>4, <1>5, NotifyEffect
<1>7. conn'[p].room = -1 /\ conn'[p].size = 0
      BY <1>2, <1>3, <1>5, <1>6
<1>8. Out(p)'
      BY <1>6 DEF Out
<1>9. ReaderOK(p)'
      BY <1>6, <1>7, HubAssumption DEF ReaderOK, Pending
<1> QED BY <1>5, <1>6, <1>7, <1>8, <1>9

LEMMA TeardownDroppedIInv == ASSUME IInv, NEW p \in Conns, TeardownDropped(p) PROVE IInv'
<1> DEFINE to == One(Partner(p))
<1>n. PICK n : n = conn[p].room
      OBVIOUS
<1>0. conn \in [Conns -> ConnType] /\ rooms \in [RoomNumbers -> RoomType] /\ to \in Seq(Conns)
      BY PartnerType, OneType DEF IInv, TypeOK, RoomType
<1>1. /\ conn' = Notify(Released(conn, p), p, to, "closing")
      /\ rooms' = IF InRoom(p) /\ Seated(p, n) THEN Vacated(p, n) ELSE rooms
      /\ UNCHANGED <<queue, met, strayBye>>
      BY <1>n DEF TeardownDropped, history
<1> HIDE DEF to
<1>2. /\ conn' \in [Conns -> ConnType] /\ \A x \in Conns : x # p => conn'[x] = conn[x]
      /\ conn'[p].room = -1 /\ conn'[p].size = 0 /\ Out(p)' /\ ReaderOK(p)'
      BY <1>0, <1>1, ReleaseEffect
<1>3. \A x \in Conns : x # p => Bystander(x)
      BY <1>2, Unmoved
<1>4. NoRoom \in RoomType /\ ~NoRoom.live /\ NoRoom.offerer = None /\ NoRoom.joiner = None
      BY DEF NoRoom, RoomType
<1>5. /\ rooms' \in [RoomNumbers -> RoomType]
      /\ \A m \in RoomNumbers : m # n => rooms'[m] = rooms[m]
      /\ n \in RoomNumbers => Thinned(n) /\ rooms'[n].offerer # p /\ rooms'[n].joiner # p
      /\ \A x \in Conns : x # p /\ n \in RoomNumbers /\ Seated(x, n) => Seated(x, n)'
  <2>1. CASE ~(InRoom(p) /\ Seated(p, n))
    <3>1. rooms' = rooms
          BY <1>1, <2>1
    <3>2. n \in RoomNumbers => rooms[n].offerer # p /\ rooms[n].joiner # p
      <4>1. n \in RoomNumbers /\ ~rooms[n].live => rooms[n].offerer # p /\ rooms[n].joiner # p
            BY HubAssumption DEF IInv, SeatsOK, NoRoom
      <4>2. n \in RoomNumbers /\ rooms[n].live => rooms[n].offerer # p /\ rooms[n].joiner # p
            BY <1>n, <2>1 DEF InRoom, Seated
      <4> QED BY <4>1, <4>2
    <3> QED BY <1>0, <3>1, <3>2 DEF Thinned, Seated
  <2>2. CASE InRoom(p) /\ Seated(p, n) /\ Partner(p) = None
    <3>0. n \in RoomNumbers
          BY <1>n, <2>2 DEF InRoom
    <3>1. rooms' = [rooms EXCEPT ![n] = NoRoom]
          BY <1>1, <2>2 DEF Vacated
    <3>2. rooms'[n] = NoRoom /\ rooms' \in [RoomNumbers -> RoomType] /\ \A m \in RoomNumbers : m # n => rooms'[m] = rooms[m]
          BY <1>0, <1>4, <3>0, <3>1
    <3>3. ASSUME NEW x \in Conns, x # p, Seated(x, n) PROVE FALSE
          BY <1>n, <2>2, <3>3, HubAssumption DEF Seated, Partner, roomPartner, InRoom
    <3> QED BY <1>4, <3>2, <3>3, HubAssumption DEF Thinned
  <2>3. CASE InRoom(p) /\ Seated(p, n) /\ Partner(p) # None /\ rooms[n].offerer = p
    <3> DEFINE o == [rooms[n] EXCEPT !.offerer = None]
    <3>0. n \in RoomNumbers /\ Partner(p) = rooms[n].joiner /\ rooms[n].live /\ Partner(p) # p
          BY <1>n, <2>3, NotOwnPartner DEF InRoom, Partner, roomPartner
    <3>1. rooms' = [rooms EXCEPT ![n] = o]
          BY <1>1, <2>3 DEF Vacated, SeatOf
    <3>2. /\ o \in RoomType /\ o.offerer = None /\ o.joiner = rooms[n].joiner
          /\ o.live = rooms[n].live /\ o.bytes = rooms[n].bytes
          BY <1>0, <3>0 DEF RoomType
    <3> HIDE DEF o
    <3>3. rooms'[n] = o /\ rooms' \in [RoomNumbers -> RoomType] /\ \A m \in RoomNumbers : m # n => rooms'[m] = rooms[m]
          BY <1>0, <3>0, <3>1, <3>2
    <3>4. Thinned(n) /\ rooms'[n].offerer # p /\ rooms'[n].joiner # p
          BY <2>3, <3>0, <3>2, <3>3, HubAssumption DEF Thinned
    <3>5. ASSUME NEW x \in Conns, x # p, Seated(x, n) PROVE Seated(x, n)'
          BY <2>3, <3>2, <3>3, <3>5 DEF Seated
    <3> QED BY <3>3, <3>4, <3>5
  <2>4. CASE InRoom(p) /\ Seated(p, n) /\ Partner(p) # None /\ rooms[n].offerer # p
    <3> DEFINE o == [rooms[n] EXCEPT !.joiner = None]
    <3>0. n \in RoomNumbers /\ Partner(p) = rooms[n].offerer /\ rooms[n].live /\ rooms[n].joiner = p
          BY <1>n, <2>4 DEF InRoom, Partner, roomPartner, Seated
    <3>1. rooms' = [rooms EXCEPT ![n] = o]
          BY <1>1, <2>4 DEF Vacated, SeatOf
    <3>2. /\ o \in RoomType /\ o.joiner = None /\ o.offerer = rooms[n].offerer
          /\ o.live = rooms[n].live /\ o.bytes = rooms[n].bytes
          BY <1>0, <3>0 DEF RoomType
    <3> HIDE DEF o
    <3>3. rooms'[n] = o /\ rooms' \in [RoomNumbers -> RoomType] /\ \A m \in RoomNumbers : m # n => rooms'[m] = rooms[m]
          BY <1>0, <3>0, <3>1, <3>2
    <3>4. Thinned(n) /\ rooms'[n].offerer # p /\ rooms'[n].joiner # p
          BY <2>4, <3>0, <3>2, <3>3, HubAssumption DEF Thinned
    <3>5. ASSUME NEW x \in Conns, x # p, Seated(x, n) PROVE Seated(x, n)'
          BY <3>0, <3>2, <3>3, <3>5 DEF Seated
    <3> QED BY <3>3, <3>4, <3>5
  <2> QED BY <2>1, <2>2, <2>3, <2>4
<1>6. TypeOK'
      BY <1>1, <1>2, <1>5 DEF IInv, TypeOK, RoomType
<1>7. \A m \in RoomNumbers : Thinned(m) /\ rooms'[m].offerer # p /\ rooms'[m].joiner # p
      BY <1>5, <1>n, Elsewhere DEF Thinned
<1>8. Parted(p)
      BY <1>2, <1>7 DEF Parted
<1>9. ASSUME NEW x \in Conns, Member(x)', Seated(x, conn[x].room) PROVE Seated(x, conn[x].room)'
  <2>1. x # p
        BY <1>2, <1>9 DEF Member
  <2>m. PICK m : m = conn[x].room
        OBVIOUS
  <2>2. m \in RoomNumbers /\ Seated(x, m) /\ conn'[x].room = m
        BY <1>2, <1>9, <2>1, <2>m DEF Member, IInv, TypeOK, ConnType
  <2>3. Seated(x, m)'
        BY <1>5, <2>1, <2>2 DEF Seated
  <2>4. rooms'[m].live /\ (rooms'[m].offerer = x \/ rooms'[m].joiner = x)
        BY <2>3 DEF Seated
  <2> QED BY <2>2, <2>4 DEF Seated
<1>10. \A x \in Conns : Bystander(x) \/ Parted(x)
      BY <1>3, <1>8
<1>11. \A m \in RoomNumbers : Thinned(m)
      BY <1>7
<1> QED BY <1>1, <1>6, <1>9, <1>10, <1>11, FreeSeats

\* discard: the partner is closed with the room, so only a bye from someone
\* without a seat in it takes a seat from anyone else.
LEMMA TeardownGracefulIInv == ASSUME IInv, NEW p \in Conns, TeardownGraceful(p) PROVE IInv'
<1> DEFINE c == [q \in Conns |-> [conn[q] EXCEPT !.done = @ \/ q = Partner(p)]]
           to == <<>>
<1>n. PICK n : n = conn[p].room
      OBVIOUS
<1>0. conn \in [Conns -> ConnType] /\ rooms \in [RoomNumbers -> RoomType] /\ to \in Seq(Conns)
      BY DEF IInv, TypeOK, RoomType
<1>1. /\ conn' = Notify(Released(c, p), p, to, "closing")
      /\ rooms' = IF InRoom(p) THEN [rooms EXCEPT ![n] = NoRoom] ELSE rooms
      /\ strayBye' = (strayBye \/ (InRoom(p) /\ ~Seated(p, n)))
      /\ UNCHANGED <<queue, met>>
      BY <1>n DEF TeardownGraceful
<1>2. ASSUME NEW x \in Conns
      PROVE  /\ c[x] \in ConnType /\ c[x].room = conn[x].room /\ c[x].role = conn[x].role
             /\ c[x].phase = conn[x].phase /\ c[x].next = conn[x].next
             /\ c[x].out = conn[x].out /\ c[x].other = conn[x].other
             /\ c[x].size = conn[x].size /\ c[x].credit = conn[x].credit
             /\ c[x].done = (conn[x].done \/ x = Partner(p))
  <2> DEFINE d == conn[x].done \/ x = Partner(p)
             r == [conn[x] EXCEPT !.done = d]
  <2>1. d \in BOOLEAN /\ conn[x] \in ConnType /\ c[x] = r
        BY <1>0
  <2> HIDE DEF c, d
  <2>2. /\ r \in ConnType /\ r.room = conn[x].room /\ r.role = conn[x].role
        /\ r.phase = conn[x].phase /\ r.next = conn[x].next
        /\ r.out = conn[x].out /\ r.other = conn[x].other
        /\ r.size = conn[x].size /\ r.credit = conn[x].credit /\ r.done = d
        BY <2>1 DEF ConnType
  <2> QED BY <2>1, <2>2 DEF d
<1>3. c \in [Conns -> ConnType]
      BY <1>2
<1> HIDE DEF c, to
<1>4. /\ conn' \in [Conns -> ConnType] /\ \A x \in Conns : x # p => conn'[x] = c[x]
      /\ conn'[p].room = -1 /\ conn'[p].size = 0 /\ Out(p)' /\ ReaderOK(p)'
      BY <1>0, <1>1, <1>3, ReleaseEffect
<1>5. ASSUME NEW x \in Conns, x # p PROVE Bystander(x)
  <2>1. conn[x].credit \in Nat
        BY Unmoved
  <2>2. conn'[x] = c[x]
        BY <1>4, <1>5
  <2>3. conn[x].done => c[x].done
        BY <1>2
  <2>4. /\ c[x].room = conn[x].room /\ c[x].role = conn[x].role
        /\ c[x].phase = conn[x].phase /\ c[x].next = conn[x].next
        /\ c[x].out = conn[x].out /\ c[x].other = conn[x].other
        /\ c[x].size = conn[x].size /\ c[x].credit = conn[x].credit
        BY <1>2
  <2>5. conn'[x].credit >= conn[x].credit
        BY <2>1, <2>2, <2>4
  <2> QED BY <2>2, <2>3, <2>4, <2>5 DEF Bystander
<1>6. NoRoom \in RoomType /\ ~NoRoom.live /\ NoRoom.offerer = None /\ NoRoom.joiner = None
      BY DEF NoRoom, RoomType
<1>7. /\ rooms' \in [RoomNumbers -> RoomType]
      /\ \A m \in RoomNumbers : m # n => rooms'[m] = rooms[m]
      /\ n \in RoomNumbers => rooms'[n] = NoRoom
  <2>1. CASE InRoom(p)
        BY <1>0, <1>1, <1>6, <1>n, <2>1 DEF InRoom
  <2>2. CASE ~InRoom(p)
        BY <1>0, <1>1, <1>n, <2>2 DEF InRoom, IInv, SeatsOK
  <2> QED BY <2>1, <2>2
<1>8. TypeOK'
  <2>1. strayBye' \in BOOLEAN
        BY <1>1
  <2> QED BY <1>1, <1>4, <1>7, <2>1 DEF IInv, TypeOK, RoomType
<1>9. \A m \in RoomNumbers : Thinned(m) /\ rooms'[m].offerer # p /\ rooms'[m].joiner # p
  <2>1. ASSUME NEW m \in RoomNumbers, m # n PROVE rooms'[m] = rooms[m] /\ rooms[m].offerer # p /\ rooms[m].joiner # p
        BY <1>7, <1>n, <2>1, Elsewhere
  <2>2. ASSUME NEW m \in RoomNumbers, m = n PROVE rooms'[m] = NoRoom /\ NoRoom.offerer # p /\ NoRoom.joiner # p
        BY <1>6, <1>7, <2>2, HubAssumption
  <2> QED BY <2>1, <2>2 DEF Thinned
<1>10. \A x \in Conns : Bystander(x) \/ Parted(x)
      BY <1>4, <1>5, <1>9 DEF Parted
<1>11. ASSUME ~strayBye', NEW x \in Conns, Member(x)', Seated(x, conn[x].room)
       PROVE  Seated(x, conn[x].room)'
  <2>1. x # p
        BY <1>4, <1>11 DEF Member
  <2>m. PICK m : m = conn[x].room
        OBVIOUS
  <2>2. m \in RoomNumbers /\ Seated(x, m) /\ conn'[x].room = m
    <3>1. conn'[x].room = m
          BY <1>2, <1>4, <2>1, <2>m
    <3>2. m # -1
          BY <1>11, <3>1 DEF Member
    <3>3. m \in RoomNumbers \cup {-1}
          BY <2>m DEF IInv, TypeOK, ConnType
    <3> QED BY <1>11, <2>m, <3>1, <3>2, <3>3
  <2>3. ~conn'[x].done /\ x # Partner(p)
        BY <1>2, <1>4, <1>11, <2>1 DEF Member
  <2>4. m # n
    <3> SUFFICES ASSUME m = n PROVE FALSE
        OBVIOUS
    <3>1. InRoom(p) /\ rooms[n].live
          BY <1>n, <2>2 DEF InRoom, Seated
    <3>2. Seated(p, n)
          BY <1>1, <1>11, <3>1
    <3> QED BY <1>n, <2>1, <2>2, <2>3, <3>1, <3>2 DEF Seated, Partner, roomPartner, InRoom
  <2> QED BY <1>7, <2>2, <2>4 DEF Seated
<1>12. (strayBye => strayBye') /\ \A m \in RoomNumbers : Thinned(m)
      BY <1>1, <1>9
<1> QED BY <1>1, <1>8, <1>10, <1>11, <1>12, FreeSeats

LEMMA ReapIInv == ASSUME IInv, NEW n \in RoomNumbers, Reap(n) PROVE IInv'
<1>0. conn \in [Conns -> ConnType] /\ rooms \in [RoomNumbers -> RoomType]
      BY DEF IInv, TypeOK, RoomType
<1>1. /\ rooms' = [rooms EXCEPT ![n] = NoRoom] /\ UNCHANGED <<queue, met, strayBye>>
      /\ conn' = [p \in Conns |-> IF Seated(p, n) THEN [conn[p] EXCEPT !.done = TRUE] ELSE conn[p]]
      BY DEF Reap, history
<1>2. ASSUME NEW x \in Conns
      PROVE  conn'[x] \in ConnType /\ Bystander(x) /\ (Seated(x, n) => conn'[x].done)
  <2>1. CASE Seated(x, n)
    <3> DEFINE r == [conn[x] EXCEPT !.done = TRUE]
    <3>1. conn'[x] = r /\ conn[x] \in ConnType /\ conn[x].credit \in Nat
          BY <1>0, <1>1, <2>1, Unmoved
    <3>2. /\ r \in ConnType /\ r.room = conn[x].room /\ r.role = conn[x].role
          /\ r.phase = conn[x].phase /\ r.next = conn[x].next
          /\ r.out = conn[x].out /\ r.other = conn[x].other
          /\ r.size = conn[x].size /\ r.credit = conn[x].credit /\ r.done
          BY <3>1 DEF ConnType
    <3> HIDE DEF r
    <3> QED BY <3>1, <3>2 DEF Bystander
  <2>2. CASE ~Seated(x, n)
    <3>1. conn'[x] = conn[x] /\ conn[x] \in ConnType
          BY <1>0, <1>1, <2>2
    <3> QED BY <2>2, <3>1, Unmoved
  <2> QED BY <2>1, <2>2
<1>3. conn' \in [Conns -> ConnType]
  <2>1. DOMAIN conn' = Conns /\ conn' = [x \in Conns |-> conn'[x]]
        BY <1>1
  <2> QED BY <1>2, <2>1
<1>4. NoRoom \in RoomType /\ ~NoRoom.live
      BY DEF NoRoom, RoomType
<1>5. /\ rooms' \in [RoomNumbers -> RoomType] /\ rooms'[n] = NoRoom
      /\ \A m \in RoomNumbers : m # n => rooms'[m] = rooms[m]
      BY <1>0, <1>1, <1>4
<1>6. TypeOK'
      BY <1>1, <1>3, <1>5 DEF IInv, TypeOK, RoomType
<1>7. \A m \in RoomNumbers : Thinned(m)
      BY <1>5 DEF Thinned
<1>8. ASSUME NEW x \in Conns, Member(x)', Seated(x, conn[x].room) PROVE Seated(x, conn[x].room)'
  <2>m. PICK m : m = conn[x].room
        OBVIOUS
  <2>1. m \in RoomNumbers /\ Seated(x, m) /\ conn'[x].room = m /\ ~conn'[x].done
        BY <1>2, <1>8, <2>m DEF Member, Bystander, IInv, TypeOK, ConnType
  <2>2. m # n
        BY <1>2, <2>1
  <2> QED BY <1>5, <2>1, <2>2 DEF Seated
<1> QED BY <1>1, <1>2, <1>6, <1>7, <1>8, FreeSeats

-----------------------------------------------------------------------------
LEMMA InitIInv == Init => IInv
<1> SUFFICES ASSUME Init PROVE IInv
    OBVIOUS
<1>1. /\ \A n \in RoomNumbers : rooms[n] = NoRoom
      /\ \A p \in Conns : conn[p] = NewPeer /\ queue[p] = <<>>
      /\ met = {} /\ strayBye = FALSE
      BY DEF Init
<1>2. /\ NewPeer.phase = "new" /\ NewPeer.room = -1 /\ NewPeer.size = 0
      /\ NoRoom.live = FALSE /\ NoRoom.offerer = None /\ NoRoom.joiner = None /\ NoRoom.bytes = 0
      BY DEF NewPeer, NoRoom
<1>3. NewPeer \in ConnType
  <2>1. <<>> \in Seq(Conns) /\ 0 \in Int /\ 0 \in 0 .. Window /\ 0 \in Nat
        BY HubAssumption
  <2> QED BY <2>1 DEF NewPeer, ConnType, Phases
<1>4. TypeOK
  <2>1. rooms \in [RoomNumbers -> [live : BOOLEAN, offerer : Conns \cup {None},
                                   joiner : Conns \cup {None}, bytes : Nat]]
        BY DEF Init, NoRoom
  <2>2. conn \in [Conns -> ConnType]
        BY <1>3 DEF Init
  <2>3. queue \in [Conns -> Seq([from : Conns \cup {None}, size : Nat])]
        BY DEF Init
  <2> QED BY <1>1, <2>1, <2>2, <2>3 DEF TypeOK
<1>5. SeatsOK
      BY <1>1, <1>2 DEF SeatsOK, SeatsAgree, Seated
<1>6. MetOK
  <2>1. \A q \in Conns : DOMAIN queue[q] = {}
        BY <1>1
  <2> QED BY <1>1, <1>2, <2>1 DEF MetOK, FrameOnlyToPartner
<1>7. ReadersOK
  <2>1. ASSUME NEW p \in Conns PROVE ReaderOK(p)
    <3>1. conn[p].phase = "new" /\ conn[p].room = -1 /\ conn[p].size = 0
          BY <1>1, <1>2
    <3> QED BY <3>1, HubAssumption DEF ReaderOK, Pending
  <2> QED BY <2>1 DEF ReadersOK
<1>8. BudgetOK
      BY <1>1, <1>2, HubAssumption DEF BudgetOK, Held
<1>9. OnlyStrayByesUnseat
      BY <1>1, <1>2 DEF OnlyStrayByesUnseat, MemberKeepsSeat, Member
<1> QED BY <1>4, <1>5, <1>6, <1>7, <1>8, <1>9 DEF IInv

LEMMA StutterIInv == ASSUME IInv, UNCHANGED vars PROVE IInv'
<1>1. TypeOK' /\ MetOK' /\ BudgetOK'
      BY DEF IInv, vars, TypeOK, MetOK, FrameOnlyToPartner, BudgetOK, Held
<1>2. SeatsOK'
      BY DEF IInv, vars, SeatsOK, SeatsAgree, Seated, Out
<1>3. ReadersOK'
      BY DEF IInv, vars, ReadersOK, ReaderOK
<1>4. OnlyStrayByesUnseat'
      BY DEF IInv, vars, OnlyStrayByesUnseat, MemberKeepsSeat, Member, Seated
<1> QED BY <1>1, <1>2, <1>3, <1>4 DEF IInv

LEMMA NextIInv == IInv /\ [Next]_vars => IInv'
<1> SUFFICES ASSUME IInv, [Next]_vars PROVE IInv'
    OBVIOUS
<1>1. CASE UNCHANGED vars
      BY <1>1, StutterIInv
<1>2. ASSUME NEW n \in RoomNumbers, Reap(n) PROVE IInv'
      BY <1>2, ReapIInv
<1>3. ASSUME NEW p \in Conns,
             \/ Connect(p) \/ Refuse(p) \/ CreateRoom(p)
             \/ Forward(p) \/ Bye(p) \/ OpenRelay(p)
             \/ WriteFrame(p) \/ WriteFails(p) \/ WriterEnds(p) \/ ReadEnds(p)
      PROVE  IInv'
      BY <1>3, ConnectIInv, RefuseIInv, CreateRoomIInv, ForwardIInv, ByeIInv, OpenRelayIInv,
         WriteFrameIInv, WriteFailsIInv, WriterEndsIInv, ReadEndsIInv
<1>4. ASSUME NEW p \in Conns, Reader(p) PROVE IInv'
      BY <1>4, EnqueueIInv, RelayEnqueuedIInv, RelayRejectedIInv, RelayChargeIInv,
         TeardownGracefulIInv, TeardownDroppedIInv, GoneIInv DEF Reader
<1>5. ASSUME NEW p \in Conns, NEW n \in RoomNumbers,
             Join(p, n) \/ \E role \in {"offerer", "joiner"} : Resume(p, n, role)
      PROVE  IInv'
      BY <1>5, JoinIInv, ResumeIInv
<1>6. ASSUME NEW p \in Conns,
             \/ \E requested \in 1 .. Window : GrantRelayCredit(p, requested)
             \/ \E size \in 1 .. MaxFrame : ForwardRelay(p, size)
      PROVE  IInv'
      BY <1>6, GrantRelayCreditIInv, ForwardRelayIInv
<1> QED BY <1>1, <1>2, <1>3, <1>4, <1>5, <1>6 DEF Next

\* IInv holds in every state the hub reaches.
THEOREM Inductive == Spec => []IInv
BY InitIInv, NextIInv, PTL DEF Spec

\* The state of the hub keeps its type: in particular a relay credit stays
\* between zero and the window, although forwardRelay charges it some steps
\* after the check and a grant may come in between.
THEOREM TypeCorrect == Spec => []TypeOK
BY Inductive, PTL DEF IInv

\* Rooms and connections agree on who sits where, whatever joins, resumes,
\* leaves, byes and reaper rounds come in between: a live room has a member, and
\* a member is in that room only, in that role, and not torn down.
THEOREM SeatsInOrder == Spec => []SeatsAgree
<1>1. IInv => SeatsAgree
      BY DEF IInv, SeatsOK
<1> QED BY <1>1, Inductive, PTL

\* However the checks and the charges of the two directions interleave, a room
\* relays less than one frame above the session budget.
THEOREM BudgetHolds == Spec => []OvershootBounded
<1>1. ASSUME IInv, NEW n \in RoomNumbers PROVE rooms[n].bytes <= Session + MaxFrame
  <2>1. /\ rooms[n].bytes \in Nat /\ Session + MaxFrame \in Nat
        /\ rooms[n].offerer \in Conns \cup {None} /\ rooms[n].joiner \in Conns \cup {None}
        BY <1>1, HubAssumption DEF IInv, TypeOK
  <2>2. Held(rooms[n].offerer) \in Nat /\ Held(rooms[n].joiner) \in Nat
        BY <1>1, <2>1, HeldType DEF IInv
  <2>3. rooms[n].bytes + Held(rooms[n].offerer) + Held(rooms[n].joiner) <= Session + MaxFrame
        BY <1>1 DEF IInv, BudgetOK
  <2> QED BY <2>1, <2>2, <2>3
<1>2. IInv => OvershootBounded
      BY <1>1 DEF OvershootBounded
<1> QED BY <1>2, Inductive, PTL

\* A relayed frame is only ever in the queue of a connection that shared a room
\* with its sender: the recipient is fixed under hub.mu, and a reuse of the room
\* number before the enqueue does not redirect it.
THEOREM FramesReachPartners == Spec => []FrameOnlyToPartner
<1>1. IInv => FrameOnlyToPartner
      BY DEF IInv, MetOK
<1> QED BY <1>1, Inductive, PTL

\* Unless a bye discarded a room in which its sender no longer had a seat, every
\* connection that entered a room and is not being closed still has its seat.
THEOREM SeatsKept == Spec => []OnlyStrayByesUnseat
<1>1. IInv => OnlyStrayByesUnseat
      BY DEF IInv
<1> QED BY <1>1, Inductive, PTL
=============================================================================
