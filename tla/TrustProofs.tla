----------------------------- MODULE TrustProofs -----------------------------
(***************************************************************************)
(* Proofs about Trust, for every choice of the devices that start and of   *)
(* those with a shell, and for every bound.                                *)
(*                                                                         *)
(* What the files hold depends on copies that somebody else has taken: the *)
(* clone of a rename, the record a session looked up, the maps a command   *)
(* has loaded.  The invariant says that on a device without a fault each   *)
(* copy is still what it was taken from.  What the ends agree on depends   *)
(* on the messages under way.                                              *)
(***************************************************************************)
EXTENDS Trust, TLAPS

Kept == [cred : Nat, label : {"sent", "own"}, auto : BOOLEAN, revoked : BOOLEAN]

Steps == {"idle", "failed", "done", "pair_req", "pair_resp", "pair_confI", "pair_confR",
          "sess_init", "sess_resp", "sess_confI", "sess_confR", "record", "secret", "touch"}

End == [pc : Steps, init : BOOLEAN, n : Nat, me : Gens, peer : Gens, cred : Nat, rec : Kept]

Key == Nat \X Nat \X Gens \X Gens

Message == [t : {"req", "resp"}, from : Gens, master : Nat]
           \cup [t : {"conf"}, ok : BOOLEAN, cred : Nat, to : Nat]
           \cup [t : {"init"}, from : Gens, to : Gens, cred : Nat]
           \cup [t : {"sresp"}, status : {"accepted", "revoked", "rejected"}, from : Gens, cred : Nat]
           \cup [t : {"sconf"}, key : Key]

Files == [Gens -> Kept]

Secrets == [Gens -> Nat]

StoresType ==
    /\ up \in [Devices -> BOOLEAN] /\ excused \in [Devices -> BOOLEAN]
    /\ ident \in [Devices -> Gens]
    /\ mem \in [Devices -> Files] /\ disk \in [Devices -> Files] /\ intent \in [Devices -> Files]
    /\ sec \in [Devices -> Secrets] /\ secDisk \in [Devices -> Secrets]
    /\ cli \in [Devices -> {<<>>} \cup (Files \X Secrets)]
    /\ ren \in [Devices -> {<<>>} \cup (Gens \X Kept)]

LinksType ==
    /\ end \in [Devices -> End]
    /\ chan \in [Devices -> Seq(Message)]
    /\ count \in [{"pair", "session", "op", "fault"} -> Nat]

\* Without its process a device takes part in nothing.
Down(d) == ~up[d] => Over(d) /\ ren[d] = <<>>

\* The secret of a record with credential c about g: stored, or about to be.
Backed(e, s, g, c) == IF e.pc = "secret" /\ e.peer = g THEN e.cred = c ELSE s[g] = c

\* The copies are what they were taken from, and every record has its secret, or
\* the ceremony that made the record is about to store it.
CopiesOK(d) ==
    /\ disk[d] = intent[d]
    /\ up[d] => mem[d] = intent[d] /\ sec[d] = secDisk[d]
    /\ cli[d] # <<>> => cli[d][1] = intent[d] /\ cli[d][2] = secDisk[d]
    /\ ren[d] # <<>> => ren[d][2] = intent[d][ren[d][1]] /\ ren[d][2] # NoRecord
    /\ \A g \in Gens : Holds(d, g) => end[d].rec = intent[d][g]
    /\ \A g \in Gens : intent[d][g] # NoRecord => Backed(end[d], secDisk[d], g, intent[d][g].cred)

StoresOK == \A d \in Devices : Down(d) /\ (~excused[d] => CopiesOK(d))

\* Who is the initiator, and that a pairing has looked up no record.
RoleOK(d) ==
    /\ end[d].pc \in {"sess_resp", "sess_confI"} => end[d].init
    /\ end[d].init => end[d].pc \notin {"sess_init", "sess_confR"} /\ ~end[Peer(d)].init
    /\ end[d].pc \in {"pair_req", "pair_resp", "pair_confI", "pair_confR", "record", "secret"} =>
         end[d].rec = NoRecord

\* The responder's confirmation under way to the initiator says that the
\* responder has verified the initiator, and with which key.
ConfirmedBy(d, m) ==
    LET p == end[Peer(d)]
    IN  ~Waits(Peer(d)) /\ m.key = <<p.cred, p.n, p.peer, p.me>>

ConfirmsOK(d) ==
    end[d].init => \A k \in DOMAIN chan[d] : chan[d][k].t = "sconf" => ConfirmedBy(d, chan[d][k])

In(d) == end[d].pc \in {"touch", "done"} /\ end[d].rec # NoRecord

AgreedOK(d) ==
    In(d) /\ end[d].init =>
        ~Waits(Peer(d)) /\ end[d].cred = end[Peer(d)].cred /\ end[d].peer = end[Peer(d)].me

LinksOK == \A d \in Devices : RoleOK(d) /\ ConfirmsOK(d) /\ AgreedOK(d)

IInv == StoresType /\ LinksType /\ StoresOK /\ LinksOK

-----------------------------------------------------------------------------
(***************************************************************************)
(* Devices, counters and channels.                                         *)
(***************************************************************************)
LEMMA PeerFacts ==
    \A d \in Devices : /\ Peer(d) \in Devices /\ Peer(d) # d /\ Peer(Peer(d)) = d
                       /\ \A e \in Devices : e = d \/ e = Peer(d)
<1>1. ASSUME NEW d \in Devices PROVE Peer(d) \in Devices /\ Peer(d) # d
  <2>1. \E e \in Devices : e # d
        BY DEF Devices
  <2> QED BY <2>1 DEF Peer
<1> QED BY <1>1 DEF Devices

LEMMA SpendFacts ==
    ASSUME LinksType, NEW ks, Spend(ks)
    PROVE  count' \in [{"pair", "session", "op", "fault"} -> Nat]
<1>1. DOMAIN Bound = {"pair", "session", "op", "fault"}
      BY DEF Bound
<1>2. ASSUME NEW k \in DOMAIN Bound PROVE (count[k] + IF k \in ks THEN 1 ELSE 0) \in Nat
      BY <1>1 DEF LinksType
<1>3. count' = [k \in DOMAIN Bound |-> count[k] + IF k \in ks THEN 1 ELSE 0]
      BY DEF Spend
<1> QED BY <1>1, <1>2, <1>3

LEMMA NumberFacts == LinksType => Number \in Nat
BY DEF LinksType, Number

LEMMA NoRecordKept == NoRecord \in Kept
BY DEF NoRecord, Kept

LEMMA ExchangeFacts ==
    ASSUME LinksType, NEW d \in Devices, NEW out \in Seq(Message), chan[d] # <<>>, Exchange(d, out)
    PROVE  /\ chan' \in [Devices -> Seq(Message)]
           /\ chan'[d] = Tail(chan[d]) /\ chan'[Peer(d)] = chan[Peer(d)] \o out
<1>1. chan \in [Devices -> Seq(Message)] /\ chan[d] \in Seq(Message) /\ chan[Peer(d)] \in Seq(Message)
      BY PeerFacts DEF LinksType
<1>2. Tail(chan[d]) \in Seq(Message) /\ chan[Peer(d)] \o out \in Seq(Message)
      BY <1>1
<1>3. chan' = [chan EXCEPT ![d] = Tail(@), ![Peer(d)] = @ \o out]
      BY DEF Exchange
<1> QED BY <1>1, <1>2, <1>3, PeerFacts

\* The message that is taken.
LEMMA HeadFacts ==
    ASSUME LinksType, NEW d \in Devices, chan[d] # <<>>
    PROVE  /\ Head(chan[d]) \in Message /\ Head(chan[d]) = chan[d][1] /\ 1 \in DOMAIN chan[d]
           /\ Head(chan[d]).t \in {"req", "resp", "init"} => Head(chan[d]).from \in Gens
<1>1. chan[d] \in Seq(Message)
      BY DEF LinksType
<1>2. Head(chan[d]) \in Message /\ Head(chan[d]) = chan[d][1] /\ 1 \in DOMAIN chan[d]
      BY <1>1
<1>3. ASSUME NEW m \in Message, m.t \in {"req", "resp", "init"} PROVE m.from \in Gens
      BY <1>3 DEF Message
<1> QED BY <1>2, <1>3

\* The elements of the rest of a queue, and of a queue with one message more.
LEMMA TailElements ==
    ASSUME NEW s \in Seq(Message), s # <<>>
    PROVE  \A k \in DOMAIN Tail(s) : k + 1 \in DOMAIN s /\ Tail(s)[k] = s[k + 1]
OBVIOUS

LEMMA LongerElements ==
    ASSUME NEW s \in Seq(Message), NEW m \in Message
    PROVE  \A k \in DOMAIN (s \o <<m>>) :
             IF k \in DOMAIN s THEN (s \o <<m>>)[k] = s[k] ELSE (s \o <<m>>)[k] = m
<1>1. Len(s) \in Nat /\ Len(s \o <<m>>) = Len(s) + 1 /\ DOMAIN s = 1 .. Len(s)
      /\ DOMAIN (s \o <<m>>) = 1 .. Len(s) + 1
      OBVIOUS
<1> QED BY <1>1

-----------------------------------------------------------------------------
(***************************************************************************)
(* What a step leaves alone.                                               *)
(***************************************************************************)

\* The files, the memory and the copies of device e stay.
Untouched(e) ==
    /\ up'[e] = up[e] /\ excused'[e] = excused[e] /\ intent'[e] = intent[e]
    /\ mem'[e] = mem[e] /\ disk'[e] = disk[e] /\ sec'[e] = sec[e] /\ secDisk'[e] = secDisk[e]
    /\ cli'[e] = cli[e] /\ ren'[e] = ren[e]

DeviceOK(e) == Down(e) /\ (~excused[e] => CopiesOK(e))

LEMMA OtherDevice ==
    ASSUME NEW e \in Devices, DeviceOK(e), Untouched(e), end'[e] = end[e]
    PROVE  DeviceOK(e)'
<1>1. Down(e)'
      BY DEF DeviceOK, Untouched, Down, Over
<1>2. \A g : Holds(e, g)' <=> Holds(e, g)
      BY DEF Holds
<1>3. ~excused[e] => CopiesOK(e)'
      BY <1>2 DEF DeviceOK, CopiesOK, Untouched
<1> QED BY <1>1, <1>3 DEF DeviceOK, Untouched

\* All of them stay, one end moves: it holds the record it held, or the one in
\* memory, and the ceremony's secret is not pending on either side.
Moved(d, r) ==
    /\ up[d] \/ r.pc \in {"idle", "failed", "done"}
    /\ end[d].pc # "secret" /\ r.pc # "secret"
    /\ r.pc \in {"sess_resp", "sess_confI", "sess_confR", "touch"} =>
         \/ Holds(d, r.peer) /\ r.rec = end[d].rec
         \/ up[d] /\ r.rec = mem[d][r.peer]

LEMMA MovedDevice ==
    ASSUME NEW d \in Devices, NEW r \in End, DeviceOK(d), Untouched(d), end'[d] = r, Moved(d, r)
    PROVE  DeviceOK(d)'
<1>1. Down(d)'
      BY DEF DeviceOK, Untouched, Down, Over, Moved
<1>2. ASSUME ~excused[d] PROVE CopiesOK(d)'
  <2>0. CopiesOK(d)
        BY <1>2 DEF DeviceOK
  <2>1. ASSUME NEW g \in Gens, Holds(d, g)' PROVE end'[d].rec = intent'[d][g]
    <3>1. r.peer = g /\ r.pc \in {"sess_resp", "sess_confI", "sess_confR", "touch"}
          BY <2>1 DEF Holds
    <3>2. CASE Holds(d, r.peer) /\ r.rec = end[d].rec
          BY <2>0, <3>1, <3>2 DEF CopiesOK, Untouched
    <3>3. CASE up[d] /\ r.rec = mem[d][r.peer]
          BY <2>0, <3>1, <3>3 DEF CopiesOK, Untouched
    <3> QED BY <3>1, <3>2, <3>3 DEF Moved
  <2> QED BY <2>0, <2>1 DEF CopiesOK, Untouched, Moved, Backed
<1> QED BY <1>1, <1>2 DEF DeviceOK, Untouched

Waiting == {"pair_req", "pair_resp", "pair_confI", "pair_confR",
            "sess_init", "sess_resp", "sess_confI", "sess_confR"}

\* The ends and the channels stay.
LEMMA QuietLinks == ASSUME LinksOK, UNCHANGED links PROVE LinksOK'
<1>1. end' = end /\ chan' = chan
      BY DEF links
<1>2. \A d \in Devices : (Waits(d)' <=> Waits(d)) /\ (In(d)' <=> In(d))
      BY <1>1 DEF Waits, In
<1>3. \A d \in Devices : RoleOK(d)' /\ AgreedOK(d)'
      BY <1>1, <1>2, PeerFacts DEF LinksOK, RoleOK, AgreedOK
<1>4. ASSUME NEW d \in Devices PROVE ConfirmsOK(d)'
  <2>1. \A m : ConfirmedBy(d, m)' <=> ConfirmedBy(d, m)
        BY <1>1, <1>2, PeerFacts DEF ConfirmedBy
  <2> QED BY <1>1, <2>1 DEF LinksOK, ConfirmsOK
<1> QED BY <1>3, <1>4 DEF LinksOK

\* The role a step leaves an end in.
RoleKept(d, r) ==
    /\ r.init = end[d].init
    /\ r.pc \in {"sess_resp", "sess_confI"} => r.init
    /\ r.init => r.pc \notin {"sess_init", "sess_confR"}
    /\ r.pc \in {"pair_req", "pair_resp", "pair_confI", "pair_confR", "record", "secret"} =>
         r.rec = NoRecord

LEMMA RolesStep ==
    ASSUME LinksType, LinksOK, NEW d \in Devices, NEW r, RoleKept(d, r), end' = [end EXCEPT ![d] = r]
    PROVE  \A e \in Devices : RoleOK(e)'
<1>1. end'[d] = r /\ end'[Peer(d)] = end[Peer(d)]
      BY PeerFacts DEF LinksType
<1>2. RoleOK(d) /\ RoleOK(Peer(d))
      BY PeerFacts DEF LinksOK
<1>3. RoleOK(d)' /\ RoleOK(Peer(d))'
      BY <1>1, <1>2, PeerFacts DEF RoleOK, RoleKept
<1> QED BY <1>3, PeerFacts

\* An end that no longer waits moves on, its fields stay.
LEMMA LateStep ==
    ASSUME LinksType, LinksOK, NEW d \in Devices, NEW r, RoleKept(d, r), end' = [end EXCEPT ![d] = r],
           chan' = chan, r.pc \notin Waiting,
           r.cred = end[d].cred, r.n = end[d].n, r.peer = end[d].peer, r.me = end[d].me,
           r.pc \in {"touch", "done"} /\ r.rec # NoRecord => In(d)
    PROVE  LinksOK'
<1> DEFINE p == Peer(d)
<1>1. /\ end'[d] = r /\ end'[p] = end[p] /\ p \in Devices /\ p # d /\ Peer(p) = d
      /\ \A e \in Devices : e = d \/ e = p
      BY PeerFacts DEF LinksType
<1>2. ConfirmsOK(d) /\ ConfirmsOK(p) /\ AgreedOK(d) /\ AgreedOK(p)
      BY <1>1 DEF LinksOK
<1>3. ~Waits(d)' /\ (Waits(p)' <=> Waits(p)) /\ (In(d)' => In(d)) /\ (In(p)' <=> In(p))
      BY <1>1 DEF Waits, Waiting, In
<1>4. AgreedOK(d)' /\ AgreedOK(p)'
      BY <1>1, <1>2, <1>3 DEF AgreedOK, RoleKept
<1>5. ConfirmsOK(d)' /\ ConfirmsOK(p)'
  <2>1. \A m : (ConfirmedBy(d, m) => ConfirmedBy(d, m)') /\ (ConfirmedBy(p, m) => ConfirmedBy(p, m)')
        BY <1>1, <1>3 DEF ConfirmedBy
  <2> QED BY <1>1, <1>2, <2>1 DEF ConfirmsOK, RoleKept
<1>6. \A e \in Devices : RoleOK(e)'
      BY RolesStep
<1> QED BY <1>1, <1>4, <1>5, <1>6 DEF LinksOK

\* One message, of some kind.
Says(out, m) == m \in Message /\ out = <<m>>

\* What a step may send that takes the end of d to r: the responder's confirmation
\* only with the key it has verified.
Answers(d, r, out) ==
    out = <<>> \/ \E m : /\ Says(out, m)
                         /\ m.t = "sconf" /\ end[Peer(d)].init =>
                               r.pc \notin Waiting /\ m.key = <<r.cred, r.n, r.peer, r.me>>

\* The initiator is in when the responder is.
AgreesNow(d, r) ==
    r.init /\ r.pc \in {"touch", "done"} /\ r.rec # NoRecord =>
        ~Waits(Peer(d)) /\ r.cred = end[Peer(d)].cred /\ r.peer = end[Peer(d)].me

\* An end that waits takes a message or gives up, and may answer.  Nobody can have
\* its confirmation yet.
LEMMA WaitStep ==
    ASSUME LinksType, LinksOK, NEW d \in Devices, Waits(d), NEW r, RoleKept(d, r),
           end' = [end EXCEPT ![d] = r], NEW out \in Seq(Message),
           (chan' = chan /\ out = <<>>) \/ (chan[d] # <<>> /\ Exchange(d, out)),
           Answers(d, r, out), AgreesNow(d, r)
    PROVE  LinksOK'
<1> DEFINE p == Peer(d)
<1>1. /\ end'[d] = r /\ end'[p] = end[p] /\ p \in Devices /\ p # d /\ Peer(p) = d
      /\ \A e \in Devices : e = d \/ e = p
      /\ chan[d] \in Seq(Message) /\ chan[p] \in Seq(Message)
      BY PeerFacts DEF LinksType
<1>2. ConfirmsOK(d) /\ ConfirmsOK(p) /\ AgreedOK(d) /\ AgreedOK(p)
      BY <1>1 DEF LinksOK
<1>3. (Waits(p)' <=> Waits(p)) /\ (In(p)' <=> In(p)) /\ (r.pc \notin Waiting => ~Waits(d)')
      /\ (In(d)' <=> r.pc \in {"touch", "done"} /\ r.rec # NoRecord)
      BY <1>1 DEF Waits, Waiting, In
<1>4. AgreedOK(d)' /\ AgreedOK(p)'
  <2>1. ~(In(p) /\ end[p].init)
        BY <1>1, <1>2 DEF AgreedOK
  <2> QED BY <1>1, <1>3, <2>1 DEF AgreedOK, AgreesNow
<1>5. ConfirmsOK(d)'
  <2>1. \A m : ConfirmedBy(d, m) => ConfirmedBy(d, m)'
        BY <1>1, <1>3 DEF ConfirmedBy
  <2>2. CASE chan' = chan
        BY <1>1, <1>2, <2>1, <2>2 DEF ConfirmsOK, RoleKept
  <2>3. CASE chan[d] # <<>> /\ Exchange(d, out)
    <3>1. chan'[d] = Tail(chan[d])
          BY <2>3, ExchangeFacts
    <3>2. \A k \in DOMAIN chan'[d] : k + 1 \in DOMAIN chan[d] /\ chan'[d][k] = chan[d][k + 1]
          BY <1>1, <2>3, <3>1, TailElements
    <3> QED BY <1>1, <1>2, <2>1, <3>2 DEF ConfirmsOK, RoleKept
  <2> QED BY <2>2, <2>3
<1>6. ConfirmsOK(p)'
  <2>0. SUFFICES ASSUME end[p].init PROVE \A k \in DOMAIN chan'[p] : chan'[p][k].t = "sconf" => ConfirmedBy(p, chan[p][k])'
        BY <1>1 DEF ConfirmsOK
  <2>1. \A k \in DOMAIN chan[p] : chan[p][k].t # "sconf"
        BY <1>1, <1>2, <2>0 DEF ConfirmsOK, ConfirmedBy
  <2>2. CASE chan'[p] = chan[p]
        BY <2>1, <2>2
  <2>3. CASE chan'[p] # chan[p]
    <3>1. chan'[p] = chan[p] \o out
          BY <2>3, ExchangeFacts
    <3>2. out # <<>>
          BY <1>1, <2>3, <3>1
    <3>3. PICK m \in Message : /\ out = <<m>>
                               /\ m.t = "sconf" =>
                                     r.pc \notin Waiting /\ m.key = <<r.cred, r.n, r.peer, r.me>>
          BY <2>0, <3>2 DEF Answers, Says
    <3>4. \A k \in DOMAIN chan'[p] : chan'[p][k].t = "sconf" => chan'[p][k] = m
          BY <1>1, <2>1, <3>1, <3>3, LongerElements
    <3>5. \A x : x = m /\ m.t = "sconf" => ~Waits(d)' /\ x.key = <<r.cred, r.n, r.peer, r.me>>
          BY <1>3, <3>3
    <3> QED BY <1>1, <3>4, <3>5 DEF ConfirmedBy
  <2> QED BY <2>2, <2>3
<1>7. \A e \in Devices : RoleOK(e)'
      BY RolesStep
<1> QED BY <1>1, <1>4, <1>5, <1>6, <1>7 DEF LinksOK

\* A step of device d that leaves ends and channels alone.
LEMMA StoreStep ==
    ASSUME IInv, NEW d \in Devices, StoresType', LinksType', UNCHANGED links,
           DeviceOK(d)', Untouched(Peer(d))
    PROVE  IInv'
<1>1. LinksOK'
      BY QuietLinks DEF IInv
<1>2. DeviceOK(Peer(d))'
      BY PeerFacts, OtherDevice DEF IInv, StoresOK, DeviceOK, links
<1>3. StoresOK'
      BY <1>2, PeerFacts DEF StoresOK, DeviceOK
<1> QED BY <1>1, <1>3 DEF IInv

-----------------------------------------------------------------------------
(***************************************************************************)
(* Writes of a record.                                                     *)
(***************************************************************************)

\* AddOrUpdateDevice together with what the user meant by it.
LEMMA WriteFacts ==
    ASSUME StoresType, NEW d \in Devices, NEW g \in Gens, NEW rec \in Kept, NEW ok \in BOOLEAN,
           NEW clean, AddOrUpdateDevice(d, g, rec, ok), Intend(d, g, rec, clean)
    PROVE  /\ mem' \in [Devices -> Files] /\ disk' \in [Devices -> Files]
           /\ intent' \in [Devices -> Files] /\ excused' \in [Devices -> BOOLEAN]
           /\ mem'[d] = [mem[d] EXCEPT ![g] = rec] /\ intent'[d] = [intent[d] EXCEPT ![g] = rec]
           /\ ok => disk'[d] = mem'[d]
           /\ ~excused'[d] => ~excused[d] /\ clean
           /\ mem'[Peer(d)] = mem[Peer(d)] /\ disk'[Peer(d)] = disk[Peer(d)]
           /\ intent'[Peer(d)] = intent[Peer(d)] /\ excused'[Peer(d)] = excused[Peer(d)]
<1>0. /\ mem \in [Devices -> Files] /\ disk \in [Devices -> Files] /\ intent \in [Devices -> Files]
      /\ excused \in [Devices -> BOOLEAN] /\ mem[d] \in Files /\ intent[d] \in Files
      BY DEF StoresType
<1>1. PICK f \in Files : f = [mem[d] EXCEPT ![g] = rec]
      BY <1>0 DEF Files
<1>2. PICK h \in Files : h = [intent[d] EXCEPT ![g] = rec]
      BY <1>0 DEF Files
<1>3. mem' = [mem EXCEPT ![d] = f] /\ intent' = [intent EXCEPT ![d] = h]
      BY <1>1, <1>2 DEF AddOrUpdateDevice, Intend
<1>4. /\ mem' \in [Devices -> Files] /\ mem'[d] = f /\ mem'[Peer(d)] = mem[Peer(d)]
      /\ intent' \in [Devices -> Files] /\ intent'[d] = h /\ intent'[Peer(d)] = intent[Peer(d)]
      BY <1>0, <1>3, PeerFacts
<1>5. ok => disk'[d] = mem'[d]
      BY <1>0, <1>4 DEF AddOrUpdateDevice, SaveLocked
<1>6. disk' \in [Devices -> Files] /\ disk'[Peer(d)] = disk[Peer(d)]
      BY <1>0, <1>4, PeerFacts DEF AddOrUpdateDevice, SaveLocked
<1>7. PICK x \in BOOLEAN : x = (excused[d] \/ ~clean)
      OBVIOUS
<1>8. excused' = [excused EXCEPT ![d] = x]
      BY <1>7 DEF Intend
<1>9. /\ excused' \in [Devices -> BOOLEAN] /\ excused'[d] = x /\ excused'[Peer(d)] = excused[Peer(d)]
      BY <1>0, <1>8, PeerFacts
<1>10. ~excused'[d] => ~excused[d] /\ clean
      BY <1>7, <1>9
<1> QED BY <1>1, <1>2, <1>4, <1>5, <1>6, <1>9, <1>10

\* A record is written with no copy about, and its secret is the one it names.
LEMMA CopiesWritten ==
    ASSUME StoresType, NEW d \in Devices, CopiesOK(d), up[d],
           NEW g \in Gens, NEW rec \in Kept,
           mem'[d] = [mem[d] EXCEPT ![g] = rec], disk'[d] = mem'[d],
           intent'[d] = [intent[d] EXCEPT ![g] = rec],
           cli'[d] = <<>>, ren'[d] = <<>>, sec'[d] = secDisk'[d],
           \A h \in Gens : Holds(d, h)' => h # g /\ Holds(d, h) /\ end'[d].rec = end[d].rec,
           rec # NoRecord => Backed(end'[d], secDisk'[d], g, rec.cred),
           \A h \in Gens \ {g} :
               /\ secDisk'[d][h] = secDisk[d][h]
               /\ end'[d] = end[d] \/ (end[d].pc # "secret" /\ end'[d].peer = g)
    PROVE  CopiesOK(d)'
<1>0. mem[d] \in Files /\ intent[d] \in Files /\ mem[d] = intent[d]
      BY DEF StoresType, CopiesOK
<1>1. /\ mem'[d] = intent'[d] /\ disk'[d] = intent'[d] /\ intent'[d][g] = rec
      /\ \A h \in Gens \ {g} : intent'[d][h] = intent[d][h]
      BY <1>0 DEF Files
<1>2. \A h \in Gens : Holds(d, h)' => end'[d].rec = intent'[d][h]
      BY <1>1 DEF CopiesOK
<1>3. ASSUME NEW h \in Gens, intent'[d][h] # NoRecord
      PROVE  Backed(end'[d], secDisk'[d], h, intent'[d][h].cred)
  <2>1. CASE h = g
        BY <1>1, <1>3, <2>1
  <2>2. CASE h # g
        BY <1>1, <1>3, <2>2 DEF CopiesOK, Backed
  <2> QED BY <2>1, <2>2
<1> QED BY <1>1, <1>2, <1>3 DEF CopiesOK

\* The forms of a record the user's operations write.
LEMMA FormFacts ==
    ASSUME NEW rec \in Kept
    PROVE  /\ RevokedForm(rec) \in Kept /\ RevokedForm(rec).cred = rec.cred
           /\ [rec EXCEPT !.auto = ~@] \in Kept /\ [rec EXCEPT !.auto = ~@].cred = rec.cred
           /\ [rec EXCEPT !.label = "own"] \in Kept /\ [rec EXCEPT !.label = "own"].cred = rec.cred
<1>1. RevokedForm(rec) \in Kept /\ RevokedForm(rec).cred = rec.cred
      BY DEF Kept, RevokedForm
<1>2. PICK x \in BOOLEAN : x = ~rec.auto
      OBVIOUS
<1>3. [rec EXCEPT !.auto = x] \in Kept /\ [rec EXCEPT !.auto = x].cred = rec.cred
      BY DEF Kept
<1>4. [rec EXCEPT !.label = "own"] \in Kept /\ [rec EXCEPT !.label = "own"].cred = rec.cred
      BY DEF Kept
<1> QED BY <1>1, <1>2, <1>3, <1>4

\* A device in which only an operation of the user has written.
LEMMA UserWrite ==
    ASSUME IInv, NEW d \in Devices, NEW g \in Gens, NEW rec \in Kept, NEW ok \in BOOLEAN, NEW clean,
           AddOrUpdateDevice(d, g, rec, ok), Intend(d, g, rec, clean), up[d],
           clean => ok /\ cli[d] = <<>> /\ ~Holds(d, g),
           clean => ren'[d] = <<>>,
           ~excused[d] /\ clean => rec.cred = intent[d][g].cred /\ intent[d][g] # NoRecord,
           ren' \in [Devices -> {<<>>} \cup (Gens \X Kept)], ren'[Peer(d)] = ren[Peer(d)],
           NEW ks, Spend(ks), UNCHANGED <<up, ident, sec, secDisk, cli, links>>
    PROVE  IInv'
<1>0. StoresType /\ LinksType /\ DeviceOK(d)
      BY DEF IInv, StoresOK, DeviceOK
<1>1. /\ mem' \in [Devices -> Files] /\ disk' \in [Devices -> Files]
      /\ intent' \in [Devices -> Files] /\ excused' \in [Devices -> BOOLEAN]
      /\ mem'[d] = [mem[d] EXCEPT ![g] = rec] /\ intent'[d] = [intent[d] EXCEPT ![g] = rec]
      /\ ok => disk'[d] = mem'[d]
      /\ ~excused'[d] => ~excused[d] /\ clean
      /\ mem'[Peer(d)] = mem[Peer(d)] /\ disk'[Peer(d)] = disk[Peer(d)]
      /\ intent'[Peer(d)] = intent[Peer(d)] /\ excused'[Peer(d)] = excused[Peer(d)]
      BY <1>0, WriteFacts
<1>2. StoresType' /\ LinksType'
      BY <1>0, <1>1, SpendFacts DEF StoresType, LinksType, links
<1>3. Untouched(Peer(d))
      BY <1>1 DEF Untouched
<1>4. ASSUME ~excused'[d] PROVE CopiesOK(d)'
  <2>1. ~excused[d] /\ clean /\ CopiesOK(d)
        BY <1>0, <1>1, <1>4 DEF DeviceOK
  <2>2. end' = end /\ secDisk' = secDisk /\ sec' = sec /\ cli' = cli
        BY DEF links
  <2>3. \A h \in Gens : Holds(d, h)' => h # g /\ Holds(d, h)
        BY <2>1, <2>2 DEF Holds
  <2>4. rec # NoRecord => Backed(end'[d], secDisk'[d], g, rec.cred)
        BY <2>1, <2>2 DEF CopiesOK
  <2>5. sec'[d] = secDisk'[d] /\ cli'[d] = <<>> /\ ren'[d] = <<>> /\ disk'[d] = mem'[d]
        BY <1>1, <2>1, <2>2 DEF CopiesOK
  <2> QED BY <1>0, <1>1, <2>1, <2>2, <2>3, <2>4, <2>5, CopiesWritten
<1>5. Down(d)'
      BY DEF Down
<1> QED BY <1>2, <1>3, <1>4, <1>5, StoreStep DEF DeviceOK

LEMMA RevokeIInv ==
    ASSUME IInv, NEW d \in Devices, NEW g \in Gens, NEW ok \in BOOLEAN,
           Revoke(d, g, ok) \/ UpdatePolicy(d, g, ok)
    PROVE  IInv'
<1>0. StoresType /\ mem[d][g] \in Kept /\ DeviceOK(d)
      BY DEF IInv, StoresType, StoresOK, DeviceOK, Files
<1>1. PICK rec : /\ rec = RevokedForm(mem[d][g]) \/ rec = [mem[d][g] EXCEPT !.auto = ~@]
                 /\ AddOrUpdateDevice(d, g, rec, ok) /\ Intend(d, g, rec, ok /\ ~Overlap(d, g))
      BY DEF Revoke, UpdatePolicy
<1>2. rec \in Kept /\ rec.cred = mem[d][g].cred
      BY <1>0, <1>1, FormFacts
<1>3. /\ up[d] /\ mem[d][g] # NoRecord /\ Spend({"op"} \cup Unless(ok))
      /\ UNCHANGED <<up, ident, sec, secDisk, cli, ren, links>>
      BY DEF Revoke, UpdatePolicy
<1>4. ok /\ ~Overlap(d, g) => ok /\ cli[d] = <<>> /\ ~Holds(d, g) /\ ren[d] = <<>>
      BY DEF Overlap
<1>5. ~excused[d] => rec.cred = intent[d][g].cred /\ intent[d][g] # NoRecord
      BY <1>0, <1>2, <1>3 DEF DeviceOK, CopiesOK
<1>6. ren' \in [Devices -> {<<>>} \cup (Gens \X Kept)] /\ ren' = ren
      BY <1>0, <1>3 DEF StoresType
<1> QED BY <1>1, <1>2, <1>3, <1>4, <1>5, <1>6, UserWrite

LEMMA RenameEndsIInv ==
    ASSUME IInv, NEW d \in Devices, NEW ok \in BOOLEAN, RenameEnds(d, ok) PROVE IInv'
<1>0. StoresType /\ DeviceOK(d)
      BY DEF IInv, StoresOK, DeviceOK
<1>1. ren[d] \in Gens \X Kept
      BY <1>0 DEF RenameEnds, StoresType
<1>2. PICK g \in Gens, old \in Kept : ren[d] = <<g, old>>
      BY <1>1
<1>3. PICK rec : rec = [old EXCEPT !.label = "own"]
      OBVIOUS
<1>4. ren[d][1] = g /\ ren[d][2] = old
      BY <1>2
<1>5. /\ AddOrUpdateDevice(d, g, rec, ok) /\ Intend(d, g, rec, ok /\ cli[d] = <<>> /\ ~Holds(d, g))
      /\ Spend(Unless(ok)) /\ ren' = [ren EXCEPT ![d] = <<>>]
      /\ UNCHANGED <<up, ident, sec, secDisk, cli, links>>
      BY <1>3, <1>4 DEF RenameEnds
<1>6. rec \in Kept /\ rec.cred = old.cred
      BY <1>3, FormFacts
<1>7. up[d]
      BY <1>0 DEF DeviceOK, Down, RenameEnds
<1>8. ~excused[d] => rec.cred = intent[d][g].cred /\ intent[d][g] # NoRecord
  <2>1. ren[d] # <<>>
        BY DEF RenameEnds
  <2> QED BY <1>0, <1>4, <1>6, <2>1 DEF DeviceOK, CopiesOK
<1>9. /\ ren' \in [Devices -> {<<>>} \cup (Gens \X Kept)] /\ ren'[Peer(d)] = ren[Peer(d)]
      /\ ren'[d] = <<>>
      BY <1>0, <1>5, PeerFacts DEF StoresType
<1> QED BY <1>5, <1>6, <1>7, <1>8, <1>9, UserWrite

LEMMA RenameBeginsIInv ==
    ASSUME IInv, NEW d \in Devices, NEW g \in Gens, RenameBegins(d, g) PROVE IInv'
<1>0. StoresType /\ LinksType /\ DeviceOK(d) /\ mem[d][g] \in Kept
      BY DEF IInv, StoresOK, DeviceOK, StoresType, Files
<1>1. PICK c : c = <<g, mem[d][g]>>
      OBVIOUS
<1>c. c \in Gens \X Kept /\ c[1] = g /\ c[2] = mem[d][g]
      BY <1>0, <1>1
<1>2. /\ up[d] /\ mem[d][g] # NoRecord /\ Spend({"op"}) /\ ren' = [ren EXCEPT ![d] = c]
      /\ UNCHANGED <<up, ident, stores, cli, links, intent, excused>>
      BY <1>1 DEF RenameBegins
<1>3. /\ ren' \in [Devices -> {<<>>} \cup (Gens \X Kept)] /\ ren'[Peer(d)] = ren[Peer(d)]
      /\ ren'[d] = c
      BY <1>0, <1>c, <1>2, PeerFacts DEF StoresType
<1>4. StoresType' /\ LinksType'
      BY <1>0, <1>2, <1>3, SpendFacts DEF StoresType, LinksType, links, stores
<1>5. Untouched(Peer(d))
      BY <1>2, <1>3 DEF Untouched, stores
<1>6. ~excused[d] => CopiesOK(d)'
  <2>1. end' = end
        BY <1>2 DEF links
  <2>2. \A h : Holds(d, h)' <=> Holds(d, h)
        BY <2>1 DEF Holds
  <2> QED BY <1>0, <1>c, <1>2, <1>3, <2>1, <2>2 DEF DeviceOK, CopiesOK, stores
<1>7. Down(d)'
      BY <1>2 DEF Down
<1> QED BY <1>2, <1>4, <1>5, <1>6, <1>7, StoreStep DEF DeviceOK

LEMMA PurgeIInv ==
    ASSUME IInv, NEW d \in Devices, NEW g \in Gens, NEW ok \in BOOLEAN, Purge(d, g, ok) PROVE IInv'
<1>0. StoresType /\ LinksType /\ DeviceOK(d) /\ sec[d] \in Secrets /\ NoRecord \in Kept
      BY NoRecordKept DEF IInv, StoresOK, DeviceOK, StoresType
<1>1. /\ up[d] /\ Spend({"op"} \cup Unless(ok)) /\ AddOrUpdateDevice(d, g, NoRecord, ok)
      /\ Intend(d, g, NoRecord, ok /\ ~Overlap(d, g))
      /\ UNCHANGED <<up, ident, cli, ren, links>>
      /\ IF ok THEN DeleteSecret(d, g) ELSE UNCHANGED <<sec, secDisk>>
      BY DEF Purge
<1>2. /\ mem' \in [Devices -> Files] /\ disk' \in [Devices -> Files]
      /\ intent' \in [Devices -> Files] /\ excused' \in [Devices -> BOOLEAN]
      /\ mem'[d] = [mem[d] EXCEPT ![g] = NoRecord] /\ intent'[d] = [intent[d] EXCEPT ![g] = NoRecord]
      /\ ok => disk'[d] = mem'[d]
      /\ ~excused'[d] => ~excused[d] /\ ok /\ ~Overlap(d, g)
      /\ mem'[Peer(d)] = mem[Peer(d)] /\ disk'[Peer(d)] = disk[Peer(d)]
      /\ intent'[Peer(d)] = intent[Peer(d)] /\ excused'[Peer(d)] = excused[Peer(d)]
      BY <1>0, <1>1, WriteFacts
<1>3. PICK zero \in Nat : zero = 0
      OBVIOUS
<1>4. PICK s \in Secrets : s = [sec[d] EXCEPT ![g] = zero]
      BY <1>0 DEF Secrets
<1>5. ok => sec' = [sec EXCEPT ![d] = s] /\ secDisk' = [secDisk EXCEPT ![d] = s]
  <2>1. ASSUME ok PROVE sec' = [sec EXCEPT ![d] = s] /\ secDisk' = [secDisk EXCEPT ![d] = sec'[d]]
        BY <1>1, <1>3, <1>4, <2>1 DEF DeleteSecret, WriteSecret
  <2>2. ASSUME ok PROVE sec'[d] = s
        BY <1>0, <2>1, <2>2 DEF StoresType
  <2> QED BY <2>1, <2>2
<1>6. /\ sec' \in [Devices -> Secrets] /\ secDisk' \in [Devices -> Secrets]
      /\ sec'[Peer(d)] = sec[Peer(d)] /\ secDisk'[Peer(d)] = secDisk[Peer(d)]
      /\ ok => sec'[d] = s /\ secDisk'[d] = s
  <2>1. CASE ok
        BY <1>0, <1>5, <2>1, PeerFacts DEF StoresType
  <2>2. CASE ~ok
        BY <1>0, <1>1, <2>2 DEF StoresType
  <2> QED BY <2>1, <2>2
<1>7. StoresType' /\ LinksType'
      BY <1>0, <1>1, <1>2, <1>6, SpendFacts DEF StoresType, LinksType, links
<1>8. Untouched(Peer(d))
      BY <1>1, <1>2, <1>6 DEF Untouched
<1>9. ASSUME ~excused'[d] PROVE CopiesOK(d)'
  <2>1. /\ ~excused[d] /\ ok /\ CopiesOK(d) /\ cli[d] = <<>> /\ ren[d] = <<>> /\ ~Holds(d, g)
        BY <1>0, <1>2, <1>9 DEF DeviceOK, Overlap
  <2>2. end' = end /\ cli' = cli /\ ren' = ren
        BY <1>1 DEF links
  <2>3. \A h \in Gens : Holds(d, h)' => h # g /\ Holds(d, h)
        BY <2>1, <2>2 DEF Holds
  <2>4. \A h \in Gens \ {g} : secDisk'[d][h] = secDisk[d][h]
    <3>1. sec[d] = secDisk[d]
          BY <1>1, <2>1 DEF CopiesOK
    <3> QED BY <1>0, <1>4, <1>6, <2>1, <3>1 DEF Secrets
  <2>5. sec'[d] = secDisk'[d] /\ disk'[d] = mem'[d]
        BY <1>2, <1>6, <2>1
  <2> QED BY <1>0, <1>1, <1>2, <2>1, <2>2, <2>3, <2>4, <2>5, CopiesWritten
<1>10. Down(d)'
      BY <1>1 DEF Down
<1> QED BY <1>1, <1>7, <1>8, <1>9, <1>10, StoreStep DEF DeviceOK

LEMMA RotateIdentityIInv == ASSUME IInv, NEW d \in Devices, RotateIdentity(d) PROVE IInv'
<1>0. StoresType /\ LinksType /\ DeviceOK(d)
      BY DEF IInv, StoresOK, DeviceOK
<1>1. ident[d] + 1 \in Gens
      BY <1>0, TrustAssumption DEF StoresType, RotateIdentity, Gens
<1>2. ident' \in [Devices -> Gens]
      BY <1>0, <1>1 DEF RotateIdentity, StoresType
<1>3. Spend({"op"}) /\ UNCHANGED <<up, stores, cli, ren, links, intent, excused>>
      BY DEF RotateIdentity
<1>4. StoresType' /\ LinksType'
      BY <1>0, <1>2, <1>3, SpendFacts DEF StoresType, LinksType, links, stores
<1>5. Untouched(d) /\ Untouched(Peer(d)) /\ end' = end
      BY <1>3 DEF Untouched, stores, links
<1>6. DeviceOK(d)'
      BY <1>0, <1>5, OtherDevice
<1> QED BY <1>3, <1>4, <1>5, <1>6, StoreStep

-----------------------------------------------------------------------------
(***************************************************************************)
(* The unpair command, the crash and the restart.                          *)
(***************************************************************************)
LEMMA UnpairLoadsIInv ==
    ASSUME IInv, NEW d \in Devices, UnpairLoads(d) \/ UnpairStops(d) PROVE IInv'
<1>0. StoresType /\ LinksType /\ DeviceOK(d) /\ disk[d] \in Files /\ secDisk[d] \in Secrets
      BY DEF IInv, StoresOK, DeviceOK, StoresType
<1>1. PICK c : /\ c = <<disk[d], secDisk[d]>> \/ c = <<>>
               /\ cli' = [cli EXCEPT ![d] = c]
      BY DEF UnpairLoads, UnpairStops, LoadedSecrets
<1>2. /\ c \in {<<>>} \cup (Files \X Secrets)
      /\ c # <<>> => c[1] = disk[d] /\ c[2] = secDisk[d]
      BY <1>0, <1>1
<1>3. /\ cli' \in [Devices -> {<<>>} \cup (Files \X Secrets)] /\ cli'[d] = c
      /\ cli'[Peer(d)] = cli[Peer(d)]
      BY <1>0, <1>1, <1>2, PeerFacts DEF StoresType
<1>4. UNCHANGED <<up, ident, stores, ren, links, intent, excused>>
      BY DEF UnpairLoads, UnpairStops
<1>5. StoresType' /\ LinksType'
  <2>1. count' \in [{"pair", "session", "op", "fault"} -> Nat]
        BY <1>0, SpendFacts DEF UnpairLoads, UnpairStops, LinksType
  <2> QED BY <1>0, <1>3, <1>4, <2>1 DEF StoresType, LinksType, links, stores
<1>6. Untouched(Peer(d))
      BY <1>3, <1>4 DEF Untouched, stores
<1>7. ~excused[d] => CopiesOK(d)'
  <2>1. end' = end
        BY <1>4 DEF links
  <2>2. \A h : Holds(d, h)' <=> Holds(d, h)
        BY <2>1 DEF Holds
  <2> QED BY <1>0, <1>2, <1>3, <1>4, <2>1, <2>2 DEF DeviceOK, CopiesOK, stores
<1>8. Down(d)'
      BY <1>0, <1>4 DEF DeviceOK, Down, Over, links
<1> QED BY <1>4, <1>5, <1>6, <1>7, <1>8, StoreStep DEF DeviceOK

LEMMA UnpairWritesIInv ==
    ASSUME IInv, NEW d \in Devices, NEW g \in Gens, NEW purge \in BOOLEAN, UnpairWrites(d, g, purge)
    PROVE  IInv'
<1>0. /\ StoresType /\ LinksType /\ DeviceOK(d) /\ intent[d] \in Files /\ secDisk[d] \in Secrets
      /\ cli[d] \in Files \X Secrets
      BY DEF IInv, StoresOK, DeviceOK, StoresType, UnpairWrites
<1>1. cli[d][1] \in Files /\ cli[d][2] \in Secrets /\ cli[d][1][g] \in Kept
      BY <1>0 DEF Files
<1>2. PICK rec : rec = IF purge THEN NoRecord ELSE RevokedForm(cli[d][1][g])
      OBVIOUS
<1>3. /\ rec \in Kept
      /\ ~purge => rec.cred = cli[d][1][g].cred
      /\ purge => rec = NoRecord
      BY <1>1, <1>2, FormFacts, NoRecordKept
<1>4. PICK zero \in Nat : zero = 0
      OBVIOUS
<1>5. PICK f \in Files, h \in Files, s \in Secrets :
         /\ f = [cli[d][1] EXCEPT ![g] = rec] /\ h = [intent[d] EXCEPT ![g] = rec]
         /\ s = [cli[d][2] EXCEPT ![g] = zero]
      BY <1>0, <1>1, <1>3 DEF Files, Secrets
<1>6. PICK x \in BOOLEAN : x = (excused[d] \/ up[d])
      OBVIOUS
<1>7. /\ disk' = [disk EXCEPT ![d] = f] /\ intent' = [intent EXCEPT ![d] = h]
      /\ secDisk' = IF purge THEN [secDisk EXCEPT ![d] = s] ELSE secDisk
      /\ cli' = [cli EXCEPT ![d] = <<>>] /\ cli[d] # <<>> /\ cli[d][1][g] # NoRecord
      /\ UNCHANGED <<up, ident, mem, sec, ren, links, count>>
      BY <1>2, <1>4, <1>5 DEF UnpairWrites, Intend, DeleteLoadedSecret
<1>8. excused' = [excused EXCEPT ![d] = x]
      BY <1>6 DEF UnpairWrites, Intend
<1>9. /\ disk' \in [Devices -> Files] /\ disk'[d] = f /\ disk'[Peer(d)] = disk[Peer(d)]
      /\ intent' \in [Devices -> Files] /\ intent'[d] = h /\ intent'[Peer(d)] = intent[Peer(d)]
      /\ secDisk' \in [Devices -> Secrets] /\ secDisk'[Peer(d)] = secDisk[Peer(d)]
      /\ secDisk'[d] = IF purge THEN s ELSE secDisk[d]
      BY <1>0, <1>7, PeerFacts DEF StoresType
<1>10. /\ cli' \in [Devices -> {<<>>} \cup (Files \X Secrets)] /\ cli'[d] = <<>>
      /\ cli'[Peer(d)] = cli[Peer(d)]
      /\ excused' \in [Devices -> BOOLEAN] /\ excused'[d] = x /\ excused'[Peer(d)] = excused[Peer(d)]
      BY <1>0, <1>7, <1>8, PeerFacts DEF StoresType
<1>11. StoresType' /\ LinksType'
      BY <1>0, <1>7, <1>9, <1>10 DEF StoresType, LinksType, links
<1>12. Untouched(Peer(d))
      BY <1>7, <1>9, <1>10 DEF Untouched
<1>13. ASSUME ~excused'[d] PROVE CopiesOK(d)'
  <2>1. ~excused[d] /\ ~up[d] /\ CopiesOK(d) /\ Over(d) /\ ren[d] = <<>>
        BY <1>0, <1>6, <1>10, <1>13 DEF DeviceOK, Down
  <2>2. cli[d][1] = intent[d] /\ cli[d][2] = secDisk[d] /\ f = h
        BY <1>5, <1>7, <2>1 DEF CopiesOK
  <2>3. ~up'[d] /\ disk'[d] = intent'[d] /\ cli'[d] = <<>> /\ ren'[d] = <<>>
        BY <1>7, <1>9, <1>10, <2>1, <2>2
  <2>4. end' = end /\ end'[d].pc # "secret" /\ \A j : ~Holds(d, j)'
        BY <1>7, <2>1 DEF links, Holds, Over
  <2>5. ASSUME NEW j \in Gens, intent'[d][j] # NoRecord PROVE secDisk'[d][j] = intent'[d][j].cred
    <3>1. \A i \in Gens : intent[d][i] # NoRecord => secDisk[d][i] = intent[d][i].cred
          BY <2>1 DEF CopiesOK, Over, Backed
    <3>2. CASE j = g
      <4>1. intent'[d][g] = rec /\ ~purge
            BY <1>0, <1>3, <1>5, <1>9, <2>5, <3>2 DEF Files
      <4> QED BY <1>3, <1>7, <1>9, <2>2, <3>1, <3>2, <4>1
    <3>3. CASE j # g
      <4>1. intent'[d][j] = intent[d][j]
            BY <1>0, <1>5, <1>9, <3>3 DEF Files
      <4>2. secDisk'[d][j] = secDisk[d][j]
            BY <1>0, <1>5, <1>9, <2>2, <3>3 DEF Secrets
      <4> QED BY <2>5, <3>1, <4>1, <4>2
    <3> QED BY <3>2, <3>3
  <2> QED BY <2>3, <2>4, <2>5 DEF CopiesOK, Backed
<1>14. Down(d)'
      BY <1>0, <1>7 DEF DeviceOK, Down, Over, links
<1> QED BY <1>7, <1>11, <1>12, <1>13, <1>14, StoreStep DEF DeviceOK

LEMMA RestartIInv == ASSUME IInv, NEW d \in Devices, Restart(d) PROVE IInv'
<1>0. StoresType /\ LinksType /\ DeviceOK(d) /\ disk[d] \in Files /\ secDisk[d] \in Secrets
      BY DEF IInv, StoresOK, DeviceOK, StoresType
<1>1. /\ ~up[d] /\ up' = [up EXCEPT ![d] = TRUE] /\ mem' = [mem EXCEPT ![d] = disk[d]]
      /\ sec' = [sec EXCEPT ![d] = secDisk[d]]
      /\ UNCHANGED <<ident, disk, secDisk, cli, ren, links, count, intent, excused>>
      BY DEF Restart, LoadedSecrets
<1>2. /\ up' \in [Devices -> BOOLEAN] /\ up'[d] /\ up'[Peer(d)] = up[Peer(d)]
      /\ mem' \in [Devices -> Files] /\ mem'[d] = disk[d] /\ mem'[Peer(d)] = mem[Peer(d)]
      /\ sec' \in [Devices -> Secrets] /\ sec'[d] = secDisk[d] /\ sec'[Peer(d)] = sec[Peer(d)]
      BY <1>0, <1>1, PeerFacts DEF StoresType
<1>3. StoresType' /\ LinksType'
      BY <1>0, <1>1, <1>2 DEF StoresType, LinksType, links
<1>4. Untouched(Peer(d))
      BY <1>1, <1>2 DEF Untouched
<1>5. ~excused[d] => CopiesOK(d)'
  <2>1. end' = end
        BY <1>1 DEF links
  <2>2. \A h : Holds(d, h)' <=> Holds(d, h)
        BY <2>1 DEF Holds
  <2> QED BY <1>0, <1>1, <1>2, <2>1, <2>2 DEF DeviceOK, CopiesOK
<1>6. Down(d)'
      BY <1>2 DEF Down
<1> QED BY <1>1, <1>3, <1>4, <1>5, <1>6, StoreStep DEF DeviceOK

-----------------------------------------------------------------------------
(***************************************************************************)
(* The handshakes.                                                         *)
(***************************************************************************)
LEMMA AtFacts ==
    ASSUME LinksType, NEW d \in Devices, NEW pc \in Steps
    PROVE  /\ end[d] \in End /\ At(d, pc) \in End /\ At(d, pc).pc = pc /\ At(d, pc).init = end[d].init
           /\ At(d, pc).n = end[d].n /\ At(d, pc).me = end[d].me /\ At(d, pc).peer = end[d].peer
           /\ At(d, pc).cred = end[d].cred /\ At(d, pc).rec = end[d].rec
<1>1. end[d] \in End
      BY DEF LinksType
<1> QED BY <1>1 DEF At, End

LEMMA AnswerFacts ==
    ASSUME IInv, NEW d \in Devices
    PROVE  /\ \E m : Says(Rejection, m) /\ m.t = "conf"
           /\ \E m : Says(NewPairingResponse(d), m) /\ m.t = "resp"
           /\ \A c \in Nat, g \in Gens : \E m : Says(Confirmation(c, g), m) /\ m.t = "conf"
           /\ \A s \in {"accepted", "revoked", "rejected"}, c \in Nat :
                \E m : Says(SessionResponse(d, s, c), m) /\ m.t = "sresp"
           /\ \A k \in Key : \E m : Says(NewTrustedAuthConfirm(k), m) /\ m.t = "sconf" /\ m.key = k
<1>0. end[d] \in End /\ Gens \subseteq Nat
      BY TrustAssumption DEF IInv, LinksType, Gens
<1>1. \E m : Says(Rejection, m) /\ m.t = "conf"
  <2>1. PICK zero \in Nat : zero = 0
        OBVIOUS
  <2>2. PICK m : m = [t |-> "conf", ok |-> FALSE, cred |-> zero, to |-> zero]
        OBVIOUS
  <2>3. m \in Message /\ m.t = "conf"
        BY <2>2 DEF Message
  <2>4. Rejection = <<m>>
        BY <2>1, <2>2 DEF Rejection
  <2> QED BY <2>3, <2>4 DEF Says
<1>2. \E m : Says(NewPairingResponse(d), m) /\ m.t = "resp"
  <2>1. PICK m : m = [t |-> "resp", from |-> end[d].me, master |-> end[d].n]
        OBVIOUS
  <2>2. m \in Message /\ m.t = "resp"
        BY <1>0, <2>1 DEF Message, End
  <2> QED BY <2>1, <2>2 DEF Says, NewPairingResponse
<1>3. ASSUME NEW c \in Nat, NEW g \in Gens PROVE \E m : Says(Confirmation(c, g), m) /\ m.t = "conf"
  <2>1. PICK m : m = [t |-> "conf", ok |-> TRUE, cred |-> c, to |-> g]
        OBVIOUS
  <2>2. m \in Message /\ m.t = "conf"
        BY <1>0, <2>1 DEF Message
  <2> QED BY <2>1, <2>2 DEF Says, Confirmation
<1>4. ASSUME NEW s \in {"accepted", "revoked", "rejected"}, NEW c \in Nat
      PROVE  \E m : Says(SessionResponse(d, s, c), m) /\ m.t = "sresp"
  <2>1. PICK m : m = [t |-> "sresp", status |-> s, from |-> end[d].me, cred |-> c]
        OBVIOUS
  <2>2. m \in Message /\ m.t = "sresp"
        BY <1>0, <2>1 DEF Message, End
  <2> QED BY <2>1, <2>2 DEF Says, SessionResponse
<1>5. ASSUME NEW k \in Key
      PROVE  \E m : Says(NewTrustedAuthConfirm(k), m) /\ m.t = "sconf" /\ m.key = k
  <2>1. PICK m : m = [t |-> "sconf", key |-> k]
        OBVIOUS
  <2>2. m \in Message /\ m.t = "sconf" /\ m.key = k
        BY <2>1 DEF Message
  <2> QED BY <2>1, <2>2 DEF Says, NewTrustedAuthConfirm
<1> QED BY <1>1, <1>2, <1>3, <1>4, <1>5

\* A waiting end takes a message.
LEMMA TakeStep ==
    ASSUME IInv, NEW d \in Devices, Waits(d), up[d], chan[d] # <<>>, NEW r \in End, Becomes(d, r),
           NEW out, Exchange(d, out), UNCHANGED local,
           count' \in [{"pair", "session", "op", "fault"} -> Nat],
           RoleKept(d, r), Moved(d, r),
           Answers(d, r, out), AgreesNow(d, r)
    PROVE  IInv'
<1>0. StoresType /\ LinksType /\ LinksOK /\ DeviceOK(d) /\ DeviceOK(Peer(d))
      BY PeerFacts DEF IInv, StoresOK, DeviceOK
<1>1. end' = [end EXCEPT ![d] = r]
      BY DEF Becomes
<1>2. end' \in [Devices -> End] /\ end'[d] = r /\ end'[Peer(d)] = end[Peer(d)]
      BY <1>0, <1>1, PeerFacts DEF LinksType
<1>3. out \in Seq(Message)
  <2>1. ASSUME NEW m, Says(out, m) PROVE out \in Seq(Message)
        BY <2>1 DEF Says
  <2>2. <<>> \in Seq(Message)
        OBVIOUS
  <2> QED BY <2>1, <2>2 DEF Answers
<1>4. LinksOK'
      BY <1>0, <1>1, <1>3, WaitStep
<1>5. LinksType'
      BY <1>0, <1>2, <1>3, ExchangeFacts DEF LinksType
<1>6. StoresType' /\ Untouched(d) /\ Untouched(Peer(d))
      BY <1>0 DEF local, stores, StoresType, Untouched
<1>7. DeviceOK(d)' /\ DeviceOK(Peer(d))'
      BY <1>0, <1>2, <1>6, MovedDevice, OtherDevice, PeerFacts
<1>8. StoresOK'
      BY <1>7, PeerFacts DEF StoresOK, DeviceOK
<1> QED BY <1>4, <1>5, <1>6, <1>8 DEF IInv

\* It refuses what it took, with an answer or without.
LEMMA RefuseStep ==
    ASSUME IInv, NEW d \in Devices, Waits(d), up[d], chan[d] # <<>>, Fails(d),
           NEW out, Exchange(d, out), UNCHANGED local,
           count' \in [{"pair", "session", "op", "fault"} -> Nat],
           out = <<>> \/ \E m : Says(out, m) /\ m.t # "sconf"
    PROVE  IInv'
<1>0. LinksType
      BY DEF IInv
<1>1. PICK r : r = At(d, "failed")
      OBVIOUS
<1>2. r \in End /\ r.pc = "failed" /\ r.init = end[d].init
      BY <1>0, <1>1, AtFacts DEF Steps
<1>3. Becomes(d, r)
      BY <1>1 DEF Fails
<1>4. RoleKept(d, r) /\ Moved(d, r)
      BY <1>2 DEF RoleKept, Moved, Waits
<1>5. Answers(d, r, out) /\ AgreesNow(d, r)
      BY <1>2 DEF Answers, AgreesNow
<1> QED BY <1>2, <1>3, <1>4, <1>5, TakeStep

\* A ceremony goes on: no record has been looked up, no session is confirmed.
LEMMA PairStep ==
    ASSUME IInv, NEW d \in Devices, up[d], chan[d] # <<>>,
           end[d].pc \in {"pair_req", "pair_resp", "pair_confI", "pair_confR"},
           NEW r \in End, r.pc \in {"pair_confI", "pair_confR", "record"},
           r.init = end[d].init, r.rec = end[d].rec, Becomes(d, r),
           NEW out, Exchange(d, out), UNCHANGED <<local, count>>,
           out = <<>> \/ \E m : Says(out, m) /\ m.t # "sconf"
    PROVE  IInv'
<1>1. RoleOK(d)
      BY DEF IInv, LinksOK
<1>2. RoleKept(d, r) /\ Moved(d, r)
      BY <1>1 DEF RoleKept, RoleOK, Moved
<1>3. Waits(d) /\ Answers(d, r, out) /\ AgreesNow(d, r)
      BY DEF Waits, Answers, AgreesNow
<1>4. count' \in [{"pair", "session", "op", "fault"} -> Nat] /\ UNCHANGED local
      BY DEF IInv, LinksType
<1> QED BY <1>2, <1>3, <1>4, TakeStep

LEMMA RefuseTaken ==
    ASSUME IInv, NEW d \in Devices, up[d], chan[d] # <<>>, Waits(d), Fails(d),
           Takes1(d) \/ Exchange(d, Rejection), UNCHANGED <<local, count>>
    PROVE  IInv'
<1>1. PICK out : Exchange(d, out) /\ (out = <<>> \/ out = Rejection)
      BY DEF Takes1
<1>2. out = <<>> \/ \E m : Says(out, m) /\ m.t # "sconf"
      BY <1>1, AnswerFacts
<1>3. count' \in [{"pair", "session", "op", "fault"} -> Nat] /\ UNCHANGED local
      BY DEF IInv, LinksType
<1> QED BY <1>1, <1>2, <1>3, RefuseStep

\* The end of a ceremony that has learnt its peer.
Met(d, pc, g) == [At(d, pc) EXCEPT !.peer = g, !.cred = end[d].n]

LEMMA MetFacts ==
    ASSUME LinksType, NEW d \in Devices, NEW pc \in Steps, NEW g \in Gens
    PROVE  /\ Met(d, pc, g) \in End /\ Met(d, pc, g).pc = pc
           /\ Met(d, pc, g).init = end[d].init /\ Met(d, pc, g).rec = end[d].rec
<1>1. PICK a : a = At(d, pc)
      OBVIOUS
<1>2. a \in End /\ a.pc = pc /\ a.init = end[d].init /\ a.rec = end[d].rec /\ end[d].n \in Nat
      BY <1>1, AtFacts DEF End
<1>3. PICK r : r = [a EXCEPT !.peer = g, !.cred = end[d].n]
      OBVIOUS
<1>4. r \in End /\ r.pc = pc /\ r.init = end[d].init /\ r.rec = end[d].rec
      BY <1>2, <1>3 DEF End
<1>5. Met(d, pc, g) = r
      BY <1>1, <1>3 DEF Met
<1> QED BY <1>4, <1>5

LEMMA PairingRequestIInv == ASSUME IInv, NEW d \in Devices, PairingRequest(d) PROVE IInv'
<1>0. /\ LinksType /\ end[d].pc = "pair_req" /\ up[d] /\ chan[d] # <<>> /\ Head(chan[d]).t = "req"
      /\ UNCHANGED <<local, count>> /\ Waits(d)
      BY DEF PairingRequest, Takes, IInv, Waits
<1>1. PICK g \in Gens : g = Head(chan[d]).from
      BY <1>0, HeadFacts
<1>2. \/ Fails(d) /\ (Takes1(d) \/ Exchange(d, Rejection))
      \/ /\ Becomes(d, Met(d, "pair_confR", g))
         /\ Exchange(d, NewPairingResponse(d))
      BY <1>1 DEF PairingRequest, Met
<1>3. CASE Fails(d) /\ (Takes1(d) \/ Exchange(d, Rejection))
      BY <1>0, <1>3, RefuseTaken
<1>4. CASE /\ Becomes(d, Met(d, "pair_confR", g))
           /\ Exchange(d, NewPairingResponse(d))
  <2>1. PICK r : r = Met(d, "pair_confR", g)
        OBVIOUS
  <2>2. r \in End /\ r.pc = "pair_confR" /\ r.init = end[d].init /\ r.rec = end[d].rec
        BY <1>0, <2>1, MetFacts DEF Steps
  <2>3. \E m : Says(NewPairingResponse(d), m) /\ m.t # "sconf"
        BY AnswerFacts
  <2> QED BY <1>0, <1>4, <2>1, <2>2, <2>3, PairStep
<1> QED BY <1>2, <1>3, <1>4

LEMMA PairingResponseIInv == ASSUME IInv, NEW d \in Devices, PairingResponse(d) PROVE IInv'
<1>0. /\ LinksType /\ end[d].pc = "pair_resp" /\ up[d] /\ chan[d] # <<>>
      /\ UNCHANGED <<local, count>> /\ Waits(d)
      BY DEF PairingResponse, IInv, Waits
<1>1. PICK g : g = Head(chan[d]).from
      OBVIOUS
<1>2. \/ Fails(d) /\ (Takes1(d) \/ Exchange(d, Rejection))
      \/ /\ Becomes(d, Met(d, "pair_confI", g))
         /\ Exchange(d, Confirmation(end[d].n, g)) /\ Head(chan[d]).t = "resp"
      BY <1>1 DEF PairingResponse, VerifyPairingResponse, Met
<1>3. CASE Fails(d) /\ (Takes1(d) \/ Exchange(d, Rejection))
      BY <1>0, <1>3, RefuseTaken
<1>4. CASE /\ Becomes(d, Met(d, "pair_confI", g))
           /\ Exchange(d, Confirmation(end[d].n, g)) /\ Head(chan[d]).t = "resp"
  <2>0. g \in Gens
        BY <1>0, <1>1, <1>4, HeadFacts
  <2>1. PICK r : r = Met(d, "pair_confI", g)
        OBVIOUS
  <2>2. r \in End /\ r.pc = "pair_confI" /\ r.init = end[d].init /\ r.rec = end[d].rec
        BY <1>0, <2>0, <2>1, MetFacts DEF Steps
  <2>3. end[d].n \in Nat
        BY <1>0 DEF LinksType, End
  <2>4. \E m : Says(Confirmation(end[d].n, g), m) /\ m.t # "sconf"
        BY <2>0, <2>3, AnswerFacts
  <2> QED BY <1>0, <1>4, <2>1, <2>2, <2>4, PairStep
<1> QED BY <1>2, <1>3, <1>4

LEMMA PairingConfirmIInv ==
    ASSUME IInv, NEW d \in Devices, PairingConfirmR(d) \/ PairingConfirmI(d) PROVE IInv'
<1>0. /\ LinksType /\ end[d].pc \in {"pair_confR", "pair_confI"} /\ up[d] /\ chan[d] # <<>>
      /\ UNCHANGED <<local, count>> /\ Waits(d)
      BY DEF PairingConfirmR, PairingConfirmI, Takes, IInv, Waits
<1>1. \/ Fails(d) /\ Takes1(d)
      \/ Becomes(d, At(d, "record")) /\ Takes1(d)
      \/ Becomes(d, At(d, "record")) /\ Exchange(d, Confirmation(end[d].cred, end[d].peer))
      BY DEF PairingConfirmR, PairingConfirmI, Fails
<1>2. CASE Fails(d) /\ Takes1(d)
      BY <1>0, <1>2, RefuseTaken
<1>3. CASE Becomes(d, At(d, "record")) /\ ~(Fails(d) /\ Takes1(d))
  <2>1. PICK r : r = At(d, "record")
        OBVIOUS
  <2>2. r \in End /\ r.pc = "record" /\ r.init = end[d].init /\ r.rec = end[d].rec
        BY <1>0, <2>1, AtFacts DEF Steps
  <2>3. end[d].cred \in Nat /\ end[d].peer \in Gens
        BY <1>0 DEF LinksType, End
  <2>4. PICK out : Exchange(d, out) /\ (out = <<>> \/ out = Confirmation(end[d].cred, end[d].peer))
        BY <1>1, <1>3 DEF Takes1
  <2>5. out = <<>> \/ \E m : Says(out, m) /\ m.t # "sconf"
        BY <2>3, <2>4, AnswerFacts
  <2> QED BY <1>0, <1>3, <2>1, <2>2, <2>4, <2>5, PairStep
<1> QED BY <1>1, <1>2, <1>3

LEMMA AcceptSessionIInv ==
    ASSUME IInv, NEW d \in Devices, NEW fresh \in BOOLEAN, AcceptSession(d, fresh) PROVE IInv'
<1>0. /\ StoresType /\ LinksType /\ end[d].pc = "sess_init" /\ up[d] /\ chan[d] # <<>>
      /\ Head(chan[d]).t = "init" /\ UNCHANGED local /\ Waits(d) /\ RoleOK(d)
      BY DEF AcceptSession, Takes, IInv, Waits, LinksOK
<1>1. PICK g \in Gens : g = Head(chan[d]).from
      BY <1>0, HeadFacts
<1>2. count' \in [{"pair", "session", "op", "fault"} -> Nat]
      BY <1>0, SpendFacts DEF AcceptSession
<1>3. sec[d][g] \in Nat /\ mem[d][g] \in Kept
      BY <1>0 DEF StoresType, Files, Secrets
<1>4. PICK r : r = [At(d, "sess_confR") EXCEPT !.peer = g, !.cred = sec[d][g], !.rec = mem[d][g]]
      OBVIOUS
<1>5. \/ Becomes(d, r) /\ Exchange(d, SessionResponse(d, "accepted", sec[d][g]))
      \/ \E s \in {"revoked", "rejected"} : Fails(d) /\ Exchange(d, SessionResponse(d, s, 0))
      BY <1>1, <1>4 DEF AcceptSession
<1>6. CASE Becomes(d, r) /\ Exchange(d, SessionResponse(d, "accepted", sec[d][g]))
  <2>1. PICK a : a = At(d, "sess_confR")
        OBVIOUS
  <2>2. a \in End /\ a.pc = "sess_confR" /\ a.init = end[d].init
        BY <1>0, <2>1, AtFacts DEF Steps
  <2>3. r = [a EXCEPT !.peer = g, !.cred = sec[d][g], !.rec = mem[d][g]]
        BY <1>4, <2>1
  <2>4. r \in End /\ r.pc = "sess_confR" /\ r.init = end[d].init /\ r.peer = g /\ r.rec = mem[d][g]
        BY <1>3, <2>2, <2>3 DEF End
  <2>5. RoleKept(d, r) /\ Moved(d, r) /\ AgreesNow(d, r)
        BY <1>0, <2>4 DEF RoleKept, RoleOK, Moved, AgreesNow
  <2>6. \E m : Says(SessionResponse(d, "accepted", sec[d][g]), m) /\ m.t = "sresp"
        BY <1>3, AnswerFacts
  <2>7. Answers(d, r, SessionResponse(d, "accepted", sec[d][g]))
        BY <2>6 DEF Answers
  <2> QED BY <1>0, <1>2, <1>6, <2>4, <2>5, <2>7, TakeStep
<1>7. ASSUME NEW s \in {"revoked", "rejected"}, Fails(d), Exchange(d, SessionResponse(d, s, 0))
      PROVE  IInv'
  <2>1. \E m : Says(SessionResponse(d, s, 0), m) /\ m.t = "sresp"
        BY AnswerFacts
  <2> QED BY <1>0, <1>2, <1>7, <2>1, RefuseStep
<1> QED BY <1>5, <1>6, <1>7

\* A session goes on with the record it looked up.
LEMMA SessionStep ==
    ASSUME IInv, NEW d \in Devices, up[d], chan[d] # <<>>,
           end[d].pc \in {"sess_resp", "sess_confI", "sess_confR"},
           NEW pc \in {"sess_confI", "touch"}, pc = "sess_confI" => end[d].init,
           Becomes(d, At(d, pc)), NEW out, Exchange(d, out), UNCHANGED <<local, count>>,
           Answers(d, At(d, pc), out), AgreesNow(d, At(d, pc))
    PROVE  IInv'
<1>1. PICK r : r = At(d, pc)
      OBVIOUS
<1>2. /\ r \in End /\ r.pc = pc /\ r.init = end[d].init /\ r.peer = end[d].peer /\ r.rec = end[d].rec
      BY <1>1, AtFacts DEF Steps, IInv
<1>3. RoleKept(d, r) /\ Moved(d, r) /\ Waits(d)
      BY <1>2 DEF RoleKept, Moved, Holds, Waits
<1>4. count' \in [{"pair", "session", "op", "fault"} -> Nat] /\ UNCHANGED local
      BY DEF IInv, LinksType
<1> QED BY <1>1, <1>2, <1>3, <1>4, TakeStep

LEMMA SessionAnsweredIInv == ASSUME IInv, NEW d \in Devices, SessionAnswered(d) PROVE IInv'
<1>0. /\ LinksType /\ end[d].pc = "sess_resp" /\ up[d] /\ chan[d] # <<>> /\ UNCHANGED <<local, count>>
      /\ Waits(d) /\ RoleOK(d) /\ end[d] \in End
      BY DEF SessionAnswered, Takes, IInv, Waits, LinksOK, LinksType
<1>1. PICK key : key = SessionKey(d, end[d].me, end[d].peer)
      OBVIOUS
<1>2. \/ Fails(d) /\ Takes1(d)
      \/ Becomes(d, At(d, "sess_confI")) /\ Exchange(d, NewTrustedAuthConfirm(key))
      BY <1>1 DEF SessionAnswered
<1>3. CASE Fails(d) /\ Takes1(d)
      BY <1>0, <1>3, RefuseTaken
<1>4. CASE Becomes(d, At(d, "sess_confI")) /\ Exchange(d, NewTrustedAuthConfirm(key))
  <2>1. key \in Key
        BY <1>0, <1>1 DEF SessionKey, Key, End
  <2>2. end[d].init /\ ~end[Peer(d)].init
        BY <1>0 DEF RoleOK
  <2>3. Answers(d, At(d, "sess_confI"), NewTrustedAuthConfirm(key))
        BY <2>1, <2>2, AnswerFacts DEF Answers
  <2>4. AgreesNow(d, At(d, "sess_confI"))
        BY <1>0, AtFacts DEF AgreesNow, Steps
  <2> QED BY <1>0, <1>4, <2>2, <2>3, <2>4, SessionStep
<1> QED BY <1>2, <1>3, <1>4

LEMMA SessionConfirmRIInv == ASSUME IInv, NEW d \in Devices, SessionConfirmR(d) PROVE IInv'
<1>0. /\ LinksType /\ end[d].pc = "sess_confR" /\ up[d] /\ chan[d] # <<>> /\ UNCHANGED <<local, count>>
      /\ Waits(d) /\ RoleOK(d) /\ end[d] \in End
      BY DEF SessionConfirmR, Takes, IInv, Waits, LinksOK, LinksType
<1>1. PICK key : key = SessionKey(d, end[d].peer, end[d].me)
      OBVIOUS
<1>2. \/ Fails(d) /\ Takes1(d)
      \/ Becomes(d, At(d, "touch")) /\ Exchange(d, NewTrustedAuthConfirm(key))
      BY <1>1 DEF SessionConfirmR
<1>3. CASE Fails(d) /\ Takes1(d)
      BY <1>0, <1>3, RefuseTaken
<1>4. CASE Becomes(d, At(d, "touch")) /\ Exchange(d, NewTrustedAuthConfirm(key))
  <2>0. PICK r : r = At(d, "touch")
        OBVIOUS
  <2>1. /\ r.pc = "touch" /\ r.init = end[d].init /\ r.n = end[d].n /\ r.me = end[d].me
        /\ r.peer = end[d].peer /\ r.cred = end[d].cred
        BY <1>0, <2>0, AtFacts DEF Steps
  <2>2. key \in Key /\ key = <<r.cred, r.n, r.peer, r.me>>
        BY <1>0, <1>1, <2>1 DEF SessionKey, Key, End
  <2>3. PICK m : Says(NewTrustedAuthConfirm(key), m) /\ m.t = "sconf" /\ m.key = key
        BY <2>2, AnswerFacts
  <2>4. Answers(d, r, NewTrustedAuthConfirm(key))
        BY <2>1, <2>2, <2>3 DEF Answers, Waiting
  <2>5. AgreesNow(d, r)
        BY <1>0, <2>1 DEF AgreesNow, RoleOK
  <2> QED BY <1>0, <1>4, <2>0, <2>4, <2>5, SessionStep
<1> QED BY <1>2, <1>3, <1>4

LEMMA SessionConfirmIIInv == ASSUME IInv, NEW d \in Devices, SessionConfirmI(d) PROVE IInv'
<1>0. /\ LinksType /\ end[d].pc = "sess_confI" /\ up[d] /\ chan[d] # <<>> /\ UNCHANGED <<local, count>>
      /\ Waits(d) /\ RoleOK(d) /\ ConfirmsOK(d) /\ Takes1(d) /\ Head(chan[d]).t = "sconf"
      BY DEF SessionConfirmI, Takes, IInv, Waits, LinksOK
<1>1. \/ Fails(d)
      \/ Becomes(d, At(d, "touch")) /\ VerifyTrustedAuthConfirm(d, SessionKey(d, end[d].me, end[d].peer))
      BY DEF SessionConfirmI, Fails
<1>2. CASE Fails(d)
      BY <1>0, <1>2, RefuseTaken
<1>3. CASE Becomes(d, At(d, "touch")) /\ VerifyTrustedAuthConfirm(d, SessionKey(d, end[d].me, end[d].peer))
  <2>1. PICK r : r = At(d, "touch")
        OBVIOUS
  <2>2. r.peer = end[d].peer /\ r.cred = end[d].cred
        BY <1>0, <2>1, AtFacts DEF Steps
  <2>3. ConfirmedBy(d, Head(chan[d]))
        BY <1>0, HeadFacts DEF ConfirmsOK, RoleOK
  <2>4. PICK p : p = end[Peer(d)]
        OBVIOUS
  <2>5. /\ ~Waits(Peer(d))
        /\ <<p.cred, p.n, p.peer, p.me>> = <<end[d].cred, end[d].n, end[d].me, end[d].peer>>
        BY <1>3, <2>3, <2>4 DEF ConfirmedBy, VerifyTrustedAuthConfirm, SessionKey
  <2>6. AgreesNow(d, r)
        BY <2>2, <2>4, <2>5 DEF AgreesNow
  <2>7. Answers(d, r, <<>>)
        BY DEF Answers
  <2> QED BY <1>0, <1>3, <2>1, <2>6, <2>7, SessionStep DEF Takes1
<1> QED BY <1>1, <1>2, <1>3

\* An end fails, wherever it stands.
LEMMA FailStep ==
    ASSUME LinksType, LinksOK, NEW d \in Devices, Fails(d), chan' = chan
    PROVE  /\ LinksOK' /\ end' \in [Devices -> End]
           /\ end'[d].pc = "failed" /\ end'[Peer(d)] = end[Peer(d)]
<1>1. PICK r : r = At(d, "failed")
      OBVIOUS
<1>2. /\ r \in End /\ r.pc = "failed" /\ r.init = end[d].init /\ r.n = end[d].n /\ r.me = end[d].me
      /\ r.peer = end[d].peer /\ r.cred = end[d].cred /\ r.rec = end[d].rec
      BY <1>1, AtFacts DEF Steps
<1>3. end' = [end EXCEPT ![d] = r]
      BY <1>1 DEF Fails, Becomes
<1>4. end' \in [Devices -> End] /\ end'[d] = r /\ end'[Peer(d)] = end[Peer(d)]
      BY <1>2, <1>3, PeerFacts DEF LinksType
<1>5. RoleKept(d, r) /\ AgreesNow(d, r) /\ r.pc \notin Waiting
      BY <1>2 DEF RoleKept, AgreesNow, Waiting
<1>6. CASE Waits(d)
  <2>1. PICK out : out = <<>>
        OBVIOUS
  <2>2. out \in Seq(Message) /\ Answers(d, r, out)
        BY <2>1 DEF Answers
  <2>3. (chan' = chan /\ out = <<>>) \/ (chan[d] # <<>> /\ Exchange(d, out))
        BY <2>1
  <2> QED BY <1>2, <1>3, <1>4, <1>5, <1>6, <2>2, <2>3, WaitStep
<1>7. CASE ~Waits(d)
  <2>1. r.pc \in {"touch", "done"} /\ r.rec # NoRecord => In(d)
        BY <1>2
  <2> QED BY <1>2, <1>3, <1>4, <1>5, <2>1, LateStep
<1> QED BY <1>6, <1>7

LEMMA GivesUpIInv == ASSUME IInv, NEW d \in Devices, GivesUp(d) \/ TimesOut(d) PROVE IInv'
<1>0. /\ StoresType /\ LinksType /\ LinksOK /\ DeviceOK(d) /\ DeviceOK(Peer(d)) /\ Waits(d)
      /\ UNCHANGED <<local, chan>> /\ Fails(d)
      BY PeerFacts DEF IInv, StoresOK, DeviceOK, GivesUp, TimesOut
<1>1. chan' = chan
      BY <1>0 DEF local
<1>2. /\ LinksOK' /\ end' \in [Devices -> End]
      /\ end'[d].pc = "failed" /\ end'[Peer(d)] = end[Peer(d)]
      BY <1>0, <1>1, FailStep
<1>3. count' \in [{"pair", "session", "op", "fault"} -> Nat]
      BY <1>0, SpendFacts DEF GivesUp, TimesOut, LinksType
<1>4. LinksType' /\ StoresType' /\ Untouched(d) /\ Untouched(Peer(d))
      BY <1>0, <1>1, <1>2, <1>3 DEF local, stores, StoresType, LinksType, Untouched
<1>5. PICK r \in End : r = end'[d]
      BY <1>2
<1>6. Moved(d, r)
      BY <1>0, <1>2, <1>5 DEF Moved, Waits
<1>7. DeviceOK(d)' /\ DeviceOK(Peer(d))'
      BY <1>0, <1>2, <1>4, <1>5, <1>6, MovedDevice, OtherDevice, PeerFacts
<1>8. StoresOK'
      BY <1>7, PeerFacts DEF StoresOK, DeviceOK
<1> QED BY <1>2, <1>4, <1>8 DEF IInv

\* An end that does not wait ends its part: device d changes, the links only in its step.
LEMMA LastStep ==
    ASSUME IInv, NEW d \in Devices, NEW pc \in {"secret", "done", "failed"},
           end[d].pc \in {"record", "secret", "touch"},
           pc = "secret" => end[d].pc = "record",
           Becomes(d, At(d, pc)), chan' = chan, NEW ks, Spend(ks),
           StoresType', DeviceOK(d)', Untouched(Peer(d))
    PROVE  IInv'
<1>0. LinksType /\ LinksOK /\ DeviceOK(Peer(d)) /\ RoleOK(d)
      BY PeerFacts DEF IInv, StoresOK, DeviceOK, LinksOK
<1>1. PICK r : r = At(d, pc)
      OBVIOUS
<1>2. /\ r \in End /\ r.pc = pc /\ r.init = end[d].init /\ r.n = end[d].n /\ r.me = end[d].me
      /\ r.peer = end[d].peer /\ r.cred = end[d].cred /\ r.rec = end[d].rec
      BY <1>0, <1>1, AtFacts DEF Steps
<1>3. end' = [end EXCEPT ![d] = r]
      BY <1>1 DEF Becomes
<1>4. end' \in [Devices -> End] /\ end'[Peer(d)] = end[Peer(d)]
      BY <1>0, <1>2, <1>3, PeerFacts DEF LinksType
<1>6. LinksOK'
  <2>1. r.pc \in {"touch", "done"} /\ r.rec # NoRecord => In(d)
        BY <1>0, <1>2 DEF RoleOK, In
  <2>2. RoleKept(d, r) /\ r.pc \notin Waiting
        BY <1>0, <1>2 DEF RoleKept, RoleOK, Waiting
  <2> QED BY <1>0, <1>2, <1>3, <2>1, <2>2, LateStep
<1>7. LinksType'
      BY <1>0, <1>4, SpendFacts DEF LinksType
<1>8. DeviceOK(Peer(d))'
      BY <1>0, <1>4, OtherDevice, PeerFacts
<1>9. StoresOK'
      BY <1>8, PeerFacts DEF StoresOK, DeviceOK
<1> QED BY <1>6, <1>7, <1>9 DEF IInv

LEMMA RecordPeerIInv ==
    ASSUME IInv, NEW d \in Devices, NEW ok \in BOOLEAN, RecordPeer(d, ok) PROVE IInv'
<1>0. StoresType /\ LinksType /\ DeviceOK(d) /\ end[d] \in End
      BY DEF IInv, StoresOK, DeviceOK, LinksType
<1>1. PICK g \in Gens, c \in Nat : g = end[d].peer /\ c = end[d].cred
      BY <1>0 DEF End
<1>2. PICK rec : rec = [NoRecord EXCEPT !.cred = c]
      OBVIOUS
<1>3. rec \in Kept /\ rec.cred = c
      BY <1>2, NoRecordKept DEF Kept
<1>4. PICK pc \in {"secret", "failed"} : pc = IF ok THEN "secret" ELSE "failed"
      OBVIOUS
<1>5. /\ end[d].pc = "record" /\ up[d] /\ Spend(Unless(ok)) /\ Becomes(d, At(d, pc))
      /\ AddOrUpdateDevice(d, g, rec, ok) /\ Intend(d, g, rec, ok /\ ~Overlap(d, g))
      /\ UNCHANGED <<up, ident, sec, secDisk, cli, ren, chan>>
      BY <1>1, <1>2, <1>4 DEF RecordPeer
<1>6. /\ mem' \in [Devices -> Files] /\ disk' \in [Devices -> Files]
      /\ intent' \in [Devices -> Files] /\ excused' \in [Devices -> BOOLEAN]
      /\ mem'[d] = [mem[d] EXCEPT ![g] = rec] /\ intent'[d] = [intent[d] EXCEPT ![g] = rec]
      /\ ok => disk'[d] = mem'[d]
      /\ ~excused'[d] => ~excused[d] /\ ok /\ ~Overlap(d, g)
      /\ mem'[Peer(d)] = mem[Peer(d)] /\ disk'[Peer(d)] = disk[Peer(d)]
      /\ intent'[Peer(d)] = intent[Peer(d)] /\ excused'[Peer(d)] = excused[Peer(d)]
      BY <1>0, <1>3, <1>5, WriteFacts
<1>7. StoresType' /\ Untouched(Peer(d))
      BY <1>0, <1>5, <1>6 DEF StoresType, Untouched
<1>8. end'[d].pc = pc /\ end'[d].peer = g /\ end'[d].cred = c
  <2>1. PICK r : r = At(d, pc)
        OBVIOUS
  <2>2. r.pc = pc /\ r.peer = g /\ r.cred = c
        BY <1>0, <1>1, <2>1, AtFacts DEF Steps
  <2>3. end' = [end EXCEPT ![d] = r]
        BY <1>5, <2>1 DEF Becomes
  <2> QED BY <1>0, <2>2, <2>3 DEF LinksType
<1>9. Down(d)'
      BY <1>5 DEF Down
<1>10. ASSUME ~excused'[d] PROVE CopiesOK(d)'
  <2>1. ~excused[d] /\ ok /\ pc = "secret" /\ CopiesOK(d) /\ cli[d] = <<>> /\ ren[d] = <<>>
        BY <1>0, <1>4, <1>6, <1>10 DEF DeviceOK, Overlap
  <2>2. \A h \in Gens : ~Holds(d, h)'
        BY <1>8 DEF Holds
  <2>3. sec'[d] = secDisk'[d] /\ secDisk' = secDisk /\ cli'[d] = <<>> /\ ren'[d] = <<>> /\ disk'[d] = mem'[d]
        BY <1>5, <1>6, <2>1 DEF CopiesOK
  <2>4. \A h \in Gens \ {g} : /\ secDisk'[d][h] = secDisk[d][h]
                              /\ end[d].pc # "secret" /\ end'[d].peer = g
        BY <1>5, <1>8, <2>3
  <2>5. Backed(end'[d], secDisk'[d], g, rec.cred)
        BY <1>3, <1>8, <2>1 DEF Backed
  <2> QED BY <1>0, <1>3, <1>5, <1>6, <2>1, <2>2, <2>3, <2>4, <2>5, CopiesWritten
<1> QED BY <1>5, <1>7, <1>9, <1>10, LastStep DEF DeviceOK

LEMMA SetSecretIInv ==
    ASSUME IInv, NEW d \in Devices, NEW ok \in BOOLEAN, SetSecret(d, ok) PROVE IInv'
<1>0. StoresType /\ LinksType /\ DeviceOK(d) /\ end[d] \in End /\ sec[d] \in Secrets
      BY DEF IInv, StoresOK, DeviceOK, LinksType, StoresType
<1>1. PICK g \in Gens, c \in Nat : g = end[d].peer /\ c = end[d].cred
      BY <1>0 DEF End
<1>2. PICK s \in Secrets : s = [sec[d] EXCEPT ![g] = c]
      BY <1>0 DEF Secrets
<1>3. PICK pc \in {"done", "failed"} : pc = IF ok THEN "done" ELSE "failed"
      OBVIOUS
<1>4. PICK x \in BOOLEAN : x = (excused[d] \/ ~ok \/ cli[d] # <<>>)
      OBVIOUS
<1>5. /\ end[d].pc = "secret" /\ up[d] /\ Spend(Unless(ok)) /\ Becomes(d, At(d, pc))
      /\ sec' = [sec EXCEPT ![d] = s] /\ excused' = [excused EXCEPT ![d] = x]
      /\ secDisk' = IF ok THEN [secDisk EXCEPT ![d] = sec'[d]] ELSE secDisk
      /\ UNCHANGED <<up, ident, mem, disk, cli, ren, chan, intent>>
      BY <1>1, <1>2, <1>3, <1>4 DEF SetSecret, WriteSecret
<1>6. /\ sec' \in [Devices -> Secrets] /\ sec'[d] = s /\ sec'[Peer(d)] = sec[Peer(d)]
      /\ excused' \in [Devices -> BOOLEAN] /\ excused'[d] = x /\ excused'[Peer(d)] = excused[Peer(d)]
      BY <1>0, <1>5, PeerFacts DEF StoresType
<1>7. /\ secDisk' \in [Devices -> Secrets] /\ secDisk'[Peer(d)] = secDisk[Peer(d)]
      /\ ok => secDisk'[d] = s
      BY <1>0, <1>5, <1>6, PeerFacts DEF StoresType
<1>8. StoresType' /\ Untouched(Peer(d))
      BY <1>0, <1>5, <1>6, <1>7 DEF StoresType, Untouched
<1>9. end'[d].pc = pc
  <2>1. PICK r : r = At(d, pc)
        OBVIOUS
  <2>2. r.pc = pc
        BY <1>0, <2>1, AtFacts DEF Steps
  <2>3. end' = [end EXCEPT ![d] = r]
        BY <1>5, <2>1 DEF Becomes
  <2> QED BY <1>0, <2>2, <2>3 DEF LinksType
<1>10. ASSUME ~excused'[d] PROVE CopiesOK(d)'
  <2>1. ~excused[d] /\ ok /\ cli[d] = <<>> /\ CopiesOK(d)
        BY <1>0, <1>4, <1>6, <1>10 DEF DeviceOK
  <2>2. \A h \in Gens : ~Holds(d, h)'
        BY <1>9 DEF Holds
  <2>3. \A h \in Gens : intent[d][h] # NoRecord => s[h] = intent[d][h].cred
    <3>1. sec[d] = secDisk[d]
          BY <1>5, <2>1 DEF CopiesOK
    <3>2. s[g] = c /\ \A h \in Gens \ {g} : s[h] = secDisk[d][h]
          BY <1>0, <1>2, <3>1 DEF Secrets
    <3>3. ASSUME NEW h \in Gens, intent[d][h] # NoRecord PROVE s[h] = intent[d][h].cred
      <4>1. IF h = g THEN c = intent[d][h].cred ELSE secDisk[d][h] = intent[d][h].cred
            BY <1>1, <1>5, <2>1, <3>3 DEF CopiesOK, Backed
      <4> QED BY <3>2, <4>1
    <3> QED BY <3>3
  <2> QED BY <1>5, <1>6, <1>7, <1>9, <2>1, <2>2, <2>3 DEF CopiesOK, Backed
<1>11. Down(d)'
      BY <1>5 DEF Down
<1> QED BY <1>5, <1>8, <1>10, <1>11, LastStep DEF DeviceOK

LEMMA TouchLastSeenIInv ==
    ASSUME IInv, NEW d \in Devices, NEW ok \in BOOLEAN, TouchLastSeen(d, ok) PROVE IInv'
<1>0. StoresType /\ LinksType /\ DeviceOK(d) /\ end[d] \in End /\ mem[d] \in Files
      BY DEF IInv, StoresOK, DeviceOK, LinksType, StoresType
<1>1. PICK g \in Gens, rec \in Kept : g = end[d].peer /\ rec = end[d].rec
      BY <1>0 DEF End
<1>2. PICK f \in Files : f = [mem[d] EXCEPT ![g] = rec]
      BY <1>0 DEF Files
<1>3. /\ end[d].pc = "touch" /\ up[d] /\ Spend(Unless(ok)) /\ Becomes(d, At(d, "done"))
      /\ mem' = [mem EXCEPT ![d] = f] /\ disk' = IF ok THEN [disk EXCEPT ![d] = mem'[d]] ELSE disk
      /\ UNCHANGED <<up, ident, sec, secDisk, cli, ren, chan, intent, excused>>
      BY <1>1, <1>2 DEF TouchLastSeen, AddOrUpdateDevice, SaveLocked
<1>4. /\ mem' \in [Devices -> Files] /\ mem'[d] = f /\ mem'[Peer(d)] = mem[Peer(d)]
      BY <1>0, <1>3, PeerFacts DEF StoresType
<1>5. /\ disk' \in [Devices -> Files] /\ disk'[Peer(d)] = disk[Peer(d)]
      /\ disk'[d] = f \/ disk'[d] = disk[d]
      BY <1>0, <1>3, <1>4, PeerFacts DEF StoresType
<1>6. StoresType' /\ Untouched(Peer(d))
      BY <1>0, <1>3, <1>4, <1>5 DEF StoresType, Untouched
<1>7. end'[d].pc = "done"
  <2>1. PICK r : r = At(d, "done")
        OBVIOUS
  <2>2. r.pc = "done"
        BY <1>0, <2>1, AtFacts DEF Steps
  <2>3. end' = [end EXCEPT ![d] = r]
        BY <1>3, <2>1 DEF Becomes
  <2> QED BY <1>0, <2>2, <2>3 DEF LinksType
<1>8. ASSUME ~excused'[d] PROVE CopiesOK(d)'
  <2>1. CopiesOK(d)
        BY <1>0, <1>3, <1>8 DEF DeviceOK
  <2>2. Holds(d, g)
        BY <1>1, <1>3 DEF Holds
  <2>3. mem[d] = intent[d] /\ disk[d] = intent[d] /\ rec = mem[d][g]
        BY <1>1, <1>3, <2>1, <2>2 DEF CopiesOK
  <2>4. f = mem[d]
        BY <1>0, <1>2, <2>3 DEF Files
  <2>5. \A h : ~Holds(d, h)'
        BY <1>7 DEF Holds
  <2> QED BY <1>3, <1>4, <1>5, <1>7, <2>1, <2>3, <2>4, <2>5 DEF CopiesOK, Backed
<1>9. Down(d)'
      BY <1>3 DEF Down
<1> QED BY <1>3, <1>6, <1>8, <1>9, LastStep DEF DeviceOK

LEMMA CrashIInv == ASSUME IInv, NEW d \in Devices, Crash(d) PROVE IInv'
<1>0. /\ StoresType /\ LinksType /\ LinksOK /\ DeviceOK(d) /\ DeviceOK(Peer(d))
      BY PeerFacts DEF IInv, StoresOK, DeviceOK
<1>1. PICK f \in Files, s \in Secrets, x \in BOOLEAN :
         /\ f = [g \in Gens |-> NoRecord] /\ s = [g \in Gens |-> 0]
         /\ x = (excused[d] \/ end[d].pc \in {"record", "secret"})
      BY NoRecordKept DEF Files, Secrets
<1>2. /\ Spend({"fault"}) /\ up' = [up EXCEPT ![d] = FALSE] /\ mem' = [mem EXCEPT ![d] = f]
      /\ sec' = [sec EXCEPT ![d] = s] /\ ren' = [ren EXCEPT ![d] = <<>>]
      /\ excused' = [excused EXCEPT ![d] = x]
      /\ IF Over(d) THEN UNCHANGED end ELSE Fails(d)
      /\ UNCHANGED <<ident, disk, secDisk, cli, chan, intent>>
      BY <1>1 DEF Crash
<1>3. /\ up' \in [Devices -> BOOLEAN] /\ ~up'[d] /\ up'[Peer(d)] = up[Peer(d)]
      /\ mem' \in [Devices -> Files] /\ mem'[Peer(d)] = mem[Peer(d)]
      /\ sec' \in [Devices -> Secrets] /\ sec'[Peer(d)] = sec[Peer(d)]
      BY <1>0, <1>2, PeerFacts DEF StoresType
<1>4. /\ ren' \in [Devices -> {<<>>} \cup (Gens \X Kept)] /\ ren'[d] = <<>>
      /\ ren'[Peer(d)] = ren[Peer(d)]
      /\ excused' \in [Devices -> BOOLEAN] /\ excused'[d] = x /\ excused'[Peer(d)] = excused[Peer(d)]
      BY <1>0, <1>2, PeerFacts DEF StoresType
<1>5. /\ LinksOK' /\ end' \in [Devices -> End] /\ end'[Peer(d)] = end[Peer(d)]
      /\ end'[d].pc \in {"idle", "failed", "done"}
  <2>1. CASE Over(d)
    <3>1. UNCHANGED links
          BY <1>2, <2>1 DEF links
    <3> QED BY <1>0, <2>1, <3>1, QuietLinks DEF links, LinksType, Over
  <2>2. CASE ~Over(d)
        BY <1>0, <1>2, <2>2, FailStep
  <2> QED BY <2>1, <2>2
<1>6. StoresType' /\ LinksType' /\ Untouched(Peer(d))
      BY <1>0, <1>2, <1>3, <1>4, <1>5, SpendFacts DEF StoresType, LinksType, Untouched
<1>7. ASSUME ~excused'[d] PROVE CopiesOK(d)'
  <2>1. CopiesOK(d) /\ end[d].pc # "secret"
        BY <1>0, <1>1, <1>4, <1>7 DEF DeviceOK
  <2>2. \A h : ~Holds(d, h)'
        BY <1>5 DEF Holds
  <2> QED BY <1>2, <1>3, <1>4, <1>5, <2>1, <2>2 DEF CopiesOK, Backed
<1>8. Down(d)'
      BY <1>4, <1>5 DEF Down, Over
<1>9. DeviceOK(Peer(d))'
      BY <1>0, <1>5, <1>6, OtherDevice, PeerFacts
<1>10. StoresOK'
      BY <1>7, <1>8, <1>9, PeerFacts DEF StoresOK, DeviceOK
<1> QED BY <1>5, <1>6, <1>10 DEF IInv

-----------------------------------------------------------------------------
(***************************************************************************)
(* The start of a handshake, and the whole.                                *)
(***************************************************************************)

\* Both ends of a fresh connection: the initiator has at most the record in its
\* memory, and nothing is under way but its first message.
LEMMA ConnectStep ==
    ASSUME IInv, NEW d \in Devices, NEW mine \in End, NEW theirs \in End, NEW out, NEW m,
           Says(out, m), Connect(d, mine, theirs, out), UNCHANGED local, NEW ks, Spend(ks),
           mine.init, ~theirs.init, mine.pc \in {"pair_resp", "sess_resp"},
           theirs.pc \in {"pair_req", "sess_init"}, theirs.rec = NoRecord,
           mine.pc = "pair_resp" => mine.rec = NoRecord,
           mine.pc = "sess_resp" => mine.rec = mem[d][mine.peer]
    PROVE  IInv'
<1> DEFINE p == Peer(d)
<1>0. /\ StoresType /\ LinksType /\ DeviceOK(d) /\ DeviceOK(p) /\ p \in Devices /\ p # d
      /\ Peer(p) = d /\ \A e \in Devices : e = d \/ e = p
      BY PeerFacts DEF IInv, StoresOK, DeviceOK
<1>1. /\ up[d] /\ up[p] /\ Over(d) /\ Over(p)
      /\ end' = [e \in Devices |-> IF e = d THEN mine ELSE theirs]
      /\ chan' = [e \in Devices |-> IF e = d THEN <<>> ELSE out]
      BY DEF Connect
<1>2. out \in Seq(Message) /\ <<>> \in Seq(Message)
      BY DEF Says
<1>3. /\ end' \in [Devices -> End] /\ end'[d] = mine /\ end'[p] = theirs
      /\ chan' \in [Devices -> Seq(Message)] /\ chan'[d] = <<>>
      BY <1>0, <1>1, <1>2
<1>4. StoresType' /\ LinksType' /\ Untouched(d) /\ Untouched(p)
      BY <1>0, <1>3, SpendFacts DEF StoresType, LinksType, Untouched, local, stores
<1>5. Moved(d, mine) /\ Moved(p, theirs)
      BY <1>1 DEF Moved, Over
<1>6. DeviceOK(d)' /\ DeviceOK(p)'
      BY <1>0, <1>3, <1>4, <1>5, MovedDevice
<1>7. StoresOK'
      BY <1>0, <1>6 DEF StoresOK, DeviceOK
<1>8. RoleOK(d)' /\ RoleOK(p)'
      BY <1>0, <1>3 DEF RoleOK
<1>9. ConfirmsOK(d)' /\ ConfirmsOK(p)'
  <2>1. DOMAIN chan'[d] = {}
        BY <1>3
  <2> QED BY <1>3, <2>1 DEF ConfirmsOK
<1>10. AgreedOK(d)' /\ AgreedOK(p)'
      BY <1>3 DEF AgreedOK, In
<1>11. LinksOK'
      BY <1>0, <1>8, <1>9, <1>10 DEF LinksOK
<1> QED BY <1>4, <1>7, <1>11 DEF IInv

LEMMA IdleEnd ==
    /\ Idle \in End /\ Idle.rec = NoRecord /\ ~Idle.init /\ Idle.pc = "idle"
<1>1. PICK zero \in Nat : zero = 0 /\ zero \in Gens
      BY TrustAssumption DEF Gens
<1>2. Idle = [pc |-> "idle", init |-> FALSE, n |-> zero, me |-> zero, peer |-> zero,
              cred |-> zero, rec |-> NoRecord]
      BY <1>1 DEF Idle
<1> QED BY <1>1, <1>2, NoRecordKept DEF End, Steps

LEMMA InitiatePairingIInv == ASSUME IInv, NEW d \in Devices, InitiatePairing(d) PROVE IInv'
<1>0. Number \in Nat /\ ident[d] \in Gens /\ ident[Peer(d)] \in Gens
      BY NumberFacts, PeerFacts DEF IInv, StoresType
<1>1. PICK idle \in End : idle = Idle /\ idle.rec = NoRecord /\ ~idle.init
      BY IdleEnd
<1>2. PICK mine, theirs :
         /\ mine = [idle EXCEPT !.pc = "pair_resp", !.n = Number, !.me = ident[d], !.init = TRUE]
         /\ theirs = [idle EXCEPT !.pc = "pair_req", !.n = Number, !.me = ident[Peer(d)]]
      OBVIOUS
<1>3. /\ mine \in End /\ mine.pc = "pair_resp" /\ mine.init /\ mine.rec = NoRecord
      /\ theirs \in End /\ theirs.pc = "pair_req" /\ ~theirs.init /\ theirs.rec = NoRecord
      BY <1>0, <1>1, <1>2 DEF End, Steps
<1>4. /\ Connect(d, mine, theirs, NewPairingRequest(d)) /\ UNCHANGED local /\ Spend({"pair"})
      BY <1>1, <1>2 DEF InitiatePairing
<1>5. PICK m : m = [t |-> "req", from |-> ident[d], master |-> Number]
      OBVIOUS
<1>6. m \in Message
      BY <1>0, <1>5 DEF Message
<1>7. Says(NewPairingRequest(d), m)
      BY <1>5, <1>6 DEF Says, NewPairingRequest
<1> QED BY <1>3, <1>4, <1>7, ConnectStep

LEMMA InitiateSessionIInv ==
    ASSUME IInv, NEW d \in Devices, NEW g \in Gens, InitiateSession(d, g) PROVE IInv'
<1>0. /\ Number \in Nat /\ ident[d] \in Gens /\ ident[Peer(d)] \in Gens
      /\ sec[d][g] \in Nat /\ mem[d][g] \in Kept
      BY NumberFacts, PeerFacts DEF IInv, StoresType, Files, Secrets
<1>1. PICK idle \in End : idle = Idle /\ idle.rec = NoRecord /\ ~idle.init
      BY IdleEnd
<1>2. PICK mine, theirs :
         /\ mine = [pc |-> "sess_resp", init |-> TRUE, n |-> Number, me |-> ident[d],
                    peer |-> g, cred |-> sec[d][g], rec |-> mem[d][g]]
         /\ theirs = [idle EXCEPT !.pc = "sess_init", !.n = Number, !.me = ident[Peer(d)]]
      OBVIOUS
<1>3. /\ mine \in End /\ mine.pc = "sess_resp" /\ mine.init /\ mine.rec = mem[d][mine.peer]
      /\ theirs \in End /\ theirs.pc = "sess_init" /\ ~theirs.init /\ theirs.rec = NoRecord
      BY <1>0, <1>1, <1>2 DEF End, Steps
<1>4. /\ Connect(d, mine, theirs, NewTrustedAuthInit(d, g)) /\ UNCHANGED local /\ Spend({"session"})
      BY <1>1, <1>2 DEF InitiateSession, ResolvePairSecret
<1>5. PICK m : m = [t |-> "init", from |-> ident[d], to |-> g, cred |-> sec[d][g]]
      OBVIOUS
<1>6. m \in Message
      BY <1>0, <1>5 DEF Message
<1>7. Says(NewTrustedAuthInit(d, g), m)
      BY <1>5, <1>6 DEF Says, NewTrustedAuthInit, ResolvePairSecret
<1> QED BY <1>3, <1>4, <1>7, ConnectStep

LEMMA InitIInv == Init => IInv
<1> SUFFICES ASSUME Init PROVE IInv
    OBVIOUS
<1>0. 0 \in Nat /\ 0 \in Gens /\ NoRecord \in Kept /\ Idle \in End /\ <<>> \in Seq(Message)
      BY TrustAssumption, NoRecordKept, IdleEnd DEF Gens
<1>1. PICK f \in Files, s \in Secrets : f = [g \in Gens |-> NoRecord] /\ s = [g \in Gens |-> 0]
      BY <1>0 DEF Files, Secrets
<1>2. /\ up = [d \in Devices |-> TRUE] /\ ident = [d \in Devices |-> 0]
      /\ mem = [d \in Devices |-> f] /\ disk = mem /\ sec = [d \in Devices |-> s] /\ secDisk = sec
      /\ cli = [d \in Devices |-> <<>>] /\ ren = [d \in Devices |-> <<>>]
      /\ end = [d \in Devices |-> Idle] /\ chan = [d \in Devices |-> <<>>]
      /\ intent = mem /\ excused = [d \in Devices |-> FALSE]
      BY <1>1 DEF Init
<1>3. StoresType
      BY <1>0, <1>2 DEF StoresType
<1>4. LinksType
  <2>1. DOMAIN Bound = {"pair", "session", "op", "fault"} /\ count = [k \in DOMAIN Bound |-> 0]
        BY DEF Bound, Init
  <2> QED BY <1>0, <1>2, <2>1 DEF LinksType
<1>5. \A d \in Devices : end[d] = Idle /\ end[d].pc = "idle" /\ ~end[d].init
      BY <1>2, IdleEnd
<1>6. StoresOK
  <2>1. ASSUME NEW d \in Devices PROVE Down(d) /\ CopiesOK(d)
    <3>1. Down(d)
          BY <1>2 DEF Down
    <3>2. /\ disk[d] = f /\ mem[d] = f /\ intent[d] = f /\ sec[d] = secDisk[d]
          /\ cli[d] = <<>> /\ ren[d] = <<>> /\ \A g \in Gens : f[g] = NoRecord
          BY <1>1, <1>2
    <3>3. \A g : ~Holds(d, g)
          BY <1>5 DEF Holds
    <3> QED BY <3>1, <3>2, <3>3 DEF CopiesOK
  <2> QED BY <2>1 DEF StoresOK
<1>7. LinksOK
      BY <1>5 DEF LinksOK, RoleOK, ConfirmsOK, AgreedOK
<1> QED BY <1>3, <1>4, <1>6, <1>7 DEF IInv

LEMMA StutterIInv == ASSUME IInv, UNCHANGED vars PROVE IInv'
<1>1. UNCHANGED links /\ UNCHANGED <<local, count>>
      BY DEF vars, local
<1>2. LinksOK' /\ end' = end
      BY <1>1, QuietLinks DEF IInv, links
<1>3. StoresType' /\ LinksType' /\ \A e \in Devices : Untouched(e)
      BY <1>1 DEF IInv, StoresType, LinksType, Untouched, local, stores, links
<1>4. \A e \in Devices : DeviceOK(e)'
      BY <1>2, <1>3, OtherDevice DEF IInv, StoresOK, DeviceOK
<1> QED BY <1>2, <1>3, <1>4 DEF IInv, StoresOK, DeviceOK

LEMMA NextIInv == IInv /\ [Next]_vars => IInv'
<1> SUFFICES ASSUME IInv, [Next]_vars PROVE IInv'
    OBVIOUS
<1>1. CASE UNCHANGED vars
      BY <1>1, StutterIInv
<1>2. ASSUME NEW d \in Devices, Handshake(d) PROVE IInv'
      BY <1>2, PairingRequestIInv, PairingResponseIInv, PairingConfirmIInv, RecordPeerIInv,
         SetSecretIInv, TouchLastSeenIInv, AcceptSessionIInv, SessionAnsweredIInv,
         SessionConfirmRIInv, SessionConfirmIIInv, GivesUpIInv DEF Handshake
<1>3. ASSUME NEW d \in Devices, UserActs(d) PROVE IInv'
      BY <1>3, RevokeIInv, PurgeIInv, RenameBeginsIInv, RenameEndsIInv, RotateIdentityIInv,
         UnpairLoadsIInv, UnpairWritesIInv DEF UserActs
<1>4. ASSUME NEW d \in Devices,
             \/ InitiatePairing(d) \/ (\E g \in Gens : InitiateSession(d, g))
             \/ GivesUp(d) \/ Crash(d) \/ Restart(d)
      PROVE  IInv'
      BY <1>4, InitiatePairingIInv, InitiateSessionIInv, GivesUpIInv, CrashIInv, RestartIInv
<1> QED BY <1>1, <1>2, <1>3, <1>4 DEF Next

\* On a device without a fault every copy of a record that somebody holds is
\* what it was taken from, and every confirmation under way was sent by an end
\* that had verified its peer (engine/trust, wire/trusted_auth.go).
THEOREM Inductive == Spec => []IInv
BY InitIInv, NextIInv, PTL DEF Spec

\* saveLocked, RenameDevice, the unpair command and the write-back of a trusted
\* session: without a failed write and without two holders of a copy, the file
\* and the memory are what the user and the ceremonies made of the records.
THEOREM RecordsAsIntended == Spec => []IntentKept
<1>1. IInv => IntentKept
      BY DEF IInv, StoresOK, CopiesOK, IntentKept
<1> QED BY <1>1, Inductive, PTL

\* setSecret and deleteSecret follow the records: the resolver's secret is the
\* one the record names, but between executePair's two writes.
THEOREM SecretsOfRecords == Spec => []SecretsMatch
<1>1. ASSUME IInv, NEW d \in Devices, NEW g \in Gens,
             up[d], ~excused[d], mem[d][g] # NoRecord, ~(end[d].pc = "secret" /\ end[d].peer = g)
      PROVE  sec[d][g] = mem[d][g].cred
  <2>1. CopiesOK(d)
        BY <1>1 DEF IInv, StoresOK
  <2> QED BY <1>1, <2>1 DEF CopiesOK, Backed
<1>2. IInv => SecretsMatch
      BY <1>1 DEF SecretsMatch
<1> QED BY <1>2, Inductive, PTL

\* VerifyTrustedAuthConfirm: when InitiateTrustedSession returns, the responder
\* has verified the initiator with the same credential and has the identity the
\* initiator has on record.
THEOREM SessionsAgree == Spec => []Agreement
<1>1. IInv => Agreement
      BY DEF IInv, LinksOK, AgreedOK, In, Agreement
<1> QED BY <1>1, Inductive, PTL
=============================================================================
