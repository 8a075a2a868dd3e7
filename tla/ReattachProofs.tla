--------------------------- MODULE ReattachProofs ---------------------------
(***************************************************************************)
(* Proofs about Reattach, for every set of contents and any number of      *)
(* sessions, faults, edits, discards and crashes.                          *)
(*                                                                         *)
(* The two ends never see each other's disks, and the frames of an end     *)
(* that is gone are still on their way.  The inductive invariant says what *)
(* a frame under way tells about the end that sent it (ShakeOK, CreditOK), *)
(* what the record and the run that captured it have in common (RunOK),    *)
(* and which ids can never get a credential any more (Credless).           *)
(***************************************************************************)
EXTENDS Reattach, TLAPS

Elems(q) == {q[i] : i \in DOMAIN q}

Values == Contents \cup {NoContent}

Recs == [there : BOOLEAN, tid : Tids, content : Values, cred : Tids, sum : BOOLEAN]

Journals == [there : BOOLEAN, content : Values, cred : Tids]

Ctxs == [tid : Tids, content : Values, cred : Tids]

\* Frames to the sender and frames to the receiver.
ToS == [t : {"challenge", "ready", "resume_state", "done"}, ctr : Nat, ep : Tids, ctx : Ctxs]

ToR == [t : {"init", "confirm", "manifest", "pause"}, ctr : Nat, ep : Tids, ctx : Ctxs]

Adverts == [tid : Tids, content : Values, fresh : BOOLEAN, auth : BOOLEAN]

Phases == {"idle", "dialing", "preamble", "engine", "recorded", "attached", "sent", "streaming",
           "told", "joining", "settled", "prepared", "receiving"}

Procs == [phase : Phases, ctx : Ctxs, rec : Recs, tid : Tids, reused : BOOLEAN,
          st : {"idle", "awaitChallenge", "awaitConfirm", "awaitReady", "done"},
          accepted : SUBSET AuthTypes, last : AuthTypes \cup {"none"}, out : Nat, exp : Nat,
          ep : Tids, pending : Seq(ToR), n : Tids]

DiskType ==
    /\ content \in Contents
    /\ rec \in Recs
    /\ journal \in [Tids -> Journals]
    /\ n \in Tids
    /\ advertised \subseteq Adverts
    /\ vanished \subseteq Tids

PathType ==
    /\ proc \in [Ends -> Procs]
    /\ DOMAIN chan = Ends /\ chan = [e \in Ends |-> chan[e]]
    /\ chan["s"] \in Seq(ToS) /\ chan["r"] \in Seq(ToR)

\* A process in a session is in the latest one.
InSession(p) ==
    /\ p.n \in {0, n}
    /\ p.n = 0 <=> p.phase \in {"idle", "dialing", "joining"}
    /\ p.n = 0 => p.st = "idle" /\ p.accepted = {} /\ p.ep = 0 /\ p.pending = <<>>

\* How far an end of the authentication is follows from what it accepted.
SenderShake(p) ==
    /\ p.st \in {"idle", "awaitChallenge", "awaitReady", "done"}
    /\ p.accepted \subseteq {"challenge", "ready"}
    /\ "challenge" \in p.accepted => p.st \in {"awaitReady", "done"}
    /\ "ready" \in p.accepted => p.st = "done"
    /\ p.phase = "preamble" => p.st # "idle"

ReceiverShake(p) ==
    /\ p.st \in {"idle", "awaitConfirm", "done"}
    /\ p.accepted \subseteq {"init", "confirm"}
    /\ "confirm" \in p.accepted => p.st = "done"

\* What a frame to the receiver says of the sender s, and the other way round.
FromSender(m, s) ==
    /\ m.t \in {"init", "confirm"} => m.ctx = s.ctx
    /\ m.t = "confirm" => s.st \in {"awaitReady", "done"}

FromReceiver(m, r) ==
    /\ m.t \in {"challenge", "ready"} => m.ctx = r.ctx
    /\ m.t = "ready" => r.st = "done"

Agree(s, r) ==
    /\ s.st = "done" => r.st = "done" /\ r.ctx = s.ctx
    /\ r.st = "done" => s.st \in {"awaitReady", "done"} /\ r.ctx = s.ctx

Met(s, r) == s.n # 0 /\ s.n = r.n

Talk(s, r, toS, toR) ==
    Met(s, r) => /\ \A m \in Elems(toR) : FromSender(m, s)
                 /\ \A m \in Elems(toS) : FromReceiver(m, r)
                 /\ Agree(s, r)

ShakeOK ==
    /\ InSession(proc["s"]) /\ InSession(proc["r"])
    /\ SenderShake(proc["s"]) /\ ReceiverShake(proc["r"])
    /\ Talk(proc["s"], proc["r"], chan["s"], chan["r"])

-----------------------------------------------------------------------------
\* Sequences.

LEMMA ElemsEmpty == Elems(<<>>) = {}
BY DEF Elems

LEMMA ElemsHead ==
    ASSUME NEW S, NEW q \in Seq(S), q # <<>>
    PROVE  Head(q) \in Elems(q) /\ Head(q) \in S
<1>1. 1 \in DOMAIN q /\ Head(q) = q[1]
      OBVIOUS
<1> QED BY <1>1 DEF Elems

LEMMA ElemsTail ==
    ASSUME NEW S, NEW q \in Seq(S), q # <<>>
    PROVE  Tail(q) \in Seq(S) /\ Elems(Tail(q)) \subseteq Elems(q)
<1>1. Tail(q) \in Seq(S)
      OBVIOUS
<1>2. ASSUME NEW x \in Elems(Tail(q)) PROVE x \in Elems(q)
      <2>1. PICK i \in DOMAIN Tail(q) : x = Tail(q)[i]
            BY DEF Elems
      <2>2. i \in 1 .. Len(q) - 1 /\ Tail(q)[i] = q[i + 1]
            BY <2>1
      <2>3. i + 1 \in DOMAIN q
            BY <2>2
      <2> QED BY <2>1, <2>2, <2>3 DEF Elems
<1> QED BY <1>1, <1>2

LEMMA ElemsCat ==
    ASSUME NEW S, NEW q \in Seq(S), NEW w \in Seq(S)
    PROVE  q \o w \in Seq(S) /\ Elems(q \o w) \subseteq Elems(q) \cup Elems(w)
<1>1. q \o w \in Seq(S)
      OBVIOUS
<1>2. ASSUME NEW x \in Elems(q \o w) PROVE x \in Elems(q) \cup Elems(w)
      <2>1. PICK i \in DOMAIN (q \o w) : x = (q \o w)[i]
            BY DEF Elems
      <2>2. CASE i <= Len(q)
            <3>1. i \in DOMAIN q /\ (q \o w)[i] = q[i]
                  BY <2>1, <2>2
            <3> QED BY <2>1, <3>1 DEF Elems
      <2>3. CASE ~(i <= Len(q))
            <3>1. i - Len(q) \in DOMAIN w /\ (q \o w)[i] = w[i - Len(q)]
                  BY <2>1, <2>3
            <3> QED BY <2>1, <3>1 DEF Elems
      <2>4. i \in Nat /\ Len(q) \in Nat
            BY <2>1
      <2> QED BY <2>2, <2>3, <2>4
<1> QED BY <1>1, <1>2

LEMMA ElemsOne ==
    ASSUME NEW S, NEW x \in S
    PROVE  <<x>> \in Seq(S) /\ Elems(<<x>>) = {x}
<1>1. DOMAIN <<x>> = {1}
      OBVIOUS
<1> QED BY <1>1 DEF Elems

LEMMA ElemsAppend ==
    ASSUME NEW S, NEW q \in Seq(S), NEW x \in S
    PROVE  Append(q, x) \in Seq(S) /\ Elems(Append(q, x)) \subseteq Elems(q) \cup {x}
<1>1. Append(q, x) \in Seq(S)
      OBVIOUS
<1>2. ASSUME NEW y \in Elems(Append(q, x)) PROVE y \in Elems(q) \cup {x}
      <2>1. PICK i \in DOMAIN Append(q, x) : y = Append(q, x)[i]
            BY DEF Elems
      <2>2. i \in 1 .. Len(q) + 1
            BY <2>1
      <2>3. CASE i = Len(q) + 1
            BY <2>1, <2>3
      <2>4. CASE i # Len(q) + 1
            <3>1. i \in DOMAIN q /\ Append(q, x)[i] = q[i]
                  BY <2>2, <2>4
            <3> QED BY <2>1, <3>1 DEF Elems
      <2> QED BY <2>3, <2>4
<1> QED BY <1>1, <1>2

-----------------------------------------------------------------------------
\* Types of what the actions build.

LEMMA OffType == Off \in Procs /\ NoRec \in Recs /\ NoCtx \in Ctxs /\ NoJournal \in Journals
<1>1. 0 \in Tids /\ NoContent \in Values /\ <<>> \in Seq(ToR)
      BY ReattachAssumption DEF Tids, Values
<1>2. NoRec \in Recs
      BY <1>1 DEF NoRec, Recs
<1>3. NoCtx \in Ctxs
      BY <1>1 DEF NoCtx, Ctxs
<1>4. NoJournal \in Journals
      BY <1>1 DEF NoJournal, Journals
<1>5. Off \in Procs
      BY <1>1, <1>2, <1>3 DEF Off, Procs, Phases
<1> QED BY <1>2, <1>3, <1>4, <1>5

LEMMA FrameType ==
    ASSUME NEW p \in Procs
    PROVE  /\ \A t \in {"challenge", "ready", "resume_state", "done"} : Frame(p, t) \in ToS
           /\ \A t \in {"init", "confirm", "manifest", "pause"} : Frame(p, t) \in ToR
           /\ \A t : Frame(p, t).t = t /\ Frame(p, t).ctx = p.ctx
BY DEF Procs, Frame, Proof, ToS, ToR

\* A process's part of the authentication, where a step does not touch it.
Kept(p, q) ==
    /\ q.n = p.n /\ q.st = p.st /\ q.accepted = p.accepted /\ q.ctx = p.ctx
    /\ p.n = 0 => q = p
    /\ p.n # 0 => q.phase \notin {"idle", "dialing", "joining"}
    /\ q.phase = "preamble" => p.phase = "preamble"

LEMMA KeptSame == ASSUME NEW p, InSession(p) PROVE Kept(p, p)
BY DEF Kept, InSession

LEMMA KeptInSession ==
    ASSUME NEW p, NEW q, InSession(p), Kept(p, q), n' = n
    PROVE  InSession(q)'
BY DEF Kept, InSession

\* A step that does not touch the authentication and puts no frame of it on
\* the path.
LEMMA ShakeKept ==
    ASSUME ShakeOK, n' = n,
           Kept(proc["s"], proc'["s"]), Kept(proc["r"], proc'["r"]),
           \A m \in Elems(chan'["s"]) : m \in Elems(chan["s"]) \/ m.t \notin AuthTypes,
           \A m \in Elems(chan'["r"]) : m \in Elems(chan["r"]) \/ m.t \notin AuthTypes
    PROVE  ShakeOK'
<1>1. InSession(proc["s"])' /\ InSession(proc["r"])'
      BY DEF Kept, InSession, ShakeOK
<1>2. SenderShake(proc'["s"]) /\ ReceiverShake(proc'["r"])
      BY DEF Kept, SenderShake, ReceiverShake, ShakeOK
<1>3. ASSUME Met(proc'["s"], proc'["r"])
      PROVE  /\ \A m \in Elems(chan'["r"]) : FromSender(m, proc'["s"])
             /\ \A m \in Elems(chan'["s"]) : FromReceiver(m, proc'["r"])
             /\ Agree(proc'["s"], proc'["r"])
      <2>1. Met(proc["s"], proc["r"])
            BY <1>3 DEF Met, Kept
      <2>2. Agree(proc'["s"], proc'["r"])
            BY <2>1 DEF Agree, Kept, ShakeOK, Talk
      <2>3. ASSUME NEW m \in Elems(chan'["r"]) PROVE FromSender(m, proc'["s"])
            BY <2>1 DEF FromSender, Kept, ShakeOK, Talk, AuthTypes
      <2>4. ASSUME NEW m \in Elems(chan'["s"]) PROVE FromReceiver(m, proc'["r"])
            BY <2>1 DEF FromReceiver, Kept, ShakeOK, Talk, AuthTypes
      <2> QED BY <2>2, <2>3, <2>4
<1> QED BY <1>1, <1>2, <1>3 DEF ShakeOK, Talk

\* A step after which one end is in no session.
Unmet(p) == p.n = 0 /\ p.phase \in {"idle", "dialing", "joining"} /\ p.st = "idle" /\ p.accepted = {}
            /\ p.ep = 0 /\ p.pending = <<>>

LEMMA ShakeUnmet ==
    ASSUME ShakeOK, n' = n,
           \A e \in Ends : Kept(proc[e], proc'[e]) \/ Unmet(proc'[e]),
           \E e \in Ends : Unmet(proc'[e])
    PROVE  ShakeOK'
<1>1. InSession(proc["s"])' /\ InSession(proc["r"])'
      BY DEF Kept, InSession, ShakeOK, Unmet, Ends
<1>2. SenderShake(proc'["s"]) /\ ReceiverShake(proc'["r"])
      BY DEF Kept, SenderShake, ReceiverShake, ShakeOK, Unmet, Ends
<1>3. ~Met(proc'["s"], proc'["r"])
      BY DEF Met, Unmet, Ends
<1> QED BY <1>1, <1>2, <1>3 DEF ShakeOK, Talk

LEMMA OffUnmet == Unmet(Off)
BY DEF Unmet, Off

-----------------------------------------------------------------------------
\* The authentication.

LEMMA NextStCases ==
    ASSUME NEW p, NEW m
    PROVE  /\ m.t \in p.accepted => NextSt(p, m) = p.st
           /\ (m.t \notin p.accepted /\ NextSt(p, m) # "failed") =>
                 <<p.st, m.t, NextSt(p, m)>> \in Steps /\ (m.t = "init" \/ m.ctx = p.ctx)
<1> DEFINE S == {"awaitConfirm", "awaitReady", "done"}
           P(st) == <<p.st, m.t, st>> \in Steps
<1>1. ASSUME \E st \in S : P(st) PROVE P(CHOOSE st \in S : P(st))
      BY <1>1
<1>2. CASE m.t \in p.accepted
      BY <1>2 DEF NextSt
<1>3. CASE m.t \notin p.accepted
      <2>1. ASSUME NextSt(p, m) # "failed"
            PROVE  /\ \E st \in S : P(st) /\ (m.t = "init" \/ Verify(m, p))
                   /\ NextSt(p, m) = CHOOSE st \in S : P(st)
            BY <1>3, <2>1 DEF NextSt
      <2> QED BY <1>1, <1>3, <2>1 DEF Verify, Proof
<1> QED BY <1>2, <1>3

\* What an accepted frame leaves of the process.
Handled(p, m, q) ==
    /\ q.n = p.n /\ q.ctx = p.ctx /\ q.phase = p.phase /\ q.ep = p.ep /\ q.pending = p.pending
    /\ q.tid = p.tid /\ q.rec = p.rec /\ q.reused = p.reused
    /\ q.st = NextSt(p, m) /\ q.accepted = p.accepted \cup {m.t}

LEMMA CountedType ==
    ASSUME NEW p \in Procs, NEW m, m.ctr \in Nat
    PROVE  /\ Counted(p, m) \in Procs
           /\ Counted(p, m) = [p EXCEPT !.exp = Counted(p, m).exp]
<1>1. PICK x : x = IF m.ctr >= p.exp THEN m.ctr + 1 ELSE p.exp
      OBVIOUS
<1>2. x \in Nat
      BY <1>1 DEF Procs
<1>3. Counted(p, m) = [p EXCEPT !.exp = x]
      BY <1>1 DEF Counted, Procs
<1> QED BY <1>2, <1>3 DEF Procs

LEMMA AnswerLen == \A t \in AuthTypes : Len(Answer(t)) \in Nat
<1>1. ASSUME NEW t \in AuthTypes PROVE Answer(t) \in {<<"challenge">>, <<"confirm">>, <<"ready">>, <<>>}
      BY <1>1 DEF Answer, AuthTypes
<1> QED BY <1>1

LEMMA HandleAuthType ==
    ASSUME NEW p \in Procs, NEW m, m.ctr \in Nat, HandleAuth(p, m).st # "failed"
    PROVE  /\ m.t \in AuthTypes
           /\ HandleAuth(p, m) \in Procs
           /\ Handled(p, m, HandleAuth(p, m))
<1>1. OpenLocked(m, p) /\ m.t \in AuthTypes
      BY DEF HandleAuth, Procs
<1>2. PICK c : c = Counted(p, m)
      OBVIOUS
<1>3. c \in Procs /\ c.n = p.n /\ c.ctx = p.ctx /\ c.phase = p.phase /\ c.ep = p.ep /\ c.pending = p.pending
      /\ c.tid = p.tid /\ c.rec = p.rec /\ c.reused = p.reused /\ c.accepted = p.accepted /\ c.out = p.out
      BY <1>2, CountedType DEF Procs
<1>4. PICK k : k = Len(Answer(m.t))
      OBVIOUS
<1>5. k \in Nat
      BY <1>1, <1>4, AnswerLen
<1>6. PICK st : st = NextSt(p, m)
      OBVIOUS
<1>7. HandleAuth(p, m) = [c EXCEPT !.st = st, !.accepted = @ \cup {m.t}, !.last = m.t, !.out = @ + k]
      BY <1>1, <1>2, <1>4, <1>6 DEF HandleAuth
<1>8. st # "failed"
      BY <1>3, <1>7 DEF Procs
<1>9. st = p.st \/ <<p.st, m.t, st>> \in Steps
      BY <1>6, <1>8, NextStCases
<1>10. st \in {"idle", "awaitChallenge", "awaitConfirm", "awaitReady", "done"}
      <2>1. CASE st = p.st
            BY <2>1 DEF Procs
      <2>2. CASE <<p.st, m.t, st>> \in Steps
            BY <2>2 DEF Steps
      <2> QED BY <1>9, <2>1, <2>2
<1>11. HandleAuth(p, m) \in Procs
      <2>1. PICK acc : acc = c.accepted \cup {m.t}
            OBVIOUS
      <2>2. acc \in SUBSET AuthTypes
            BY <1>1, <1>3, <2>1 DEF Procs
      <2>3. PICK o : o = c.out + k
            OBVIOUS
      <2>4. o \in Nat
            BY <1>3, <1>5, <2>3 DEF Procs
      <2>5. HandleAuth(p, m) = [c EXCEPT !.st = st, !.accepted = acc, !.last = m.t, !.out = o]
            BY <1>3, <1>7, <2>1, <2>3 DEF Procs
      <2> QED BY <1>1, <1>3, <1>10, <2>2, <2>4, <2>5 DEF Procs
<1>12. Handled(p, m, HandleAuth(p, m))
      BY <1>3, <1>6, <1>7 DEF Procs, Handled
<1> QED BY <1>1, <1>11, <1>12

LEMMA RepliesType ==
    ASSUME NEW p \in Procs, NEW m, m.t \in AuthTypes
    PROVE  /\ m.t \in {"init", "confirm"} => Replies(p, m) \in Seq(ToS)
           /\ m.t \in {"challenge", "ready"} => Replies(p, m) \in Seq(ToR)
           /\ \A x \in Elems(Replies(p, m)) :
                 /\ x.ctx = p.ctx
                 /\ \/ m.t = "init" /\ x.t = "challenge"
                    \/ m.t = "challenge" /\ x.t = "confirm"
                    \/ m.t = "confirm" /\ x.t = "ready"
<1>1. CASE m.t = "ready"
      <2>1. Answer(m.t) = <<>>
            BY <1>1 DEF Answer
      <2>2. DOMAIN Answer(m.t) = {}
            BY <2>1
      <2>3. Replies(p, m) = [i \in {} |-> Frame(p, Answer(m.t)[i])]
            BY <2>2 DEF Replies
      <2>4. Replies(p, m) \in Seq(ToR)
            BY <2>3
      <2>5. Elems(Replies(p, m)) = {}
            BY <2>3 DEF Elems
      <2> QED BY <1>1, <2>4, <2>5
<1>2. ASSUME NEW a, Answer(m.t) = <<a>>
      PROVE  Replies(p, m) = <<Frame(p, a)>>
      BY <1>2 DEF Replies
<1>3. ASSUME NEW a, Answer(m.t) = <<a>>, NEW S, Frame(p, a) \in S
      PROVE  Replies(p, m) \in Seq(S) /\ \A x \in Elems(Replies(p, m)) : x.ctx = p.ctx /\ x.t = a
      <2>1. PICK f : f = Frame(p, a)
            OBVIOUS
      <2>2. Replies(p, m) = <<f>> /\ f \in S /\ f.ctx = p.ctx /\ f.t = a
            BY <1>2, <1>3, <2>1, FrameType
      <2>3. <<f>> \in Seq(S) /\ Elems(<<f>>) = {f}
            BY <2>2, ElemsOne
      <2> QED BY <2>2, <2>3
<1>4. CASE m.t = "init"
      <2>1. Answer(m.t) = <<"challenge">>
            BY <1>4 DEF Answer
      <2> QED BY <1>3, <1>4, <2>1, FrameType
<1>5. CASE m.t = "challenge"
      <2>1. Answer(m.t) = <<"confirm">>
            BY <1>5 DEF Answer
      <2> QED BY <1>3, <1>5, <2>1, FrameType
<1>6. CASE m.t = "confirm"
      <2>1. Answer(m.t) = <<"ready">>
            BY <1>6 DEF Answer
      <2> QED BY <1>3, <1>6, <2>1, FrameType
<1> QED BY <1>1, <1>4, <1>5, <1>6 DEF AuthTypes

-----------------------------------------------------------------------------
\* The processes and the path keep their types and the authentication its
\* invariant, action by action.

TypeInv == DiskType /\ PathType

LEMMA SetProc ==
    ASSUME PathType, NEW e \in Ends, NEW q \in Procs, proc' = [proc EXCEPT ![e] = q]
    PROVE  proc' \in [Ends -> Procs] /\ proc'[e] = q /\ \A d \in Ends : d # e => proc'[d] = proc[d]
BY DEF PathType

LEMMA SetChan ==
    ASSUME PathType, NEW e \in Ends, NEW w, chan' = [chan EXCEPT ![e] = w]
    PROVE  /\ DOMAIN chan' = Ends /\ chan' = [d \in Ends |-> chan'[d]]
           /\ chan'[e] = w /\ \A d \in Ends : d # e => chan'[d] = chan[d]
BY DEF PathType

\* What Ended leaves of the ends and of the path.
LEMMA EndedPath ==
    ASSUME TypeInv, ShakeOK, n' = n, NEW e \in Ends, Ended(e)
    PROVE  /\ PathType' /\ ShakeOK'
           /\ proc'[e] = Off /\ \A d \in Ends : d # e => proc'[d] = proc[d]
           /\ chan'[e] = <<>> /\ \A d \in Ends : d # e => chan'[d] = chan[d]
<1>1. proc' \in [Ends -> Procs] /\ proc'[e] = Off /\ \A d \in Ends : d # e => proc'[d] = proc[d]
      BY SetProc, OffType DEF Ended, TypeInv
<1>2. /\ DOMAIN chan' = Ends /\ chan' = [d \in Ends |-> chan'[d]]
      /\ chan'[e] = <<>> /\ \A d \in Ends : d # e => chan'[d] = chan[d]
      BY SetChan DEF Ended, TypeInv
<1>3. chan'["s"] \in Seq(ToS) /\ chan'["r"] \in Seq(ToR)
      <2>1. <<>> \in Seq(ToS) /\ <<>> \in Seq(ToR)
            OBVIOUS
      <2> QED BY <1>2, <2>1 DEF Ends, TypeInv, PathType
<1>4. \A d \in Ends : Kept(proc[d], proc'[d]) \/ Unmet(proc'[d])
      <2>1. \A d \in Ends : Kept(proc[d], proc[d])
            BY KeptSame DEF ShakeOK, Ends
      <2> QED BY <1>1, <2>1, OffUnmet
<1>5. ShakeOK'
      BY <1>1, <1>4, ShakeUnmet, OffUnmet
<1> QED BY <1>1, <1>2, <1>3, <1>5 DEF PathType

\* A process starts: it is in no session yet.
LEMMA StartsPath ==
    ASSUME TypeInv, ShakeOK, NEW e \in Ends, NEW p \in Procs, Unmet(p), Starts(e, p)
    PROVE  PathType' /\ ShakeOK' /\ proc'[e] = p /\ (\A d \in Ends : d # e => proc'[d] = proc[d]) /\ chan' = chan
<1>1. proc' \in [Ends -> Procs] /\ proc'[e] = p /\ \A d \in Ends : d # e => proc'[d] = proc[d]
      BY SetProc DEF Starts, TypeInv
<1>2. chan' = chan /\ n' = n
      BY DEF Starts, bounds
<1>3. \A d \in Ends : Kept(proc[d], proc'[d]) \/ Unmet(proc'[d])
      BY <1>1, KeptSame DEF ShakeOK, Ends
<1>4. ShakeOK'
      BY <1>1, <1>2, <1>3, ShakeUnmet
<1> QED BY <1>1, <1>2, <1>4 DEF PathType, TypeInv

\* The four ways a process starts.
LEMMA Starters ==
    ASSUME TypeInv
    PROVE  /\ [Off EXCEPT !.phase = "dialing"] \in Procs /\ Unmet([Off EXCEPT !.phase = "dialing"])
           /\ [Off EXCEPT !.phase = "joining"] \in Procs /\ Unmet([Off EXCEPT !.phase = "joining"])
           /\ \A c \in Ctxs : /\ [Off EXCEPT !.phase = "joining", !.ctx = c] \in Procs
                              /\ Unmet([Off EXCEPT !.phase = "joining", !.ctx = c])
           /\ \A c \in Ctxs : LET p == [Off EXCEPT !.phase = "dialing", !.ctx = c, !.rec = rec,
                                                   !.tid = rec.tid, !.reused = TRUE]
                              IN  p \in Procs /\ Unmet(p)
<1>1. rec \in Recs /\ rec.tid \in Tids
      BY DEF TypeInv, DiskType, Recs
<1>2. 0 \in Tids /\ <<>> \in Seq(ToR) /\ NoRec \in Recs /\ NoCtx \in Ctxs
      BY OffType, ReattachAssumption DEF Tids
<1>3. ASSUME NEW c \in Ctxs
      PROVE  LET p == [Off EXCEPT !.phase = "dialing", !.ctx = c, !.rec = rec, !.tid = rec.tid, !.reused = TRUE]
             IN  p \in Procs /\ Unmet(p)
      BY <1>1, <1>2 DEF Off, Procs, Phases, Unmet
<1>4. ASSUME NEW c \in Ctxs
      PROVE  /\ [Off EXCEPT !.phase = "joining", !.ctx = c] \in Procs
             /\ Unmet([Off EXCEPT !.phase = "joining", !.ctx = c])
      BY <1>2 DEF Off, Procs, Phases, Unmet
<1>5. /\ [Off EXCEPT !.phase = "dialing"] \in Procs /\ Unmet([Off EXCEPT !.phase = "dialing"])
      /\ [Off EXCEPT !.phase = "joining"] \in Procs /\ Unmet([Off EXCEPT !.phase = "joining"])
      BY <1>2 DEF Off, Procs, Phases, Unmet
<1> QED BY <1>3, <1>4, <1>5

LEMMA CtxType ==
    ASSUME NEW t \in Tids, NEW r, r.content \in Values, r.cred \in Tids
    PROVE  /\ ResumeCtx(t, r) \in Ctxs
           /\ ResumeCtx(t, r).cred = r.cred
           /\ r.cred # 0 => ResumeCtx(t, r).tid = t
<1>1. NoCtx \in Ctxs
      BY OffType
<1> QED BY <1>1 DEF ResumeCtx, Ctxs, NoCtx

PathOK == PathType /\ ShakeOK

\* Establish puts both ends into one new session with an empty path, but for
\* the sender's resume_init.
LEMMA EstablishPath ==
    ASSUME TypeInv, ShakeOK, Establish
    PROVE  /\ PathOK'
           /\ n' = n + 1 /\ n' \in Tids /\ n' # 0 /\ proc["s"].n = 0 /\ proc["r"].n = 0
           /\ \/ proc'["s"] = Off
              \/ /\ proc'["s"].n = n' /\ proc'["s"].reused = proc["s"].reused /\ proc'["s"].rec = proc["s"].rec
                 /\ proc'["s"].tid = (IF proc["s"].reused THEN proc["s"].tid ELSE n')
                 /\ proc'["s"].ctx = proc["s"].ctx
                 /\ \/ proc'["s"].phase = "preamble"
                    \/ proc'["s"].phase = "engine" /\ proc["s"].ctx.cred = 0
           /\ proc'["r"].n = n' /\ proc'["r"].ctx = proc["r"].ctx /\ proc'["r"].phase \in {"preamble", "settled"}
           /\ proc'["r"].pending = <<>> /\ \A m \in Elems(chan'["r"]) : m.t = "init"
<1> DEFINE s0 == proc["s"]
           r0 == proc["r"]
           auth == HasCtx("s") /\ HasCtx("r")
<1>1. s0 \in Procs /\ r0 \in Procs /\ n \in Tids
      BY DEF TypeInv, DiskType, PathType, Ends
<1>2. n' = n + 1 /\ n' \in Tids /\ n' # 0
      BY <1>1, ReattachAssumption DEF Establish, Tids
<1>3. s0.n = 0 /\ r0.n = 0 /\ Unmet(s0) /\ Unmet(r0)
      BY DEF Establish, ShakeOK, InSession, Unmet
<1>4. PICK t : t = IF s0.reused THEN s0.tid ELSE n'
      OBVIOUS
<1>5. t \in Tids
      BY <1>1, <1>2, <1>4 DEF Procs
<1>6. PICK s : s = [s0 EXCEPT !.n = n', !.tid = t]
      OBVIOUS
<1>7. s \in Procs /\ s.n = n' /\ s.tid = t /\ s.ctx = s0.ctx /\ s.rec = s0.rec /\ s.reused = s0.reused
      /\ s.st = s0.st /\ s.accepted = s0.accepted /\ s.pending = s0.pending
      BY <1>1, <1>2, <1>5, <1>6 DEF Procs
<1>8. PICK r : r = [r0 EXCEPT !.n = n', !.phase = IF auth THEN "preamble" ELSE "settled"]
      OBVIOUS
<1>9. r \in Procs /\ r.n = n' /\ r.ctx = r0.ctx /\ r.phase = (IF auth THEN "preamble" ELSE "settled")
      /\ r.st = r0.st /\ r.accepted = r0.accepted /\ r.pending = r0.pending
      BY <1>1, <1>2, <1>8 DEF Procs, Phases
<1>10. PICK sa : sa = [s EXCEPT !.phase = "preamble", !.st = "awaitChallenge", !.out = 2]
      OBVIOUS
<1>11. sa \in Procs /\ sa.n = n' /\ sa.tid = t /\ sa.ctx = s0.ctx /\ sa.rec = s0.rec /\ sa.reused = s0.reused
      /\ sa.st = "awaitChallenge" /\ sa.accepted = s0.accepted /\ sa.pending = s0.pending /\ sa.phase = "preamble"
      BY <1>7, <1>10 DEF Procs, Phases
<1>12. PICK sb : sb = [s EXCEPT !.phase = "engine"]
      OBVIOUS
<1>13. sb \in Procs /\ sb.n = n' /\ sb.tid = t /\ sb.ctx = s0.ctx /\ sb.rec = s0.rec /\ sb.reused = s0.reused
      /\ sb.st = s0.st /\ sb.accepted = s0.accepted /\ sb.pending = s0.pending /\ sb.phase = "engine"
      BY <1>7, <1>12 DEF Procs, Phases
<1>14. /\ proc' = [s |-> IF ~MayEstablish THEN Off ELSE IF auth THEN sa ELSE sb, r |-> r]
       /\ chan' = [s |-> <<>>, r |-> IF auth THEN <<Frame(s, "init")>> ELSE <<>>]
      BY <1>1, <1>4, <1>6, <1>8, <1>10, <1>12 DEF Establish, Procs
<1>15. /\ proc'["s"] = (IF ~MayEstablish THEN Off ELSE IF auth THEN sa ELSE sb) /\ proc'["r"] = r
       /\ chan'["s"] = <<>> /\ chan'["r"] = (IF auth THEN <<Frame(s, "init")>> ELSE <<>>)
       /\ DOMAIN proc' = Ends /\ DOMAIN chan' = Ends
       /\ proc' = [e \in Ends |-> proc'[e]] /\ chan' = [e \in Ends |-> chan'[e]]
      BY <1>14 DEF Ends
<1>16. PICK f : f = Frame(s, "init")
      OBVIOUS
<1>17. f \in ToR /\ f.t = "init" /\ f.ctx = s0.ctx
      BY <1>7, <1>16, FrameType
<1>18. <<f>> \in Seq(ToR) /\ Elems(<<f>>) = {f} /\ <<>> \in Seq(ToR) /\ <<>> \in Seq(ToS)
      BY <1>17, ElemsOne
<1>19. /\ chan'["r"] \in Seq(ToR)
       /\ \A m \in Elems(chan'["r"]) : m.t = "init" /\ m.ctx = s0.ctx
       /\ chan'["s"] \in Seq(ToS) /\ Elems(chan'["s"]) = {}
      BY <1>15, <1>16, <1>17, <1>18, ElemsEmpty
<1>20. PathType'
      BY <1>9, <1>11, <1>13, <1>15, <1>19, OffType DEF PathType, Ends
<1>21. InSession(proc["s"])' /\ InSession(proc["r"])'
      BY <1>2, <1>3, <1>9, <1>11, <1>13, <1>15 DEF InSession, Unmet, Off
<1>22. SenderShake(proc'["s"]) /\ ReceiverShake(proc'["r"])
      BY <1>3, <1>9, <1>11, <1>13, <1>15 DEF SenderShake, ReceiverShake, Unmet, Off
<1>23. Talk(proc["s"], proc["r"], chan["s"], chan["r"])'
      <2>1. proc'["s"].n # 0 => proc'["s"].ctx = s0.ctx /\ proc'["s"].st # "done"
            BY <1>3, <1>11, <1>13, <1>15 DEF Off, Unmet
      <2>2. proc'["r"].st # "done"
            BY <1>3, <1>9, <1>15 DEF Unmet
      <2> QED BY <1>19, <2>1, <2>2 DEF Talk, Met, FromSender, Agree
<1>24. ShakeOK'
      BY <1>21, <1>22, <1>23 DEF ShakeOK
<1>25. \/ proc'["s"] = Off
       \/ /\ proc'["s"].n = n' /\ proc'["s"].reused = s0.reused /\ proc'["s"].rec = s0.rec
          /\ proc'["s"].tid = t /\ proc'["s"].ctx = s0.ctx
          /\ \/ proc'["s"].phase = "preamble"
             \/ proc'["s"].phase = "engine" /\ s0.ctx.cred = 0
      BY <1>11, <1>13, <1>15 DEF MayEstablish, HasCtx
<1> QED BY <1>2, <1>3, <1>4, <1>9, <1>15, <1>19, <1>20, <1>24, <1>25 DEF PathOK, Unmet

\* Where a frame of the preamble is not refused.
LEMMA PreambleStep ==
    ASSUME TypeInv, NEW e \in Ends, Preamble(e), ~Ended(e)
    PROVE  LET m == Head(chan[e])
               q == HandleAuth(proc[e], m)
           IN  /\ chan[e] # <<>> /\ m \in Elems(chan[e]) /\ m \in (IF e = "s" THEN ToS ELSE ToR)
               /\ m.t \in AuthTypes /\ q \in Procs /\ Handled(proc[e], m, q) /\ q.st # "failed"
               /\ proc[e].phase = "preamble" /\ proc[e].st # "done"
               /\ proc'[e] = q /\ proc'[Other(e)] = proc[Other(e)] /\ proc' \in [Ends -> Procs]
               /\ DOMAIN chan' = Ends /\ chan' = [d \in Ends |-> chan'[d]]
               /\ chan'[e] = Tail(chan[e]) /\ chan'[Other(e)] = chan[Other(e)] \o Replies(proc[e], m)
<1> DEFINE m == Head(chan[e])
           q == HandleAuth(proc[e], m)
<1>1. /\ chan[e] # <<>> /\ q.st # "failed" /\ proc[e].phase = "preamble" /\ proc[e].st # "done"
      /\ chan' = [chan EXCEPT ![e] = Tail(@), ![Other(e)] = @ \o Replies(proc[e], m)]
      /\ proc' = [proc EXCEPT ![e] = q]
      BY DEF Preamble
<1>2. m \in Elems(chan[e]) /\ m \in (IF e = "s" THEN ToS ELSE ToR)
      BY <1>1, ElemsHead DEF TypeInv, PathType, Ends
<1>3. m.ctr \in Nat /\ proc[e] \in Procs
      BY <1>2 DEF ToS, ToR, TypeInv, PathType
<1>4. m.t \in AuthTypes /\ q \in Procs /\ Handled(proc[e], m, q)
      BY <1>1, <1>3, HandleAuthType
<1>5. Other(e) \in Ends /\ Other(e) # e
      BY DEF Other, Ends
<1>6. proc'[e] = q /\ proc'[Other(e)] = proc[Other(e)] /\ proc' \in [Ends -> Procs]
      BY <1>1, <1>4, <1>5, SetProc DEF TypeInv
<1>7. PICK a, b : a = Tail(chan[e]) /\ b = chan[Other(e)] \o Replies(proc[e], m)
      OBVIOUS
<1>8. chan' = [chan EXCEPT ![e] = a, ![Other(e)] = b]
      BY <1>1, <1>5, <1>7 DEF TypeInv, PathType
<1>9. DOMAIN chan' = Ends /\ chan' = [d \in Ends |-> chan'[d]] /\ chan'[e] = a /\ chan'[Other(e)] = b
      BY <1>5, <1>8 DEF TypeInv, PathType
<1> QED BY <1>1, <1>2, <1>4, <1>6, <1>7, <1>9

\* The sender's preamble takes challenge or ready.
LEMMA PreambleSender ==
    ASSUME TypeInv, ShakeOK, n' = n, Preamble("s"), ~Ended("s")
    PROVE  /\ PathOK'
           /\ proc'["r"] = proc["r"]
           /\ \A x \in Elems(chan'["r"]) : x \in Elems(chan["r"]) \/ x.t = "confirm"
<1> DEFINE p == proc["s"]
           r == proc["r"]
           m == Head(chan["s"])
           q == HandleAuth(p, m)
<1>1. "s" \in Ends /\ Other("s") = "r"
      BY DEF Ends, Other
<1>2. /\ chan["s"] # <<>> /\ m \in Elems(chan["s"]) /\ m \in ToS
      /\ m.t \in AuthTypes /\ q \in Procs /\ Handled(p, m, q) /\ q.st # "failed"
      /\ p.phase = "preamble" /\ p.st # "done"
      /\ proc'["s"] = q /\ proc'["r"] = r /\ proc' \in [Ends -> Procs]
      /\ DOMAIN chan' = Ends /\ chan' = [d \in Ends |-> chan'[d]]
      /\ chan'["s"] = Tail(chan["s"]) /\ chan'["r"] = chan["r"] \o Replies(p, m)
      BY <1>1, PreambleStep
<1>3. m.t \in {"challenge", "ready"}
      BY <1>2 DEF ToS, AuthTypes
<1>4. p \in Procs /\ chan["s"] \in Seq(ToS) /\ chan["r"] \in Seq(ToR)
      BY DEF TypeInv, PathType, Ends
<1>5. /\ Replies(p, m) \in Seq(ToR)
      /\ \A x \in Elems(Replies(p, m)) : x.ctx = p.ctx /\ x.t = "confirm" /\ m.t = "challenge"
      BY <1>2, <1>3, <1>4, RepliesType
<1>6. /\ chan'["r"] \in Seq(ToR) /\ Elems(chan'["r"]) \subseteq Elems(chan["r"]) \cup Elems(Replies(p, m))
      BY <1>2, <1>4, <1>5, ElemsCat
<1>7. /\ chan'["s"] \in Seq(ToS) /\ Elems(chan'["s"]) \subseteq Elems(chan["s"])
      BY <1>2, <1>4, ElemsTail
<1>8. PathType'
      BY <1>2, <1>6, <1>7 DEF PathType
<1>9. InSession(proc["s"])' /\ InSession(proc["r"])'
      BY <1>2 DEF ShakeOK, InSession, Handled
<1>10. /\ m.t \in p.accepted => q.st = p.st
       /\ m.t \notin p.accepted => <<p.st, m.t, q.st>> \in Steps /\ m.ctx = p.ctx
      BY <1>2, <1>3, NextStCases DEF Handled
<1>11. /\ m.t \in p.accepted => m.t = "challenge" /\ q.st = "awaitReady" /\ p.st = "awaitReady"
       /\ (m.t \notin p.accepted /\ m.t = "challenge") => p.st = "awaitChallenge" /\ q.st = "awaitReady"
       /\ (m.t \notin p.accepted /\ m.t = "ready") => p.st = "awaitReady" /\ q.st = "done" /\ m.ctx = p.ctx
      <2>1. m.t \in p.accepted => m.t = "challenge" /\ q.st = "awaitReady" /\ p.st = "awaitReady"
            BY <1>2, <1>3, <1>10 DEF ShakeOK, SenderShake
      <2>2. m.t \notin p.accepted => \/ m.t = "challenge" /\ p.st = "awaitChallenge" /\ q.st = "awaitReady"
                                     \/ m.t = "ready" /\ p.st = "awaitReady" /\ q.st = "done"
            BY <1>3, <1>10 DEF Steps
      <2> QED BY <1>3, <1>10, <2>1, <2>2
<1>12. q.st \in {"awaitReady", "done"} /\ (m.t = "challenge" => q.st = "awaitReady")
       /\ (q.st = "done" => m.t = "ready" /\ m.ctx = p.ctx)
      BY <1>3, <1>11
<1>13. SenderShake(q)
      BY <1>2, <1>3, <1>11, <1>12 DEF ShakeOK, SenderShake, Handled
<1>14. ASSUME Met(q, r)
       PROVE  /\ \A x \in Elems(chan'["r"]) : FromSender(x, q)
              /\ \A x \in Elems(chan'["s"]) : FromReceiver(x, r)
              /\ Agree(q, r)
      <2>1. Met(p, r) /\ q.ctx = p.ctx
            BY <1>2, <1>14 DEF Met, Handled
      <2>2. /\ \A x \in Elems(chan["r"]) : FromSender(x, p)
            /\ \A x \in Elems(chan["s"]) : FromReceiver(x, r)
            /\ Agree(p, r)
            BY <2>1 DEF ShakeOK, Talk
      <2>3. \A x \in Elems(chan'["r"]) : FromSender(x, q)
            BY <1>5, <1>6, <1>12, <2>1, <2>2 DEF FromSender
      <2>4. Agree(q, r)
            BY <1>2, <1>12, <2>1, <2>2 DEF Agree, FromReceiver
      <2> QED BY <1>7, <2>2, <2>3, <2>4
<1>15. Talk(proc["s"], proc["r"], chan["s"], chan["r"])'
      BY <1>2, <1>14 DEF Talk
<1>16. ShakeOK'
      BY <1>2, <1>9, <1>13, <1>15 DEF ShakeOK
<1> QED BY <1>2, <1>5, <1>6, <1>8, <1>16 DEF PathOK

\* The receiver's preamble takes init or confirm.
LEMMA PreambleReceiver ==
    ASSUME TypeInv, ShakeOK, n' = n, Preamble("r"), ~Ended("r")
    PROVE  /\ PathOK'
           /\ proc'["s"] = proc["s"]
           /\ proc["r"].phase = "preamble"
           /\ proc'["r"].n = proc["r"].n /\ proc'["r"].ctx = proc["r"].ctx /\ proc'["r"].phase = proc["r"].phase
           /\ proc'["r"].pending = proc["r"].pending
           /\ Elems(chan'["r"]) \subseteq Elems(chan["r"])
<1> DEFINE p == proc["r"]
           s == proc["s"]
           m == Head(chan["r"])
           q == HandleAuth(p, m)
<1>1. "r" \in Ends /\ Other("r") = "s"
      BY DEF Ends, Other
<1>2. /\ chan["r"] # <<>> /\ m \in Elems(chan["r"]) /\ m \in ToR
      /\ m.t \in AuthTypes /\ q \in Procs /\ Handled(p, m, q) /\ q.st # "failed"
      /\ p.phase = "preamble" /\ p.st # "done"
      /\ proc'["r"] = q /\ proc'["s"] = s /\ proc' \in [Ends -> Procs]
      /\ DOMAIN chan' = Ends /\ chan' = [d \in Ends |-> chan'[d]]
      /\ chan'["r"] = Tail(chan["r"]) /\ chan'["s"] = chan["s"] \o Replies(p, m)
      BY <1>1, PreambleStep
<1>3. m.t \in {"init", "confirm"}
      BY <1>2 DEF ToR, AuthTypes
<1>4. p \in Procs /\ chan["s"] \in Seq(ToS) /\ chan["r"] \in Seq(ToR)
      BY DEF TypeInv, PathType, Ends
<1>5. /\ Replies(p, m) \in Seq(ToS)
      /\ \A x \in Elems(Replies(p, m)) : x.ctx = p.ctx /\ (x.t = "ready" => m.t = "confirm")
      BY <1>2, <1>3, <1>4, RepliesType
<1>6. /\ chan'["s"] \in Seq(ToS) /\ Elems(chan'["s"]) \subseteq Elems(chan["s"]) \cup Elems(Replies(p, m))
      BY <1>2, <1>4, <1>5, ElemsCat
<1>7. /\ chan'["r"] \in Seq(ToR) /\ Elems(chan'["r"]) \subseteq Elems(chan["r"])
      BY <1>2, <1>4, ElemsTail
<1>8. PathType'
      BY <1>2, <1>6, <1>7 DEF PathType
<1>9. InSession(proc["s"])' /\ InSession(proc["r"])'
      BY <1>2 DEF ShakeOK, InSession, Handled
<1>10. /\ m.t \in p.accepted => q.st = p.st
       /\ m.t \notin p.accepted => <<p.st, m.t, q.st>> \in Steps /\ (m.t = "init" \/ m.ctx = p.ctx)
      BY <1>2, <1>3, NextStCases DEF Handled
<1>11. /\ m.t \in p.accepted => m.t = "init" /\ q.st = p.st
       /\ (m.t \notin p.accepted /\ m.t = "init") => p.st = "idle" /\ q.st = "awaitConfirm"
       /\ (m.t \notin p.accepted /\ m.t = "confirm") => p.st = "awaitConfirm" /\ q.st = "done" /\ m.ctx = p.ctx
      <2>1. m.t \in p.accepted => m.t = "init" /\ q.st = p.st
            BY <1>2, <1>3, <1>10 DEF ShakeOK, ReceiverShake
      <2>2. m.t \notin p.accepted => \/ m.t = "init" /\ p.st = "idle" /\ q.st = "awaitConfirm"
                                     \/ m.t = "confirm" /\ p.st = "awaitConfirm" /\ q.st = "done"
            BY <1>3, <1>10 DEF Steps
      <2> QED BY <1>3, <1>10, <2>1, <2>2
<1>12. /\ q.st \in {p.st, "awaitConfirm", "done"} /\ (m.t = "confirm" => q.st = "done")
       /\ (q.st = "done" => m.t = "confirm" /\ m.ctx = p.ctx)
      BY <1>2, <1>3, <1>11
<1>13. ReceiverShake(q)
      BY <1>2, <1>3, <1>12 DEF ShakeOK, ReceiverShake, Handled
<1>14. ASSUME Met(s, q)
       PROVE  /\ \A x \in Elems(chan'["r"]) : FromSender(x, s)
              /\ \A x \in Elems(chan'["s"]) : FromReceiver(x, q)
              /\ Agree(s, q)
      <2>1. Met(s, p) /\ q.ctx = p.ctx
            BY <1>2, <1>14 DEF Met, Handled
      <2>2. /\ \A x \in Elems(chan["r"]) : FromSender(x, s)
            /\ \A x \in Elems(chan["s"]) : FromReceiver(x, p)
            /\ Agree(s, p)
            BY <2>1 DEF ShakeOK, Talk
      <2>3. \A x \in Elems(chan'["s"]) : FromReceiver(x, q)
            BY <1>2, <1>5, <1>6, <1>12, <2>1, <2>2 DEF FromReceiver
      <2>4. Agree(s, q)
            BY <1>2, <1>12, <2>1, <2>2 DEF Agree, FromSender
      <2> QED BY <1>7, <2>2, <2>3, <2>4
<1>15. Talk(proc["s"], proc["r"], chan["s"], chan["r"])'
      BY <1>2, <1>14 DEF Talk
<1>16. ShakeOK'
      BY <1>2, <1>9, <1>13, <1>15 DEF ShakeOK
<1> QED BY <1>2, <1>7, <1>8, <1>16 DEF PathOK, Handled

-----------------------------------------------------------------------------
(***************************************************************************)
(* The sender's record rc, the run p that captured it and the manifests    *)
(* adv sent so far, after k sessions.                                      *)
(***************************************************************************)
Told(adv, t, c) == \A a \in adv : a.tid = t => a.content = c

\* A credential is only ever attached in the session that minted the id.
RecordOK(rc, adv, k) ==
    /\ rc.tid <= k /\ rc.cred \in {0, rc.tid}
    /\ rc.there => Told(adv, rc.tid, rc.content)

\* A reused record is on disk as it was captured, damage apart, or gone.
ReusedOK(p, rc, adv, k) ==
    /\ p.rec.there /\ p.tid = p.rec.tid /\ p.rec.tid <= k /\ p.rec.cred \in {0, p.rec.tid}
    /\ Told(adv, p.rec.tid, p.rec.content)
    /\ rc.there => rc.tid = p.rec.tid /\ rc.content = p.rec.content /\ rc.cred = p.rec.cred
    /\ p.ctx.cred = p.rec.cred /\ (p.ctx.cred # 0 => p.ctx.tid = p.rec.tid)
    /\ Host = "cli" => p.rec.cred # 0

\* The id of a new transfer is unused until the hook, and then bound.
FreshOK(p, rc, adv) ==
    /\ p.ctx.cred = 0
    /\ p.n # 0 => p.tid = p.n
    /\ p.phase \in {"preamble", "engine"} =>
          /\ \A a \in adv : a.tid # p.tid
          /\ rc.there => rc.tid # p.tid
    /\ p.phase \in {"recorded", "attached"} =>
          /\ Told(adv, p.tid, p.rec.content)
          /\ (rc.there /\ rc.tid = p.tid) => rc.content = p.rec.content

AuthedOK(p) == (p.n # 0 /\ p.phase # "preamble" /\ p.ctx.cred # 0) => p.st = "done" /\ p.ep = p.n

\* OneManifestPerId and ReusedOnlyAuthenticated, of the manifests adv.
AdvertOK(adv, k) ==
    /\ \A a \in adv : a.tid <= k
    /\ \A a \in adv : Told(adv, a.tid, a.content)
    /\ Host = "cli" => \A a \in adv : a.fresh \/ a.auth

Papers(p, rc, adv, k) ==
    /\ RecordOK(rc, adv, k) /\ AdvertOK(adv, k) /\ AuthedOK(p)
    /\ p.reused => ReusedOK(p, rc, adv, k)
    /\ ~p.reused => FreshOK(p, rc, adv)

PaperOK == Papers(proc["s"], rec, advertised, n)

(***************************************************************************)
(* The receiver's journals.  The record of t has no credential and never   *)
(* gets one: a journal of t may then have any.                             *)
(***************************************************************************)
Credless(t, s, rc, k) ==
    /\ t <= k
    /\ (rc.there /\ rc.tid = t) => rc.cred = 0
    /\ (s.reused /\ s.rec.tid = t) => s.rec.cred = 0
    /\ (~s.reused /\ s.n # 0) => s.tid # t

\* A manifest on its way to r is of this session, of the transfer r has
\* authenticated, or of one without a credential.
ManifestOK(m, s, r, rc, k) ==
    m.t = "manifest" =>
        \/ m.ctx.tid = r.n
        \/ r.ctx.cred # 0 /\ m.ctx.tid = r.ctx.tid
        \/ Credless(m.ctx.tid, s, rc, k)

Held(q, r) == Elems(q) \cup Elems(r.pending)

HeldOK(q, s, r, rc, k) == r.n # 0 => \A m \in Held(q, r) : ManifestOK(m, s, r, rc, k)

ResumedOK(r, j, v) == r.ctx.cred # 0 => j[r.ctx.tid].there \/ r.ctx.tid \in v

PreparedOK(s, r, rc, k, v) ==
    (r.phase = "prepared" /\ ~r.reused) => r.tid = r.n \/ r.tid \in v \/ Credless(r.tid, s, rc, k)

JournalsOK(j, v, s, rc, k) == \A t \in Tids \ v : j[t].cred \in {0, t} \/ Credless(t, s, rc, k)

CreditOK ==
    /\ HeldOK(chan["r"], proc["s"], proc["r"], rec, n)
    /\ ResumedOK(proc["r"], journal, vanished)
    /\ PreparedOK(proc["s"], proc["r"], rec, n, vanished)
    /\ JournalsOK(journal, vanished, proc["s"], rec, n)

IInv == TypeInv /\ ShakeOK /\ PaperOK /\ CreditOK

-----------------------------------------------------------------------------
CredlessKept == \A t \in Tids : Credless(t, proc["s"], rec, n) => Credless(t, proc["s"], rec, n)'

\* A step of the sender, or of the receiver where it neither gets a manifest
\* nor writes a journal.
LEMMA CreditKept ==
    ASSUME TypeInv, CreditOK, CredlessKept, journal' = journal, vanished' = vanished, PathType',
           LET r == proc["r"]
               q == proc'["r"]
           IN  /\ q.n = r.n /\ q.ctx = r.ctx
               /\ (q.phase = "prepared" /\ ~q.reused) => (r.phase = "prepared" /\ ~r.reused /\ q.tid = r.tid),
           \A m \in Held(chan'["r"], proc'["r"]) : m \in Held(chan["r"], proc["r"]) \/ m.t # "manifest"
    PROVE  CreditOK'
<1> DEFINE r == proc["r"]
           q == proc'["r"]
<1>1. r \in Procs /\ q \in Procs /\ q.n = r.n /\ q.ctx = r.ctx
      BY DEF TypeInv, PathType, Ends
<1>2. \A t \in Tids : Credless(t, proc["s"], rec, n) => Credless(t, proc'["s"], rec', n')
      BY DEF CredlessKept
<1>3. \A m \in Held(chan["r"], r) : m \in ToR
      BY DEF Held, Elems, TypeInv, PathType, Ends, Procs
<1>4. \A m \in ToR : m.ctx.tid \in Tids
      BY DEF ToR, Ctxs
<1>5. HeldOK(chan'["r"], proc'["s"], q, rec', n')
      BY <1>1, <1>2, <1>3, <1>4 DEF CreditOK, HeldOK, ManifestOK
<1>6. ResumedOK(q, journal', vanished')
      BY <1>1 DEF CreditOK, ResumedOK
<1>7. r.tid \in Tids
      BY <1>1 DEF Procs
<1>8. PreparedOK(proc'["s"], q, rec', n', vanished')
      BY <1>1, <1>2, <1>7 DEF CreditOK, PreparedOK
<1>9. JournalsOK(journal', vanished', proc'["s"], rec', n')
      BY <1>2 DEF CreditOK, JournalsOK
<1> QED BY <1>5, <1>6, <1>8, <1>9 DEF CreditOK

\* The receiver is gone, or has just started: journals may have been discarded.
LEMMA CreditUnmet ==
    ASSUME CreditOK, CredlessKept, vanished \subseteq vanished',
           proc'["r"].n = 0, proc'["r"].phase # "prepared", ResumedOK(proc'["r"], journal', vanished'),
           \A t \in Tids : journal'[t].cred \in {0, journal[t].cred}
    PROVE  CreditOK'
<1>1. \A t \in Tids : Credless(t, proc["s"], rec, n) => Credless(t, proc'["s"], rec', n')
      BY DEF CredlessKept
<1>2. JournalsOK(journal', vanished', proc'["s"], rec', n')
      BY <1>1 DEF CreditOK, JournalsOK
<1> QED BY <1>2 DEF CreditOK, HeldOK, PreparedOK

LEMMA CredlessSame == ASSUME proc'["s"] = proc["s"], rec' = rec, n' = n PROVE CredlessKept
BY DEF CredlessKept

\* A sender that is gone.
LEMMA CredlessOff ==
    ASSUME proc'["s"] = Off, n' = n, rec' = rec \/ rec' = NoRec
    PROVE  CredlessKept
BY DEF CredlessKept, Credless, Off, NoRec

LEMMA PapersOff ==
    ASSUME TypeInv, PaperOK, NEW rc, rc \in {rec, NoRec}
    PROVE  Papers(Off, rc, advertised, n)
<1>1. n \in Nat
      BY DEF TypeInv, DiskType, Tids
<1>2. RecordOK(rc, advertised, n)
      BY <1>1 DEF PaperOK, Papers, RecordOK, NoRec
<1> QED BY <1>2 DEF PaperOK, Papers, AuthedOK, FreshOK, Off, NoCtx

-----------------------------------------------------------------------------
\* Ends that end and start.

LEMMA EndedSender ==
    ASSUME IInv, Ended("s"), rec' = rec \/ rec' = NoRec,
           UNCHANGED <<content, journal, n, advertised, vanished>>
    PROVE  IInv'
<1>1. "s" \in Ends /\ "r" \in Ends
      BY DEF Ends
<1>2. PathType' /\ ShakeOK' /\ proc'["s"] = Off /\ proc'["r"] = proc["r"] /\ chan'["r"] = chan["r"]
      BY <1>1, EndedPath DEF IInv
<1>3. DiskType'
      BY OffType DEF IInv, TypeInv, DiskType
<1>4. PaperOK'
      BY <1>2, PapersOff DEF IInv, PaperOK
<1>5. CredlessKept
      BY <1>2, CredlessOff
<1>6. CreditOK'
      BY <1>2, <1>5, CreditKept DEF IInv
<1> QED BY <1>2, <1>3, <1>4, <1>6 DEF IInv, TypeInv

LEMMA EndedReceiver ==
    ASSUME IInv, Ended("r"), UNCHANGED <<content, rec, journal, n, advertised, vanished>>
    PROVE  IInv'
<1>1. "s" \in Ends /\ "r" \in Ends
      BY DEF Ends
<1>2. PathType' /\ ShakeOK' /\ proc'["r"] = Off /\ proc'["s"] = proc["s"]
      BY <1>1, EndedPath DEF IInv
<1>3. DiskType'
      BY DEF IInv, TypeInv, DiskType
<1>4. PaperOK'
      BY <1>2 DEF IInv, PaperOK
<1>5. CredlessKept
      BY <1>2, CredlessSame
<1>6. CreditOK'
      BY <1>2, <1>5, CreditUnmet DEF IInv, Off, NoCtx, ResumedOK
<1> QED BY <1>2, <1>3, <1>4, <1>6 DEF IInv, TypeInv

LEMMA CrashStep ==
    ASSUME IInv, NEW e \in Ends, Crash(e) \/ PeerGone(e)
    PROVE  IInv'
<1>1. Ended(e) /\ UNCHANGED <<content, rec, journal, n, advertised, vanished>>
      BY DEF Crash, PeerGone, bounds, hist
<1>2. e = "s" \/ e = "r"
      BY DEF Ends
<1> QED BY <1>1, <1>2, EndedSender, EndedReceiver

LEMMA DiscardOnSuccessStep ==
    ASSUME IInv, DiscardOnSuccess
    PROVE  IInv'
<1>1. Ended("s") /\ UNCHANGED <<content, journal, n, advertised, vanished>> /\ (rec' = rec \/ rec' = NoRec)
      BY DEF DiscardOnSuccess, bounds, hist
<1> QED BY <1>1, EndedSender

\* Users and the disk.

LEMMA SamePath ==
    ASSUME IInv, UNCHANGED <<proc, chan, n>>
    PROVE  PathType' /\ ShakeOK'
<1>1. PathType'
      BY DEF IInv, TypeInv, PathType
<1>2. ShakeOK'
      BY DEF IInv, ShakeOK, InSession
<1> QED BY <1>1, <1>2

LEMMA EditStep == ASSUME IInv, Edit PROVE IInv'
<1>1. UNCHANGED <<rec, journal, proc, chan, n, advertised, vanished>> /\ content' \in Contents
      BY DEF Edit, bounds, hist
<1>2. PathType' /\ ShakeOK'
      BY <1>1, SamePath
<1>3. DiskType' /\ PaperOK' /\ CreditOK'
      BY <1>1 DEF IInv, TypeInv, DiskType, PaperOK, CreditOK
<1> QED BY <1>2, <1>3 DEF IInv, TypeInv

LEMMA RecordStep == ASSUME IInv, Damage \/ DiscardRecord PROVE IInv'
<1>1. /\ UNCHANGED <<content, journal, proc, chan, n, advertised, vanished>>
      /\ rec' = [rec EXCEPT !.sum = FALSE] \/ rec' = NoRec
      BY DEF Damage, DiscardRecord, bounds, hist
<1>2. rec \in Recs
      BY DEF IInv, TypeInv, DiskType
<1>3. rec' \in Recs /\ ((rec'.there = rec.there /\ rec'.tid = rec.tid /\ rec'.content = rec.content
                         /\ rec'.cred = rec.cred) \/ rec' = NoRec)
      BY <1>1, <1>2, OffType DEF Recs
<1>4. PathType' /\ ShakeOK'
      BY <1>1, SamePath
<1>5. DiskType'
      BY <1>1, <1>3 DEF IInv, TypeInv, DiskType
<1>6. n \in Nat
      BY DEF IInv, TypeInv, DiskType, Tids
<1>7. PaperOK'
      <2>1. RecordOK(rec', advertised, n)
            BY <1>3, <1>6 DEF IInv, PaperOK, Papers, RecordOK, NoRec
      <2>2. proc["s"].reused => ReusedOK(proc["s"], rec', advertised, n)
            BY <1>3 DEF IInv, PaperOK, Papers, ReusedOK, NoRec
      <2>3. ~proc["s"].reused => FreshOK(proc["s"], rec', advertised)
            BY <1>3 DEF IInv, PaperOK, Papers, FreshOK, NoRec
      <2> QED BY <1>1, <2>1, <2>2, <2>3 DEF IInv, PaperOK, Papers
<1>8. CredlessKept
      BY <1>1, <1>3 DEF CredlessKept, Credless, NoRec
<1>9. CreditOK'
      BY <1>1, <1>4, <1>8, CreditKept DEF IInv
<1> QED BY <1>4, <1>5, <1>7, <1>9 DEF IInv, TypeInv

\* A discard under a resume is remembered in vanished.
LEMMA DiscardJournalStep == ASSUME IInv, NEW t \in Tids, DiscardJournal(t) PROVE IInv'
<1>1. /\ UNCHANGED <<content, rec, proc, chan, n, advertised>>
      /\ journal' = [journal EXCEPT ![t] = NoJournal]
      /\ vanished' = IF proc["r"].ctx.cred # 0 /\ proc["r"].ctx.tid = t THEN vanished \cup {t} ELSE vanished
      BY DEF DiscardJournal, bounds
<1>2. PathType' /\ ShakeOK'
      BY <1>1, SamePath
<1>3. journal' \in [Tids -> Journals] /\ vanished \subseteq vanished' /\ vanished' \subseteq Tids
      BY <1>1, OffType DEF IInv, TypeInv, DiskType
<1>4. DiskType'
      BY <1>1, <1>3 DEF IInv, TypeInv, DiskType
<1>5. PaperOK'
      BY <1>1 DEF IInv, PaperOK
<1>6. proc["r"].ctx.tid \in Tids
      BY DEF IInv, TypeInv, PathType, Ends, Procs, Ctxs
<1>7. ResumedOK(proc["r"], journal', vanished')
      BY <1>1, <1>6 DEF IInv, CreditOK, ResumedOK, TypeInv, DiskType
<1>8. JournalsOK(journal', vanished', proc["s"], rec, n)
      BY <1>1, <1>3 DEF IInv, CreditOK, JournalsOK, TypeInv, DiskType, NoJournal
<1>9. PreparedOK(proc["s"], proc["r"], rec, n, vanished')
      BY <1>3 DEF IInv, CreditOK, PreparedOK
<1>10. CreditOK'
      BY <1>1, <1>7, <1>8, <1>9 DEF IInv, CreditOK
<1> QED BY <1>2, <1>4, <1>5, <1>10 DEF IInv, TypeInv

LEMMA PrepareStep == ASSUME IInv, PrepareFresh \/ PrepareReused PROVE IInv'
<1>1. "s" \in Ends /\ "r" \in Ends
      BY DEF Ends
<1>2. rec \in Recs /\ rec.content \in Values /\ rec.cred \in Tids /\ rec.tid \in Tids
      BY DEF IInv, TypeInv, DiskType, Recs
<1>3. PICK c : c = ResumeCtx(rec.tid, rec)
      OBVIOUS
<1>4. c \in Ctxs /\ c.cred = rec.cred /\ (rec.cred # 0 => c.tid = rec.tid)
      BY <1>2, <1>3, CtxType
<1>5. PICK a : a = [Off EXCEPT !.phase = "dialing"]
      OBVIOUS
<1>6. PICK b : b = [Off EXCEPT !.phase = "dialing", !.ctx = c, !.rec = rec, !.tid = rec.tid, !.reused = TRUE]
      OBVIOUS
<1>7. a \in Procs /\ Unmet(a) /\ b \in Procs /\ Unmet(b)
      BY <1>4, <1>5, <1>6, Starters DEF IInv
<1>8. \/ ~rec.there /\ Starts("s", a)
      \/ Loads(rec) /\ MayReuse /\ Starts("s", b)
      BY <1>3, <1>5, <1>6 DEF PrepareFresh, PrepareReused
<1>9. PICK p \in {a, b} : Starts("s", p) /\ (p = b => Loads(rec) /\ MayReuse)
      <2>1. a # b
            BY <1>5, <1>6 DEF Off
      <2> QED BY <1>8, <2>1
<1>10. PathType' /\ ShakeOK' /\ proc'["s"] = p /\ proc'["r"] = proc["r"] /\ chan' = chan
      BY <1>1, <1>7, <1>9, StartsPath DEF IInv
<1>11. UNCHANGED <<content, rec, journal, n, advertised, vanished>>
      BY <1>9 DEF Starts, bounds, hist
<1>12. DiskType'
      BY <1>11 DEF IInv, TypeInv, DiskType
<1>13. p = a \/ p = b
      OBVIOUS
<1>14. PaperOK' /\ CredlessKept
      <2>1. CASE p = a
            <3>1. p.reused = FALSE /\ p.n = 0 /\ p.phase = "dialing" /\ p.ctx = NoCtx
                  BY <1>5, <2>1 DEF Off
            <3>2. Papers(p, rec, advertised, n)
                  BY <3>1 DEF IInv, PaperOK, Papers, AuthedOK, FreshOK, NoCtx
            <3>3. CredlessKept
                  BY <1>10, <1>11, <3>1 DEF CredlessKept, Credless
            <3> QED BY <1>10, <1>11, <3>2, <3>3 DEF PaperOK
      <2>2. CASE p = b
            <3>1. p.reused = TRUE /\ p.n = 0 /\ p.rec = rec /\ p.tid = rec.tid /\ p.ctx = c
                  BY <1>6, <2>2 DEF Off
            <3>2. Host = "cli" => rec.cred # 0
                  BY <1>9, <2>2, ReattachAssumption DEF MayReuse
            <3>3. rec.there
                  BY <1>9, <2>2 DEF Loads
            <3>4. Papers(p, rec, advertised, n)
                  BY <1>4, <3>1, <3>2, <3>3 DEF IInv, PaperOK, Papers, AuthedOK, ReusedOK, RecordOK
            <3>5. CredlessKept
                  BY <1>10, <1>11, <3>1, <3>3 DEF CredlessKept, Credless
            <3> QED BY <1>10, <1>11, <3>4, <3>5 DEF PaperOK
      <2> QED BY <1>13, <2>1, <2>2
<1>15. CreditOK'
      BY <1>10, <1>11, <1>14, CreditKept DEF IInv
<1> QED BY <1>10, <1>12, <1>14, <1>15 DEF IInv, TypeInv

LEMMA JoinStep == ASSUME IInv, JoinFresh \/ \E t \in Tids : JoinResume(t) PROVE IInv'
<1>1. "s" \in Ends /\ "r" \in Ends
      BY DEF Ends
<1>2. \A t \in Tids : journal[t].content \in Values /\ journal[t].cred \in Tids
      BY DEF IInv, TypeInv, DiskType, Journals
<1>3. PICK p \in Procs : /\ Unmet(p) /\ Starts("r", p) /\ p.phase = "joining"
                         /\ p.ctx.cred # 0 => journal[p.ctx.tid].there
      <2>1. CASE JoinFresh
            <3>1. PICK a : a = [Off EXCEPT !.phase = "joining"]
                  OBVIOUS
            <3>2. a \in Procs /\ Unmet(a) /\ Starts("r", a)
                  BY <2>1, <3>1, Starters DEF JoinFresh, IInv
            <3>3. a.phase = "joining" /\ a.ctx.cred = 0
                  BY <3>1 DEF Off, NoCtx
            <3> QED BY <3>2, <3>3
      <2>2. ASSUME NEW t \in Tids, JoinResume(t)
            PROVE  \E p \in Procs : /\ Unmet(p) /\ Starts("r", p) /\ p.phase = "joining"
                                    /\ p.ctx.cred # 0 => journal[p.ctx.tid].there
            <3>1. PICK c : c = ResumeCtx(t, journal[t])
                  OBVIOUS
            <3>2. c \in Ctxs /\ c.cred = journal[t].cred /\ c.tid = t /\ journal[t].there
                  BY <1>2, <2>2, <3>1, CtxType DEF JoinResume
            <3>3. PICK a : a = [Off EXCEPT !.phase = "joining", !.ctx = c]
                  OBVIOUS
            <3>4. a \in Procs /\ Unmet(a) /\ Starts("r", a)
                  BY <2>2, <3>1, <3>2, <3>3, Starters DEF JoinResume, IInv
            <3>5. a.phase = "joining" /\ a.ctx = c
                  BY <3>3 DEF Off
            <3> QED BY <3>2, <3>4, <3>5
      <2> QED BY <2>1, <2>2
<1>4. PathType' /\ ShakeOK' /\ proc'["r"] = p /\ proc'["s"] = proc["s"]
      BY <1>1, <1>3, StartsPath DEF IInv
<1>5. UNCHANGED <<content, rec, journal, n, advertised, vanished>>
      BY <1>3 DEF Starts, bounds, hist
<1>6. DiskType' /\ PaperOK' /\ CredlessKept
      BY <1>4, <1>5, CredlessSame DEF IInv, TypeInv, DiskType, PaperOK
<1>7. CreditOK'
      <2>1. ResumedOK(p, journal, vanished) /\ p.n = 0 /\ p.phase # "prepared"
            BY <1>3 DEF ResumedOK, Unmet
      <2> QED BY <1>4, <1>5, <1>6, <2>1, CreditUnmet DEF IInv
<1> QED BY <1>4, <1>6, <1>7 DEF IInv, TypeInv

LEMMA EstablishStep == ASSUME IInv, Establish PROVE IInv'
<1> DEFINE s == proc["s"]
           q == proc'["s"]
<1>1. /\ PathOK'
      /\ n' = n + 1 /\ n' \in Tids /\ n' # 0 /\ s.n = 0 /\ proc["r"].n = 0
      /\ \/ q = Off
         \/ /\ q.n = n' /\ q.reused = s.reused /\ q.rec = s.rec
            /\ q.tid = (IF s.reused THEN s.tid ELSE n')
            /\ q.ctx = s.ctx
            /\ \/ q.phase = "preamble"
               \/ q.phase = "engine" /\ s.ctx.cred = 0
      /\ proc'["r"].n = n' /\ proc'["r"].ctx = proc["r"].ctx /\ proc'["r"].phase \in {"preamble", "settled"}
      /\ proc'["r"].pending = <<>> /\ \A m \in Elems(chan'["r"]) : m.t = "init"
      BY EstablishPath DEF IInv
<1>2. UNCHANGED <<content, rec, journal, advertised, vanished>>
      BY DEF Establish, hist
<1>3. DiskType'
      BY <1>1, <1>2 DEF IInv, TypeInv, DiskType
<1>4. /\ n \in Nat /\ rec.tid \in Nat /\ (\A a \in advertised : a.tid \in Nat) /\ s.rec.tid \in Nat
      /\ Tids \subseteq Nat
      <2>1. Tids \subseteq Nat
            BY ReattachAssumption DEF Tids
      <2>2. n \in Tids /\ rec.tid \in Tids /\ \A a \in advertised : a.tid \in Tids
            BY DEF IInv, TypeInv, DiskType, Recs, Adverts
      <2>3. s \in Procs
            BY DEF IInv, TypeInv, PathType, Ends
      <2>4. s.rec \in Recs
            BY <2>3 DEF Procs
      <2>5. s.rec.tid \in Tids
            BY <2>4 DEF Recs
      <2> QED BY <2>1, <2>2, <2>5
<1>5. /\ RecordOK(rec, advertised, n') /\ AdvertOK(advertised, n')
      /\ \A a \in advertised : a.tid < n'
      /\ rec.tid < n'
      BY <1>1, <1>4 DEF IInv, PaperOK, Papers, RecordOK, AdvertOK
<1>6. Papers(q, rec, advertised, n')
      <2>1. CASE q = Off
            BY <1>5, <2>1 DEF Papers, AuthedOK, FreshOK, Off, NoCtx
      <2>2. CASE q # Off
            <3>1. AuthedOK(q)
                  BY <1>1, <2>2 DEF AuthedOK
            <3>2. q.reused => ReusedOK(q, rec, advertised, n')
                  <4>1. s.rec.tid <= n => s.rec.tid <= n'
                        BY <1>1, <1>4
                  <4>2. s.reused => ReusedOK(s, rec, advertised, n)
                        BY DEF IInv, PaperOK, Papers
                  <4>3. q.rec = s.rec /\ q.ctx = s.ctx /\ q.reused = s.reused /\ (s.reused => q.tid = s.tid)
                        BY <1>1, <2>2
                  <4> QED BY <4>1, <4>2, <4>3 DEF ReusedOK
            <3>3. ~q.reused => FreshOK(q, rec, advertised)
                  BY <1>1, <1>4, <1>5, <2>2 DEF IInv, PaperOK, Papers, FreshOK
            <3> QED BY <1>5, <3>1, <3>2, <3>3 DEF Papers
      <2> QED BY <2>1, <2>2
<1>7. PaperOK'
      BY <1>2, <1>6 DEF PaperOK
<1>8. ASSUME NEW t \in Tids, Credless(t, s, rec, n) PROVE Credless(t, q, rec, n')
      <2>1. t <= n' /\ t # n'
            BY <1>1, <1>4, <1>8 DEF Credless
      <2> QED BY <1>1, <1>8, <2>1 DEF Credless, Off
<1>9. CreditOK'
      <2>1. HeldOK(chan["r"], proc["s"], proc["r"], rec, n)'
            BY <1>1, ElemsEmpty DEF HeldOK, Held, ManifestOK
      <2>2. ResumedOK(proc["r"], journal, vanished)'
            BY <1>1, <1>2 DEF IInv, CreditOK, ResumedOK
      <2>3. PreparedOK(proc["s"], proc["r"], rec, n, vanished)'
            BY <1>1 DEF PreparedOK
      <2>4. JournalsOK(journal, vanished, proc["s"], rec, n)'
            BY <1>2, <1>8 DEF IInv, CreditOK, JournalsOK
      <2> QED BY <2>1, <2>2, <2>3, <2>4 DEF CreditOK
<1> QED BY <1>1, <1>3, <1>7, <1>9 DEF IInv, TypeInv, PathOK

-----------------------------------------------------------------------------
\* Steps of the sender.

SameRun(p, q) ==
    /\ q.rec = p.rec /\ q.tid = p.tid /\ q.reused = p.reused /\ q.ctx = p.ctx /\ q.n = p.n
    /\ q.phase \in {"preamble", "engine"} => p.phase \in {"preamble", "engine"}
    /\ q.phase \in {"recorded", "attached"} => p.phase \in {"recorded", "attached"}

LEMMA SenderStep ==
    ASSUME IInv, PathOK', SameRun(proc["s"], proc'["s"]), AuthedOK(proc'["s"]),
           UNCHANGED <<content, rec, journal, n, advertised, vanished>>, proc'["r"] = proc["r"],
           \A m \in Elems(chan'["r"]) : m \in Elems(chan["r"]) \/ m.t # "manifest"
    PROVE  IInv'
<1> DEFINE p == proc["s"]
           q == proc'["s"]
<1>1. DiskType'
      BY DEF IInv, TypeInv, DiskType
<1>2. p.reused => ReusedOK(q, rec, advertised, n)
      BY DEF IInv, PaperOK, Papers, ReusedOK, SameRun
<1>3. ~p.reused => FreshOK(q, rec, advertised)
      BY DEF IInv, PaperOK, Papers, FreshOK, SameRun
<1>4. PaperOK'
      BY <1>2, <1>3 DEF IInv, PaperOK, Papers, SameRun
<1>5. CredlessKept
      BY DEF CredlessKept, Credless, SameRun
<1>6. CreditOK'
      BY <1>5, CreditKept DEF IInv, PathOK, Held
<1> QED BY <1>1, <1>4, <1>6 DEF IInv, TypeInv, PathOK

LEMMA PreambleSenderStep == ASSUME IInv, Preamble("s") PROVE IInv'
<1>1. UNCHANGED <<content, rec, journal, n, advertised, vanished>>
      BY DEF Preamble, bounds, hist
<1>2. CASE Ended("s")
      BY <1>1, <1>2, EndedSender
<1>3. CASE ~Ended("s")
      <2>1. /\ PathOK' /\ proc'["r"] = proc["r"]
            /\ \A x \in Elems(chan'["r"]) : x \in Elems(chan["r"]) \/ x.t = "confirm"
            BY <1>1, <1>3, PreambleSender DEF IInv
      <2>2. "s" \in Ends
            BY DEF Ends
      <2>3. PICK m : Handled(proc["s"], m, proc'["s"]) /\ proc["s"].phase = "preamble"
            BY <1>3, <2>2, PreambleStep DEF IInv
      <2>4. SameRun(proc["s"], proc'["s"]) /\ AuthedOK(proc'["s"])
            BY <2>3 DEF SameRun, Handled, AuthedOK
      <2> QED BY <1>1, <2>1, <2>4, SenderStep
<1> QED BY <1>2, <1>3

\* A step of an end outside the authentication: what the path needs of it.
LEMMA PlainPath ==
    ASSUME IInv, n' = n, NEW e \in Ends, NEW q \in Procs, proc' = [proc EXCEPT ![e] = q], Kept(proc[e], q),
           DOMAIN chan' = Ends, chan' = [d \in Ends |-> chan'[d]],
           chan'["s"] \in Seq(ToS), chan'["r"] \in Seq(ToR),
           \A m \in Elems(chan'["s"]) : m \in Elems(chan["s"]) \/ m.t \notin AuthTypes,
           \A m \in Elems(chan'["r"]) : m \in Elems(chan["r"]) \/ m.t \notin AuthTypes
    PROVE  PathOK' /\ proc'[e] = q /\ \A d \in Ends : d # e => proc'[d] = proc[d]
<1>1. proc' \in [Ends -> Procs] /\ proc'[e] = q /\ \A d \in Ends : d # e => proc'[d] = proc[d]
      BY SetProc DEF IInv, TypeInv
<1>2. PathType'
      BY <1>1 DEF PathType
<1>3. \A d \in Ends : Kept(proc[d], proc[d])
      BY KeptSame DEF IInv, ShakeOK, Ends
<1>4. Kept(proc["s"], proc'["s"]) /\ Kept(proc["r"], proc'["r"])
      BY <1>1, <1>3 DEF Ends
<1>5. ShakeOK'
      BY <1>4, ShakeKept DEF IInv
<1> QED BY <1>1, <1>2, <1>5 DEF PathOK

\* The same, with the path as it was.
LEMMA QuietPath ==
    ASSUME IInv, n' = n, NEW e \in Ends, NEW q \in Procs, proc' = [proc EXCEPT ![e] = q], Kept(proc[e], q),
           chan' = chan
    PROVE  PathOK' /\ proc'[e] = q /\ \A d \in Ends : d # e => proc'[d] = proc[d]
<1>1. /\ DOMAIN chan' = Ends /\ chan' = [d \in Ends |-> chan'[d]]
      /\ chan'["s"] \in Seq(ToS) /\ chan'["r"] \in Seq(ToR)
      BY DEF IInv, TypeInv, PathType
<1> QED BY <1>1, PlainPath

\* One end of the path changes.
LEMMA ChanS ==
    ASSUME IInv, NEW w \in Seq(ToS), chan' = [chan EXCEPT !["s"] = w]
    PROVE  /\ DOMAIN chan' = Ends /\ chan' = [d \in Ends |-> chan'[d]]
           /\ chan'["s"] = w /\ chan'["r"] = chan["r"] /\ chan'["s"] \in Seq(ToS) /\ chan'["r"] \in Seq(ToR)
<1>1. "s" \in Ends /\ "r" \in Ends
      BY DEF Ends
<1> QED BY <1>1, SetChan DEF IInv, TypeInv, PathType

LEMMA ChanR ==
    ASSUME IInv, NEW w \in Seq(ToR), chan' = [chan EXCEPT !["r"] = w]
    PROVE  /\ DOMAIN chan' = Ends /\ chan' = [d \in Ends |-> chan'[d]]
           /\ chan'["r"] = w /\ chan'["s"] = chan["s"] /\ chan'["s"] \in Seq(ToS) /\ chan'["r"] \in Seq(ToR)
<1>1. "s" \in Ends /\ "r" \in Ends
      BY DEF Ends
<1> QED BY <1>1, SetChan DEF IInv, TypeInv, PathType

LEMMA ProcsTyped ==
    ASSUME IInv
    PROVE  /\ proc["s"] \in Procs /\ proc["r"] \in Procs /\ "s" \in Ends /\ "r" \in Ends
           /\ chan["s"] \in Seq(ToS) /\ chan["r"] \in Seq(ToR)
           /\ InSession(proc["s"]) /\ InSession(proc["r"])
BY DEF IInv, TypeInv, PathType, Ends, ShakeOK

\* A process leaves the preamble with the resumed epoch.
LEMMA AuthenticatedStep == ASSUME IInv, NEW e \in Ends, Authenticated(e) PROVE IInv'
<1> DEFINE p == proc[e]
<1>1. p \in Procs /\ InSession(p) /\ (e = "s" \/ e = "r")
      BY ProcsTyped DEF Ends
<1>2. /\ p.phase = "preamble" /\ p.st = "done"
      /\ UNCHANGED <<content, rec, journal, chan, n, advertised, vanished>>
      BY DEF Authenticated, bounds, hist
<1>3. PICK q : q = [p EXCEPT !.phase = IF e = "s" THEN "engine" ELSE "settled", !.ep = p.n, !.out = 0, !.exp = 0]
      OBVIOUS
<1>4. /\ q \in Procs /\ q.phase = (IF e = "s" THEN "engine" ELSE "settled") /\ q.ep = p.n /\ q.st = p.st
      /\ q.n = p.n /\ q.accepted = p.accepted /\ q.ctx = p.ctx /\ q.rec = p.rec /\ q.tid = p.tid
      /\ q.reused = p.reused /\ q.pending = p.pending
      BY <1>1, <1>3 DEF Procs, Phases
<1>5. proc' = [proc EXCEPT ![e] = q]
      BY <1>1, <1>3 DEF Authenticated, IInv, TypeInv, PathType
<1>6. Kept(p, q)
      BY <1>1, <1>2, <1>4 DEF Kept, InSession
<1>7. PathOK' /\ proc'[e] = q /\ \A d \in Ends : d # e => proc'[d] = proc[d]
      BY <1>2, <1>4, <1>5, <1>6, QuietPath
<1>8. CASE e = "s"
      <2>1. SameRun(p, q) /\ AuthedOK(q) /\ proc'["r"] = proc["r"]
            BY <1>2, <1>4, <1>7, <1>8 DEF SameRun, AuthedOK, Ends
      <2> QED BY <1>2, <1>7, <1>8, <2>1, SenderStep
<1>9. CASE e = "r"
      <2>1. proc'["s"] = proc["s"] /\ proc'["r"] = q
            BY <1>7, <1>9 DEF Ends
      <2>2. DiskType' /\ PaperOK' /\ CredlessKept
            BY <1>2, <2>1, CredlessSame DEF IInv, TypeInv, DiskType, PaperOK
      <2>3. CreditOK'
            BY <1>2, <1>4, <1>7, <1>9, <2>1, <2>2, CreditKept DEF IInv, PathOK, Held
      <2> QED BY <1>7, <2>2, <2>3 DEF IInv, TypeInv, PathOK
<1> QED BY <1>1, <1>8, <1>9

\* The id of a new transfer gets its record.
LEMMA CreateHookStep == ASSUME IInv, CreateHook PROVE IInv'
<1> DEFINE p == proc["s"]
<1>1. p \in Procs /\ InSession(p) /\ "s" \in Ends /\ "r" \in Ends
      BY ProcsTyped
<1>2. /\ p.phase = "engine" /\ ~p.reused
      /\ UNCHANGED <<content, journal, chan, n, advertised, vanished>>
      /\ rec' = Save(p.tid, content, 0)
      BY DEF CreateHook, bounds, hist
<1>3. PICK rc : rc = Save(p.tid, content, 0)
      OBVIOUS
<1>4. rc \in Recs /\ rc.there /\ rc.tid = p.tid /\ rc.content = content /\ rc.cred = 0
      <2>1. content \in Values /\ 0 \in Tids /\ p.tid \in Tids
            BY <1>1, ReattachAssumption DEF IInv, TypeInv, DiskType, Values, Procs, Tids
      <2> QED BY <1>3, <2>1 DEF Save, Recs
<1>5. PICK q : q = [p EXCEPT !.phase = "recorded", !.rec = rc]
      OBVIOUS
<1>6. /\ q \in Procs /\ q.phase = "recorded" /\ q.rec = rc /\ q.ep = p.ep /\ q.st = p.st
      /\ q.n = p.n /\ q.accepted = p.accepted /\ q.ctx = p.ctx /\ q.tid = p.tid
      /\ q.reused = p.reused /\ q.pending = p.pending
      BY <1>1, <1>4, <1>5 DEF Procs, Phases
<1>7. proc' = [proc EXCEPT !["s"] = q]
      BY <1>1, <1>2, <1>3, <1>5 DEF CreateHook, IInv, TypeInv, PathType
<1>8. Kept(p, q)
      BY <1>1, <1>2, <1>6 DEF Kept, InSession
<1>9. PathOK' /\ proc'["s"] = q /\ proc'["r"] = proc["r"]
      BY <1>1, <1>2, <1>6, <1>7, <1>8, QuietPath
<1>10. DiskType'
      BY <1>2, <1>3, <1>4 DEF IInv, TypeInv, DiskType
<1>11. p.tid = n /\ n # 0 /\ p.n = n /\ n \in Nat
      BY <1>1, <1>2 DEF InSession, IInv, PaperOK, Papers, FreshOK, TypeInv, DiskType, Tids
<1>12. FreshOK(p, rec, advertised)
      BY <1>2 DEF IInv, PaperOK, Papers
<1>13. Told(advertised, p.tid, content)
      BY <1>2, <1>12 DEF FreshOK, Told
<1>14. RecordOK(rc, advertised, n)
      BY <1>4, <1>11, <1>13 DEF RecordOK
<1>15. FreshOK(q, rc, advertised) /\ AuthedOK(q)
      BY <1>4, <1>6, <1>12, <1>13 DEF FreshOK, AuthedOK
<1>16. PaperOK'
      BY <1>2, <1>3, <1>6, <1>9, <1>14, <1>15 DEF IInv, PaperOK, Papers
<1>17. CredlessKept
      BY <1>2, <1>3, <1>4, <1>6, <1>9, <1>11 DEF CredlessKept, Credless
<1>18. CreditOK'
      BY <1>2, <1>9, <1>17, CreditKept DEF IInv, PathOK
<1> QED BY <1>9, <1>10, <1>16, <1>18 DEF IInv, TypeInv, PathOK

\* A reused record is written back as it was captured.
LEMMA VerifyHookStep == ASSUME IInv, VerifyHook PROVE IInv'
<1> DEFINE p == proc["s"]
<1>1. p \in Procs /\ InSession(p) /\ "s" \in Ends /\ "r" \in Ends
      BY ProcsTyped
<1>2. /\ p.phase = "engine" /\ p.reused
      /\ UNCHANGED <<content, journal, n, advertised, vanished>>
      BY DEF VerifyHook, bounds, hist
<1>3. CASE ~SameFingerprint(p.rec, content)
      <2>1. Ended("s") /\ rec' = rec
            BY <1>3 DEF VerifyHook
      <2> QED BY <1>2, <2>1, EndedSender
<1>4. CASE SameFingerprint(p.rec, content)
      <2>1. rec' = p.rec /\ chan' = chan /\ p.rec.content = content
            BY <1>4 DEF VerifyHook, SameFingerprint
      <2>2. PICK q : q = [p EXCEPT !.phase = "recorded"]
            OBVIOUS
      <2>3. /\ q \in Procs /\ q.phase = "recorded" /\ q.rec = p.rec /\ q.ep = p.ep /\ q.st = p.st
            /\ q.n = p.n /\ q.accepted = p.accepted /\ q.ctx = p.ctx /\ q.tid = p.tid
            /\ q.reused = p.reused /\ q.pending = p.pending
            BY <1>1, <2>2 DEF Procs, Phases
      <2>4. p.rec \in Recs
            BY <1>1 DEF Procs
      <2>5. [p.rec EXCEPT !.content = content] = p.rec
            BY <2>1, <2>4 DEF Recs
      <2>6. q = [p EXCEPT !.phase = "recorded", !.rec.content = content]
            BY <1>1, <2>2, <2>5 DEF Procs
      <2>7. proc' = [proc EXCEPT !["s"] = q]
            BY <1>1, <1>4, <2>6 DEF VerifyHook, IInv, TypeInv, PathType
      <2>8. Kept(p, q)
            BY <1>1, <1>2, <2>3 DEF Kept, InSession
      <2>9. PathOK' /\ proc'["s"] = q /\ proc'["r"] = proc["r"]
            BY <1>1, <1>2, <2>1, <2>3, <2>7, <2>8, QuietPath
      <2>10. DiskType'
            BY <1>2, <2>1, <2>4 DEF IInv, TypeInv, DiskType
      <2>11. ReusedOK(p, rec, advertised, n) /\ AuthedOK(p)
            BY <1>2 DEF IInv, PaperOK, Papers
      <2>12. RecordOK(p.rec, advertised, n)
            BY <2>11 DEF RecordOK, ReusedOK
      <2>13. ReusedOK(q, p.rec, advertised, n)
            BY <2>3, <2>11 DEF ReusedOK
      <2>14. AuthedOK(q)
            BY <1>2, <2>3, <2>11 DEF AuthedOK
      <2>15. PaperOK'
            BY <1>2, <2>1, <2>3, <2>9, <2>12, <2>13, <2>14 DEF IInv, PaperOK, Papers
      <2>16. CredlessKept
            BY <1>2, <2>1, <2>3, <2>9 DEF CredlessKept, Credless
      <2>17. CreditOK'
            BY <1>2, <2>1, <2>9, <2>16, CreditKept DEF IInv, PathOK
      <2> QED BY <2>9, <2>10, <2>15, <2>17 DEF IInv, TypeInv, PathOK
<1> QED BY <1>3, <1>4

\* Only the session that minted the id attaches a credential.
LEMMA AttachResumeSecretStep == ASSUME IInv, AttachResumeSecret PROVE IInv'
<1> DEFINE p == proc["s"]
           Fits == Loads(rec) /\ rec.tid = p.tid /\ SameFingerprint(rec, p.rec.content)
<1>1. p \in Procs /\ InSession(p) /\ "s" \in Ends /\ "r" \in Ends
      BY ProcsTyped
<1>2. /\ p.phase = "recorded"
      /\ UNCHANGED <<content, journal, n, advertised, vanished>>
      BY DEF AttachResumeSecret, bounds, hist
<1>3. CASE ~Fits
      <2>1. Ended("s") /\ rec' = rec
            BY <1>3 DEF AttachResumeSecret
      <2> QED BY <1>2, <2>1, EndedSender
<1>4. CASE Fits
      <2>1. rec' = Attached /\ chan' = chan /\ rec.there /\ rec.tid = p.tid /\ rec.content = p.rec.content
            BY <1>4 DEF AttachResumeSecret, SameFingerprint, Loads
      <2>2. PICK q : q = [p EXCEPT !.phase = "attached"]
            OBVIOUS
      <2>3. /\ q \in Procs /\ q.phase = "attached" /\ q.rec = p.rec /\ q.ep = p.ep /\ q.st = p.st
            /\ q.n = p.n /\ q.accepted = p.accepted /\ q.ctx = p.ctx /\ q.tid = p.tid
            /\ q.reused = p.reused /\ q.pending = p.pending
            BY <1>1, <2>2 DEF Procs, Phases
      <2>4. proc' = [proc EXCEPT !["s"] = q]
            BY <1>1, <1>4, <2>2 DEF AttachResumeSecret, IInv, TypeInv, PathType
      <2>5. Kept(p, q)
            BY <1>1, <1>2, <2>3 DEF Kept, InSession
      <2>6. PathOK' /\ proc'["s"] = q /\ proc'["r"] = proc["r"]
            BY <1>1, <1>2, <2>1, <2>3, <2>4, <2>5, QuietPath
      <2>7. rec \in Recs /\ p.n \in Tids
            BY <1>1 DEF IInv, TypeInv, DiskType, Procs
      <2>8. p.n # 0 /\ (~p.reused => p.tid = p.n)
            BY <1>1, <1>2 DEF InSession, IInv, PaperOK, Papers, FreshOK
      <2>9. /\ rec' \in Recs /\ rec'.there = rec.there /\ rec'.tid = rec.tid /\ rec'.content = rec.content
            /\ rec'.cred = rec.cred \/ (~p.reused /\ rec'.cred = p.n)
            BY <2>1, <2>7 DEF Attached, Recs
      <2>10. DiskType'
            BY <1>2, <2>9 DEF IInv, TypeInv, DiskType
      <2>11. RecordOK(rec', advertised, n)
            BY <2>1, <2>8, <2>9 DEF IInv, PaperOK, Papers, RecordOK
      <2>12. AuthedOK(q)
            BY <1>2, <2>3 DEF AuthedOK, IInv, PaperOK, Papers
      <2>13. p.reused => ReusedOK(q, rec', advertised, n)
            BY <2>3, <2>9 DEF IInv, PaperOK, Papers, ReusedOK
      <2>14. ~p.reused => FreshOK(q, rec', advertised)
            BY <1>2, <2>3, <2>9 DEF IInv, PaperOK, Papers, FreshOK
      <2>15. PaperOK'
            BY <1>2, <2>3, <2>6, <2>11, <2>12, <2>13, <2>14 DEF IInv, PaperOK, Papers
      <2>16. CredlessKept
            BY <1>2, <2>1, <2>3, <2>6, <2>8, <2>9 DEF CredlessKept, Credless
      <2>17. CreditOK'
            BY <1>2, <2>1, <2>6, <2>16, CreditKept DEF IInv, PathOK
      <2> QED BY <2>6, <2>10, <2>15, <2>17 DEF IInv, TypeInv, PathOK
<1> QED BY <1>3, <1>4

\* The manifest goes out: the id is new, authenticated, or without a credential.
LEMMA SendManifestStep == ASSUME IInv, SendManifest PROVE IInv'
<1> DEFINE p == proc["s"]
           r == proc["r"]
<1>1. /\ p \in Procs /\ InSession(p) /\ InSession(r) /\ r \in Procs /\ "s" \in Ends /\ "r" \in Ends
      /\ chan["r"] \in Seq(ToR)
      BY ProcsTyped
<1>2. p.phase = "attached" /\ UNCHANGED <<content, rec, journal, n, vanished>>
      BY DEF SendManifest, bounds
<1>3. PICK f : f = [Frame(p, "manifest") EXCEPT !.ctx = ManifestCtx(p)]
      OBVIOUS
<1>4. p.rec.content \in Values /\ p.tid \in Tids /\ 0 \in Tids /\ n \in Nat /\ p.rec.tid \in Nat
      <2>1. p.rec \in Recs
            BY <1>1 DEF Procs
      <2>2. p.rec.content \in Values /\ p.tid \in Tids /\ n \in Tids /\ p.rec.tid \in Tids
            BY <1>1, <2>1 DEF Procs, Recs, IInv, TypeInv, DiskType
      <2>3. Tids \subseteq Nat /\ 0 \in Tids
            BY ReattachAssumption DEF Tids
      <2> QED BY <2>2, <2>3
<1>5. f \in ToR /\ f.t = "manifest" /\ f.ctx.tid = p.tid
      <2>1. PICK c : c = ManifestCtx(p)
            OBVIOUS
      <2>2. c \in Ctxs /\ c.tid = p.tid
            BY <1>4, <2>1 DEF ManifestCtx, Ctxs
      <2>3. PICK g : g = Frame(p, "manifest")
            OBVIOUS
      <2>4. g \in ToR /\ g.t = "manifest"
            BY <1>1, <2>3, FrameType
      <2> QED BY <1>3, <2>1, <2>2, <2>3, <2>4 DEF ToR
<1>6. PICK q : q = [p EXCEPT !.phase = "sent", !.out = @ + 1]
      OBVIOUS
<1>6a. p.out + 1 \in Nat
      BY <1>1 DEF Procs
<1>7. /\ q \in Procs /\ q.phase = "sent" /\ q.rec = p.rec /\ q.ep = p.ep /\ q.st = p.st
      /\ q.n = p.n /\ q.accepted = p.accepted /\ q.ctx = p.ctx /\ q.tid = p.tid
      /\ q.reused = p.reused /\ q.pending = p.pending
      BY <1>1, <1>6, <1>6a DEF Procs, Phases
<1>8. proc' = [proc EXCEPT !["s"] = q]
      BY <1>6 DEF SendManifest
<1>9. PICK w : w = Append(chan["r"], f)
      OBVIOUS
<1>10. w \in Seq(ToR) /\ Elems(w) \subseteq Elems(chan["r"]) \cup {f}
      BY <1>1, <1>5, <1>9, ElemsAppend
<1>11. chan' = [chan EXCEPT !["r"] = w]
      BY <1>1, <1>3, <1>9 DEF SendManifest, IInv, TypeInv, PathType
<1>12. /\ DOMAIN chan' = Ends /\ chan' = [d \in Ends |-> chan'[d]]
       /\ chan'["r"] = w /\ chan'["s"] = chan["s"] /\ chan'["s"] \in Seq(ToS) /\ chan'["r"] \in Seq(ToR)
      BY <1>10, <1>11, ChanR
<1>13. Kept(p, q)
      BY <1>1, <1>2, <1>7 DEF Kept, InSession
<1>14. PathOK' /\ proc'["s"] = q /\ proc'["r"] = r
      BY <1>1, <1>2, <1>5, <1>7, <1>8, <1>10, <1>12, <1>13, PlainPath DEF AuthTypes
<1>15. PICK a : a = [tid |-> p.tid, content |-> p.rec.content, fresh |-> p.tid = p.n, auth |-> p.ep # 0]
      OBVIOUS
<1>16. a \in Adverts /\ advertised' = advertised \cup {a} /\ a.tid = p.tid /\ a.content = p.rec.content
      BY <1>4, <1>15 DEF Adverts, SendManifest
<1>17. DiskType'
      BY <1>2, <1>16 DEF IInv, TypeInv, DiskType
<1>18. /\ RecordOK(rec, advertised, n) /\ AdvertOK(advertised, n) /\ AuthedOK(p)
       /\ p.reused => ReusedOK(p, rec, advertised, n)
       /\ ~p.reused => FreshOK(p, rec, advertised)
      BY DEF IInv, PaperOK, Papers
<1>19. p.n = n /\ n # 0
      BY <1>1, <1>2 DEF InSession
<1>20. /\ Told(advertised, p.tid, p.rec.content) /\ p.tid <= n
       /\ (rec.there /\ rec.tid = p.tid) => rec.content = p.rec.content
       /\ Host = "cli" => a.fresh \/ a.auth
      <2>1. CASE p.reused
            <3>1. Host = "cli" => p.ep # 0
                  BY <1>2, <1>18, <1>19, <2>1 DEF ReusedOK, AuthedOK
            <3> QED BY <1>15, <1>18, <2>1, <3>1 DEF ReusedOK
      <2>2. CASE ~p.reused
            <3>1. p.tid = p.n
                  BY <1>18, <1>19, <2>2 DEF FreshOK
            <3>2. a.fresh = (p.tid = p.n)
                  BY <1>15
            <3>3. a.fresh
                  BY <3>1, <3>2
            <3>4. p.tid <= n
                  BY <1>4, <1>19, <3>1
            <3> QED BY <1>2, <1>18, <2>2, <3>3, <3>4 DEF FreshOK
      <2> QED BY <2>1, <2>2
<1>21. RecordOK(rec, advertised', n)
      BY <1>16, <1>18, <1>20 DEF RecordOK, Told
<1>22. AdvertOK(advertised', n)
      <2>1. \A b \in advertised' : b.tid <= n
            BY <1>16, <1>18, <1>20 DEF AdvertOK
      <2>2. \A b \in advertised' : Told(advertised', b.tid, b.content)
            BY <1>16, <1>18, <1>20 DEF AdvertOK, Told
      <2>3. Host = "cli" => \A b \in advertised' : b.fresh \/ b.auth
            BY <1>16, <1>18, <1>20 DEF AdvertOK
      <2> QED BY <2>1, <2>2, <2>3 DEF AdvertOK
<1>23. p.reused => ReusedOK(q, rec, advertised', n)
      BY <1>7, <1>16, <1>18 DEF ReusedOK, Told
<1>24. ~p.reused => FreshOK(q, rec, advertised')
      BY <1>7, <1>18 DEF FreshOK
<1>25. PaperOK'
      BY <1>2, <1>7, <1>14, <1>18, <1>21, <1>22, <1>23, <1>24 DEF PaperOK, Papers, AuthedOK
<1>26. \A t \in Tids : Credless(t, p, rec, n) <=> Credless(t, q, rec, n)
      BY <1>7 DEF Credless
<1>27. r.n # 0 => ManifestOK(f, q, r, rec, n)
      <2> SUFFICES ASSUME r.n # 0 PROVE p.tid = r.n \/ (r.ctx.cred # 0 /\ p.tid = r.ctx.tid)
                                        \/ Credless(p.tid, p, rec, n)
          BY <1>4, <1>5, <1>26 DEF ManifestOK
      <2>1. r.n = n
            BY <1>1 DEF InSession
      <2>2. CASE ~p.reused
            BY <1>18, <1>19, <2>1, <2>2 DEF FreshOK
      <2>3. CASE p.reused /\ p.ctx.cred # 0
            <3>1. p.st = "done" /\ p.ctx.tid = p.tid
                  BY <1>2, <1>18, <1>19, <2>3 DEF AuthedOK, ReusedOK
            <3>2. r.ctx = p.ctx
                  BY <1>19, <2>1, <3>1 DEF IInv, ShakeOK, Talk, Met, Agree
            <3> QED BY <2>3, <3>1, <3>2
      <2>4. CASE p.reused /\ p.ctx.cred = 0
            BY <1>18, <2>4 DEF Credless, ReusedOK
      <2> QED BY <2>2, <2>3, <2>4
<1>28. HeldOK(w, q, r, rec, n)
      <2> SUFFICES ASSUME r.n # 0, NEW m \in Held(w, r) PROVE ManifestOK(m, q, r, rec, n)
          BY DEF HeldOK
      <2>1. m = f \/ m \in Held(chan["r"], r)
            BY <1>10 DEF Held
      <2>2. CASE m \in Held(chan["r"], r)
            <3>1. m \in ToR
                  BY <1>1, <2>2 DEF Held, Elems, Procs
            <3>2. m.ctx.tid \in Tids
                  BY <3>1 DEF ToR, Ctxs
            <3>3. ManifestOK(m, p, r, rec, n)
                  BY <2>2 DEF IInv, CreditOK, HeldOK
            <3> QED BY <1>26, <3>2, <3>3 DEF ManifestOK
      <2> QED BY <1>27, <2>1, <2>2
<1>29. PreparedOK(q, r, rec, n, vanished) /\ JournalsOK(journal, vanished, q, rec, n)
      <2>1. r.tid \in Tids
            BY <1>1 DEF Procs
      <2> QED BY <1>26, <2>1 DEF IInv, CreditOK, PreparedOK, JournalsOK
<1>30. CreditOK'
      BY <1>2, <1>12, <1>14, <1>28, <1>29 DEF IInv, CreditOK
<1> QED BY <1>14, <1>17, <1>25, <1>30 DEF IInv, TypeInv, PathOK

LEMMA SendPauseStep == ASSUME IInv, SendPause PROVE IInv'
<1> DEFINE p == proc["s"]
<1>1. p \in Procs /\ InSession(p) /\ "s" \in Ends /\ "r" \in Ends /\ chan["r"] \in Seq(ToR)
      BY ProcsTyped
<1>2. p.phase = "sent" /\ UNCHANGED <<content, rec, journal, n, advertised, vanished>>
      BY DEF SendPause, bounds, hist
<1>3. PICK f : f = Frame(p, "pause")
      OBVIOUS
<1>4. f \in ToR /\ f.t = "pause"
      BY <1>1, <1>3, FrameType
<1>5. PICK q : q = [p EXCEPT !.out = @ + 1]
      OBVIOUS
<1>6. /\ q \in Procs /\ q.phase = p.phase /\ q.rec = p.rec /\ q.ep = p.ep /\ q.st = p.st
      /\ q.n = p.n /\ q.accepted = p.accepted /\ q.ctx = p.ctx /\ q.tid = p.tid
      /\ q.reused = p.reused /\ q.pending = p.pending
      BY <1>1, <1>5 DEF Procs
<1>7. proc' = [proc EXCEPT !["s"] = q]
      BY <1>1, <1>5 DEF SendPause, IInv, TypeInv, PathType
<1>8. PICK w : w = Append(chan["r"], f)
      OBVIOUS
<1>9. w \in Seq(ToR) /\ Elems(w) \subseteq Elems(chan["r"]) \cup {f}
      BY <1>1, <1>4, <1>8, ElemsAppend
<1>10. chan' = [chan EXCEPT !["r"] = w]
      BY <1>1, <1>3, <1>8 DEF SendPause, IInv, TypeInv, PathType
<1>11. /\ DOMAIN chan' = Ends /\ chan' = [d \in Ends |-> chan'[d]]
       /\ chan'["r"] = w /\ chan'["s"] = chan["s"] /\ chan'["s"] \in Seq(ToS) /\ chan'["r"] \in Seq(ToR)
      BY <1>9, <1>10, ChanR
<1>12. Kept(p, q)
      BY <1>1, <1>2, <1>6 DEF Kept, InSession
<1>13. PathOK' /\ proc'["s"] = q /\ proc'["r"] = proc["r"]
      BY <1>1, <1>2, <1>4, <1>6, <1>7, <1>9, <1>11, <1>12, PlainPath DEF AuthTypes
<1>14. SameRun(p, q) /\ AuthedOK(q)
      BY <1>2, <1>6 DEF SameRun, AuthedOK, IInv, PaperOK, Papers
<1> QED BY <1>2, <1>4, <1>9, <1>11, <1>13, <1>14, SenderStep

LEMMA SenderHandleStep == ASSUME IInv, SenderHandle PROVE IInv'
<1> DEFINE p == proc["s"]
           m == Head(chan["s"])
<1>1. p \in Procs /\ InSession(p) /\ "s" \in Ends /\ "r" \in Ends /\ chan["s"] \in Seq(ToS)
      BY ProcsTyped
<1>2. /\ p.phase \in {"engine", "recorded", "attached", "sent", "streaming"} /\ chan["s"] # <<>>
      /\ UNCHANGED <<content, rec, journal, n, advertised, vanished>>
      BY DEF SenderHandle, bounds, hist
<1>3. CASE Foreign(p, m) /\ ~Replay(p, m)
      <2>1. Ended("s")
            BY <1>3 DEF SenderHandle
      <2> QED BY <1>2, <2>1, EndedSender
<1>4. CASE ~(Foreign(p, m) /\ ~Replay(p, m))
      <2>1. m.ctr \in Nat
            <3>1. m \in ToS
                  BY <1>1, <1>2, ElemsHead
            <3> QED BY <3>1 DEF ToS
      <2>2. PICK c : c = Counted(p, m)
            OBVIOUS
      <2>3. /\ c \in Procs /\ c.phase = p.phase /\ c.rec = p.rec /\ c.ep = p.ep /\ c.st = p.st
            /\ c.n = p.n /\ c.accepted = p.accepted /\ c.ctx = p.ctx /\ c.tid = p.tid
            /\ c.reused = p.reused /\ c.pending = p.pending
            BY <1>1, <2>1, <2>2, CountedType DEF Procs
      <2>4. PICK q : q = IF Replay(p, m) THEN p
                         ELSE [c EXCEPT !.phase = IF m.t = "done" THEN "told" ELSE "streaming"]
            OBVIOUS
      <2>5. /\ q \in Procs /\ q.phase \in {p.phase, "told", "streaming"} /\ q.rec = p.rec /\ q.ep = p.ep
            /\ q.st = p.st /\ q.n = p.n /\ q.accepted = p.accepted /\ q.ctx = p.ctx /\ q.tid = p.tid
            /\ q.reused = p.reused /\ q.pending = p.pending
            BY <1>1, <2>3, <2>4 DEF Procs, Phases
      <2>6. proc' = [proc EXCEPT !["s"] = q]
            BY <1>4, <2>2, <2>4 DEF SenderHandle
      <2>7. PICK w : w = Tail(chan["s"])
            OBVIOUS
      <2>8. w \in Seq(ToS) /\ Elems(w) \subseteq Elems(chan["s"])
            BY <1>1, <1>2, <2>7, ElemsTail
      <2>9. chan' = [chan EXCEPT !["s"] = w]
            BY <1>1, <1>4, <2>7 DEF SenderHandle, IInv, TypeInv, PathType
      <2>10. /\ DOMAIN chan' = Ends /\ chan' = [d \in Ends |-> chan'[d]]
             /\ chan'["s"] = w /\ chan'["r"] = chan["r"] /\ chan'["s"] \in Seq(ToS) /\ chan'["r"] \in Seq(ToR)
            BY <2>8, <2>9, ChanS
      <2>11. Kept(p, q)
            BY <1>1, <1>2, <2>5 DEF Kept, InSession
      <2>12. PathOK' /\ proc'["s"] = q /\ proc'["r"] = proc["r"]
            BY <1>1, <1>2, <2>5, <2>6, <2>8, <2>10, <2>11, PlainPath
      <2>13. SameRun(p, q) /\ AuthedOK(q)
            BY <1>2, <2>5 DEF SameRun, AuthedOK, IInv, PaperOK, Papers
      <2> QED BY <1>2, <2>10, <2>12, <2>13, SenderStep
<1> QED BY <1>3, <1>4

-----------------------------------------------------------------------------
\* Steps of the receiver and of the path.

LEMMA PreambleReceiverStep == ASSUME IInv, Preamble("r") PROVE IInv'
<1>1. UNCHANGED <<content, rec, journal, n, advertised, vanished>>
      BY DEF Preamble, bounds, hist
<1>2. CASE Ended("r")
      BY <1>1, <1>2, EndedReceiver
<1>3. CASE ~Ended("r")
      <2>1. /\ PathOK' /\ proc'["s"] = proc["s"] /\ proc["r"].phase = "preamble"
            /\ proc'["r"].n = proc["r"].n /\ proc'["r"].ctx = proc["r"].ctx /\ proc'["r"].phase = proc["r"].phase
            /\ proc'["r"].pending = proc["r"].pending
            /\ Elems(chan'["r"]) \subseteq Elems(chan["r"])
            BY <1>1, <1>3, PreambleReceiver DEF IInv
      <2>2. DiskType' /\ PaperOK' /\ CredlessKept
            BY <1>1, <2>1, CredlessSame DEF IInv, TypeInv, DiskType, PaperOK
      <2>3. CreditOK'
            BY <1>1, <2>1, <2>2, CreditKept DEF IInv, PathOK, Held
      <2> QED BY <2>1, <2>2, <2>3 DEF IInv, TypeInv, PathOK
<1> QED BY <1>2, <1>3

\* The receiver's own fields that a step of the router or of the engine keeps.
SameReceiver(p, q) ==
    /\ q \in Procs /\ q.n = p.n /\ q.st = p.st /\ q.accepted = p.accepted /\ q.ctx = p.ctx /\ q.ep = p.ep

\* A step of the receiver that neither gets a manifest nor writes a journal.
LEMMA ReceiverStep ==
    ASSUME IInv, UNCHANGED <<content, rec, journal, n, advertised, vanished>>, proc'["s"] = proc["s"], PathOK',
           LET r == proc["r"]
               q == proc'["r"]
           IN  /\ q.n = r.n /\ q.ctx = r.ctx
               /\ (q.phase = "prepared" /\ ~q.reused) => (r.phase = "prepared" /\ ~r.reused /\ q.tid = r.tid),
           \A m \in Held(chan'["r"], proc'["r"]) : m \in Held(chan["r"], proc["r"]) \/ m.t # "manifest"
    PROVE  IInv'
<1>1. DiskType' /\ PaperOK' /\ CredlessKept
      BY CredlessSame DEF IInv, TypeInv, DiskType, PaperOK
<1>2. CreditOK'
      BY <1>1, CreditKept DEF IInv, PathOK
<1> QED BY <1>1, <1>2 DEF IInv, TypeInv, PathOK

LEMMA RouteQueuesStep == ASSUME IInv, RouteQueues PROVE IInv'
<1> DEFINE p == proc["r"]
           m == Head(chan["r"])
<1>1. p \in Procs /\ InSession(p) /\ "s" \in Ends /\ "r" \in Ends /\ chan["r"] \in Seq(ToR)
      BY ProcsTyped
<1>2. /\ p.phase \in {"settled", "preamble"} /\ chan["r"] # <<>>
      /\ UNCHANGED <<content, rec, journal, n, advertised, vanished>>
      BY DEF RouteQueues, bounds, hist
<1>3. m \in ToR /\ m \in Elems(chan["r"])
      BY <1>1, <1>2, ElemsHead
<1>4. PICK u : u = Append(p.pending, m)
      OBVIOUS
<1>5. u \in Seq(ToR) /\ Elems(u) \subseteq Elems(p.pending) \cup {m}
      <2>1. p.pending \in Seq(ToR)
            BY <1>1 DEF Procs
      <2> QED BY <1>3, <1>4, <2>1, ElemsAppend
<1>6. PICK q : q = [p EXCEPT !.pending = u]
      OBVIOUS
<1>7. SameReceiver(p, q) /\ q.phase = p.phase /\ q.pending = u
      BY <1>1, <1>5, <1>6 DEF SameReceiver, Procs
<1>8. proc' = [proc EXCEPT !["r"] = q]
      BY <1>1, <1>4, <1>6 DEF RouteQueues, IInv, TypeInv, PathType, Procs
<1>9. PICK w : w = Tail(chan["r"])
      OBVIOUS
<1>10. w \in Seq(ToR) /\ Elems(w) \subseteq Elems(chan["r"])
      BY <1>1, <1>2, <1>9, ElemsTail
<1>11. chan' = [chan EXCEPT !["r"] = w]
      BY <1>1, <1>9 DEF RouteQueues, IInv, TypeInv, PathType
<1>12. /\ DOMAIN chan' = Ends /\ chan' = [d \in Ends |-> chan'[d]]
       /\ chan'["r"] = w /\ chan'["s"] = chan["s"] /\ chan'["s"] \in Seq(ToS) /\ chan'["r"] \in Seq(ToR)
      BY <1>10, <1>11, ChanR
<1>13. Kept(p, q)
      BY <1>1, <1>2, <1>7 DEF Kept, InSession, SameReceiver
<1>14. PathOK' /\ proc'["r"] = q /\ proc'["s"] = proc["s"]
      BY <1>1, <1>2, <1>7, <1>8, <1>10, <1>12, <1>13, PlainPath DEF SameReceiver
<1>15. \A x \in Held(w, q) : x \in Held(chan["r"], p)
      BY <1>3, <1>5, <1>7, <1>10 DEF Held
<1> QED BY <1>2, <1>7, <1>12, <1>14, <1>15, ReceiverStep DEF SameReceiver

LEMMA InstallStep == ASSUME IInv, Install PROVE IInv'
<1> DEFINE p == proc["r"]
<1>1. p \in Procs /\ InSession(p) /\ "s" \in Ends /\ "r" \in Ends
      BY ProcsTyped
<1>2. p.phase = "settled" /\ UNCHANGED <<content, rec, journal, chan, n, advertised, vanished>>
      BY DEF Install, bounds, hist
<1>3. PICK q : q = [p EXCEPT !.phase = "engine"]
      OBVIOUS
<1>4. SameReceiver(p, q) /\ q.phase = "engine" /\ q.pending = p.pending
      BY <1>1, <1>3 DEF SameReceiver, Procs, Phases
<1>5. proc' = [proc EXCEPT !["r"] = q]
      BY <1>1, <1>3 DEF Install, IInv, TypeInv, PathType
<1>6. Kept(p, q)
      BY <1>1, <1>2, <1>4 DEF Kept, InSession, SameReceiver
<1>7. PathOK' /\ proc'["r"] = q /\ proc'["s"] = proc["s"]
      BY <1>1, <1>2, <1>4, <1>5, <1>6, QuietPath DEF SameReceiver
<1> QED BY <1>2, <1>4, <1>7, ReceiverStep DEF SameReceiver, Held

LEMMA PathFaultStep == ASSUME IInv, Move \/ \E e \in Ends : Duplicate(e) PROVE IInv'
<1>1. UNCHANGED <<content, rec, journal, proc, n, advertised, vanished>>
      BY DEF Move, Duplicate, hist
<1>2. /\ DOMAIN chan' = Ends /\ chan' = [d \in Ends |-> chan'[d]]
      /\ chan'["s"] \in Seq(ToS) /\ chan'["r"] \in Seq(ToR)
      /\ Elems(chan'["s"]) \subseteq Elems(chan["s"]) /\ Elems(chan'["r"]) \subseteq Elems(chan["r"])
      <2>1. CASE Move
            <3>1. chan' = [e \in Ends |-> <<>>]
                  BY <2>1 DEF Move
            <3>2. DOMAIN chan' = Ends /\ chan' = [d \in Ends |-> chan'[d]] /\ chan'["s"] = <<>> /\ chan'["r"] = <<>>
                  BY <3>1 DEF Ends
            <3>3. <<>> \in Seq(ToS) /\ <<>> \in Seq(ToR)
                  OBVIOUS
            <3> QED BY <3>2, <3>3, ElemsEmpty
      <2>2. ASSUME NEW S, NEW w \in Seq(S), w # <<>>
            PROVE  <<Head(w)>> \o w \in Seq(S) /\ Elems(<<Head(w)>> \o w) \subseteq Elems(w)
            <3>1. PICK h : h = Head(w)
                  OBVIOUS
            <3>2. h \in S /\ h \in Elems(w)
                  BY <2>2, <3>1, ElemsHead
            <3>3. <<h>> \in Seq(S) /\ Elems(<<h>>) = {h}
                  BY <3>2, ElemsOne
            <3>4. <<h>> \o w \in Seq(S) /\ Elems(<<h>> \o w) \subseteq Elems(<<h>>) \cup Elems(w)
                  BY <3>3, ElemsCat
            <3> QED BY <3>1, <3>2, <3>3, <3>4
      <2>3. CASE Duplicate("s")
            <3>1. PICK u : u = <<Head(chan["s"])>> \o chan["s"]
                  OBVIOUS
            <3>2. chan["s"] # <<>> /\ chan["s"] \in Seq(ToS)
                  BY <2>3, ProcsTyped DEF Duplicate
            <3>3. u \in Seq(ToS) /\ Elems(u) \subseteq Elems(chan["s"])
                  BY <2>2, <3>1, <3>2
            <3>4. chan' = [chan EXCEPT !["s"] = u]
                  BY <2>3, <3>1 DEF Duplicate, IInv, TypeInv, PathType, Ends
            <3> QED BY <3>3, <3>4, ChanS
      <2>4. CASE Duplicate("r")
            <3>1. PICK u : u = <<Head(chan["r"])>> \o chan["r"]
                  OBVIOUS
            <3>2. chan["r"] # <<>> /\ chan["r"] \in Seq(ToR)
                  BY <2>4, ProcsTyped DEF Duplicate
            <3>3. u \in Seq(ToR) /\ Elems(u) \subseteq Elems(chan["r"])
                  BY <2>2, <3>1, <3>2
            <3>4. chan' = [chan EXCEPT !["r"] = u]
                  BY <2>4, <3>1 DEF Duplicate, IInv, TypeInv, PathType, Ends
            <3> QED BY <3>3, <3>4, ChanR
      <2> QED BY <2>1, <2>3, <2>4 DEF Ends
<1>3. PathType'
      BY <1>1, <1>2 DEF IInv, TypeInv, PathType
<1>4. ShakeOK'
      <2>1. Kept(proc["s"], proc["s"]) /\ Kept(proc["r"], proc["r"])
            BY KeptSame DEF IInv, ShakeOK
      <2> QED BY <1>1, <1>2, <2>1, ShakeKept DEF IInv
<1> QED BY <1>1, <1>2, <1>3, <1>4, ReceiverStep DEF PathOK, Held

\* The receiver p has taken m from its path or its queue.
Taking(p, m) ==
    /\ p \in Procs /\ InSession(p) /\ m \in ToR /\ m \in Held(chan["r"], proc["r"])
    /\ SameReceiver(proc["r"], p) /\ p.phase = proc["r"].phase /\ p.phase \in {"engine", "receiving"}
    /\ Elems(p.pending) \subseteq Elems(proc["r"].pending)

TakenPath ==
    /\ DOMAIN chan' = Ends /\ chan' = [d \in Ends |-> chan'[d]]
    /\ chan'["s"] \in Seq(ToS) /\ chan'["r"] \in Seq(ToR)
    /\ chan'["s"] = chan["s"] /\ Elems(chan'["r"]) \subseteq Elems(chan["r"])

\* The engine refuses the frame, and the receiver is gone.
LEMMA TakingOff ==
    ASSUME IInv, TakenPath, proc' = [proc EXCEPT !["r"] = Off],
           UNCHANGED <<content, rec, journal, n, advertised, vanished>>
    PROVE  IInv'
<1>1. "r" \in Ends /\ "s" \in Ends
      BY DEF Ends
<1>2. proc' \in [Ends -> Procs] /\ proc'["r"] = Off /\ proc'["s"] = proc["s"]
      BY <1>1, SetProc, OffType DEF IInv, TypeInv
<1>3. PathType'
      BY <1>2 DEF PathType, TakenPath
<1>4. ShakeOK'
      <2>1. Kept(proc["s"], proc["s"])
            BY KeptSame DEF IInv, ShakeOK
      <2> QED BY <1>2, <2>1, OffUnmet, ShakeUnmet DEF IInv, Ends
<1>5. DiskType' /\ PaperOK' /\ CredlessKept
      BY <1>2, CredlessSame DEF IInv, TypeInv, DiskType, PaperOK
<1>6. CreditOK'
      BY <1>2, <1>5, CreditUnmet DEF IInv, Off, NoCtx, ResumedOK
<1> QED BY <1>3, <1>4, <1>5, <1>6 DEF IInv, TypeInv

\* The engine takes the frame and stays as it is, but for its counter.
LEMMA TakingSame ==
    ASSUME IInv, NEW p, NEW m, Taking(p, m), TakenPath, NEW q,
           q = p \/ q = Counted(p, m), proc' = [proc EXCEPT !["r"] = q],
           UNCHANGED <<content, rec, journal, n, advertised, vanished>>
    PROVE  IInv'
<1>1. "r" \in Ends /\ "s" \in Ends /\ InSession(proc["r"])
      BY ProcsTyped
<1>2. /\ q \in Procs /\ q.n = p.n /\ q.st = p.st /\ q.accepted = p.accepted /\ q.ctx = p.ctx
      /\ q.phase = p.phase /\ q.pending = p.pending
      <2>1. p \in Procs /\ m.ctr \in Nat
            BY DEF Taking, ToR
      <2> QED BY <2>1, CountedType DEF Procs
<1>3. Kept(proc["r"], q)
      BY <1>1, <1>2 DEF Kept, Taking, SameReceiver, InSession
<1>4. PathOK' /\ proc'["r"] = q /\ proc'["s"] = proc["s"]
      BY <1>1, <1>2, <1>3, PlainPath DEF TakenPath
<1>5. \A x \in Held(chan'["r"], q) : x \in Held(chan["r"], proc["r"])
      BY <1>2 DEF Held, Taking, TakenPath
<1> QED BY <1>2, <1>4, <1>5, ReceiverStep DEF Taking, SameReceiver

\* A manifest is taken: without a journal of its id, one is created.
LEMMA TakingManifest ==
    ASSUME IInv, NEW p, NEW m, Taking(p, m), TakenPath, m.t = "manifest", Prepared(p, m) # Off,
           proc' = [proc EXCEPT !["r"] = Prepared(p, m)],
           journal' = (IF journal[m.ctx.tid].there THEN journal
                       ELSE [journal EXCEPT ![m.ctx.tid] = [there |-> TRUE, content |-> m.ctx.content, cred |-> 0]]),
           UNCHANGED <<content, rec, n, advertised, vanished>>
    PROVE  IInv'
<1> DEFINE r == proc["r"]
           s == proc["s"]
<1>1. "r" \in Ends /\ "s" \in Ends /\ InSession(r) /\ r \in Procs
      BY ProcsTyped
<1>2. p \in Procs /\ m \in ToR
      BY DEF Taking
<1>3. m.ctr \in Nat /\ m.ctx \in Ctxs
      BY <1>2 DEF ToR
<1>4. PICK t, x : t = m.ctx.tid /\ x = m.ctx.content
      OBVIOUS
<1>5. t \in Tids /\ x \in Values /\ 0 \in Tids
      BY <1>3, <1>4, ReattachAssumption DEF Ctxs, Tids
<1>6. PICK c : c = Counted(p, m)
      OBVIOUS
<1>7. /\ c \in Procs /\ c.n = p.n /\ c.st = p.st /\ c.accepted = p.accepted /\ c.ctx = p.ctx /\ c.pending = p.pending
      BY <1>2, <1>3, <1>6, CountedType DEF Procs
<1>8. PICK rc : rc = [c.rec EXCEPT !.content = x]
      OBVIOUS
<1>9. rc \in Recs
      <2>1. c.rec \in Recs
            BY <1>7 DEF Procs
      <2> QED BY <1>5, <1>8, <2>1 DEF Recs
<1>10. PICK b \in BOOLEAN : b = journal[t].there
      <2>1. journal[t] \in Journals
            BY <1>5 DEF IInv, TypeInv, DiskType
      <2> QED BY <2>1 DEF Journals
<1>11. PICK q : q = [c EXCEPT !.phase = "prepared", !.tid = t, !.reused = b, !.rec = rc]
      OBVIOUS
<1>12. Prepared(p, m) = q
      BY <1>4, <1>6, <1>7, <1>8, <1>10, <1>11 DEF Prepared, Procs
<1>13. /\ q \in Procs /\ q.n = p.n /\ q.st = p.st /\ q.accepted = p.accepted /\ q.ctx = p.ctx
       /\ q.pending = p.pending /\ q.phase = "prepared" /\ q.tid = t /\ q.reused = b
      BY <1>5, <1>7, <1>9, <1>10, <1>11 DEF Procs, Phases
<1>14. /\ p.n = r.n /\ p.st = r.st /\ p.accepted = r.accepted /\ p.ctx = r.ctx /\ r.phase \in {"engine", "receiving"}
      BY DEF Taking, SameReceiver
<1>15. Kept(r, q)
      BY <1>1, <1>13, <1>14 DEF Kept, InSession
<1>16. PathOK' /\ proc'["r"] = q /\ proc'["s"] = s
      BY <1>1, <1>12, <1>13, <1>15, PlainPath DEF TakenPath
<1>17. /\ journal' \in [Tids -> Journals]
       /\ \A u \in Tids : (journal[u].there => journal'[u].there) /\ journal'[u].cred \in {0, journal[u].cred}
      <2>1. PICK j : j = [there |-> TRUE, content |-> x, cred |-> 0]
            OBVIOUS
      <2>2. j \in Journals /\ j.there /\ j.cred = 0
            BY <1>5, <2>1 DEF Journals
      <2>3. journal' = journal \/ journal' = [journal EXCEPT ![t] = j]
            BY <1>4, <2>1
      <2>4. journal \in [Tids -> Journals]
            BY DEF IInv, TypeInv, DiskType
      <2> QED BY <1>5, <2>2, <2>3, <2>4
<1>18. DiskType' /\ PaperOK'
      BY <1>16, <1>17 DEF IInv, TypeInv, DiskType, PaperOK
<1>19. r.n # 0
      BY <1>1, <1>14 DEF InSession
<1>20. HeldOK(chan'["r"], s, q, rec, n)
      <2>1. \A y \in Held(chan'["r"], q) : y \in Held(chan["r"], r)
            BY <1>13 DEF Held, Taking, TakenPath
      <2> QED BY <1>13, <1>14, <2>1 DEF IInv, CreditOK, HeldOK, ManifestOK
<1>21. r.ctx.tid \in Tids
      <2>1. r.ctx \in Ctxs
            BY <1>1 DEF Procs
      <2> QED BY <2>1 DEF Ctxs
<1>22. ResumedOK(q, journal', vanished)
      BY <1>13, <1>14, <1>17, <1>21 DEF IInv, CreditOK, ResumedOK
<1>23. ~b => t = r.n \/ t \in vanished \/ Credless(t, s, rec, n)
      <2>1. ManifestOK(m, s, r, rec, n)
            BY <1>19 DEF IInv, CreditOK, HeldOK, Taking
      <2> QED BY <1>4, <1>10, <2>1 DEF ManifestOK, IInv, CreditOK, ResumedOK
<1>24. PreparedOK(s, q, rec, n, vanished)
      BY <1>13, <1>14, <1>23 DEF PreparedOK
<1>25. JournalsOK(journal', vanished, s, rec, n)
      BY <1>17 DEF IInv, CreditOK, JournalsOK
<1>26. CreditOK'
      BY <1>16, <1>20, <1>22, <1>24, <1>25 DEF CreditOK
<1> QED BY <1>16, <1>18, <1>26 DEF IInv, TypeInv, PathOK

LEMMA ReceiverHandleStep ==
    ASSUME IInv, NEW p, NEW m, Taking(p, m), TakenPath, ReceiverHandle(p, m),
           UNCHANGED <<content, rec, n, advertised, vanished>>
    PROVE  IInv'
<1>1. CASE Replay(p, m)
      <2>1. proc' = [proc EXCEPT !["r"] = p] /\ journal' = journal
            BY <1>1 DEF ReceiverHandle
      <2> QED BY <2>1, TakingSame
<1>2. CASE ~Replay(p, m) /\ Foreign(p, m)
      <2>1. proc' = [proc EXCEPT !["r"] = Off] /\ journal' = journal
            BY <1>2 DEF ReceiverHandle
      <2> QED BY <2>1, TakingOff
<1>3. CASE ~Replay(p, m) /\ ~Foreign(p, m) /\ m.t # "manifest"
      <2>1. proc' = [proc EXCEPT !["r"] = Counted(p, m)] /\ journal' = journal
            BY <1>3 DEF ReceiverHandle
      <2> QED BY <2>1, TakingSame
<1>4. CASE ~Replay(p, m) /\ ~Foreign(p, m) /\ m.t = "manifest"
      <2>1. /\ proc' = [proc EXCEPT !["r"] = Prepared(p, m)]
            /\ journal' = IF journal[m.ctx.tid].there THEN journal
                          ELSE [journal EXCEPT ![m.ctx.tid] = [there |-> TRUE, content |-> m.ctx.content, cred |-> 0]]
            BY <1>4 DEF ReceiverHandle
      <2>2. CASE Prepared(p, m) # Off
            BY <1>4, <2>1, <2>2, TakingManifest
      <2>3. CASE Prepared(p, m) = Off
            <3>1. journal[m.ctx.tid].there
                  <4>1. p \in Procs /\ m.ctr \in Nat
                        BY DEF Taking, ToR
                  <4>2. PICK c : c = Counted(p, m)
                        OBVIOUS
                  <4>3. c \in Procs
                        BY <4>1, <4>2, CountedType
                  <4>4. ASSUME NEW u, NEW b, NEW x
                        PROVE  [c EXCEPT !.phase = "prepared", !.tid = u, !.reused = b, !.rec.content = x] # Off
                        BY <4>3 DEF Procs, Off
                  <4> QED BY <2>3, <4>2, <4>4 DEF Prepared
            <3> QED BY <2>1, <2>3, <3>1, TakingOff
      <2> QED BY <2>2, <2>3
<1> QED BY <1>1, <1>2, <1>3, <1>4

LEMMA RouteEngineStep == ASSUME IInv, RouteEngine PROVE IInv'
<1> DEFINE p == proc["r"]
           m == Head(chan["r"])
<1>1. /\ p \in Procs /\ InSession(p) /\ "s" \in Ends /\ "r" \in Ends /\ chan["r"] \in Seq(ToR)
      BY ProcsTyped
<1>2. /\ p.phase \in {"engine", "receiving"} /\ chan["r"] # <<>> /\ ReceiverHandle(p, m)
      /\ UNCHANGED <<content, rec, n, advertised, vanished>>
      BY DEF RouteEngine, Receiving, bounds
<1>3. m \in ToR /\ m \in Elems(chan["r"])
      BY <1>1, <1>2, ElemsHead
<1>4. Taking(p, m)
      BY <1>1, <1>2, <1>3 DEF Taking, Held, SameReceiver
<1>5. PICK w : w = Tail(chan["r"])
      OBVIOUS
<1>6. w \in Seq(ToR) /\ Elems(w) \subseteq Elems(chan["r"])
      BY <1>1, <1>2, <1>5, ElemsTail
<1>7. chan' = [chan EXCEPT !["r"] = w]
      BY <1>1, <1>5 DEF RouteEngine, IInv, TypeInv, PathType
<1>8. TakenPath
      BY <1>6, <1>7, ChanR DEF TakenPath
<1> QED BY <1>2, <1>4, <1>8, ReceiverHandleStep

LEMMA ReplayPendingStep == ASSUME IInv, ReplayPending PROVE IInv'
<1> DEFINE r == proc["r"]
           m == Head(r.pending)
<1>1. /\ r \in Procs /\ InSession(r) /\ "s" \in Ends /\ "r" \in Ends /\ chan["r"] \in Seq(ToR)
      BY ProcsTyped
<1>2. /\ r.phase \in {"engine", "receiving"} /\ r.pending # <<>>
      /\ ReceiverHandle([r EXCEPT !.pending = Tail(@)], m)
      /\ UNCHANGED <<content, rec, chan, n, advertised, vanished>>
      BY DEF ReplayPending, Receiving, bounds
<1>3. r.pending \in Seq(ToR)
      BY <1>1 DEF Procs
<1>4. m \in ToR /\ m \in Elems(r.pending)
      BY <1>2, <1>3, ElemsHead
<1>5. PICK w : w = Tail(r.pending)
      OBVIOUS
<1>6. w \in Seq(ToR) /\ Elems(w) \subseteq Elems(r.pending)
      BY <1>2, <1>3, <1>5, ElemsTail
<1>7. PICK p : p = [r EXCEPT !.pending = w]
      OBVIOUS
<1>8. p = [r EXCEPT !.pending = Tail(@)]
      BY <1>1, <1>5, <1>7 DEF Procs
<1>9. SameReceiver(r, p) /\ p.phase = r.phase /\ p.pending = w
      BY <1>1, <1>6, <1>7 DEF SameReceiver, Procs
<1>10. InSession(p)
      BY <1>1, <1>2, <1>9 DEF InSession, SameReceiver
<1>11. Taking(p, m)
      BY <1>2, <1>4, <1>6, <1>9, <1>10 DEF Taking, Held, SameReceiver
<1>12. TakenPath
      BY <1>2 DEF TakenPath, IInv, TypeInv, PathType
<1> QED BY <1>2, <1>8, <1>11, <1>12, ReceiverHandleStep

\* A new journal gets the credential of this session.
LEMMA AttachJournalStep == ASSUME IInv, AttachJournal PROVE IInv'
<1> DEFINE p == proc["r"]
           s == proc["s"]
<1>1. /\ p \in Procs /\ InSession(p) /\ "s" \in Ends /\ "r" \in Ends /\ chan["s"] \in Seq(ToS)
      BY ProcsTyped
<1>2. p.phase = "prepared" /\ UNCHANGED <<content, rec, n, advertised, vanished>>
      BY DEF AttachJournal, bounds, hist
<1>3. PICK f : f = Frame(p, "resume_state")
      OBVIOUS
<1>4. f \in ToS /\ f.t = "resume_state"
      BY <1>1, <1>3, FrameType
<1>5. p.out + 1 \in Nat /\ p.tid \in Tids /\ p.n \in Tids /\ p.rec \in Recs
      BY <1>1 DEF Procs
<1>6. PICK q : q = [p EXCEPT !.phase = "receiving", !.out = @ + 1]
      OBVIOUS
<1>7. SameReceiver(p, q) /\ q.phase = "receiving" /\ q.pending = p.pending
      BY <1>1, <1>5, <1>6 DEF SameReceiver, Procs, Phases
<1>8. proc' = [proc EXCEPT !["r"] = q]
      BY <1>6 DEF AttachJournal
<1>9. PICK w : w = Append(chan["s"], f)
      OBVIOUS
<1>10. w \in Seq(ToS) /\ Elems(w) \subseteq Elems(chan["s"]) \cup {f}
      BY <1>1, <1>4, <1>9, ElemsAppend
<1>11. chan' = [chan EXCEPT !["s"] = w]
      BY <1>1, <1>3, <1>9 DEF AttachJournal, Says, IInv, TypeInv, PathType
<1>12. /\ DOMAIN chan' = Ends /\ chan' = [d \in Ends |-> chan'[d]]
       /\ chan'["s"] = w /\ chan'["r"] = chan["r"] /\ chan'["s"] \in Seq(ToS) /\ chan'["r"] \in Seq(ToR)
      BY <1>10, <1>11, ChanS
<1>13. Kept(p, q)
      BY <1>1, <1>2, <1>7 DEF Kept, InSession, SameReceiver
<1>14. PathOK' /\ proc'["r"] = q /\ proc'["s"] = s
      BY <1>1, <1>2, <1>4, <1>7, <1>8, <1>10, <1>12, <1>13, PlainPath DEF AuthTypes, SameReceiver
<1>15. PICK j : j = [there |-> TRUE, content |-> p.rec.content, cred |-> p.n]
      OBVIOUS
<1>16. j \in Journals /\ j.there /\ j.cred = p.n
      <2>1. p.rec.content \in Values
            BY <1>5 DEF Recs
      <2> QED BY <1>5, <1>15, <2>1 DEF Journals
<1>17. journal' = journal \/ (~p.reused /\ journal' = [journal EXCEPT ![p.tid] = j])
      BY <1>15 DEF AttachJournal
<1>18. journal \in [Tids -> Journals]
      BY DEF IInv, TypeInv, DiskType
<1>19. /\ journal' \in [Tids -> Journals]
       /\ \A t \in Tids : journal[t].there => journal'[t].there
       /\ \A t \in Tids : journal'[t] = journal[t] \/ (~p.reused /\ t = p.tid /\ journal'[t].cred = p.n)
      BY <1>5, <1>16, <1>17, <1>18
<1>20. DiskType' /\ PaperOK'
      BY <1>2, <1>14, <1>19 DEF IInv, TypeInv, DiskType, PaperOK
<1>21. p.ctx.tid \in Tids
      <2>1. p.ctx \in Ctxs
            BY <1>1 DEF Procs
      <2> QED BY <2>1 DEF Ctxs
<1>22. HeldOK(chan'["r"], s, q, rec, n)
      BY <1>7, <1>12 DEF IInv, CreditOK, HeldOK, ManifestOK, Held, SameReceiver
<1>23. ResumedOK(q, journal', vanished)
      BY <1>7, <1>19, <1>21 DEF IInv, CreditOK, ResumedOK, SameReceiver
<1>24. PreparedOK(s, q, rec, n, vanished)
      BY <1>7 DEF PreparedOK
<1>25. JournalsOK(journal', vanished, s, rec, n)
      BY <1>2, <1>19 DEF IInv, CreditOK, JournalsOK, PreparedOK
<1>26. CreditOK'
      BY <1>2, <1>14, <1>22, <1>23, <1>24, <1>25 DEF CreditOK
<1> QED BY <1>14, <1>20, <1>26 DEF IInv, TypeInv, PathOK

LEMMA FinishReceiveStep == ASSUME IInv, FinishReceive PROVE IInv'
<1> DEFINE p == proc["r"]
<1>1. p \in Procs /\ "s" \in Ends /\ "r" \in Ends /\ chan["s"] \in Seq(ToS)
      BY ProcsTyped
<1>2. /\ UNCHANGED <<content, rec, n, advertised, vanished>>
      /\ proc' = [proc EXCEPT !["r"] = Off]
      /\ journal' = [journal EXCEPT ![p.tid] = NoJournal]
      /\ chan' = [s |-> Append(chan["s"], Frame(p, "done")), r |-> <<>>]
      BY DEF FinishReceive, bounds, hist
<1>3. PICK f : f = Frame(p, "done")
      OBVIOUS
<1>4. f \in ToS
      BY <1>1, <1>3, FrameType
<1>5. PICK w : w = Append(chan["s"], f)
      OBVIOUS
<1>6. w \in Seq(ToS) /\ <<>> \in Seq(ToR)
      BY <1>1, <1>4, <1>5, ElemsAppend
<1>7. chan' = [s |-> w, r |-> <<>>]
      BY <1>2, <1>3, <1>5
<1>8. DOMAIN chan' = Ends /\ chan' = [d \in Ends |-> chan'[d]] /\ chan'["s"] = w /\ chan'["r"] = <<>>
      BY <1>7 DEF Ends
<1>9. proc' \in [Ends -> Procs] /\ proc'["r"] = Off /\ proc'["s"] = proc["s"]
      BY <1>1, <1>2, SetProc, OffType DEF IInv, TypeInv
<1>10. PathType'
      BY <1>6, <1>8, <1>9 DEF PathType
<1>11. ShakeOK'
      <2>1. Kept(proc["s"], proc["s"])
            BY KeptSame DEF IInv, ShakeOK
      <2> QED BY <1>2, <1>9, <2>1, OffUnmet, ShakeUnmet DEF IInv, Ends
<1>12. journal' \in [Tids -> Journals] /\ \A t \in Tids : journal'[t].cred \in {0, journal[t].cred}
      <2>1. journal \in [Tids -> Journals] /\ NoJournal \in Journals /\ NoJournal.cred = 0
            BY OffType DEF IInv, TypeInv, DiskType, NoJournal
      <2> QED BY <1>2, <2>1
<1>13. DiskType' /\ PaperOK' /\ CredlessKept
      BY <1>2, <1>9, <1>12, CredlessSame DEF IInv, TypeInv, DiskType, PaperOK
<1>14. CreditOK'
      BY <1>2, <1>9, <1>12, <1>13, CreditUnmet DEF IInv, Off, NoCtx, ResumedOK
<1> QED BY <1>10, <1>11, <1>13, <1>14 DEF IInv, TypeInv

-----------------------------------------------------------------------------
LEMMA InitIInv == Init => IInv
<1> SUFFICES ASSUME Init PROVE IInv
    OBVIOUS
<1>1. content \in Contents
      BY ReattachAssumption DEF Init
<1>2. content \in Values /\ 0 \in Tids /\ Tids \subseteq Nat
      BY <1>1, ReattachAssumption DEF Values, Tids
<1>3. PICK old \in BOOLEAN :
         /\ rec = IF old THEN OldRec(content) ELSE NoRec
         /\ journal = [t \in Tids |-> IF old /\ t = 0
                                      THEN [NoJournal EXCEPT !.there = TRUE, !.content = content]
                                      ELSE NoJournal]
      BY DEF Init
<1>4. rec \in Recs /\ rec.tid = 0 /\ rec.cred = 0
      BY <1>2, <1>3, OffType DEF OldRec, Save, NoRec, Recs
<1>5. journal \in [Tids -> Journals] /\ \A t \in Tids : journal[t].cred = 0
      <2>1. PICK j : j = [NoJournal EXCEPT !.there = TRUE, !.content = content]
            OBVIOUS
      <2>2. j \in Journals /\ j.cred = 0 /\ NoJournal \in Journals /\ NoJournal.cred = 0
            BY <1>2, <2>1, OffType DEF Journals, NoJournal
      <2> QED BY <1>3, <2>1, <2>2
<1>6. n = 0 /\ advertised = {} /\ vanished = {} /\ proc["s"] = Off /\ proc["r"] = Off
      /\ chan["s"] = <<>> /\ chan["r"] = <<>>
      BY DEF Init, Ends
<1>7. DiskType
      BY <1>1, <1>2, <1>4, <1>5, <1>6 DEF DiskType
<1>8. PathType
      <2>1. <<>> \in Seq(ToS) /\ <<>> \in Seq(ToR)
            OBVIOUS
      <2> QED BY <1>6, <2>1, OffType DEF Init, PathType, Ends
<1>9. ShakeOK
      BY <1>6 DEF ShakeOK, InSession, SenderShake, ReceiverShake, Talk, Met, Off
<1>10. PaperOK
      <2>1. RecordOK(rec, advertised, n)
            BY <1>4, <1>6 DEF RecordOK, Told
      <2> QED BY <1>6, <2>1 DEF PaperOK, Papers, AdvertOK, AuthedOK, FreshOK, Off, NoCtx
<1>11. CreditOK
      BY <1>5, <1>6 DEF CreditOK, HeldOK, ResumedOK, PreparedOK, JournalsOK, Off, NoCtx
<1> QED BY <1>7, <1>8, <1>9, <1>10, <1>11 DEF IInv, TypeInv

LEMMA NextIInv == IInv /\ [Next]_vars => IInv'
<1> SUFFICES ASSUME IInv, [Next]_vars PROVE IInv'
    OBVIOUS
<1>1. CASE Edit
      BY <1>1, EditStep
<1>2. CASE Damage \/ DiscardRecord
      BY <1>2, RecordStep
<1>3. CASE \E t \in Tids : DiscardJournal(t)
      BY <1>3, DiscardJournalStep
<1>4. CASE JoinFresh \/ \E t \in Tids : JoinResume(t)
      BY <1>4, JoinStep
<1>5. CASE PrepareFresh \/ PrepareReused
      BY <1>5, PrepareStep
<1>6. CASE Establish
      BY <1>6, EstablishStep
<1>7. CASE \E e \in Ends : Crash(e) \/ PeerGone(e)
      BY <1>7, CrashStep
<1>8. CASE \E e \in Ends : Preamble(e)
      BY <1>8, PreambleSenderStep, PreambleReceiverStep DEF Ends
<1>9. CASE \E e \in Ends : Authenticated(e)
      BY <1>9, AuthenticatedStep
<1>10. CASE Move \/ \E e \in Ends : Duplicate(e)
      BY <1>10, PathFaultStep
<1>11. CASE CreateHook
      BY <1>11, CreateHookStep
<1>12. CASE VerifyHook
      BY <1>12, VerifyHookStep
<1>13. CASE AttachResumeSecret
      BY <1>13, AttachResumeSecretStep
<1>14. CASE SendManifest
      BY <1>14, SendManifestStep
<1>15. CASE SendPause
      BY <1>15, SendPauseStep
<1>16. CASE SenderHandle
      BY <1>16, SenderHandleStep
<1>17. CASE DiscardOnSuccess
      BY <1>17, DiscardOnSuccessStep
<1>18. CASE RouteQueues
      BY <1>18, RouteQueuesStep
<1>19. CASE Install
      BY <1>19, InstallStep
<1>20. CASE RouteEngine
      BY <1>20, RouteEngineStep
<1>21. CASE ReplayPending
      BY <1>21, ReplayPendingStep
<1>22. CASE AttachJournal
      BY <1>22, AttachJournalStep
<1>23. CASE FinishReceive
      BY <1>23, FinishReceiveStep
<1>24. CASE UNCHANGED vars
      <2>1. UNCHANGED <<content, rec, journal, proc, chan, n, advertised, vanished>>
            BY <1>24 DEF vars, bounds, hist
      <2>2. PathType' /\ ShakeOK'
            BY <2>1, SamePath
      <2>3. DiskType' /\ PaperOK' /\ CreditOK'
            BY <2>1 DEF IInv, TypeInv, DiskType, PaperOK, CreditOK
      <2> QED BY <2>2, <2>3 DEF IInv, TypeInv
<1> QED BY <1>1, <1>2, <1>3, <1>4, <1>5, <1>6, <1>7, <1>8, <1>9, <1>10, <1>11, <1>12, <1>13, <1>14, <1>15,
           <1>16, <1>17, <1>18, <1>19, <1>20, <1>21, <1>22, <1>23, <1>24 DEF Next

\* The inductive invariant holds in every reachable state of the two programs.
THEOREM Inductive == Spec => []IInv
BY InitIInv, NextIInv, PTL DEF Spec

\* Mutual authentication, for any number of sessions, crashes, duplicates and
\* moves: an end of ResumeAuthSession that is done has the id, the fingerprint
\* and the secret of the end it met (handleOfferer, handleJoiner).
THEOREM BothAuthenticated == Spec => []Agreement
<1>1. IInv => Agreement
      BY DEF IInv, ShakeOK, Talk, Met, Agree, Agreement
<1> QED BY <1>1, Inductive, PTL

\* A record and a journal of one transfer hold the same credential, whichever
\* of the two AttachResumeSecret a crash comes between, unless the journal was
\* discarded under the resume that had selected it.
THEOREM CredentialsMatch == Spec => []CredentialsAgree
<1>1. ASSUME IInv PROVE CredentialsAgree
      <2> SUFFICES ASSUME NEW t \in Tids \ vanished, rec.there, rec.tid = t, rec.cred # 0, journal[t].cred # 0
                   PROVE  rec.cred = journal[t].cred
          BY DEF CredentialsAgree
      <2>1. rec.cred = t
            BY <1>1 DEF IInv, PaperOK, Papers, RecordOK
      <2>2. journal[t].cred = t
            BY <1>1 DEF IInv, CreditOK, JournalsOK, Credless
      <2> QED BY <2>1, <2>2
<1> QED BY <1>1, Inductive, PTL

\* A transfer id is advertised with one content only (createHook, verifyHook),
\* through edits of the source, discards, damage and crashes.
THEOREM IdsBindContent == Spec => []OneManifestPerId
<1>1. IInv => OneManifestPerId
      BY DEF IInv, PaperOK, Papers, AdvertOK, Told, OneManifestPerId
<1> QED BY <1>1, Inductive, PTL

\* The command line (runSend) puts an interrupted transfer's id on the path
\* again only after mutual authentication.  The desktop service also reuses a
\* record without a credential, so the theorem is about Host = "cli".
THEOREM CliReusesAuthenticated == ASSUME Host = "cli" PROVE Spec => []ReusedOnlyAuthenticated
<1>1. IInv => ReusedOnlyAuthenticated
      BY DEF IInv, PaperOK, Papers, AdvertOK, ReusedOnlyAuthenticated
<1> QED BY <1>1, Inductive, PTL

=============================================================================
