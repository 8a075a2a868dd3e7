------------------------------ MODULE Reattach ------------------------------
(***************************************************************************)
(* Continuing an interrupted transfer in a later session: the sender's     *)
(* record (sender_state.go), the receiver's journal credential             *)
(* (durable.go), the mutual resume authentication (resumeauth.go,          *)
(* resume_preamble.go) and the router that hands frames to it and then to  *)
(* the engine (driver.go).                                                 *)
(*                                                                         *)
(* One source path set, one sending and one receiving program.  A session  *)
(* is a number: its master, its nonces and the transfer id it may mint are *)
(* as fresh as the number.  A credential is the number of the session it   *)
(* was derived in, 0 for none; the secret also depends on id and contents, *)
(* so two secrets are equal when the three are.                            *)
(***************************************************************************)
EXTENDS Naturals, Sequences

CONSTANTS Contents,     \* what the source files may hold
          MaxSessions,  \* bound: sessions in a behaviour
          MaxFaults,    \* bound: in a session, frames that arrive twice and moves
                        \* that lose what is on the path
          Host          \* the program that sends: "cli" or "desktop"

ASSUME ReattachAssumption ==
    /\ MaxSessions \in Nat /\ MaxFaults \in Nat
    /\ Host \in {"cli", "desktop"}
    /\ Contents # {} /\ "none" \notin Contents

\* Transfer ids; 0 is one that was journaled before credentials existed.
Tids == 0 .. MaxSessions

Ends == {"s", "r"}

Other(e) == IF e = "s" THEN "r" ELSE "s"

VARIABLES content,     \* what the source files hold
          rec,         \* the sender's record of the path set, on disk
          journal,     \* the receiver's journals by transfer id, on disk
          proc,        \* the running sender "s" and receiver "r"
          chan,        \* frames on their way to each end
          n,           \* sessions so far
          dups, moves, \* duplicates and moves in this session
          advertised,  \* history: the manifests sent
          vanished     \* history: journals discarded under the resume that uses them

bounds == <<n, dups, moves>>

hist == <<advertised, vanished>>

vars == <<content, rec, journal, proc, chan, bounds, hist>>

NoContent == "none"

\* SenderRecord: id, fingerprint, credential, and whether its checksum fits.
NoRec == [there |-> FALSE, tid |-> 0, content |-> NoContent, cred |-> 0, sum |-> FALSE]

\* Save writes a complete record in one step (writeRecordAtomic renames).
Save(t, c, cred) == [there |-> TRUE, tid |-> t, content |-> c, cred |-> cred, sum |-> TRUE]

\* A schema-v1 record is migrated without a credential.
OldRec(c) == Save(0, c, 0)

\* Load: the record decodes, its checksum fits and it is valid.
Loads(r) == r.there /\ r.sum

\* The journal's fingerprint and credential.
NoJournal == [there |-> FALSE, content |-> NoContent, cred |-> 0]

\* ResumeAuthContext: what the transcript and the proofs bind.
NoCtx == [tid |-> 0, content |-> NoContent, cred |-> 0]

(***************************************************************************)
(* A process.  st and accepted belong to its ResumeAuthSession; out and    *)
(* exp are the counters it sends with and expects, ep is the key epoch of  *)
(* its engine (0 the session's own), rec the record its hook captured.     *)
(*   sender    idle, dialing, preamble, engine, recorded, attached, sent,  *)
(*             streaming, told                                             *)
(*   receiver  idle, joining, preamble, settled, engine, prepared,         *)
(*             receiving                                                   *)
(***************************************************************************)
Off == [phase |-> "idle", ctx |-> NoCtx, rec |-> NoRec, tid |-> 0, reused |-> FALSE,
        st |-> "idle", accepted |-> {}, last |-> "none", out |-> 1, exp |-> 1,
        ep |-> 0, pending |-> <<>>, n |-> 0]

\* The disks are empty or hold a transfer that an older version left; the
\* contents are interchangeable.
Init ==
    /\ content = CHOOSE c \in Contents : TRUE
    /\ \E old \in BOOLEAN :
         /\ rec = IF old THEN OldRec(content) ELSE NoRec
         /\ journal = [t \in Tids |-> IF old /\ t = 0
                                      THEN [NoJournal EXCEPT !.there = TRUE, !.content = content]
                                      ELSE NoJournal]
    /\ proc = [e \in Ends |-> Off]
    /\ chan = [e \in Ends |-> <<>>]
    /\ n = 0 /\ dups = 0 /\ moves = 0
    /\ advertised = {} /\ vanished = {}

-----------------------------------------------------------------------------
(***************************************************************************)
(* The two programs up to the session.                                     *)
(***************************************************************************)

\* Users edit and discard at any time before the last session.
UserActs == n < MaxSessions

\* The user edits the source.
Edit ==
    /\ UserActs
    /\ \E c \in Contents \ {content} : content' = c
    /\ UNCHANGED <<rec, journal, proc, chan, bounds, hist>>

\* The record's file is damaged on disk.
Damage ==
    /\ UserActs /\ Loads(rec)
    /\ rec' = [rec EXCEPT !.sum = FALSE]
    /\ UNCHANGED <<content, journal, proc, chan, bounds, hist>>

\* SenderStore.Discard and DurableStore.Discard, by the user.
DiscardRecord ==
    /\ UserActs /\ rec.there
    /\ rec' = NoRec
    /\ UNCHANGED <<content, journal, proc, chan, bounds, hist>>

DiscardJournal(t) ==
    /\ UserActs /\ journal[t].there
    /\ journal' = [journal EXCEPT ![t] = NoJournal]
    /\ vanished' = IF proc["r"].ctx.cred # 0 /\ proc["r"].ctx.tid = t THEN vanished \cup {t} ELSE vanished
    /\ UNCHANGED <<content, rec, proc, chan, bounds, advertised>>

Starts(e, p) ==
    /\ proc[e].phase = "idle" /\ n < MaxSessions
    /\ proc' = [proc EXCEPT ![e] = p]
    /\ UNCHANGED <<content, rec, journal, chan, bounds, hist>>

\* PrepareSender finds no record for the paths; Lookup never takes a damaged
\* one for absent.
PrepareFresh ==
    /\ ~rec.there
    /\ Starts("s", [Off EXCEPT !.phase = "dialing"])

\* The CLI refuses a record without a credential; the desktop service goes on
\* with the record's id and no resume context.
MayReuse == Host = "desktop" \/ rec.cred # 0

ResumeCtx(t, r) == IF r.cred = 0 THEN NoCtx
                   ELSE [tid |-> t, content |-> r.content, cred |-> r.cred]

\* PrepareSender finds a record: cheapSourceCheck compares names, sizes and
\* times, which an edit may leave alone.
PrepareReused ==
    /\ Loads(rec) /\ MayReuse
    /\ Starts("s", [Off EXCEPT !.phase = "dialing", !.ctx = ResumeCtx(rec.tid, rec), !.rec = rec,
                               !.tid = rec.tid, !.reused = TRUE])

\* recv joins without a journal, transfers resume with one it can authenticate.
JoinFresh == Starts("r", [Off EXCEPT !.phase = "joining"])

JoinResume(t) ==
    /\ journal[t].there /\ journal[t].cred # 0
    /\ Starts("r", [Off EXCEPT !.phase = "joining", !.ctx = ResumeCtx(t, journal[t])])

\* NegotiateResumeAuth: only an end with a resume context advertises it.
HasCtx(e) == proc[e].ctx.cred # 0

\* Fault: the sender goes on with the old id and no authentication.
MayEstablishUnauthenticated == TRUE

\* prepareResumePreamble: a sender with a context needs a receiver with one.
MayEstablish == HasCtx("s") => HasCtx("r")

\* A proof binds the secret and the transcript, which holds id and
\* fingerprint and the nonces of this session.
Proof(p) == p.ctx

Frame(p, t) == [t |-> t, ctr |-> p.out, ep |-> p.ep, ctx |-> Proof(p)]

AuthTypes == {"init", "challenge", "confirm", "ready"}

\* The session is up.  With a context at both ends the offerer's preamble
\* sends resume_init; otherwise the engines use the session's keys.
Establish ==
    /\ proc["s"].phase = "dialing" /\ proc["r"].phase = "joining"
    /\ n < MaxSessions
    /\ n' = n + 1 /\ dups' = 0 /\ moves' = 0
    /\ LET auth == HasCtx("s") /\ HasCtx("r")
           s == [proc["s"] EXCEPT !.n = n', !.tid = IF proc["s"].reused THEN @ ELSE n']
           r == [proc["r"] EXCEPT !.n = n']
       IN  /\ proc' = [s |-> IF ~MayEstablish THEN Off
                             ELSE IF auth THEN [s EXCEPT !.phase = "preamble", !.st = "awaitChallenge", !.out = 2]
                             ELSE [s EXCEPT !.phase = "engine"],
                       r |-> [r EXCEPT !.phase = IF auth THEN "preamble" ELSE "settled"]]
           /\ chan' = [s |-> <<>>, r |-> IF auth THEN <<Frame(s, "init")>> ELSE <<>>]
    /\ UNCHANGED <<content, rec, journal, hist>>

\* An ended process: its state is gone and nothing reaches it.
Ended(e) ==
    /\ proc' = [proc EXCEPT ![e] = Off]
    /\ chan' = [chan EXCEPT ![e] = <<>>]

\* A crash or a cancellation, at any step.
Crash(e) ==
    /\ proc[e].phase # "idle"
    /\ Ended(e)
    /\ UNCHANGED <<content, rec, journal, bounds, hist>>

\* The other end closed the connection: readErr ends this one.
PeerGone(e) ==
    /\ proc[e].n # 0 /\ proc[e].n # proc[Other(e)].n
    /\ Ended(e)
    /\ UNCHANGED <<content, rec, journal, bounds, hist>>

-----------------------------------------------------------------------------
(***************************************************************************)
(* ResumePreamble.Handle and ResumeAuthSession.Handle.                     *)
(***************************************************************************)

\* Fault: the proof is not bound to the transfer.
VerifyAnyTranscript(m, p) == m.ctx # NoCtx /\ p.ctx # NoCtx

\* verifyResumeProof: made with this secret over this transcript.
Verify(m, p) == m.ctx = Proof(p)

\* openLocked: the expected counter or a later one, or the last accepted
\* message with the counter before.
OpenLocked(m, p) == m.ctr >= p.exp \/ (m.ctr + 1 = p.exp /\ m.t = p.last)

Counted(p, m) == [p EXCEPT !.exp = IF m.ctr >= @ THEN m.ctr + 1 ELSE @]

\* Fault: the joiner settles without sending resume_ready.
AnswerNoReady(t) == CASE t = "init" -> <<"challenge">>
                      [] t = "challenge" -> <<"confirm">>
                      [] OTHER -> <<>>

\* What an accepted message is answered with, the first time and every time.
Answer(t) == CASE t = "init" -> <<"challenge">>
               [] t = "challenge" -> <<"confirm">>
               [] t = "confirm" -> <<"ready">>
               [] t = "ready" -> <<>>

\* The state that accepts a message and the one it leads to.
Steps == {<<"idle", "init", "awaitConfirm">>, <<"awaitChallenge", "challenge", "awaitReady">>,
          <<"awaitConfirm", "confirm", "done">>, <<"awaitReady", "ready", "done">>}

\* ResumeAuthSession.Handle: an accepted message again changes nothing, a new
\* one must fit the state and, but for resume_init, carry a valid proof.
NextSt(p, m) ==
    IF m.t \in p.accepted THEN p.st
    ELSE IF \E st \in {"awaitConfirm", "awaitReady", "done"} : <<p.st, m.t, st>> \in Steps
            /\ (m.t = "init" \/ Verify(m, p))
    THEN CHOOSE st \in {"awaitConfirm", "awaitReady", "done"} : <<p.st, m.t, st>> \in Steps
    ELSE "failed"

HandleAuth(p, m) ==
    IF ~OpenLocked(m, p) \/ m.t \notin AuthTypes
    THEN [p EXCEPT !.st = "failed"]
    ELSE [Counted(p, m) EXCEPT !.st = NextSt(p, m), !.accepted = @ \cup {m.t}, !.last = m.t,
                               !.out = @ + Len(Answer(m.t))]

Replies(p, m) == [i \in DOMAIN Answer(m.t) |-> Frame(p, Answer(m.t)[i])]

\* engineRouter.route while the preamble is under way.
Preamble(e) ==
    LET p == proc[e]
        m == Head(chan[e])
        q == HandleAuth(p, m)
    IN  /\ p.phase = "preamble" /\ p.st # "done"
        /\ chan[e] # <<>>
        /\ IF q.st = "failed" THEN Ended(e)
           ELSE /\ chan' = [chan EXCEPT ![e] = Tail(@), ![Other(e)] = @ \o Replies(p, m)]
                /\ proc' = [proc EXCEPT ![e] = q]
        /\ UNCHANGED <<content, rec, journal, bounds, hist>>

\* runPreamble returns: the engine gets the resumed key epoch with counters
\* from zero.  A receiver's destination is now authorized.
Authenticated(e) ==
    /\ proc[e].phase = "preamble" /\ proc[e].st = "done"
    /\ proc' = [proc EXCEPT ![e] = [@ EXCEPT !.phase = IF e = "s" THEN "engine" ELSE "settled",
                                             !.ep = proc[e].n, !.out = 0, !.exp = 0]]
    /\ UNCHANGED <<content, rec, journal, chan, bounds, hist>>

-----------------------------------------------------------------------------
(***************************************************************************)
(* The sender: the record is created or verified, the credential attached, *)
(* only then the manifest goes out.                                        *)
(***************************************************************************)

\* createHook.
CreateHook ==
    /\ proc["s"].phase = "engine" /\ ~proc["s"].reused
    /\ rec' = Save(proc["s"].tid, content, 0)
    /\ proc' = [proc EXCEPT !["s"] = [@ EXCEPT !.phase = "recorded", !.rec = rec']]
    /\ UNCHANGED <<content, journal, chan, bounds, hist>>

\* Fault: the manifest is not compared with the record.
SameFingerprintUnchecked(r, c) == TRUE

\* The manifest's fingerprint against the record's, in both hooks.
SameFingerprint(r, c) == r.content = c

\* verifyHook writes the record it captured back, also over a discard.
VerifyHook ==
    /\ proc["s"].phase = "engine" /\ proc["s"].reused
    /\ IF SameFingerprint(proc["s"].rec, content)
       THEN /\ rec' = proc["s"].rec
            /\ proc' = [proc EXCEPT !["s"] = [@ EXCEPT !.phase = "recorded", !.rec.content = content]]
            /\ UNCHANGED chan
       ELSE Ended("s") /\ UNCHANGED rec
    /\ UNCHANGED <<content, journal, bounds, hist>>

\* Fault: every session attaches a credential of its own.
AttachedEverySession == [rec EXCEPT !.cred = proc["s"].n]

\* Only a record made in this session gets a credential, and only once.
Attached == IF proc["s"].reused \/ rec.cred # 0 THEN rec ELSE [rec EXCEPT !.cred = proc["s"].n]

\* AttachResumeSecret loads the record again and refuses another manifest.
AttachResumeSecret ==
    /\ proc["s"].phase = "recorded"
    /\ IF Loads(rec) /\ rec.tid = proc["s"].tid /\ SameFingerprint(rec, proc["s"].rec.content)
       THEN /\ rec' = Attached
            /\ proc' = [proc EXCEPT !["s"].phase = "attached"]
            /\ UNCHANGED chan
       ELSE Ended("s") /\ UNCHANGED rec
    /\ UNCHANGED <<content, journal, bounds, hist>>

ManifestCtx(p) == [tid |-> p.tid, content |-> p.rec.content, cred |-> 0]

SendManifest ==
    LET p == proc["s"]
    IN  /\ p.phase = "attached"
        /\ chan' = [chan EXCEPT !["r"] = Append(@, [Frame(p, "manifest") EXCEPT !.ctx = ManifestCtx(p)])]
        /\ proc' = [proc EXCEPT !["s"] = [p EXCEPT !.phase = "sent", !.out = @ + 1]]
        /\ advertised' = advertised \cup {[tid |-> p.tid, content |-> p.rec.content, fresh |-> p.tid = p.n,
                                           auth |-> p.ep # 0]}
        /\ UNCHANGED <<content, rec, journal, bounds, vanished>>

\* Sender.Pause: a control frame right behind the manifest, once.
SendPause ==
    LET p == proc["s"]
    IN  /\ p.phase = "sent" /\ ~\E i \in DOMAIN chan["r"] : chan["r"][i].t = "pause"
        /\ chan["r"] # <<>>
        /\ chan' = [chan EXCEPT !["r"] = Append(@, Frame(p, "pause"))]
        /\ proc' = [proc EXCEPT !["s"].out = @ + 1]
        /\ UNCHANGED <<content, rec, journal, bounds, hist>>

\* An engine drops a lower counter as a replay and fails on another key epoch.
Replay(p, m) == m.ctr < p.exp

Foreign(p, m) == m.ep # p.ep \/ m.t \in AuthTypes

\* Sender.Handle: resume_state starts the blocks, done ends the transfer.
SenderHandle ==
    LET p == proc["s"]
        m == Head(chan["s"])
    IN  /\ chan["s"] # <<>> /\ p.phase \in {"engine", "recorded", "attached", "sent", "streaming"}
        /\ IF Foreign(p, m) /\ ~Replay(p, m) THEN Ended("s")
           ELSE /\ chan' = [chan EXCEPT !["s"] = Tail(@)]
                /\ proc' = [proc EXCEPT !["s"] = IF Replay(p, m) THEN p
                              ELSE [Counted(p, m) EXCEPT !.phase = IF m.t = "done" THEN "told" ELSE "streaming"]]
        /\ UNCHANGED <<content, rec, journal, bounds, hist>>

\* Verified success: runSend discards the record; the desktop's knows only the
\* id of a reused one.
DiscardOnSuccess ==
    /\ proc["s"].phase = "told"
    /\ rec' = IF Host = "cli" \/ proc["s"].reused THEN NoRec ELSE rec
    /\ Ended("s")
    /\ UNCHANGED <<content, journal, bounds, hist>>

-----------------------------------------------------------------------------
(***************************************************************************)
(* The receiver: engineRouter and the destination behind the engine.       *)
(***************************************************************************)

\* route before install: the frame is queued.
RouteQueues ==
    /\ proc["r"].phase = "settled" \/ (proc["r"].phase = "preamble" /\ proc["r"].st = "done")
    /\ chan["r"] # <<>>
    /\ proc' = [proc EXCEPT !["r"].pending = Append(@, Head(chan["r"]))]
    /\ chan' = [chan EXCEPT !["r"] = Tail(@)]
    /\ UNCHANGED <<content, rec, journal, bounds, hist>>

\* install: from here on the read loop calls the engine, while the queue is
\* still to be replayed.
Install ==
    /\ proc["r"].phase = "settled"
    /\ proc' = [proc EXCEPT !["r"].phase = "engine"]
    /\ UNCHANGED <<content, rec, journal, chan, bounds, hist>>

\* Prepare: the journal of this id and fingerprint, authorized in this session.
MayResume(p, t, c) == journal[t].content = c /\ p.ep # 0 /\ p.ctx.tid = t

\* Prepare, on the manifest: no journal, one to resume, or a refusal.
Prepared(p, m) ==
    LET t == m.ctx.tid
    IN  IF journal[t].there /\ ~MayResume(p, t, m.ctx.content) THEN Off
        ELSE [Counted(p, m) EXCEPT !.phase = "prepared", !.tid = t, !.reused = journal[t].there,
                              !.rec.content = m.ctx.content]

\* Receiver.Handle gets m; p is the receiver without it.
ReceiverHandle(p, m) ==
    IF Replay(p, m) THEN proc' = [proc EXCEPT !["r"] = p] /\ UNCHANGED journal
    ELSE IF Foreign(p, m) THEN proc' = [proc EXCEPT !["r"] = Off] /\ UNCHANGED journal
    ELSE IF m.t = "manifest"
    THEN /\ proc' = [proc EXCEPT !["r"] = Prepared(p, m)]
         /\ journal' = IF journal[m.ctx.tid].there THEN journal
                       ELSE [journal EXCEPT ![m.ctx.tid] = [there |-> TRUE, content |-> m.ctx.content, cred |-> 0]]
    ELSE proc' = [proc EXCEPT !["r"] = Counted(p, m)] /\ UNCHANGED journal

Receiving == proc["r"].phase \in {"engine", "receiving"}

\* The read loop's frame and install's next queued frame race for the engine.
RouteEngine ==
    /\ Receiving /\ chan["r"] # <<>>
    /\ ReceiverHandle(proc["r"], Head(chan["r"]))
    /\ chan' = [chan EXCEPT !["r"] = Tail(@)]
    /\ UNCHANGED <<content, rec, bounds, advertised, vanished>>

ReplayPending ==
    /\ Receiving /\ proc["r"].pending # <<>>
    /\ ReceiverHandle([proc["r"] EXCEPT !.pending = Tail(@)], Head(proc["r"].pending))
    /\ UNCHANGED <<content, rec, chan, bounds, advertised, vanished>>

Says(t) == chan' = [chan EXCEPT !["s"] = Append(@, Frame(proc["r"], t))]

\* DurableDestination.AttachResumeSecret writes the journal it has in memory,
\* unless it was loaded; then resume_state goes out.
AttachJournal ==
    LET p == proc["r"]
    IN  /\ p.phase = "prepared"
        /\ journal' = IF p.reused THEN journal
                      ELSE [journal EXCEPT ![p.tid] = [there |-> TRUE, content |-> p.rec.content, cred |-> p.n]]
        /\ proc' = [proc EXCEPT !["r"] = [p EXCEPT !.phase = "receiving", !.out = @ + 1]]
        /\ Says("resume_state")
        /\ UNCHANGED <<content, rec, bounds, hist>>

\* The blocks are in: the files are promoted, the journal removed, the sender
\* told.
FinishReceive ==
    /\ proc["r"].phase = "receiving" /\ proc["s"].phase = "streaming" /\ proc["s"].n = proc["r"].n
    /\ journal' = [journal EXCEPT ![proc["r"].tid] = NoJournal]
    /\ proc' = [proc EXCEPT !["r"] = Off]
    /\ chan' = [s |-> Append(chan["s"], Frame(proc["r"], "done")), r |-> <<>>]
    /\ UNCHANGED <<content, rec, bounds, hist>>

\* The path delivers a frame twice, or a move loses what is on it.
Duplicate(e) ==
    /\ dups + moves < MaxFaults /\ chan[e] # <<>>
    /\ chan' = [chan EXCEPT ![e] = <<Head(@)>> \o @]
    /\ dups' = dups + 1
    /\ UNCHANGED <<content, rec, journal, proc, n, moves, hist>>

Move ==
    /\ dups + moves < MaxFaults /\ chan # [e \in Ends |-> <<>>]
    /\ chan' = [e \in Ends |-> <<>>]
    /\ moves' = moves + 1
    /\ UNCHANGED <<content, rec, journal, proc, n, dups, hist>>

Next ==
    \/ Edit \/ Damage \/ DiscardRecord
    \/ \E t \in Tids : DiscardJournal(t) \/ JoinResume(t)
    \/ PrepareFresh \/ JoinFresh \/ Establish
    \/ PrepareReused
    \/ \E e \in Ends : Crash(e) \/ PeerGone(e) \/ Preamble(e) \/ Authenticated(e) \/ Duplicate(e)
    \/ CreateHook \/ VerifyHook \/ AttachResumeSecret \/ SendManifest \/ SendPause
    \/ SenderHandle \/ DiscardOnSuccess
    \/ RouteQueues \/ Install \/ RouteEngine \/ ReplayPending \/ AttachJournal \/ FinishReceive
    \/ Move

Spec == Init /\ [][Next]_vars

\* Both read loops and both programs run; users and faults need not act.
FairSpec == Spec /\ \A e \in Ends : WF_vars(Preamble(e)) /\ WF_vars(Authenticated(e)) /\ WF_vars(PeerGone(e))

-----------------------------------------------------------------------------
\* Mutual authentication: when one side's ResumeAuthSession is done, the other
\* side of that session is at least one message behind with the same transfer
\* id, fingerprint and secret (handleOfferer, handleJoiner); a stale record
\* against a newer journal never authenticates.
Agreement ==
    LET s == proc["s"]
        r == proc["r"]
    IN  (s.n # 0 /\ s.n = r.n) =>
           /\ (s.st = "done" => r.st = "done" /\ r.ctx = s.ctx)
           /\ (r.st = "done" => s.st \in {"awaitReady", "done"} /\ r.ctx = s.ctx)

\* The sender's and the receiver's AttachResumeSecret write in two programs,
\* each after its own state exists and with a crash possible in between: a
\* record and a journal of one transfer never hold different credentials,
\* unless the journal was discarded under the resume that had selected it:
\* Prepare then starts a new one, with a credential the sender does not take.
CredentialsAgree ==
    \A t \in Tids \ vanished :
        (rec.there /\ rec.tid = t /\ rec.cred # 0 /\ journal[t].cred # 0 /\ journal[t].content = rec.content)
            => rec.cred = journal[t].cred

\* A changed source is never advertised under the old id (verifyHook), through
\* edits, crashes, discards and records that older versions left.
OneManifestPerId ==
    \A a, b \in advertised : a.tid = b.tid => a.content = b.content

\* An interrupted transfer's id goes out again only after mutual
\* authentication (prepareResumePreamble, runSend).
ReusedOnlyAuthenticated ==
    \A a \in advertised : a.fresh \/ a.auth

\* The preamble settles when no move takes a frame: nobody retransmits, so
\* each of the four messages must be answered (ResumePreamble.Handle sends the
\* ready before it settles).
Settles ==
    (proc["s"].phase = "preamble" /\ moves = 0) ~> (proc["s"].phase # "preamble" \/ moves > 0)
=============================================================================
