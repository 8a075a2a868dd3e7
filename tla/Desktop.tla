------------------------------ MODULE Desktop ------------------------------
(***************************************************************************)
(* The desktop application's transfer service: transfers that run side by  *)
(* side in one process, the calls of the user interface, the records of    *)
(* interrupted sends they share, and the shutdown of the application       *)
(* (transfer_service.go, coordinator.go).                                  *)
(*                                                                         *)
(* A run's number is its id, the session it holds and the transfer id its  *)
(* sender mints.  Of the events only the verdict (done or error) is kept:  *)
(* every other event shows a copy of the run and changes nothing.  The     *)
(* engine behind transfer.Run is the one of Transfer and Reattach; here it *)
(* opens, reports states, and ends well or badly.                          *)
(***************************************************************************)
EXTENDS Naturals, Sequences

CONSTANTS Keys,     \* path sets the user may send
          MaxRuns,  \* bound: transfers in the life of the process
          MaxActs   \* bound: discards, and changes of state by the user or a peer

ASSUME DesktopAssumption ==
    /\ MaxRuns \in Nat /\ MaxActs \in Nat

Ids == 1 .. MaxRuns

\* Transfer ids: the id a run minted, 0 the one an earlier process left.
Tids == 0 .. MaxRuns

Actors == {"user", "peer"}

VARIABLES next,       \* newID's counter
          runs,       \* transferRun by id, the removed ones too
          recs,       \* the sender store by transfer id, on disk
          completed,  \* completedDestinations
          told,       \* verdicts emitted, by id
          cb,         \* OnStateChange calls under way
          shut,       \* Shutdown's progress
          acts,       \* acts so far
          dropped     \* history: records removed by the user or by a success

vars == <<next, runs, recs, completed, told, cb, shut, acts, dropped>>

store == <<recs, dropped>>

rest == <<next, completed, told, cb, shut, acts>>

(***************************************************************************)
(* A run.  st is where its goroutine stands:                               *)
(*   free, dial (or about to), prepare, session, engine, publish, gone *)
(* eng is the engine (off, live, ok, err), engPaused its own flag; sent    *)
(* how far the manifest's hooks are (no, saved, yes), rec the record the   *)
(* hook captured; aborting says that a Cancel is on its way to the end of  *)
(* the engine.                                                             *)
(***************************************************************************)
NoRec == [there |-> FALSE, key |-> CHOOSE k \in Keys : TRUE, cred |-> {}]

\* SenderRecord: its paths and the session its credential comes from.
Rec(k, c) == [there |-> TRUE, key |-> k, cred |-> c]

Free == [st |-> "free", role |-> "send", key |-> NoRec.key, tid |-> 0,
         reused |-> FALSE, rec |-> NoRec, ctx |-> TRUE, controls |-> FALSE,
         eng |-> "off", engPaused |-> FALSE, sent |-> "no", aborting |-> FALSE,
         paused |-> FALSE, canceled |-> FALSE, failed |-> FALSE]

\* NewTransferService over the records of an earlier process, one without a
\* credential at most: a credential it had would only be kept.
Init ==
    /\ next = 0
    /\ runs = [i \in Ids |-> Free]
    /\ \E old \in {NoRec} \cup {Rec(k, {}) : k \in Keys} :
         recs = [t \in Tids |-> IF t = 0 THEN old ELSE NoRec]
    /\ completed = {}
    /\ told = [i \in Ids |-> <<>>]
    /\ cb = [i \in Ids |-> [a \in Actors |-> "none"]]
    /\ shut = [st |-> "no", todo |-> {}, at |-> 0]
    /\ acts = 0 /\ dropped = {}

\* The runs map of the service.
Active == {i \in Ids : runs[i].st \notin {"free", "gone"}}

\* The step of a run's goroutine that only moves the run.
Goes(i, from, r) ==
    /\ runs[i].st = from
    /\ runs' = [runs EXCEPT ![i] = r]
    /\ UNCHANGED <<store, rest>>

To(i, st) == [runs[i] EXCEPT !.st = st]

\* Fault: the event goes out before the run is marked.
FailsUnmarked(i) == To(i, "publish")

\* fail up to its event.
Fails(i) == [runs[i] EXCEPT !.st = "publish", !.failed = TRUE]

Acts == acts < MaxActs /\ acts' = acts + 1

-----------------------------------------------------------------------------
(***************************************************************************)
(* Calls of the user interface.                                            *)
(***************************************************************************)

\* newID and newRun: the run is registered before its goroutine exists.
newRun(role, k) ==
    /\ next < MaxRuns
    /\ next' = next + 1
    /\ runs' = [runs EXCEPT ![next + 1] =
                  [Free EXCEPT !.st = "dial", !.role = role, !.key = k, !.tid = next + 1]]
    /\ UNCHANGED <<store, completed, told, cb, shut, acts>>

\* Send, and Drop for files dropped on the window.
Send(k) == newRun("send", k)

Receive == newRun("receive", Free.key)

\* ResumeInterrupted, after Inspect found a journal with a credential: what the
\* run does otherwise than a receive is the subject of Reattach and Durable.
ResumeInterrupted == Receive

\* NewOSFileSources fails: the run is removed and Send returns the error.
SourcesFail(i) ==
    /\ runs[i].role = "send"
    /\ Goes(i, "dial", [To(i, "gone") EXCEPT !.ctx = FALSE])

\* DiscardInterrupted and DiscardAllInterrupted: nobody looks whether a run
\* uses what is removed.
DiscardInterrupted(S) ==
    /\ Acts
    /\ recs' = [t \in Tids |-> IF t \in S THEN NoRec ELSE recs[t]]
    /\ dropped' = dropped \cup S
    /\ UNCHANGED <<next, runs, completed, told, cb, shut>>

\* control: the run is registered and its engine has been handed over.
Connected(i) == i \in Active /\ runs[i].controls

\* Sender.setPaused and Receiver.setPaused, by Pause and Resume or by a frame
\* of the peer: the state changes under the engine's lock, OnStateChange is
\* called after it.
SetPaused(i, a, p) ==
    /\ Acts
    /\ IF a = "user" THEN Connected(i) ELSE runs[i].eng = "live"
    /\ cb[i][a] = "none"
    /\ runs[i].eng = "live" /\ runs[i].engPaused # p
    /\ runs' = [runs EXCEPT ![i].engPaused = p]
    /\ cb' = [cb EXCEPT ![i][a] = IF p THEN "paused" ELSE "running"]
    /\ UNCHANGED <<store, next, completed, told, shut>>

\* onState; the run may have ended meanwhile.
onState(i, a) ==
    /\ cb[i][a] # "none"
    /\ runs' = [runs EXCEPT ![i].paused = cb[i][a] = "paused" /\ i \in Active]
    /\ cb' = [cb EXCEPT ![i][a] = "none"]
    /\ UNCHANGED <<store, next, completed, told, shut, acts>>

\* Controls.Cancel up to its frame: it does nothing once the engine settled.
\* A receiver reports the state, a sender does not.
CancelBegins(r) ==
    IF r.eng # "live" THEN r
    ELSE [r EXCEPT !.aborting = TRUE, !.canceled = @ \/ r.role # "send"]

\* Cancel reads the engine's settled flag and goes on to stop it.
Cancel(i) ==
    /\ Acts
    /\ Connected(i) /\ runs[i].eng = "live" /\ ~runs[i].aborting
    /\ runs' = [runs EXCEPT ![i] = CancelBegins(@)]
    /\ UNCHANGED <<store, next, completed, told, cb, shut>>

\* The peer's Cancel: state and end in the goroutine that reads frames.
PeerCancels(i) ==
    /\ Acts
    /\ runs[i].eng = "live"
    /\ runs' = [runs EXCEPT ![i].canceled = TRUE, ![i].eng = "err"]
    /\ UNCHANGED <<store, next, completed, told, cb, shut>>

-----------------------------------------------------------------------------
(***************************************************************************)
(* The goroutine of a run: runSend, runReceive, runResumeReceive.          *)
(***************************************************************************)

Dialed(i) ==
    /\ runs[i].ctx
    /\ Goes(i, "dial", To(i, IF runs[i].role = "send" THEN "prepare" ELSE "session"))

\* dial fails, for its own reasons or because the context ended.
DialFails(i) == Goes(i, "dial", Fails(i))

\* Lookup: the first record in directory order, the ids are random.
Found(k) == {t \in Tids : recs[t].there /\ recs[t].key = k}

\* PrepareSender without a record: the id is the engine's to mint, and the
\* service keeps an empty one.
PrepareFresh(i) ==
    /\ Found(runs[i].key) = {}
    /\ Goes(i, "prepare", To(i, "session"))

\* With one, the hook captures it as it is now.  A second Lookup decides whether
\* the session can authenticate the resumption, which is Reattach's subject.
PrepareReused(i) ==
    \E t \in Found(runs[i].key) :
        Goes(i, "prepare", [To(i, "session") EXCEPT !.tid = t, !.reused = TRUE, !.rec = recs[t]])

\* An unreadable record or a changed source.
PrepareFails(i) ==
    /\ Found(runs[i].key) # {}
    /\ Goes(i, "prepare", Fails(i))

\* transfer.Run up to OnControls: a peer joined and the channel is open.
OnControls(i) ==
    /\ runs[i].ctx
    /\ Goes(i, "session", [To(i, "engine") EXCEPT !.eng = "live", !.controls = TRUE])

SessionFails(i) == Goes(i, "session", Fails(i))

\* createHook saves the record of the minted id, verifyHook the captured one
\* with a new time.
Saved(r) == IF r.reused THEN r.rec ELSE Rec(r.key, {})

OnSendManifest(i) ==
    /\ runs[i].role = "send" /\ runs[i].eng = "live" /\ runs[i].sent = "no"
    /\ recs' = [recs EXCEPT ![runs[i].tid] = Saved(runs[i])]
    /\ runs' = [runs EXCEPT ![i].sent = "saved"]
    /\ dropped' = dropped \ {runs[i].tid}
    /\ UNCHANGED rest

\* Fault: a session that reuses a record gives it the credential it lacks.
AttachedByAnySession(i, r) == IF r.cred # {} THEN r ELSE [r EXCEPT !.cred = {i}]

\* AttachResumeSecret: only the session that created the record, and once.
Attached(i, r) == IF runs[i].reused \/ r.cred # {} THEN r ELSE [r EXCEPT !.cred = {i}]

\* OnResumeCredential; a record that is gone by now ends the send.
OnResumeCredential(i) ==
    LET t == runs[i].tid
    IN  /\ runs[i].sent = "saved" /\ runs[i].eng = "live"
        /\ recs' = IF recs[t].there THEN [recs EXCEPT ![t] = Attached(i, @)] ELSE recs
        /\ runs' = [runs EXCEPT ![i].sent = IF recs[t].there THEN "yes" ELSE @,
                                ![i].eng = IF recs[t].there THEN @ ELSE "err"]
        /\ UNCHANGED <<rest, dropped>>

\* The transfer completes: the manifest went out before.
EngineSucceeds(i) ==
    /\ runs[i].eng = "live"
    /\ runs[i].role = "send" => runs[i].sent = "yes"
    /\ runs' = [runs EXCEPT ![i].eng = "ok"]
    /\ UNCHANGED <<store, rest>>

\* The peer or the path is lost.
EngineFails(i) ==
    /\ runs[i].eng = "live"
    /\ runs' = [runs EXCEPT ![i].eng = "err"]
    /\ UNCHANGED <<store, rest>>

\* The last step of Cancel, and what the end of the context starts: whichever
\* comes first settles the engine.
Abort(i) ==
    /\ runs[i].aborting \/ ~runs[i].ctx
    /\ runs[i].eng = "live" \/ runs[i].aborting
    /\ runs' = [runs EXCEPT ![i].eng = IF @ = "live" THEN "err" ELSE @, ![i].aborting = FALSE]
    /\ UNCHANGED <<store, rest>>

\* Fault: a failed send drops its record as a successful one does.
DiscardedByEveryEnd(r) == IF r.role = "send" /\ r.reused THEN {r.tid} ELSE {}

\* sstore.Discard(transferID) after a success, with the id PrepareSender gave:
\* it is empty for a fresh send.
DiscardedAtEnd(r) == IF r.role = "send" /\ r.reused /\ r.eng = "ok" THEN {r.tid} ELSE {}

\* recordCompleted, by a receive that succeeded.
recordCompleted(i) ==
    IF runs[i].role = "receive" /\ runs[i].eng = "ok" THEN completed \cup {i} ELSE completed

\* transfer.Run returns: a failure is marked, a success discards the record or
\* records where the files are.
Returns(i) ==
    LET r == runs[i]
        gone == DiscardedAtEnd(r)
    IN  /\ r.st = "engine" /\ r.eng \in {"ok", "err"}
        /\ runs' = [runs EXCEPT ![i] = IF r.eng = "ok" THEN To(i, "publish") ELSE Fails(i)]
        /\ recs' = [t \in Tids |-> IF t \in gone THEN NoRec ELSE recs[t]]
        /\ dropped' = IF r.eng = "ok" THEN dropped \cup gone ELSE dropped
        /\ completed' = recordCompleted(i)
        /\ UNCHANGED <<next, told, cb, shut, acts>>

\* stateString.
stateString(r) == CASE r.failed -> "failed" [] r.canceled /\ ~r.failed -> "canceled"
                    [] r.paused /\ ~r.canceled /\ ~r.failed -> "paused" [] OTHER -> "running"

\* Of a run that is gone only what the properties ask for is kept.
Gone(r) == [Free EXCEPT !.st = "gone", !.role = r.role, !.eng = r.eng, !.tid = r.tid,
                        !.sent = r.sent, !.controls = r.controls, !.ctx = FALSE]

\* publish of the verdict: a copy of the run, taken under its lock, and the
\* notification of the same outcome; then the deferred remove.
publish(i) ==
    LET kind == IF runs[i].failed THEN "error" ELSE "done"
    IN  /\ runs[i].st = "publish"
        /\ runs' = [runs EXCEPT ![i] = Gone(@)]
        /\ told' = [told EXCEPT ![i] = Append(@, [kind |-> kind, state |-> stateString(runs[i])])]
        /\ UNCHANGED <<store, next, completed, cb, shut, acts>>

-----------------------------------------------------------------------------
(***************************************************************************)
(* Shutdown, called once (shutdownOnce) by the tray's Quit or at the end   *)
(* of main.                                                                *)
(***************************************************************************)
Shutdown ==
    /\ shut.st = "no"
    /\ shut' = [shut EXCEPT !.st = IF Active = {} THEN "done" ELSE "cancelling", !.todo = Active]
    /\ UNCHANGED <<store, next, runs, completed, told, cb, acts>>

\* Fault: only the engine's Cancel, the context is left alone.
StoppedByControls(r) == IF r.controls THEN CancelBegins(r) ELSE r

\* r.canc, and the engine's Cancel when there is one.
Stopped(r) == IF r.controls THEN [CancelBegins(r) EXCEPT !.ctx = FALSE] ELSE [r EXCEPT !.ctx = FALSE]

ShutdownCancels(i) ==
    /\ i \in shut.todo /\ shut.at = 0
    /\ runs' = [runs EXCEPT ![i] = Stopped(@)]
    /\ shut' = [shut EXCEPT !.todo = @ \ {i}, !.at = i]
    /\ UNCHANGED <<store, next, completed, told, cb, acts>>

\* Cancel returned: the next run, or the wait.
ShutdownMoves ==
    /\ shut.at # 0 /\ ~runs[shut.at].aborting
    /\ shut' = [shut EXCEPT !.at = 0, !.st = IF shut.todo = {} THEN "waiting" ELSE @]
    /\ UNCHANGED <<store, next, runs, completed, told, cb, acts>>

\* No run is left, or the deadline has passed.
ShutdownReturns ==
    /\ shut.st = "waiting"
    /\ shut' = [shut EXCEPT !.st = "done"]
    /\ UNCHANGED <<store, next, runs, completed, told, cb, acts>>

-----------------------------------------------------------------------------
\* The steps of a run that nobody outside the process has to wait for.
RunSteps(i) ==
    \/ Dialed(i) \/ DialFails(i)
    \/ PrepareFresh(i) \/ PrepareReused(i) \/ PrepareFails(i)
    \/ Abort(i) \/ Returns(i) \/ publish(i)
    \/ ~runs[i].ctx /\ SessionFails(i)

Next ==
    \/ \E k \in Keys : Send(k)
    \/ Receive \/ ResumeInterrupted
    \/ \E S \in {{t} : t \in Tids} \cup {Tids} : DiscardInterrupted(S)
    \/ \E i \in Ids : \/ RunSteps(i) \/ SourcesFail(i) \/ SessionFails(i) \/ OnControls(i)
                       \/ OnSendManifest(i) \/ OnResumeCredential(i)
                       \/ EngineSucceeds(i) \/ EngineFails(i) \/ PeerCancels(i) \/ Cancel(i)
                       \/ ShutdownCancels(i)
                       \/ \E a \in Actors : onState(i, a) \/ \E p \in BOOLEAN : SetPaused(i, a, p)
    \/ Shutdown \/ ShutdownMoves \/ ShutdownReturns

Spec == Init /\ [][Next]_vars

\* Goroutines run, a dial and an engine end when their context does, and the
\* loop of Shutdown goes on.  Nobody promises that a peer joins.
FairSpec ==
    /\ Spec
    /\ \A i \in Ids : WF_vars(RunSteps(i))
    /\ WF_vars(ShutdownMoves \/ \E i \in Ids : ShutdownCancels(i))

-----------------------------------------------------------------------------
\* Whatever the calls of the user, the peer and Shutdown: a run that left the
\* registry without an answer to Send gave exactly one verdict before, the
\* verdict is done exactly when the engine succeeded, an error event says
\* "failed", and the destination that the done event of a receive offers to
\* reveal is on record (runSend, runReceive, runResumeReceive, fail,
\* stateString, recordCompleted).
OneVerdict ==
    \A i \in Ids :
        /\ Len(told[i]) <= 1
        /\ runs[i].st = "gone" /\ runs[i].controls => Len(told[i]) = 1
        /\ \A j \in DOMAIN told[i] :
             IF told[i][j].kind = "done"
             THEN /\ runs[i].eng = "ok" /\ told[i][j].state # "failed"
                  /\ runs[i].role = "receive" => i \in completed
             ELSE runs[i].eng # "ok" /\ told[i][j].state = "failed"

\* The credential of a record comes from the session that created the record,
\* though runs of the same paths share it (AttachResumeSecret, runSend).
CredentialOfCreator == \A t \in Tids : recs[t].cred \subseteq {t}

\* A send that has announced its id keeps its record, unless the user removed
\* it or a run of that id succeeded: a failure leaves the send resumable.
\* Verified success discards the record.  It stays only when that send minted
\* the id (here its own number), which runSend then does not know, or when
\* another send of the same id saves it too.
RecordUntilSuccess ==
    \A i \in Ids :
        /\ runs[i].sent # "no" /\ runs[i].tid \notin dropped => recs[runs[i].tid].there
        /\ told[i] # <<>> /\ runs[i].role = "send" /\ runs[i].eng = "ok" /\ recs[runs[i].tid].there =>
              runs[i].tid = i \/ \E j \in Ids \ {i} : runs[j].tid = runs[i].tid /\ runs[j].sent # "no"

\* A run that a Cancel reached, or that was registered when Shutdown began,
\* ends, wherever its goroutine was.
StopsWhenAsked == \A i \in Ids : (i \in shut.todo \/ runs[i].aborting) ~> runs[i].st = "gone"
=============================================================================
