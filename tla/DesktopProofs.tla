---------------------------- MODULE DesktopProofs ----------------------------
(***************************************************************************)
(* Proofs about Desktop, for every set of path sets and every number of    *)
(* transfers and acts.                                                     *)
(*                                                                         *)
(* The properties speak of runs that have ended and of records on disk;    *)
(* to carry them the invariant says what a run's goroutine has established *)
(* at each stage, and what the record it captured looked like.             *)
(***************************************************************************)
EXTENDS Desktop, TLAPS

KeyType == Keys \cup {NoRec.key}

RecType == [there : BOOLEAN, key : KeyType, cred : SUBSET Ids]

RunType ==
    [st : {"free", "dial", "prepare", "session", "engine", "publish", "gone"},
     role : {"send", "receive"}, key : KeyType, tid : Tids, reused : BOOLEAN, rec : RecType,
     ctx : BOOLEAN, controls : BOOLEAN, eng : {"off", "live", "ok", "err"},
     engPaused : BOOLEAN, sent : {"no", "saved", "yes"}, aborting : BOOLEAN,
     paused : BOOLEAN, canceled : BOOLEAN, failed : BOOLEAN]

Verdict == [kind : {"done", "error"}, state : {"failed", "canceled", "paused", "running"}]

TypeOK ==
    /\ next \in 0 .. MaxRuns
    /\ runs \in [Ids -> RunType]
    /\ recs \in [Tids -> RecType]
    /\ told \in [Ids -> Seq(Verdict)]
    /\ dropped \subseteq Tids

Fresh == \A i \in Ids : i > next => runs[i].st = "free"

Early == {"free", "dial", "prepare", "session"}

Over == {"publish", "gone"}

\* What a run has established where it stands.
StageOK(r) ==
    /\ r.st \in Early => r.eng = "off" /\ ~r.controls /\ ~r.failed /\ r.sent = "no"
    /\ r.st = "engine" => ~r.failed
    /\ r.st \in Over => r.eng # "live"
    /\ r.st = "publish" => (r.failed <=> r.eng # "ok")
    /\ r.reused => r.rec.there /\ r.rec.cred \subseteq {r.tid}

\* Without a record found, a run uses the id it mints.
OwnId(i) == runs[i].st \notin {"free", "gone"} /\ ~runs[i].reused => runs[i].tid = i

RunsOK == \A i \in Ids : StageOK(runs[i]) /\ OwnId(i)

VerdictOK(i) ==
    /\ runs[i].st # "gone" => told[i] = <<>>
    /\ Len(told[i]) <= 1
    /\ runs[i].st = "gone" /\ runs[i].controls => Len(told[i]) = 1
    /\ \A j \in DOMAIN told[i] :
         IF told[i][j].kind = "done"
         THEN /\ runs[i].eng = "ok" /\ told[i][j].state # "failed"
              /\ runs[i].role = "receive" => i \in completed
         ELSE runs[i].eng # "ok" /\ told[i][j].state = "failed"
    /\ runs[i].st = "publish" /\ runs[i].role = "receive" /\ runs[i].eng = "ok" => i \in completed

VerdictsOK == \A i \in Ids : VerdictOK(i)

\* A run that uses id t has announced it.
Announced(j, t) == runs[j].tid = t /\ runs[j].sent # "no"

RecordKept == \A i \in Ids : runs[i].sent # "no" /\ runs[i].tid \notin dropped => recs[runs[i].tid].there

\* The record of a send that is over and succeeded: of an id it minted, or of
\* another run too.
Excused(i) ==
    runs[i].st \in Over /\ runs[i].role = "send" /\ runs[i].eng = "ok" /\ recs[runs[i].tid].there =>
        runs[i].tid = i \/ \E j \in Ids \ {i} : Announced(j, runs[i].tid)

RecordGone == \A i \in Ids : Excused(i)

IInv == /\ TypeOK /\ Fresh /\ RunsOK /\ VerdictsOK /\ CredentialOfCreator
        /\ RecordKept /\ RecordGone

-----------------------------------------------------------------------------
\* A step of run i that touches no record, verdict or id it has announced.
Harmless(i, r) ==
    /\ r.st = "free" \/ runs[i].st # "free"
    /\ runs[i].st = "gone" => r.st = "gone" /\ r.controls = runs[i].controls
                              /\ r.eng = runs[i].eng /\ r.role = runs[i].role
    /\ r.st = "gone" /\ runs[i].st # "gone" => ~r.controls
    /\ r.st \in Over /\ r.eng = "ok" => /\ runs[i].st = r.st /\ runs[i].eng = "ok"
                                        /\ r.role = runs[i].role /\ r.tid = runs[i].tid
    /\ r.st \notin {"free", "gone"} /\ ~r.reused => r.tid = i
    /\ r.tid = runs[i].tid \/ runs[i].sent = "no"
    /\ r.sent = "no" <=> runs[i].sent = "no"

LEMMA OneRun ==
    ASSUME IInv, NEW i \in Ids, NEW r \in RunType, StageOK(r), Harmless(i, r),
           runs' = [runs EXCEPT ![i] = r], UNCHANGED <<next, recs, completed, told, dropped>>
    PROVE  IInv'
<1>0. runs \in [Ids -> RunType]
      BY DEF IInv, TypeOK
<1>1. runs' \in [Ids -> RunType] /\ runs'[i] = r /\ \A j \in Ids : j # i => runs'[j] = runs[j]
      BY <1>0
<1>2. TypeOK'
      BY <1>1 DEF IInv, TypeOK
<1>3. Fresh'
      BY <1>1 DEF IInv, Fresh, Harmless
<1>4. RunsOK'
  <2>1. OwnId(i)' /\ StageOK(r)
        BY <1>1 DEF OwnId, Harmless
  <2>2. ASSUME NEW j \in Ids, j # i PROVE OwnId(j)' /\ StageOK(runs[j])
        BY <1>1, <2>2 DEF IInv, RunsOK, OwnId
  <2> QED BY <1>1, <2>1, <2>2 DEF RunsOK
<1>5. VerdictsOK'
  <2>1. ASSUME NEW j \in Ids, j # i PROVE VerdictOK(j)'
    <3>1. VerdictOK(j) /\ runs'[j] = runs[j]
          BY <1>1, <2>1 DEF IInv, VerdictsOK
    <3> QED BY <3>1 DEF VerdictOK
  <2>2. VerdictOK(i)'
    <3>0. VerdictOK(i)
          BY DEF IInv, VerdictsOK
    <3>1. CASE runs[i].st = "gone"
      <4>1. r.st = "gone" /\ r.controls = runs[i].controls /\ r.eng = runs[i].eng /\ r.role = runs[i].role
            BY <3>1 DEF Harmless
      <4> QED BY <1>1, <3>0, <3>1, <4>1 DEF VerdictOK
    <3>2. CASE runs[i].st # "gone"
      <4>1. told[i] = <<>> /\ told' = told
            BY <3>0, <3>2 DEF VerdictOK
      <4>2. Len(told[i]) = 0 /\ DOMAIN told[i] = {}
            BY <4>1
      <4>3. r.st = "gone" => ~r.controls
            BY <3>2 DEF Harmless
      <4>4. r.st = "publish" /\ r.role = "receive" /\ r.eng = "ok" => i \in completed
            BY <3>0 DEF Harmless, VerdictOK, Over
      <4> QED BY <1>1, <4>1, <4>2, <4>3, <4>4 DEF VerdictOK
    <3> QED BY <3>1, <3>2
  <2> QED BY <2>1, <2>2 DEF VerdictsOK
<1>6. CredentialOfCreator'
      BY DEF IInv, CredentialOfCreator
<1>7. RecordKept'
      BY <1>1 DEF IInv, RecordKept, Harmless
<1>8. \A j \in Ids, t \in Tids : Announced(j, t) => Announced(j, t)'
      BY <1>1 DEF Announced, Harmless
<1>9. RecordGone'
  <2>1. ASSUME NEW j \in Ids PROVE Excused(j)'
    <3>1. SUFFICES ASSUME runs'[j].st \in Over, runs'[j].role = "send", runs'[j].eng = "ok",
                          recs[runs'[j].tid].there, runs'[j].tid # j
                   PROVE  \E k \in Ids \ {j} : Announced(k, runs[j].tid)'
          BY DEF Excused
    <3>2. runs[j].st \in Over /\ runs[j].role = "send" /\ runs[j].eng = "ok" /\ runs[j].tid = runs'[j].tid
          BY <1>1, <3>1 DEF Harmless
    <3>3. PICK k \in Ids \ {j} : Announced(k, runs[j].tid)
          BY <3>1, <3>2 DEF IInv, RecordGone, Excused
    <3>4. runs[j].tid \in Tids
          BY <1>0 DEF RunType
    <3> QED BY <1>8, <3>2, <3>3, <3>4 DEF Announced
  <2> QED BY <2>1 DEF RecordGone
<1> QED BY <1>2, <1>3, <1>4, <1>5, <1>6, <1>7, <1>9 DEF IInv

\* r is run s but for the flags no property looks at.
Alike(r, s) ==
    /\ r.st = s.st /\ r.role = s.role /\ r.tid = s.tid /\ r.reused = s.reused /\ r.rec = s.rec
    /\ r.controls = s.controls /\ r.eng = s.eng /\ r.sent = s.sent /\ r.failed = s.failed

LEMMA AlikeStep ==
    ASSUME IInv, NEW i \in Ids, NEW r \in RunType, Alike(r, runs[i]),
           runs' = [runs EXCEPT ![i] = r], UNCHANGED <<next, recs, completed, told, dropped>>
    PROVE  IInv'
<1>1. StageOK(runs[i]) /\ OwnId(i)
      BY DEF IInv, RunsOK
<1>2. StageOK(r)
      BY <1>1 DEF StageOK, Alike
<1>3. Harmless(i, r)
      BY <1>1 DEF Harmless, Alike, OwnId
<1> QED BY <1>2, <1>3, OneRun

\* The goroutine of a run that has no engine yet goes on, stays the owner of its
\* id or has found a record.
LEMMA EarlyStep ==
    ASSUME IInv, NEW i \in Ids, NEW r \in RunType,
           runs[i].st \in {"dial", "prepare", "session"}, r.st # "free",
           r.role = runs[i].role, r.sent = "no", r.eng # "ok", StageOK(r),
           r.st = "gone" => ~r.controls,
           r.reused \/ (r.reused = runs[i].reused /\ r.tid = runs[i].tid),
           runs' = [runs EXCEPT ![i] = r], UNCHANGED <<next, recs, completed, told, dropped>>
    PROVE  IInv'
<1>1. StageOK(runs[i]) /\ OwnId(i)
      BY DEF IInv, RunsOK
<1>2. runs[i].sent = "no" /\ runs[i].st \notin {"free", "gone"}
      BY <1>1 DEF StageOK, Early
<1>3. Harmless(i, r)
      BY <1>1, <1>2 DEF Harmless, OwnId
<1> QED BY <1>3, OneRun

\* The live engine of a run ends, the run stands in transfer.Run.
LEMMA EngineStep ==
    ASSUME IInv, NEW i \in Ids, NEW r \in RunType, runs[i].eng = "live",
           r.eng # "off", r.st = runs[i].st, r.role = runs[i].role, r.tid = runs[i].tid,
           r.reused = runs[i].reused, r.rec = runs[i].rec, r.failed = runs[i].failed,
           r.controls = runs[i].controls, r.sent = runs[i].sent,
           runs' = [runs EXCEPT ![i] = r], UNCHANGED <<next, recs, completed, told, dropped>>
    PROVE  IInv'
<1>0. runs[i] \in RunType
      BY DEF IInv, TypeOK
<1>1. StageOK(runs[i]) /\ OwnId(i)
      BY DEF IInv, RunsOK
<1>2. runs[i].st = "engine"
      BY <1>0, <1>1 DEF StageOK, Early, Over, RunType
<1>3. StageOK(r)
      BY <1>1, <1>2 DEF StageOK, Early, Over
<1>4. Harmless(i, r)
      BY <1>1, <1>2 DEF Harmless, OwnId, Over
<1> QED BY <1>3, <1>4, OneRun

\* The variables of the invariant stay.
LEMMA Unconcerned ==
    ASSUME IInv, UNCHANGED <<next, runs, recs, completed, told, dropped>>
    PROVE  IInv'
<1>1. TypeOK' /\ Fresh' /\ CredentialOfCreator' /\ RecordKept'
      BY DEF IInv, TypeOK, Fresh, CredentialOfCreator, RecordKept
<1>2. RunsOK'
      BY DEF IInv, RunsOK, OwnId
<1>3. VerdictsOK'
      BY DEF IInv, VerdictsOK, VerdictOK
<1>4. RecordGone'
      BY DEF IInv, RecordGone, Excused, Announced
<1> QED BY <1>1, <1>2, <1>3, <1>4 DEF IInv

-----------------------------------------------------------------------------
\* One lemma per action, grouped by what they change.

LEMMA SetPausedIInv ==
    ASSUME IInv, NEW i \in Ids, NEW a \in Actors, NEW p \in BOOLEAN, SetPaused(i, a, p)
    PROVE  IInv'
<1> DEFINE r == [runs[i] EXCEPT !.engPaused = p]
<1>0. runs[i] \in RunType
      BY DEF IInv, TypeOK
<1>1. r \in RunType /\ Alike(r, runs[i])
      BY <1>0 DEF RunType, Alike
<1>2. runs' = [runs EXCEPT ![i] = r] /\ UNCHANGED <<next, recs, completed, told, dropped>>
      BY DEF SetPaused, store
<1> HIDE DEF r
<1> QED BY <1>1, <1>2, AlikeStep

LEMMA onStateIInv ==
    ASSUME IInv, NEW i \in Ids, NEW a \in Actors, onState(i, a) PROVE IInv'
<1> DEFINE p == cb[i][a] = "paused" /\ i \in Active
           r == [runs[i] EXCEPT !.paused = p]
<1>0. runs[i] \in RunType /\ p \in BOOLEAN
      BY DEF IInv, TypeOK
<1>2. runs' = [runs EXCEPT ![i] = r] /\ UNCHANGED <<next, recs, completed, told, dropped>>
      BY DEF onState, store
<1> HIDE DEF p
<1>1. r \in RunType /\ Alike(r, runs[i])
      BY <1>0 DEF RunType, Alike
<1> HIDE DEF r
<1> QED BY <1>1, <1>2, AlikeStep

LEMMA CancelBeginsAlike ==
    ASSUME NEW s \in RunType PROVE CancelBegins(s) \in RunType /\ Alike(CancelBegins(s), s)
<1> DEFINE x == s.canceled \/ s.role # "send"
           r == [s EXCEPT !.aborting = TRUE, !.canceled = x]
<1>1. x \in BOOLEAN
      OBVIOUS
<1>2. CancelBegins(s) = IF s.eng # "live" THEN s ELSE r
      BY DEF CancelBegins, RunType
<1> HIDE DEF x
<1>3. r \in RunType /\ Alike(r, s)
      BY <1>1 DEF RunType, Alike
<1> HIDE DEF r
<1> QED BY <1>2, <1>3 DEF Alike

LEMMA CancelIInv == ASSUME IInv, NEW i \in Ids, Cancel(i) PROVE IInv'
<1> DEFINE r == CancelBegins(runs[i])
<1>0. runs[i] \in RunType
      BY DEF IInv, TypeOK
<1>1. r \in RunType /\ Alike(r, runs[i])
      BY <1>0, CancelBeginsAlike
<1>2. runs' = [runs EXCEPT ![i] = r] /\ UNCHANGED <<next, recs, completed, told, dropped>>
      BY DEF Cancel, store
<1> HIDE DEF r
<1> QED BY <1>1, <1>2, AlikeStep

LEMMA ShutdownCancelsIInv == ASSUME IInv, NEW i \in Ids, ShutdownCancels(i) PROVE IInv'
<1> DEFINE c == CancelBegins(runs[i])
           r == Stopped(runs[i])
<1>0. runs[i] \in RunType
      BY DEF IInv, TypeOK
<1>1. c \in RunType /\ Alike(c, runs[i])
      BY <1>0, CancelBeginsAlike
<1>2. /\ [c EXCEPT !.ctx = FALSE] \in RunType /\ Alike([c EXCEPT !.ctx = FALSE], runs[i])
      /\ [runs[i] EXCEPT !.ctx = FALSE] \in RunType /\ Alike([runs[i] EXCEPT !.ctx = FALSE], runs[i])
  <2> HIDE DEF c
  <2> QED BY <1>0, <1>1 DEF RunType, Alike
<1>3. r = [c EXCEPT !.ctx = FALSE] \/ r = [runs[i] EXCEPT !.ctx = FALSE]
      BY DEF Stopped
<1>4. runs' = [runs EXCEPT ![i] = r] /\ UNCHANGED <<next, recs, completed, told, dropped>>
      BY DEF ShutdownCancels, store
<1> HIDE DEF c, r
<1> QED BY <1>2, <1>3, <1>4, AlikeStep

\* The record r of a run that moves to stage st, failed or not.
LEMMA StageFields ==
    ASSUME NEW i \in Ids, runs[i] \in RunType
    PROVE  /\ \A st \in {"prepare", "session", "engine", "publish", "gone"} :
                /\ To(i, st) \in RunType /\ To(i, st).st = st /\ To(i, st).role = runs[i].role
                /\ To(i, st).tid = runs[i].tid /\ To(i, st).reused = runs[i].reused
                /\ To(i, st).rec = runs[i].rec /\ To(i, st).controls = runs[i].controls
                /\ To(i, st).eng = runs[i].eng /\ To(i, st).sent = runs[i].sent
                /\ To(i, st).failed = runs[i].failed
           /\ Fails(i) \in RunType /\ Fails(i).st = "publish" /\ Fails(i).role = runs[i].role
           /\ Fails(i).tid = runs[i].tid /\ Fails(i).reused = runs[i].reused
           /\ Fails(i).rec = runs[i].rec /\ Fails(i).controls = runs[i].controls
           /\ Fails(i).eng = runs[i].eng /\ Fails(i).sent = runs[i].sent /\ Fails(i).failed
<1>1. ASSUME NEW st \in {"prepare", "session", "engine", "publish", "gone"}
      PROVE  /\ To(i, st) \in RunType /\ To(i, st).st = st /\ To(i, st).role = runs[i].role
             /\ To(i, st).tid = runs[i].tid /\ To(i, st).reused = runs[i].reused
             /\ To(i, st).rec = runs[i].rec /\ To(i, st).controls = runs[i].controls
             /\ To(i, st).eng = runs[i].eng /\ To(i, st).sent = runs[i].sent
             /\ To(i, st).failed = runs[i].failed
      BY DEF To, RunType
<1>2. /\ Fails(i) \in RunType /\ Fails(i).st = "publish" /\ Fails(i).role = runs[i].role
      /\ Fails(i).tid = runs[i].tid /\ Fails(i).reused = runs[i].reused
      /\ Fails(i).rec = runs[i].rec /\ Fails(i).controls = runs[i].controls
      /\ Fails(i).eng = runs[i].eng /\ Fails(i).sent = runs[i].sent /\ Fails(i).failed
      BY DEF Fails, RunType
<1> QED BY <1>1, <1>2

\* What an early run has: no engine, nothing announced.
LEMMA EarlyFacts ==
    ASSUME IInv, NEW i \in Ids
    PROVE  /\ runs[i] \in RunType /\ StageOK(runs[i])
           /\ runs[i].st \in Early => /\ runs[i].eng = "off" /\ runs[i].sent = "no"
                                      /\ ~runs[i].controls /\ ~runs[i].failed
BY DEF IInv, TypeOK, RunsOK, StageOK

LEMMA GoesUnchanged ==
    ASSUME NEW i \in Ids, NEW from, NEW r, Goes(i, from, r)
    PROVE  /\ runs[i].st = from /\ runs' = [runs EXCEPT ![i] = r]
           /\ UNCHANGED <<next, recs, completed, told, dropped>>
BY DEF Goes, store, rest

\* Ends of a run without an engine, and its plain moves.
LEMMA EarlyEndIInv ==
    ASSUME IInv, NEW i \in Ids, DialFails(i) \/ PrepareFails(i) \/ SessionFails(i)
    PROVE  IInv'
<1> DEFINE r == Fails(i)
<1>1. /\ runs[i].st \in {"dial", "prepare", "session"} /\ runs' = [runs EXCEPT ![i] = r]
      /\ UNCHANGED <<next, recs, completed, told, dropped>>
      BY GoesUnchanged DEF DialFails, PrepareFails, SessionFails
<1>2. runs[i] \in RunType /\ StageOK(runs[i]) /\ runs[i].eng = "off" /\ runs[i].sent = "no"
      BY <1>1, EarlyFacts DEF Early
<1>3. /\ r \in RunType /\ r.st = "publish" /\ r.role = runs[i].role
      /\ r.tid = runs[i].tid /\ r.reused = runs[i].reused /\ r.rec = runs[i].rec
      /\ r.eng = runs[i].eng /\ r.sent = runs[i].sent /\ r.failed
      BY <1>2, StageFields
<1> HIDE DEF r
<1>4. StageOK(r)
      BY <1>2, <1>3 DEF StageOK, Early, Over
<1> QED BY <1>1, <1>2, <1>3, <1>4, EarlyStep

LEMMA EarlyMoveIInv ==
    ASSUME IInv, NEW i \in Ids, Dialed(i) \/ PrepareFresh(i) PROVE IInv'
<1> DEFINE s == IF runs[i].st = "dial" /\ runs[i].role = "send" THEN "prepare" ELSE "session"
           r == To(i, s)
<1>1. /\ runs[i].st \in {"dial", "prepare"} /\ runs' = [runs EXCEPT ![i] = r]
      /\ UNCHANGED <<next, recs, completed, told, dropped>>
      BY GoesUnchanged DEF Dialed, PrepareFresh
<1>2. /\ runs[i] \in RunType /\ StageOK(runs[i]) /\ runs[i].eng = "off" /\ runs[i].sent = "no"
      /\ ~runs[i].controls /\ ~runs[i].failed
      BY <1>1, EarlyFacts DEF Early
<1>s. s \in {"prepare", "session"}
      OBVIOUS
<1> HIDE DEF s
<1>3. /\ r \in RunType /\ r.st = s /\ r.role = runs[i].role
      /\ r.tid = runs[i].tid /\ r.reused = runs[i].reused /\ r.rec = runs[i].rec
      /\ r.controls = runs[i].controls
      /\ r.eng = runs[i].eng /\ r.sent = runs[i].sent /\ r.failed = runs[i].failed
      BY <1>2, <1>s, StageFields
<1> HIDE DEF r
<1>4. StageOK(r)
      BY <1>2, <1>3, <1>s DEF StageOK, Early, Over
<1> QED BY <1>1, <1>2, <1>3, <1>4, <1>s, EarlyStep

LEMMA SourcesFailIInv == ASSUME IInv, NEW i \in Ids, SourcesFail(i) PROVE IInv'
<1> DEFINE g == To(i, "gone")
           r == [g EXCEPT !.ctx = FALSE]
<1>1. /\ runs[i].st = "dial" /\ runs' = [runs EXCEPT ![i] = r]
      /\ UNCHANGED <<next, recs, completed, told, dropped>>
      BY GoesUnchanged DEF SourcesFail
<1>2. /\ runs[i] \in RunType /\ StageOK(runs[i]) /\ runs[i].eng = "off" /\ runs[i].sent = "no"
      /\ ~runs[i].controls
      BY <1>1, EarlyFacts DEF Early
<1>3. /\ g \in RunType /\ g.st = "gone" /\ g.role = runs[i].role
      /\ g.tid = runs[i].tid /\ g.reused = runs[i].reused /\ g.rec = runs[i].rec
      /\ g.controls = runs[i].controls /\ g.eng = runs[i].eng /\ g.sent = runs[i].sent
      BY <1>2, StageFields
<1> HIDE DEF g
<1>4. r \in RunType /\ Alike(r, g)
      BY <1>3 DEF RunType, Alike
<1> HIDE DEF r
<1>5. StageOK(r)
      BY <1>2, <1>3, <1>4 DEF StageOK, Early, Over, Alike
<1> QED BY <1>1, <1>2, <1>3, <1>4, <1>5, EarlyStep DEF Alike

LEMMA PrepareReusedIInv == ASSUME IInv, NEW i \in Ids, PrepareReused(i) PROVE IInv'
<1>0. PICK t \in Found(runs[i].key) :
         Goes(i, "prepare", [To(i, "session") EXCEPT !.tid = t, !.reused = TRUE, !.rec = recs[t]])
      BY DEF PrepareReused
<1> DEFINE g == To(i, "session")
           r == [g EXCEPT !.tid = t, !.reused = TRUE, !.rec = recs[t]]
<1>1. /\ runs[i].st = "prepare" /\ runs' = [runs EXCEPT ![i] = r]
      /\ UNCHANGED <<next, recs, completed, told, dropped>>
      BY <1>0, GoesUnchanged
<1>2. /\ runs[i] \in RunType /\ runs[i].eng = "off" /\ runs[i].sent = "no"
      /\ ~runs[i].controls /\ ~runs[i].failed
      BY <1>1, EarlyFacts DEF Early
<1>3. t \in Tids /\ recs[t] \in RecType /\ recs[t].there /\ recs[t].cred \subseteq {t}
      BY <1>0 DEF Found, IInv, TypeOK, CredentialOfCreator
<1>4. /\ g \in RunType /\ g.st = "session" /\ g.role = runs[i].role
      /\ g.controls = runs[i].controls /\ g.eng = runs[i].eng /\ g.sent = runs[i].sent
      /\ g.failed = runs[i].failed
      BY <1>2, StageFields
<1> HIDE DEF g
<1>5. /\ r \in RunType /\ r.st = g.st /\ r.role = g.role /\ r.tid = t /\ r.reused /\ r.rec = recs[t]
      /\ r.controls = g.controls /\ r.eng = g.eng /\ r.sent = g.sent /\ r.failed = g.failed
      BY <1>3, <1>4 DEF RunType
<1> HIDE DEF r
<1>6. StageOK(r)
      BY <1>2, <1>3, <1>4, <1>5 DEF StageOK, Early, Over
<1> QED BY <1>1, <1>2, <1>4, <1>5, <1>6, EarlyStep

LEMMA OnControlsIInv == ASSUME IInv, NEW i \in Ids, OnControls(i) PROVE IInv'
<1> DEFINE g == To(i, "engine")
           r == [g EXCEPT !.eng = "live", !.controls = TRUE]
<1>1. /\ runs[i].st = "session" /\ runs' = [runs EXCEPT ![i] = r]
      /\ UNCHANGED <<next, recs, completed, told, dropped>>
      BY GoesUnchanged DEF OnControls
<1>2. /\ runs[i] \in RunType /\ StageOK(runs[i]) /\ runs[i].sent = "no" /\ ~runs[i].failed
      BY <1>1, EarlyFacts DEF Early
<1>3. /\ g \in RunType /\ g.st = "engine" /\ g.role = runs[i].role
      /\ g.tid = runs[i].tid /\ g.reused = runs[i].reused /\ g.rec = runs[i].rec
      /\ g.sent = runs[i].sent /\ g.failed = runs[i].failed
      BY <1>2, StageFields
<1> HIDE DEF g
<1>4. /\ r \in RunType /\ r.st = g.st /\ r.role = g.role /\ r.tid = g.tid /\ r.reused = g.reused
      /\ r.rec = g.rec /\ r.eng = "live" /\ r.sent = g.sent /\ r.failed = g.failed
      BY <1>3 DEF RunType
<1> HIDE DEF r
<1>5. StageOK(r)
      BY <1>2, <1>3, <1>4 DEF StageOK, Early, Over
<1> QED BY <1>1, <1>2, <1>3, <1>4, <1>5, EarlyStep

\* The engine of a run ends, by itself or by the peer's Cancel.
LEMMA EngineEndsIInv ==
    ASSUME IInv, NEW i \in Ids, EngineSucceeds(i) \/ EngineFails(i) PROVE IInv'
<1>0. runs[i] \in RunType
      BY EarlyFacts
<1>1. PICK e \in {"ok", "err"} : runs' = [runs EXCEPT ![i].eng = e]
      BY DEF EngineSucceeds, EngineFails
<1> DEFINE r == [runs[i] EXCEPT !.eng = e]
<1>2. /\ runs[i].eng = "live" /\ runs' = [runs EXCEPT ![i] = r]
      /\ UNCHANGED <<next, recs, completed, told, dropped>>
      BY <1>1 DEF EngineSucceeds, EngineFails, store, rest
<1>3. /\ r \in RunType /\ r.eng = e /\ r.st = runs[i].st /\ r.role = runs[i].role
      /\ r.tid = runs[i].tid /\ r.reused = runs[i].reused /\ r.rec = runs[i].rec
      /\ r.failed = runs[i].failed /\ r.controls = runs[i].controls /\ r.sent = runs[i].sent
      BY <1>0 DEF RunType
<1> HIDE DEF r
<1> QED BY <1>2, <1>3, EngineStep

LEMMA PeerCancelsIInv == ASSUME IInv, NEW i \in Ids, PeerCancels(i) PROVE IInv'
<1>0. runs[i] \in RunType
      BY EarlyFacts
<1> DEFINE r == [runs[i] EXCEPT !.canceled = TRUE, !.eng = "err"]
<1>1. runs \in [Ids -> RunType]
      BY DEF IInv, TypeOK
<1>2. /\ runs[i].eng = "live" /\ runs' = [runs EXCEPT ![i] = r]
      /\ UNCHANGED <<next, recs, completed, told, dropped>>
      BY <1>0, <1>1 DEF PeerCancels, store
<1>3. /\ r \in RunType /\ r.eng = "err" /\ r.st = runs[i].st /\ r.role = runs[i].role
      /\ r.tid = runs[i].tid /\ r.reused = runs[i].reused /\ r.rec = runs[i].rec
      /\ r.failed = runs[i].failed /\ r.controls = runs[i].controls /\ r.sent = runs[i].sent
      BY <1>0 DEF RunType
<1> HIDE DEF r
<1> QED BY <1>2, <1>3, EngineStep

\* Cancel's last step ends a live engine, and finds a settled one otherwise.
LEMMA AbortIInv == ASSUME IInv, NEW i \in Ids, Abort(i) PROVE IInv'
<1>0. runs[i] \in RunType
      BY EarlyFacts
<1> DEFINE e == IF runs[i].eng = "live" THEN "err" ELSE runs[i].eng
           r == [runs[i] EXCEPT !.eng = e, !.aborting = FALSE]
<1>1. runs \in [Ids -> RunType]
      BY DEF IInv, TypeOK
<1>2. runs' = [runs EXCEPT ![i] = r] /\ UNCHANGED <<next, recs, completed, told, dropped>>
      BY <1>0, <1>1 DEF Abort, store, rest
<1>e. /\ e \in {"off", "ok", "err"}
      /\ runs[i].eng # "live" => e = runs[i].eng
      /\ runs[i].eng = "live" => e = "err"
      BY <1>0 DEF RunType
<1> HIDE DEF e
<1>3. /\ r \in RunType /\ r.eng = e /\ r.st = runs[i].st /\ r.role = runs[i].role
      /\ r.tid = runs[i].tid /\ r.reused = runs[i].reused /\ r.rec = runs[i].rec
      /\ r.failed = runs[i].failed /\ r.controls = runs[i].controls /\ r.sent = runs[i].sent
      BY <1>0, <1>e DEF RunType
<1> HIDE DEF r
<1>4. CASE runs[i].eng = "live"
      BY <1>2, <1>3, <1>4, <1>e, EngineStep
<1>5. CASE runs[i].eng # "live"
  <2>1. Alike(r, runs[i])
        BY <1>3, <1>5, <1>e DEF Alike
  <2> QED BY <1>2, <1>3, <2>1, AlikeStep
<1> QED BY <1>4, <1>5

-----------------------------------------------------------------------------
(***************************************************************************)
(* The steps that touch the records.                                       *)
(***************************************************************************)

\* What follows of a run from the record it has captured.
LEMMA SavedFacts ==
    ASSUME IInv, NEW i \in Ids, runs[i].eng = "live"
    PROVE  /\ Saved(runs[i]) \in RecType /\ Saved(runs[i]).there
           /\ Saved(runs[i]).cred \subseteq {runs[i].tid}
           /\ runs[i].st = "engine" /\ runs[i].tid \in Tids
<1>0. runs[i] \in RunType /\ StageOK(runs[i])
      BY EarlyFacts
<1>1. runs[i].st = "engine" /\ runs[i].tid \in Tids
      BY <1>0 DEF StageOK, Early, Over, RunType
<1>2. CASE runs[i].reused
  <2>1. Saved(runs[i]) = runs[i].rec
        BY <1>2 DEF Saved
  <2> QED BY <1>0, <1>1, <1>2, <2>1 DEF StageOK, RunType
<1>3. CASE ~runs[i].reused
  <2>1. Saved(runs[i]) = [there |-> TRUE, key |-> runs[i].key, cred |-> {}]
        BY <1>3 DEF Saved, Rec
  <2> QED BY <1>0, <1>1, <2>1 DEF RecType, RunType
<1> QED BY <1>2, <1>3

LEMMA OnSendManifestIInv == ASSUME IInv, NEW i \in Ids, OnSendManifest(i) PROVE IInv'
<1>0. runs \in [Ids -> RunType] /\ runs[i] \in RunType /\ recs \in [Tids -> RecType] /\ StageOK(runs[i])
      BY EarlyFacts DEF IInv, TypeOK
<1> DEFINE r == [runs[i] EXCEPT !.sent = "saved"]
<1>1. PICK t, s : t = runs[i].tid /\ s = Saved(runs[i])
      OBVIOUS
<1>2. /\ s \in RecType /\ s.there /\ s.cred \subseteq {t} /\ runs[i].st = "engine" /\ t \in Tids
      /\ runs[i].eng = "live"
      BY <1>1, SavedFacts DEF OnSendManifest
<1>3. /\ runs' = [runs EXCEPT ![i] = r] /\ recs' = [recs EXCEPT ![t] = s] /\ dropped' = dropped \ {t}
      /\ UNCHANGED <<next, completed, told>> /\ runs[i].sent = "no"
      BY <1>1 DEF OnSendManifest, rest
<1>4. /\ r \in RunType /\ r.eng = "live" /\ r.st = "engine" /\ r.role = runs[i].role
      /\ r.tid = t /\ r.reused = runs[i].reused /\ r.rec = runs[i].rec
      /\ r.failed = runs[i].failed /\ r.controls = runs[i].controls /\ r.sent = "saved"
      BY <1>0, <1>1, <1>2 DEF RunType
<1> HIDE DEF r
<1>5. /\ runs' \in [Ids -> RunType] /\ runs'[i] = r /\ \A j \in Ids : j # i => runs'[j] = runs[j]
      /\ recs' \in [Tids -> RecType] /\ recs'[t] = s /\ \A u \in Tids : u # t => recs'[u] = recs[u]
      BY <1>0, <1>2, <1>3, <1>4
<1>6. TypeOK' /\ Fresh' /\ CredentialOfCreator'
      BY <1>2, <1>3, <1>4, <1>5 DEF IInv, TypeOK, Fresh, CredentialOfCreator
<1>7. RunsOK'
  <2>1. ASSUME NEW j \in Ids PROVE StageOK(runs'[j]) /\ OwnId(j)'
    <3>1. CASE j = i
      <4>1. StageOK(r)
            BY <1>0, <1>1, <1>2, <1>4 DEF StageOK, Early, Over
      <4>2. OwnId(i)
            BY DEF IInv, RunsOK
      <4> QED BY <1>1, <1>2, <1>4, <1>5, <3>1, <4>1, <4>2 DEF OwnId
    <3>2. CASE j # i
          BY <1>5, <3>2 DEF IInv, RunsOK, OwnId
    <3> QED BY <3>1, <3>2
  <2> QED BY <2>1 DEF RunsOK
<1>8. VerdictsOK'
  <2>1. ASSUME NEW j \in Ids PROVE VerdictOK(j)'
    <3>1. VerdictOK(j)
          BY DEF IInv, VerdictsOK
    <3>2. /\ runs'[j].st = runs[j].st /\ runs'[j].controls = runs[j].controls
          /\ runs'[j].eng = runs[j].eng /\ runs'[j].role = runs[j].role
          BY <1>2, <1>4, <1>5
    <3> QED BY <1>3, <3>1, <3>2 DEF VerdictOK
  <2> QED BY <2>1 DEF VerdictsOK
<1>9. RecordKept'
  <2>1. ASSUME NEW j \in Ids, runs'[j].sent # "no", runs'[j].tid \notin dropped'
        PROVE  recs'[runs'[j].tid].there
    <3>1. runs'[j].tid \in Tids
          BY <1>5 DEF RunType
    <3>2. CASE runs'[j].tid = t
          BY <1>2, <1>5, <3>2
    <3>3. CASE runs'[j].tid # t
      <4>1. j # i /\ runs'[j] = runs[j] /\ runs[j].tid \notin dropped
            BY <1>3, <1>4, <1>5, <2>1, <3>3
      <4> QED BY <1>5, <2>1, <3>1, <3>3, <4>1 DEF IInv, RecordKept
    <3> QED BY <3>2, <3>3
  <2> QED BY <2>1 DEF RecordKept
<1>10. RecordGone'
  <2>1. ASSUME NEW j \in Ids, runs'[j].st \in Over, runs'[j].role = "send", runs'[j].eng = "ok",
               recs'[runs'[j].tid].there, runs'[j].tid # j
        PROVE  \E k \in Ids \ {j} : runs'[k].tid = runs'[j].tid /\ runs'[k].sent # "no"
    <3>1. j # i /\ runs'[j] = runs[j] /\ runs[j].tid \in Tids
          BY <1>0, <1>4, <1>5, <2>1 DEF RunType
    <3>2. CASE runs[j].tid = t
          BY <1>4, <1>5, <3>1, <3>2
    <3>3. CASE runs[j].tid # t
      <4>1. PICK k \in Ids \ {j} : runs[k].tid = runs[j].tid /\ runs[k].sent # "no"
            BY <1>5, <2>1, <3>1, <3>3 DEF IInv, RecordGone, Excused, Announced
      <4>2. k # i
            BY <1>3, <4>1
      <4> QED BY <1>5, <3>1, <4>1, <4>2
    <3> QED BY <3>2, <3>3
  <2> QED BY <2>1 DEF RecordGone, Excused, Announced
<1> QED BY <1>6, <1>7, <1>8, <1>9, <1>10 DEF IInv

\* r is run s for the properties: the manifest's hooks may be one further.
Same(r, s) ==
    /\ r.st = s.st /\ r.role = s.role /\ r.tid = s.tid /\ r.reused = s.reused /\ r.rec = s.rec
    /\ r.controls = s.controls /\ r.eng = s.eng /\ r.failed = s.failed
    /\ r.sent = "no" <=> s.sent = "no"

\* Records may change and go, those that go are counted as dropped.
LEMMA RecordsStep ==
    ASSUME IInv, runs' \in [Ids -> RunType], \A j \in Ids : Same(runs'[j], runs[j]),
           recs' \in [Tids -> RecType], dropped \subseteq dropped', dropped' \subseteq Tids,
           \A t \in Tids : /\ recs'[t].cred \subseteq {t}
                           /\ recs'[t].there => recs[t].there
                           /\ recs[t].there => recs'[t].there \/ t \in dropped',
           UNCHANGED <<next, completed, told>>
    PROVE  IInv'
<1>0. \A j \in Ids : runs[j].tid \in Tids
      BY DEF IInv, TypeOK, RunType
<1>1. TypeOK' /\ CredentialOfCreator'
      BY DEF IInv, TypeOK, CredentialOfCreator
<1>2. Fresh'
      BY DEF IInv, Fresh, Same
<1>3. RunsOK'
  <2>1. ASSUME NEW j \in Ids PROVE StageOK(runs'[j]) /\ OwnId(j)'
    <3>1. StageOK(runs[j]) /\ OwnId(j) /\ Same(runs'[j], runs[j])
          BY DEF IInv, RunsOK
    <3>2. StageOK(runs'[j])
          BY <3>1 DEF StageOK, Same
    <3>3. OwnId(j)'
          BY <3>1 DEF OwnId, Same
    <3> QED BY <3>2, <3>3
  <2> QED BY <2>1 DEF RunsOK
<1>4. VerdictsOK'
  <2>1. ASSUME NEW j \in Ids PROVE VerdictOK(j)'
    <3>1. VerdictOK(j) /\ Same(runs'[j], runs[j])
          BY DEF IInv, VerdictsOK
    <3>2. /\ runs'[j].st = runs[j].st /\ runs'[j].controls = runs[j].controls
          /\ runs'[j].eng = runs[j].eng /\ runs'[j].role = runs[j].role
          BY <3>1 DEF Same
    <3> QED BY <3>1, <3>2 DEF VerdictOK
  <2> QED BY <2>1 DEF VerdictsOK
<1>5. RecordKept'
      BY <1>0 DEF IInv, RecordKept, Same
<1>6. RecordGone'
      BY <1>0 DEF IInv, RecordGone, Excused, Announced, Same
<1> QED BY <1>1, <1>2, <1>3, <1>4, <1>5, <1>6 DEF IInv

LEMMA OnResumeCredentialIInv == ASSUME IInv, NEW i \in Ids, OnResumeCredential(i) PROVE IInv'
<1>0. /\ runs \in [Ids -> RunType] /\ runs[i] \in RunType /\ recs \in [Tids -> RecType]
      /\ StageOK(runs[i]) /\ OwnId(i)
      BY EarlyFacts DEF IInv, TypeOK, RunsOK
<1>1. PICK t : t = runs[i].tid
      OBVIOUS
<1>2. /\ runs[i].st = "engine" /\ t \in Tids /\ runs[i].eng = "live" /\ runs[i].sent = "saved"
      /\ UNCHANGED <<next, completed, told, dropped>>
      BY <1>1, SavedFacts DEF OnResumeCredential, rest
<1>3. CASE ~recs[t].there
  <2> DEFINE r == [runs[i] EXCEPT !.sent = "saved", !.eng = "err"]
  <2>1. runs' = [runs EXCEPT ![i] = r] /\ recs' = recs
        BY <1>0, <1>1, <1>2, <1>3 DEF OnResumeCredential
  <2>2. /\ r \in RunType /\ r.eng = "err" /\ r.st = runs[i].st /\ r.role = runs[i].role
        /\ r.tid = runs[i].tid /\ r.reused = runs[i].reused /\ r.rec = runs[i].rec
        /\ r.failed = runs[i].failed /\ r.controls = runs[i].controls /\ r.sent = runs[i].sent
        BY <1>0, <1>2 DEF RunType
  <2> HIDE DEF r
  <2> QED BY <1>2, <2>1, <2>2, EngineStep
<1>4. CASE recs[t].there
  <2> DEFINE r == [runs[i] EXCEPT !.sent = "yes", !.eng = "live"]
  <2>1. PICK s : s = Attached(i, recs[t])
        OBVIOUS
  <2>2. runs' = [runs EXCEPT ![i] = r] /\ recs' = [recs EXCEPT ![t] = s]
        BY <1>0, <1>1, <1>2, <1>4, <2>1 DEF OnResumeCredential
  <2>3. r \in RunType /\ Same(r, runs[i])
        BY <1>0, <1>2 DEF RunType, Same
  <2>4. recs[t] \in RecType /\ recs[t].cred \subseteq {t}
        BY <1>0, <1>2 DEF IInv, CredentialOfCreator
  <2>5. s \in RecType /\ s.there /\ s.cred \subseteq {t}
    <3>1. CASE runs[i].reused \/ recs[t].cred # {}
          BY <1>4, <2>1, <2>4, <3>1 DEF Attached
    <3>2. CASE ~(runs[i].reused \/ recs[t].cred # {})
      <4>1. s = [recs[t] EXCEPT !.cred = {i}]
            BY <2>1, <3>2 DEF Attached
      <4>2. t = i
            BY <1>0, <1>1, <1>2, <3>2 DEF OwnId
      <4> QED BY <1>4, <2>4, <4>1, <4>2 DEF RecType
    <3> QED BY <3>1, <3>2
  <2> HIDE DEF r
  <2>6. /\ runs' \in [Ids -> RunType] /\ runs'[i] = r /\ \A j \in Ids : j # i => runs'[j] = runs[j]
        /\ recs' \in [Tids -> RecType] /\ recs'[t] = s /\ \A u \in Tids : u # t => recs'[u] = recs[u]
        BY <1>0, <1>2, <2>2, <2>3, <2>5
  <2>7. \A j \in Ids : Same(runs'[j], runs[j])
        BY <2>3, <2>6 DEF Same
  <2>8. dropped \subseteq dropped' /\ dropped' \subseteq Tids
        BY <1>2 DEF IInv, TypeOK
  <2>9. \A u \in Tids : /\ recs'[u].cred \subseteq {u}
                        /\ recs'[u].there => recs[u].there
                        /\ recs[u].there => recs'[u].there \/ u \in dropped'
        BY <1>4, <2>5, <2>6 DEF IInv, CredentialOfCreator
  <2> QED BY <1>2, <2>6, <2>7, <2>8, <2>9, RecordsStep
<1> QED BY <1>3, <1>4

\* The empty place of a record, and of a run.
LEMMA Empty ==
    /\ NoRec \in RecType /\ ~NoRec.there /\ NoRec.cred = {}
    /\ Free \in RunType /\ Free.st = "free" /\ Free.eng = "off" /\ ~Free.controls /\ ~Free.failed
    /\ Free.sent = "no" /\ ~Free.reused
<1>1. NoRec.key \in KeyType
      BY DEF KeyType
<1>2. PICK k \in KeyType : k = NoRec.key
      BY <1>1
<1>3. NoRec = [there |-> FALSE, key |-> k, cred |-> {}]
      BY <1>2 DEF NoRec
<1>4. NoRec \in RecType /\ ~NoRec.there /\ NoRec.cred = {}
      BY <1>3 DEF RecType
<1>5. 0 \in Tids
      BY DesktopAssumption DEF Tids
<1>6. PICK z \in Tids, n \in RecType : z = 0 /\ n = NoRec
      BY <1>4, <1>5
<1>7. Free = [st |-> "free", role |-> "send", key |-> k, tid |-> z,
         reused |-> FALSE, rec |-> n, ctx |-> TRUE, controls |-> FALSE,
         eng |-> "off", engPaused |-> FALSE, sent |-> "no", aborting |-> FALSE,
         paused |-> FALSE, canceled |-> FALSE, failed |-> FALSE]
      BY <1>2, <1>6 DEF Free
<1>8. /\ Free \in RunType /\ Free.st = "free" /\ Free.eng = "off" /\ ~Free.controls /\ ~Free.failed
      /\ Free.sent = "no" /\ ~Free.reused
      BY <1>7 DEF RunType
<1> QED BY <1>4, <1>8

LEMMA DiscardInterruptedIInv ==
    ASSUME IInv, NEW S \in SUBSET Tids, DiscardInterrupted(S) PROVE IInv'
<1>0. runs \in [Ids -> RunType] /\ recs \in [Tids -> RecType] /\ dropped \subseteq Tids
      BY DEF IInv, TypeOK
<1>1. /\ recs' = [t \in Tids |-> IF t \in S THEN NoRec ELSE recs[t]] /\ dropped' = dropped \cup S
      /\ UNCHANGED <<next, runs, completed, told>>
      BY DEF DiscardInterrupted
<1>2. recs' \in [Tids -> RecType]
      BY <1>0, <1>1, Empty
<1>3. \A t \in Tids : /\ recs'[t].cred \subseteq {t}
                      /\ recs'[t].there => recs[t].there
                      /\ recs[t].there => recs'[t].there \/ t \in dropped'
      BY <1>1, Empty DEF IInv, CredentialOfCreator
<1>4. \A j \in Ids : Same(runs'[j], runs[j])
      BY <1>1 DEF Same
<1> QED BY <1>0, <1>1, <1>2, <1>3, <1>4, RecordsStep

\* The engine of a run whose goroutine is at the end of transfer.Run.
LEMMA ReturnsBadIInv ==
    ASSUME IInv, NEW i \in Ids, Returns(i), runs[i].eng # "ok" PROVE IInv'
<1> DEFINE r == Fails(i)
<1>0. runs[i] \in RunType /\ StageOK(runs[i]) /\ OwnId(i)
      BY EarlyFacts DEF IInv, RunsOK
<1>1. /\ runs[i].st = "engine" /\ runs[i].eng = "err" /\ runs' = [runs EXCEPT ![i] = r]
      /\ UNCHANGED <<next, completed, told, dropped>>
      BY DEF Returns, recordCompleted
<1>2. recs' = recs
  <2>1. recs \in [Tids -> RecType]
        BY DEF IInv, TypeOK
  <2>2. DiscardedAtEnd(runs[i]) = {}
        BY <1>1 DEF DiscardedAtEnd
  <2>3. recs' = [t \in Tids |-> recs[t]]
        BY <2>2 DEF Returns
  <2> QED BY <2>1, <2>3
<1>3. /\ r \in RunType /\ r.st = "publish" /\ r.role = runs[i].role
      /\ r.tid = runs[i].tid /\ r.reused = runs[i].reused /\ r.rec = runs[i].rec
      /\ r.eng = runs[i].eng /\ r.sent = runs[i].sent /\ r.failed
      BY <1>0, StageFields
<1> HIDE DEF r
<1>4. StageOK(r)
      BY <1>0, <1>1, <1>3 DEF StageOK, Early, Over
<1>5. Harmless(i, r)
      BY <1>0, <1>1, <1>3 DEF Harmless, OwnId
<1> QED BY <1>1, <1>2, <1>3, <1>4, <1>5, OneRun

\* A success: the record of a reused id is discarded, a receive is recorded.
LEMMA ReturnsWellIInv ==
    ASSUME IInv, NEW i \in Ids, Returns(i), runs[i].eng = "ok" PROVE IInv'
<1> DEFINE r == To(i, "publish")
<1>0. /\ runs \in [Ids -> RunType] /\ runs[i] \in RunType /\ recs \in [Tids -> RecType]
      /\ StageOK(runs[i]) /\ OwnId(i) /\ dropped \subseteq Tids
      BY EarlyFacts DEF IInv, TypeOK, RunsOK
<1>1. PICK gone : gone = DiscardedAtEnd(runs[i])
      OBVIOUS
<1>2. /\ runs[i].st = "engine" /\ runs' = [runs EXCEPT ![i] = r]
      /\ recs' = [t \in Tids |-> IF t \in gone THEN NoRec ELSE recs[t]]
      /\ dropped' = dropped \cup gone /\ UNCHANGED <<next, told>>
      BY <1>1 DEF Returns
<1>3. /\ completed \subseteq completed'
      /\ runs[i].role = "receive" => i \in completed'
      BY DEF Returns, recordCompleted
<1>4. /\ gone \subseteq Tids
      /\ runs[i].role = "send" /\ runs[i].reused => gone = {runs[i].tid}
      BY <1>0, <1>1 DEF DiscardedAtEnd, RunType
<1>5. /\ r \in RunType /\ r.st = "publish" /\ r.role = runs[i].role
      /\ r.tid = runs[i].tid /\ r.reused = runs[i].reused /\ r.rec = runs[i].rec
      /\ r.controls = runs[i].controls
      /\ r.eng = "ok" /\ r.sent = runs[i].sent /\ r.failed = runs[i].failed
      BY <1>0, StageFields
<1> HIDE DEF r
<1>6. /\ runs' \in [Ids -> RunType] /\ runs'[i] = r /\ \A j \in Ids : j # i => runs'[j] = runs[j]
      BY <1>0, <1>2, <1>5
<1>7. /\ recs' \in [Tids -> RecType]
      /\ \A t \in Tids : IF t \in gone THEN ~recs'[t].there /\ recs'[t].cred = {} ELSE recs'[t] = recs[t]
      BY <1>0, <1>2, Empty
<1>8. TypeOK' /\ Fresh' /\ CredentialOfCreator'
  <2>1. TypeOK'
        BY <1>0, <1>2, <1>4, <1>6, <1>7 DEF IInv, TypeOK
  <2>2. Fresh'
        BY <1>2, <1>6 DEF IInv, Fresh
  <2>3. CredentialOfCreator'
        BY <1>7 DEF IInv, CredentialOfCreator
  <2> QED BY <2>1, <2>2, <2>3
<1>9. RunsOK'
  <2>1. ASSUME NEW j \in Ids PROVE StageOK(runs'[j]) /\ OwnId(j)'
    <3>1. CASE j = i
      <4>1. StageOK(r)
            BY <1>0, <1>2, <1>5 DEF StageOK, Early, Over
      <4> QED BY <1>0, <1>2, <1>5, <1>6, <3>1, <4>1 DEF OwnId
    <3>2. CASE j # i
          BY <1>6, <3>2 DEF IInv, RunsOK, OwnId
    <3> QED BY <3>1, <3>2
  <2> QED BY <2>1 DEF RunsOK
<1>10. VerdictsOK'
  <2>1. ASSUME NEW j \in Ids, j # i PROVE VerdictOK(j)'
    <3>1. VerdictOK(j) /\ runs'[j] = runs[j]
          BY <1>6, <2>1 DEF IInv, VerdictsOK
    <3> QED BY <1>2, <1>3, <3>1 DEF VerdictOK
  <2>2. VerdictOK(i)'
    <3>1. told'[i] = <<>>
          BY <1>2 DEF IInv, VerdictsOK, VerdictOK
    <3>2. Len(told'[i]) = 0 /\ DOMAIN told'[i] = {}
          BY <3>1
    <3> QED BY <1>3, <1>5, <1>6, <3>1, <3>2 DEF VerdictOK
  <2> QED BY <2>1, <2>2 DEF VerdictsOK
<1>11. \A j \in Ids : runs'[j].tid = runs[j].tid /\ runs'[j].sent = runs[j].sent /\ runs[j].tid \in Tids
      BY <1>0, <1>5, <1>6 DEF RunType
<1>12. RecordKept'
      BY <1>2, <1>7, <1>11 DEF IInv, RecordKept
<1>13. RecordGone'
  <2>1. ASSUME NEW j \in Ids PROVE Excused(j)'
    <3>1. CASE j = i
      <4>1. runs[i].reused /\ runs[i].role = "send" => ~recs'[runs[i].tid].there
            BY <1>4, <1>7, <1>11
      <4>2. ~runs[i].reused => runs[i].tid = i
            BY <1>0, <1>2 DEF OwnId
      <4> QED BY <1>5, <1>6, <1>11, <3>1, <4>1, <4>2 DEF Excused
    <3>2. CASE j # i
      <4>1. Excused(j) /\ runs'[j] = runs[j]
            BY <1>6, <3>2 DEF IInv, RecordGone
      <4> QED BY <1>7, <1>11, <4>1 DEF Excused, Announced
    <3> QED BY <3>1, <3>2
  <2> QED BY <2>1 DEF RecordGone
<1> QED BY <1>8, <1>9, <1>10, <1>12, <1>13 DEF IInv

LEMMA stateStringFacts ==
    ASSUME NEW r \in RunType
    PROVE  /\ stateString(r) \in {"failed", "canceled", "paused", "running"}
           /\ stateString(r) = "failed" <=> r.failed
<1>1. CASE r.failed
      BY <1>1 DEF stateString
<1>2. CASE ~r.failed /\ r.canceled
      BY <1>2 DEF stateString
<1>3. CASE ~r.failed /\ ~r.canceled /\ r.paused
      BY <1>3 DEF stateString
<1>4. CASE ~r.failed /\ ~r.canceled /\ ~r.paused
      BY <1>4 DEF stateString
<1> QED BY <1>1, <1>2, <1>3, <1>4

LEMMA publishIInv == ASSUME IInv, NEW i \in Ids, publish(i) PROVE IInv'
<1>0. /\ runs \in [Ids -> RunType] /\ runs[i] \in RunType /\ told \in [Ids -> Seq(Verdict)]
      /\ StageOK(runs[i])
      BY EarlyFacts DEF IInv, TypeOK
<1> DEFINE r == Gone(runs[i])
           kind == IF runs[i].failed THEN "error" ELSE "done"
           v == [kind |-> kind, state |-> stateString(runs[i])]
<1>1. /\ runs[i].st = "publish" /\ runs' = [runs EXCEPT ![i] = r]
      /\ told' = [told EXCEPT ![i] = Append(@, v)]
      /\ UNCHANGED <<next, recs, completed, dropped>>
      BY DEF publish, store
<1>2. /\ kind \in {"done", "error"}
      /\ kind = "error" <=> runs[i].failed
      OBVIOUS
<1> HIDE DEF kind
<1>3. /\ v \in Verdict /\ v.kind = kind
      /\ v.state = "failed" <=> runs[i].failed
      BY <1>0, <1>2, stateStringFacts DEF Verdict
<1> HIDE DEF v
<1>4. told[i] = <<>>
      BY <1>1 DEF IInv, VerdictsOK, VerdictOK
<1>5. /\ told' \in [Ids -> Seq(Verdict)] /\ told'[i] = <<v>>
      /\ \A j \in Ids : j # i => told'[j] = told[j]
      BY <1>0, <1>1, <1>3, <1>4
<1>6. /\ r \in RunType /\ r.st = "gone" /\ r.role = runs[i].role /\ r.eng = runs[i].eng
      /\ r.tid = runs[i].tid /\ r.sent = runs[i].sent /\ r.controls = runs[i].controls /\ ~r.reused
  <2>1. Free \in RunType /\ ~Free.reused
        BY Empty
  <2>2. PICK f \in RunType : f = Free
        BY <2>1
  <2>3. r = [f EXCEPT !.st = "gone", !.role = runs[i].role, !.eng = runs[i].eng, !.tid = runs[i].tid,
                      !.sent = runs[i].sent, !.controls = runs[i].controls, !.ctx = FALSE]
        BY <2>2 DEF Gone
  <2> QED BY <1>0, <2>1, <2>2, <2>3 DEF RunType
<1> HIDE DEF r
<1>7. /\ runs' \in [Ids -> RunType] /\ runs'[i] = r /\ \A j \in Ids : j # i => runs'[j] = runs[j]
      BY <1>0, <1>1, <1>6
<1>8. TypeOK' /\ Fresh' /\ CredentialOfCreator'
      BY <1>1, <1>5, <1>7 DEF IInv, TypeOK, Fresh, CredentialOfCreator
<1>9. RunsOK'
  <2>1. ASSUME NEW j \in Ids PROVE StageOK(runs'[j]) /\ OwnId(j)'
    <3>1. CASE j = i
      <4>1. StageOK(r)
            BY <1>0, <1>1, <1>6 DEF StageOK, Early, Over
      <4> QED BY <1>6, <1>7, <3>1, <4>1 DEF OwnId
    <3>2. CASE j # i
          BY <1>7, <3>2 DEF IInv, RunsOK, OwnId
    <3> QED BY <3>1, <3>2
  <2> QED BY <2>1 DEF RunsOK
<1>10. VerdictsOK'
  <2>1. ASSUME NEW j \in Ids, j # i PROVE VerdictOK(j)'
    <3>1. VerdictOK(j) /\ runs'[j] = runs[j] /\ told'[j] = told[j]
          BY <1>5, <1>7, <2>1 DEF IInv, VerdictsOK
    <3> QED BY <1>1, <3>1 DEF VerdictOK
  <2>2. VerdictOK(i)'
    <3>1. Len(told'[i]) = 1 /\ DOMAIN told'[i] = {1} /\ told'[i][1] = v
          BY <1>5
    <3>2. /\ runs[i].eng = "ok" <=> ~runs[i].failed
          /\ runs[i].role = "receive" /\ runs[i].eng = "ok" => i \in completed
          BY <1>0, <1>1 DEF StageOK, IInv, VerdictsOK, VerdictOK
    <3>3. /\ r.eng = "ok" <=> v.kind = "done"
          /\ v.kind = "done" <=> v.state # "failed"
          /\ r.role = "receive" /\ r.eng = "ok" => i \in completed'
          BY <1>1, <1>2, <1>3, <1>6, <3>2
    <3> QED BY <1>6, <1>7, <3>1, <3>3 DEF VerdictOK
  <2> QED BY <2>1, <2>2 DEF VerdictsOK
<1>11. \A j \in Ids : runs'[j].tid = runs[j].tid /\ runs'[j].sent = runs[j].sent
      BY <1>6, <1>7
<1>12. RecordKept'
      BY <1>1, <1>11 DEF IInv, RecordKept
<1>13. RecordGone'
  <2>1. ASSUME NEW j \in Ids PROVE Excused(j)'
    <3>1. /\ Excused(j) /\ runs'[j].role = runs[j].role /\ runs'[j].eng = runs[j].eng
          /\ runs'[j].st \in Over => runs[j].st \in Over
          BY <1>1, <1>6, <1>7 DEF IInv, RecordGone, Over
    <3> QED BY <1>1, <1>11, <3>1 DEF Excused, Announced
  <2> QED BY <2>1 DEF RecordGone
<1> QED BY <1>8, <1>9, <1>10, <1>12, <1>13 DEF IInv

\* newRun takes a number no run has had.
LEMMA newRunIInv ==
    ASSUME IInv, NEW role \in {"send", "receive"}, NEW k \in KeyType, newRun(role, k)
    PROVE  IInv'
<1>0. /\ runs \in [Ids -> RunType] /\ next \in 0 .. MaxRuns /\ next < MaxRuns /\ MaxRuns \in Nat
      BY DesktopAssumption DEF IInv, TypeOK, newRun
<1>1. PICK i : i = next + 1
      OBVIOUS
<1>2. i \in Ids /\ i \in Tids /\ i > next
      BY <1>0, <1>1 DEF Ids, Tids
<1>3. runs[i].st = "free" /\ runs[i].sent = "no"
      BY <1>2, EarlyFacts DEF IInv, Fresh, Early
<1>4. PICK f \in RunType : f = Free
      BY Empty
<1> DEFINE r == [f EXCEPT !.st = "dial", !.role = role, !.key = k, !.tid = i]
<1>5. /\ runs' = [runs EXCEPT ![i] = r] /\ next' = i
      /\ UNCHANGED <<recs, completed, told, dropped>>
      BY <1>1, <1>4 DEF newRun, store
<1>6. /\ r \in RunType /\ r.st = "dial" /\ r.tid = i /\ ~r.reused
      /\ r.eng = "off" /\ ~r.controls /\ ~r.failed /\ r.sent = "no"
      BY <1>2, <1>4, Empty DEF RunType
<1> HIDE DEF r
<1>7. /\ runs' \in [Ids -> RunType] /\ runs'[i] = r /\ \A j \in Ids : j # i => runs'[j] = runs[j]
      BY <1>0, <1>2, <1>5, <1>6
<1>8. TypeOK' /\ Fresh' /\ CredentialOfCreator'
  <2>1. next' \in 0 .. MaxRuns
        BY <1>0, <1>1, <1>5
  <2>2. TypeOK'
        BY <1>5, <1>7, <2>1 DEF IInv, TypeOK
  <2>3. ASSUME NEW j \in Ids, j > next' PROVE runs'[j].st = "free"
    <3>1. j # i /\ j > next
          BY <1>0, <1>1, <1>5, <2>3 DEF Ids
    <3> QED BY <1>7, <3>1 DEF IInv, Fresh
  <2>4. Fresh'
        BY <2>3 DEF Fresh
  <2> QED BY <1>5, <2>2, <2>4 DEF IInv, CredentialOfCreator
<1>9. RunsOK'
  <2>1. ASSUME NEW j \in Ids PROVE StageOK(runs'[j]) /\ OwnId(j)'
    <3>1. CASE j = i
      <4>1. StageOK(r)
            BY <1>6 DEF StageOK, Early, Over
      <4> QED BY <1>6, <1>7, <3>1, <4>1 DEF OwnId
    <3>2. CASE j # i
          BY <1>7, <3>2 DEF IInv, RunsOK, OwnId
    <3> QED BY <3>1, <3>2
  <2> QED BY <2>1 DEF RunsOK
<1>10. VerdictsOK'
  <2>1. ASSUME NEW j \in Ids, j # i PROVE VerdictOK(j)'
    <3>1. VerdictOK(j) /\ runs'[j] = runs[j]
          BY <1>7, <2>1 DEF IInv, VerdictsOK
    <3> QED BY <1>5, <3>1 DEF VerdictOK
  <2>2. VerdictOK(i)'
    <3>1. told'[i] = <<>>
          BY <1>2, <1>3, <1>5 DEF IInv, VerdictsOK, VerdictOK
    <3>2. Len(told'[i]) = 0 /\ DOMAIN told'[i] = {}
          BY <3>1
    <3> QED BY <1>6, <1>7, <3>1, <3>2 DEF VerdictOK
  <2> QED BY <2>1, <2>2 DEF VerdictsOK
<1>11. RecordKept'
      BY <1>5, <1>6, <1>7 DEF IInv, RecordKept
<1>12. RecordGone'
  <2>1. ASSUME NEW j \in Ids PROVE Excused(j)'
    <3>1. CASE j = i
          BY <1>6, <1>7, <3>1 DEF Excused, Over
    <3>2. CASE j # i
      <4>1. Excused(j) /\ runs'[j] = runs[j]
            BY <1>7, <3>2 DEF IInv, RecordGone
      <4>2. \A m \in Ids : runs[m].sent # "no" => runs'[m] = runs[m]
            BY <1>3, <1>7
      <4> QED BY <1>5, <4>1, <4>2 DEF Excused, Announced
    <3> QED BY <3>1, <3>2
  <2> QED BY <2>1 DEF RecordGone
<1> QED BY <1>8, <1>9, <1>10, <1>11, <1>12 DEF IInv

LEMMA InitIInv == Init => IInv
<1> SUFFICES ASSUME Init PROVE IInv
    OBVIOUS
<1>0. MaxRuns \in Nat /\ Ids = 1 .. MaxRuns /\ Tids = 0 .. MaxRuns
      BY DesktopAssumption DEF Ids, Tids
<1>1. /\ runs \in [Ids -> RunType]
      /\ \A i \in Ids : runs[i].st = "free" /\ runs[i].eng = "off" /\ ~runs[i].controls
                        /\ ~runs[i].failed /\ runs[i].sent = "no" /\ ~runs[i].reused
      BY Empty DEF Init
<1>2. PICK old \in {NoRec} \cup {Rec(k, {}) : k \in Keys} :
         recs = [t \in Tids |-> IF t = 0 THEN old ELSE NoRec]
      BY DEF Init
<1>3. old \in RecType /\ old.cred = {}
  <2>1. ASSUME NEW k \in Keys PROVE Rec(k, {}) \in RecType /\ Rec(k, {}).cred = {}
        BY DEF Rec, RecType, KeyType
  <2> QED BY <2>1, Empty
<1>4. recs \in [Tids -> RecType] /\ \A t \in Tids : recs[t].cred = {}
      BY <1>2, <1>3, Empty
<1>5. told = [i \in Ids |-> <<>>] /\ <<>> \in Seq(Verdict) /\ dropped = {} /\ next = 0
      BY DEF Init
<1>6. TypeOK /\ Fresh /\ CredentialOfCreator
      BY <1>0, <1>1, <1>4, <1>5 DEF TypeOK, Fresh, CredentialOfCreator
<1>7. RunsOK
      BY <1>1 DEF RunsOK, StageOK, OwnId, Early, Over
<1>8. VerdictsOK
  <2>1. ASSUME NEW i \in Ids PROVE VerdictOK(i)
    <3>1. told[i] = <<>>
          BY <1>5
    <3>2. Len(told[i]) = 0 /\ DOMAIN told[i] = {}
          BY <3>1
    <3> QED BY <1>1, <3>1, <3>2 DEF VerdictOK
  <2> QED BY <2>1 DEF VerdictsOK
<1>9. RecordKept /\ RecordGone
      BY <1>1 DEF RecordKept, RecordGone, Excused, Over
<1> QED BY <1>6, <1>7, <1>8, <1>9 DEF IInv

LEMMA NextIInv == IInv /\ [Next]_vars => IInv'
<1> SUFFICES ASSUME IInv, [Next]_vars PROVE IInv'
    OBVIOUS
<1>1. CASE UNCHANGED vars
      BY <1>1, Unconcerned DEF vars
<1>2. CASE \E k \in Keys : Send(k)
      BY <1>2, newRunIInv DEF Send, KeyType
<1>3. CASE Receive \/ ResumeInterrupted
  <2>1. Free.key \in KeyType
        BY DEF Free, KeyType
  <2> QED BY <1>3, <2>1, newRunIInv DEF Receive, ResumeInterrupted
<1>4. CASE \E S \in {{t} : t \in Tids} \cup {Tids} : DiscardInterrupted(S)
  <2>1. PICK S \in {{t} : t \in Tids} \cup {Tids} : DiscardInterrupted(S)
        BY <1>4
  <2>2. S \in SUBSET Tids
        OBVIOUS
  <2> QED BY <2>1, <2>2, DiscardInterruptedIInv
<1>5. CASE Shutdown \/ ShutdownMoves \/ ShutdownReturns
  <2>1. UNCHANGED <<next, runs, recs, completed, told, dropped>>
        BY <1>5 DEF Shutdown, ShutdownMoves, ShutdownReturns, store
  <2> QED BY <2>1, Unconcerned
<1>6. ASSUME NEW i \in Ids, RunSteps(i) PROVE IInv'
  <2>1. CASE Dialed(i) \/ PrepareFresh(i)
        BY <2>1, EarlyMoveIInv
  <2>2. CASE DialFails(i) \/ PrepareFails(i) \/ SessionFails(i)
        BY <2>2, EarlyEndIInv
  <2>3. CASE PrepareReused(i)
        BY <2>3, PrepareReusedIInv
  <2>4. CASE Abort(i)
        BY <2>4, AbortIInv
  <2>5. CASE Returns(i)
        BY <2>5, ReturnsBadIInv, ReturnsWellIInv
  <2>6. CASE publish(i)
        BY <2>6, publishIInv
  <2> QED BY <1>6, <2>1, <2>2, <2>3, <2>4, <2>5, <2>6 DEF RunSteps
<1>7. ASSUME NEW i \in Ids,
             \/ SourcesFail(i) \/ SessionFails(i) \/ OnControls(i)
             \/ OnSendManifest(i) \/ OnResumeCredential(i)
             \/ EngineSucceeds(i) \/ EngineFails(i) \/ PeerCancels(i) \/ Cancel(i)
             \/ ShutdownCancels(i)
             \/ \E a \in Actors : onState(i, a) \/ \E p \in BOOLEAN : SetPaused(i, a, p)
      PROVE  IInv'
      BY <1>7, SourcesFailIInv, EarlyEndIInv, OnControlsIInv, OnSendManifestIInv,
         OnResumeCredentialIInv, EngineEndsIInv, PeerCancelsIInv, CancelIInv, ShutdownCancelsIInv,
         onStateIInv, SetPausedIInv
<1> QED BY <1>1, <1>2, <1>3, <1>4, <1>5, <1>6, <1>7 DEF Next

\* Whatever the calls of the user, the peers and Shutdown, every run's state is
\* what its goroutine has established where it stands, and every record what the
\* hooks of the runs that share it left (transfer_service.go).
THEOREM Inductive == Spec => []IInv
BY InitIInv, NextIInv, PTL DEF Spec

\* runSend, runReceive and runResumeReceive end in exactly one verdict, done
\* exactly when transfer.Run succeeded; with an error event the state is
\* "failed", and the destination of a received transfer is on record.
THEOREM OneVerdictHolds == Spec => []OneVerdict
<1>1. IInv => OneVerdict
      BY DEF IInv, VerdictsOK, VerdictOK, OneVerdict
<1> QED BY <1>1, Inductive, PTL

\* AttachResumeSecret leaves the credential of a record to the session that
\* created the record, however many runs share it.
THEOREM CredentialsOwned == Spec => []CredentialOfCreator
<1>1. IInv => CredentialOfCreator
      BY DEF IInv
<1> QED BY <1>1, Inductive, PTL

\* The hooks of runSend and its Discard: the record of an announced send stays
\* until the user or a success removes it, and a success leaves one only of an
\* id it minted or of an id that another send has announced.
THEOREM RecordsKeptUntilSuccess == Spec => []RecordUntilSuccess
<1>1. ASSUME IInv PROVE RecordUntilSuccess
  <2>1. ASSUME NEW i \in Ids, told[i] # <<>> PROVE runs[i].st \in Over
        BY <1>1, <2>1 DEF IInv, VerdictsOK, VerdictOK, Over
  <2> QED BY <1>1, <2>1 DEF IInv, RecordKept, RecordGone, Excused, Announced, RecordUntilSuccess
<1> QED BY <1>1, Inductive, PTL
=============================================================================
