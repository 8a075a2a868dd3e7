------------------------------- MODULE Durable -------------------------------
(***************************************************************************)
(* The durable receive of the Go engine (packages/engine/transfer/         *)
(* durable.go over packages/wire/journal.go): one out directory with its   *)
(* .sendbeam store, one receiving process at a time, the management        *)
(* command that discards a transfer, and crashes.                          *)
(*                                                                         *)
(* On disk: a journal per transfer id, a tree of .part files per transfer  *)
(* id, and the final files.  A journal claims how many whole blocks of     *)
(* each file are durable (CommittedBlocks); a .part has a length, a prefix *)
(* that survives a power loss, and the set of manifests whose blocks it    *)
(* holds.  Block contents are abstracted to the fingerprint of the         *)
(* manifest they belong to: the wire layer hands over only blocks whose    *)
(* hash it verified.                                                       *)
(*                                                                         *)
(* Every persistent step of the code is an action of its own, so that      *)
(* Crash can fall between any two of them.  Directory operations (create,  *)
(* link, unlink, rename) are taken to reach the disk in program order.     *)
(***************************************************************************)
EXTENDS Naturals

CONSTANTS Ids,       \* transfer ids
          Fps,       \* manifest fingerprints (a file set with its digests)
          Peers,     \* senders a session may be connected to
          NFiles,    \* files of a manifest
          Blocks,    \* blocks of each file
          None,      \* no transfer, no fingerprint, no peer
          Tmp        \* the tmp-<random> partial tree of a manifest without id

Files == 1 .. NFiles

Trees == Ids \cup {Tmp}

ASSUME ConstantsAssumption ==
    /\ NFiles \in Nat
    /\ Blocks \in [Files -> Nat]
    /\ None \notin Trees \cup Fps \cup Peers
    /\ Tmp \notin Ids

VARIABLES journal,   \* <transferId>.json, the last atomically replaced version
          dir,       \* does partials/<tree> exist
          part,      \* the .part files of each tree
          final,     \* the files at their final names
          s,         \* the receiving process (DurableDestination + Receiver)
          discarding,\* the id a discard command has half removed
          origin     \* history: the peer of the session that created a journal

vars == <<journal, dir, part, final, s, discarding, origin>>

disk == <<journal, dir, part, final>>

ZeroBlocks == [f \in Files |-> 0]

NoJournal == [fp |-> None, have |-> ZeroBlocks, cred |-> None]

Absent == [there |-> FALSE, len |-> 0, synced |-> 0, by |-> {}]

Empty == [there |-> TRUE, len |-> 0, synced |-> 0, by |-> {}]

NoTree == [f \in Files |-> Absent]

NoFinal == [kind |-> "none", len |-> 0, by |-> {}]

Exists(id) == journal[id].fp # None

(***************************************************************************)
(* The process.  phase:                                                    *)
(*   idle      no process                                                  *)
(*   started   destination built, expectResume set, waiting for a manifest *)
(*   refused   Prepare failed after partialID was set                      *)
(*   bound     Prepare bound the journal                                   *)
(*   opening   resume seed advertised; file cur is to be opened            *)
(*   recv      file cur is open, block next is expected                    *)
(*   written   block written, not yet fsynced                              *)
(*   synced    block fsynced, not yet in the journal                       *)
(*   closing   Close: file cur is to be promoted                           *)
(*   linked    Close: file cur is linked, its .part not yet unlinked       *)
(*   emptying  Close: journal removed, partial tree still there            *)
(* jmem is the in-memory journal (NoJournal for a nil one).                *)
(***************************************************************************)
Idle == [phase |-> "idle", peer |-> None, expect |-> None, cred |-> None,
         auth |-> FALSE, tree |-> None, fp |-> None, resumed |-> FALSE,
         jmem |-> NoJournal, seed |-> ZeroBlocks, cur |-> 1, next |-> 0]

Closed == {"closing", "linked", "emptying"}

Receiving == {"opening", "recv", "written", "synced"}

Init == /\ journal = [id \in Ids |-> NoJournal]
        /\ dir = [t \in Trees |-> FALSE]
        /\ part = [t \in Trees |-> NoTree]
        /\ final = [f \in Files |-> NoFinal]
        /\ s = Idle
        /\ discarding = None
        /\ origin = [id \in Ids |-> None]

(***************************************************************************)
(* driver.receive: a new destination.  A resume attempt preselects an      *)
(* interrupted journal together with the credential it carries.            *)
(***************************************************************************)
NewDurableDestination(p, e) ==
    /\ s.phase = "idle"
    /\ e # None => journal[e].cred # None
    /\ s' = [Idle EXCEPT !.phase = "started", !.peer = p, !.expect = e,
                         !.cred = IF e = None THEN None ELSE journal[e].cred]
    /\ UNCHANGED <<disk, discarding, origin>>

(***************************************************************************)
(* The resume preamble succeeded.  It proves that the peer holds the same  *)
(* credential, which only the peer of the deriving session does.           *)
(***************************************************************************)
SetResumeAuthorized ==
    /\ s.phase = "started" /\ ~s.auth
    /\ s.expect # None
    /\ s.cred = s.peer
    /\ s' = [s EXCEPT !.auth = TRUE]
    /\ UNCHANGED <<disk, discarding, origin>>

(***************************************************************************)
(* Prepare, on the authenticated manifest (id, fp).                        *)
(***************************************************************************)
\* Fault: preselecting the journal is taken for the authorization.
AuthorizedBySelection(id) == s.expect = id

AuthorizedForThisJournal(id) == s.auth /\ s.expect # None /\ s.expect = id

EnsurePartialBase(t) == dir' = [dir EXCEPT ![t] = TRUE]

\* No transfer id: a fresh tmp- tree and no journal.
PrepareTemp(fp) ==
    /\ s.phase = "started"
    /\ s' = [s EXCEPT !.phase = "bound", !.tree = Tmp, !.fp = fp]
    /\ EnsurePartialBase(Tmp)
    /\ part' = [part EXCEPT ![Tmp] = NoTree]
    /\ UNCHANGED <<journal, final, discarding, origin>>

\* No journal for the id: NewJournal, SaveJournal.
PrepareFresh(id, fp) ==
    /\ s.phase = "started"
    /\ ~Exists(id)
    /\ LET j == [NoJournal EXCEPT !.fp = fp]
       IN  /\ journal' = [journal EXCEPT ![id] = j]
           /\ s' = [s EXCEPT !.phase = "bound", !.tree = id, !.fp = fp, !.jmem = j]
    /\ EnsurePartialBase(id)
    /\ origin' = [origin EXCEPT ![id] = s.peer]
    /\ UNCHANGED <<part, final, discarding>>

\* Fault: the journal's fingerprint is not compared with the manifest's.
MayResumeOtherManifest(id, fp) == AuthorizedForThisJournal(id)

\* A journal exists and this session authenticated a resume of it.
MayResume(id, fp) == journal[id].fp = fp /\ AuthorizedForThisJournal(id)

PrepareResumed(id, fp) ==
    /\ s.phase = "started"
    /\ Exists(id)
    /\ MayResume(id, fp)
    /\ s' = [s EXCEPT !.phase = "bound", !.tree = id, !.fp = fp,
                      !.resumed = TRUE, !.jmem = journal[id]]
    /\ EnsurePartialBase(id)
    /\ UNCHANGED <<journal, part, final, discarding, origin>>

\* A journal exists and may not be reused: partialID is set, d.journal stays nil.
PrepareRefused(id, fp) ==
    /\ s.phase = "started"
    /\ Exists(id)
    /\ ~MayResume(id, fp)
    /\ s' = [s EXCEPT !.phase = "refused", !.tree = id, !.fp = fp]
    /\ UNCHANGED <<disk, discarding, origin>>

(***************************************************************************)
(* OnManifestSet: ResumeStateFor builds the seed that is advertised to the *)
(* sender, then AttachResumeSecret persists the credential of a journal    *)
(* created in this session.  Both fail closed, into Abort.                 *)
(***************************************************************************)
CheckSafePartial(p, want) == p.there /\ p.len >= want

Backed(t, have) ==
    \A f \in Files : have[f] > 0 => CheckSafePartial(part[t][f], have[f])

AttachResumeSecret(j) ==
    IF j.cred = None /\ ~s.resumed THEN [j EXCEPT !.cred = s.peer] ELSE j

BindManifest ==
    /\ s.phase = "bound"
    /\ IF s.tree = Tmp
       THEN /\ s' = [s EXCEPT !.phase = "opening"]
            /\ UNCHANGED journal
       ELSE LET j == AttachResumeSecret(s.jmem)
            IN  /\ s.jmem.have # ZeroBlocks => AuthorizedForThisJournal(s.tree)
                /\ Backed(s.tree, s.jmem.have)
                /\ s' = [s EXCEPT !.phase = "opening", !.jmem = j, !.seed = j.have]
                /\ journal' = IF j # s.jmem THEN [journal EXCEPT ![s.tree] = j]
                                            ELSE journal
    /\ UNCHANGED <<dir, part, final, discarding, origin>>

(***************************************************************************)
(* Open, as called by openNextFile: a resumed file is cut back to its      *)
(* checkpoint, any other is created with O_EXCL.  A file already held in   *)
(* full is finished at once.                                               *)
(***************************************************************************)
Truncate(p, n) == [p EXCEPT !.len = n, !.synced = n, !.by = IF n = 0 THEN {} ELSE @]

\* Fault: a leftover tail is kept.
OpenPartialKeepsTail(p, committed) == IF s.resumed /\ p.there THEN p ELSE Empty

OpenPartial(p, committed) ==
    IF s.resumed /\ p.there THEN Truncate(p, committed) ELSE Empty

MayOpen(p, committed) ==
    IF s.resumed THEN committed > 0 => CheckSafePartial(p, committed) ELSE ~p.there

NextFile == [s EXCEPT !.phase = "opening", !.cur = @ + 1, !.next = 0]

Open ==
    /\ s.phase = "opening" /\ s.cur \in Files
    /\ dir[s.tree]
    /\ LET f == s.cur
           p == part[s.tree][f]
           committed == s.jmem.have[f]
       IN  /\ MayOpen(p, committed)
           /\ part' = [part EXCEPT ![s.tree][f] = OpenPartial(p, committed)]
           /\ s' = IF s.seed[f] < Blocks[f]
                   THEN [s EXCEPT !.phase = "recv", !.next = s.seed[f]]
                   ELSE NextFile
    /\ UNCHANGED <<journal, dir, final, discarding, origin>>

(***************************************************************************)
(* DurableFileSink.Write: WriteAt, fsync, commitBlocks, and only then the  *)
(* ack.  A .part unlinked under an open descriptor takes the bytes along.  *)
(***************************************************************************)
\* Fault: no durability barrier between the write and the checkpoint.
WriteAtUnsynced ==
    /\ s.phase = "recv"
    /\ s' = [s EXCEPT !.phase = "synced"]
    /\ part' = [part EXCEPT ![s.tree][s.cur].len = s.next + 1,
                            ![s.tree][s.cur].by = @ \cup {s.fp}]
    /\ UNCHANGED <<journal, dir, final, discarding, origin>>

WriteAt ==
    /\ s.phase = "recv"
    /\ s' = [s EXCEPT !.phase = "written"]
    /\ part' = IF part[s.tree][s.cur].there
               THEN [part EXCEPT ![s.tree][s.cur].len = s.next + 1,
                                 ![s.tree][s.cur].by = @ \cup {s.fp}]
               ELSE part
    /\ UNCHANGED <<journal, dir, final, discarding, origin>>

SyncFile ==
    /\ s.phase = "written"
    /\ s' = [s EXCEPT !.phase = "synced"]
    /\ part' = [part EXCEPT ![s.tree][s.cur].synced = part[s.tree][s.cur].len]
    /\ UNCHANGED <<journal, dir, final, discarding, origin>>

CommitBlocks(j, f, n) == [j EXCEPT !.have[f] = n]

Acked == IF s.next + 1 = Blocks[s.cur] THEN NextFile
         ELSE [s EXCEPT !.phase = "recv", !.next = @ + 1]

Commit ==
    /\ s.phase = "synced"
    /\ IF s.tree = Tmp
       THEN /\ s' = Acked
            /\ UNCHANGED journal
       ELSE LET j == CommitBlocks(s.jmem, s.cur, s.next + 1)
            IN  /\ s' = [Acked EXCEPT !.jmem = j]
                /\ journal' = [journal EXCEPT ![s.tree] = j]
    /\ UNCHANGED <<dir, part, final, discarding, origin>>

(***************************************************************************)
(* onComplete, then Close: promote every .part in index order, then remove *)
(* the journal, then what is left of the partial tree.                     *)
(***************************************************************************)
CloseStart ==
    /\ s.phase = "opening" /\ s.cur = NFiles + 1
    /\ s' = [s EXCEPT !.phase = "closing", !.cur = 1]
    /\ UNCHANGED <<disk, discarding, origin>>

MayPromote(f) == part[s.tree][f].there /\ final[f].kind = "none"

Promoted(f) ==
    [final EXCEPT ![f] = [kind |-> "ours", len |-> part[s.tree][f].len,
                          by |-> part[s.tree][f].by]]

PromoteLink ==
    /\ s.phase = "closing" /\ s.cur \in Files
    /\ MayPromote(s.cur)
    /\ final' = Promoted(s.cur)
    /\ s' = [s EXCEPT !.phase = "linked"]
    /\ UNCHANGED <<journal, dir, part, discarding, origin>>

PromoteUnlink ==
    /\ s.phase = "linked"
    /\ part' = [part EXCEPT ![s.tree][s.cur] = Absent]
    /\ s' = [s EXCEPT !.phase = "closing", !.cur = @ + 1]
    /\ UNCHANGED <<journal, dir, final, discarding, origin>>

\* Fault: after the rename the code falls through into the link's cleanup.
PromoteRenameFallsThrough ==
    /\ s.phase = "closing" /\ s.cur \in Files
    /\ MayPromote(s.cur)
    /\ final' = Promoted(s.cur)
    /\ part' = [part EXCEPT ![s.tree][s.cur] = Absent]
    /\ s' = [s EXCEPT !.phase = "linked", !.cur = @ + 1]
    /\ UNCHANGED <<journal, dir, discarding, origin>>

\* Without hard links: a checked rename.
PromoteRename ==
    /\ s.phase = "closing" /\ s.cur \in Files
    /\ MayPromote(s.cur)
    /\ final' = Promoted(s.cur)
    /\ part' = [part EXCEPT ![s.tree][s.cur] = Absent]
    /\ s' = [s EXCEPT !.cur = @ + 1]
    /\ UNCHANGED <<journal, dir, discarding, origin>>

\* Fault: the journal is removed before the promotions are done.
CloseJournalEarly ==
    /\ s.phase = "closing"
    /\ journal' = IF s.tree = Tmp THEN journal
                  ELSE [journal EXCEPT ![s.tree] = NoJournal]
    /\ s' = [s EXCEPT !.phase = "emptying"]
    /\ UNCHANGED <<dir, part, final, discarding, origin>>

CloseJournal ==
    /\ s.phase = "closing" /\ s.cur = NFiles + 1
    /\ journal' = IF s.tree = Tmp THEN journal
                  ELSE [journal EXCEPT ![s.tree] = NoJournal]
    /\ s' = [s EXCEPT !.phase = "emptying"]
    /\ UNCHANGED <<dir, part, final, discarding, origin>>

RemoveTree(t) == /\ dir' = [dir EXCEPT ![t] = FALSE]
                 /\ part' = [part EXCEPT ![t] = NoTree]

CloseTree ==
    /\ s.phase = "emptying"
    /\ RemoveTree(s.tree)
    /\ s' = Idle
    /\ UNCHANGED <<journal, final, discarding, origin>>

(***************************************************************************)
(* The receive ends early: cancel, peer failure, a refused manifest, an    *)
(* open, write, fsync, quota or journal error.  Abort keeps what a journal *)
(* claims and removes the tree of a transfer that has none.  After Close   *)
(* began, Abort returns at once.                                           *)
(***************************************************************************)
\* Fault: the tree goes although a journal claims it.
AbortRemovesClaimed ==
    /\ s.phase # "idle"
    /\ IF s.phase \notin Closed /\ s.tree # None THEN RemoveTree(s.tree)
       ELSE UNCHANGED <<dir, part>>
    /\ s' = Idle
    /\ UNCHANGED <<journal, final, discarding, origin>>

Abort ==
    /\ s.phase # "idle"
    /\ IF s.phase \notin Closed /\ s.jmem.fp = None /\ s.tree # None
       THEN RemoveTree(s.tree)
       ELSE UNCHANGED <<dir, part>>
    /\ s' = Idle
    /\ UNCHANGED <<journal, final, discarding, origin>>

(***************************************************************************)
(* A crash: of the process alone, or of the machine, which also loses the  *)
(* bytes no fsync covered.                                                 *)
(***************************************************************************)
LoseUnsynced(p) == [p EXCEPT !.len = p.synced]

Crash(machine) ==
    /\ machine \/ s.phase # "idle"
    /\ s' = Idle
    /\ IF machine
       THEN /\ part' = [t \in Trees |-> [f \in Files |-> LoseUnsynced(part[t][f])]]
            /\ discarding' = None
       ELSE UNCHANGED <<part, discarding>>
    /\ UNCHANGED <<journal, dir, final, origin>>

(***************************************************************************)
(* DurableStore.Discard from another process: journal first, then tree.    *)
(***************************************************************************)
DiscardJournal(id) ==
    /\ discarding = None
    /\ journal' = [journal EXCEPT ![id] = NoJournal]
    /\ discarding' = id
    /\ UNCHANGED <<dir, part, final, s, origin>>

DiscardTree ==
    /\ discarding # None
    /\ RemoveTree(discarding)
    /\ discarding' = None
    /\ UNCHANGED <<journal, final, s, origin>>

\* The user, or another program, puts a file at a final name.
ForeignFile(f) ==
    /\ final[f].kind = "none"
    /\ final' = [final EXCEPT ![f].kind = "foreign"]
    /\ UNCHANGED <<journal, dir, part, s, discarding, origin>>

Next == \/ \E p \in Peers, e \in Ids \cup {None} : NewDurableDestination(p, e)
        \/ SetResumeAuthorized
        \/ \E fp \in Fps : PrepareTemp(fp)
        \/ \E id \in Ids, fp \in Fps : \/ PrepareFresh(id, fp)
                                       \/ PrepareResumed(id, fp)
                                       \/ PrepareRefused(id, fp)
        \/ BindManifest \/ Open \/ WriteAt \/ SyncFile \/ Commit
        \/ CloseStart \/ PromoteLink \/ PromoteUnlink \/ PromoteRename
        \/ CloseJournal \/ CloseTree \/ Abort
        \/ \E machine \in BOOLEAN : Crash(machine)
        \/ \E id \in Ids : DiscardJournal(id)
        \/ DiscardTree
        \/ \E f \in Files : ForeignFile(f)

Spec == Init /\ [][Next]_vars

-----------------------------------------------------------------------------
(***************************************************************************)
(* Properties.                                                             *)
(***************************************************************************)

Journals == [fp : Fps \cup {None}, have : [Files -> Nat], cred : Peers \cup {None}]

Parts == [there : BOOLEAN, len : Nat, synced : Nat, by : SUBSET Fps]

Phases == {"idle", "started", "refused", "bound"} \cup Receiving \cup Closed

Sessions == [phase : Phases, peer : Peers \cup {None}, expect : Ids \cup {None},
             cred : Peers \cup {None}, auth : BOOLEAN, tree : Trees \cup {None},
             fp : Fps \cup {None}, resumed : BOOLEAN, jmem : Journals,
             seed : [Files -> Nat], cur : 1 .. NFiles + 1, next : Nat]

\* Type invariant of the store, the .part files and the receiving process.
TypeOK ==
    /\ journal \in [Ids -> Journals]
    /\ dir \in [Trees -> BOOLEAN]
    /\ part \in [Trees -> [Files -> Parts]]
    /\ final \in [Files -> [kind : {"none", "foreign", "ours"}, len : Nat, by : SUBSET Fps]]
    /\ s \in Sessions
    /\ discarding \in Ids \cup {None}
    /\ origin \in [Ids -> Peers \cup {None}]

\* A journal never claims blocks its .part would not show after a power loss,
\* and the claimed prefix holds blocks of the journal's own manifest only
\* (sink.Write's order; the truncation in Open; the fingerprint check).
CheckpointBacked ==
    \A id \in Ids, f \in Files :
        Exists(id) /\ part[id][f].there /\ journal[id].have[f] > 0 =>
            /\ journal[id].have[f] <= part[id][f].synced
            /\ part[id][f].by \subseteq {journal[id].fp}

\* What the sender was told it need not send (again): the advertised seed and
\* the acks of this session.
Told(f) == IF f < s.cur THEN Blocks[f]
           ELSE IF f = s.cur /\ s.phase # "opening" THEN s.next
           ELSE s.seed[f]

\* Every block the sender was told about is on stable storage and, unless a
\* discard removed it, claimed by the journal: no crash makes the ack a lie
\* (write, fsync, commit, ack).
AckedIsDurable ==
    s.phase \in Receiving =>
        \A f \in Files : Told(f) > 0 =>
            /\ part[s.tree][f].there => Told(f) <= part[s.tree][f].synced
                                        /\ part[s.tree][f].by \subseteq {s.fp}
            /\ (s.tree # Tmp /\ Exists(s.tree)) => Told(f) <= journal[s.tree].have[f]

\* A file the receive put at its final name is complete and made of one
\* manifest's blocks, whatever crashes and resumes it went through.
FinalIsWhole ==
    \A f \in Files : final[f].kind = "ours" =>
        /\ final[f].len = Blocks[f]
        /\ final[f].by = {} <=> Blocks[f] = 0
        /\ \A a, b \in final[f].by : a = b

\* Progress of an earlier session is advertised only to the peer of the session
\* that created the journal (AttachResumeSecret's provenance rule, Prepare's
\* authorizedForThisJournal).
ProgressOnlyToOriginalPeer ==
    s.phase \in Receiving /\ s.tree # Tmp /\ s.seed # ZeroBlocks =>
        s.peer = origin[s.tree]

JournalKept(id) ==
    /\ journal'[id].fp = journal[id].fp
    /\ journal[id].cred \in {None, journal'[id].cred}
    /\ \A f \in Files : journal[id].have[f] <= journal'[id].have[f]

JournalDone(id) ==
    /\ journal'[id] = NoJournal
    /\ \A f \in Files : final[f].kind = "ours" /\ final[f].by \subseteq {journal[id].fp}

\* A step keeps a journal's manifest, credential and progress; the journal goes
\* only by an explicit discard or once every file is at its final name.
ProgressNeverRegresses ==
    [][\A id \in Ids : Exists(id) => JournalKept(id) \/ discarding' = id \/ JournalDone(id)]_vars

\* No step changes a file that is already at a final name.
FinalNeverOverwritten ==
    [][\A f \in Files : final[f].kind # "none" => final'[f] = final[f]]_vars

\* What the journal claims is in a .part file a later resume accepts.
Resumable(id, parts) ==
    \A f \in Files : journal[id].have[f] > 0 => CheckSafePartial(parts[f], journal[id].have[f])

\* No step takes the claimed data of an interrupted transfer away and leaves its
\* journal behind: no abort, crash, reopening or second receive does.  Beside a
\* discard, two operations of the code do: the promotions of Close, and the Abort
\* of a receive that Prepare refused (d.partialID is set, d.journal is nil).
ClaimedDataKept ==
    [][\A id \in Ids :
          Exists(id) /\ Exists(id)' /\ Resumable(id, part[id]) =>
              \/ Resumable(id, part'[id])
              \/ discarding = id
              \/ s.tree = id /\ s.phase \in Closed \cup {"refused"}]_vars
=============================================================================
