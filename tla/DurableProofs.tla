---------------------------- MODULE DurableProofs ----------------------------
(***************************************************************************)
(* Proofs about Durable, for every set of transfer ids, manifests and      *)
(* peers, every number of files and every file length.                     *)
(*                                                                         *)
(* The properties of Durable are not inductive: they say what the disk     *)
(* holds, while the next step depends on what the process believes it      *)
(* holds.  IInv adds that belief, phase by phase.                          *)
(***************************************************************************)
EXTENDS Durable, TLAPS

\* Every .part: the synced prefix is a prefix, and a nonempty file holds
\* somebody's blocks.
PartsOK ==
    \A t \in Trees, f \in Files :
        /\ part[t][f].synced <= part[t][f].len
        /\ part[t][f].len > 0 => part[t][f].by # {}

\* A journal stays within its manifest and its credential is the one of the
\* session that created it.
JournalOK(j, id) ==
    /\ j.fp = None => j = NoJournal
    /\ j.cred \in {None, origin[id]}
    /\ \A f \in Files : j.have[f] <= Blocks[f]

JournalsOK == \A id \in Ids : JournalOK(journal[id], id)

Backs(p, n, fp) == p.there /\ n > 0 => n <= p.synced /\ p.by \subseteq {fp}

\* The file is there as n whole blocks of manifest fp, if it is there at all.
Holds(p, n, fp) ==
    p.there => /\ p.len = n
               /\ p.synced = n
               /\ p.by = IF n = 0 THEN {} ELSE {fp}

Bound == {"bound"} \cup Receiving

\* The process knows which journal it works for, and the journal on disk is
\* the one in its memory unless a discard removed it.
SessionOK ==
    /\ s.phase = "idle" => s = Idle
    /\ s.phase = "started" =>
          /\ s.tree = None /\ ~s.resumed /\ s.jmem = NoJournal
          /\ s.seed = ZeroBlocks /\ s.cur = 1 /\ s.next = 0 /\ s.peer \in Peers
          /\ s.expect # None => s.cred = origin[s.expect]
          /\ s.auth => s.cred = s.peer
    /\ s.phase = "refused" => s.tree \in Ids /\ s.jmem = NoJournal
    /\ s.phase \in Bound \cup Closed => s.tree \in Trees /\ s.fp \in Fps /\ s.peer \in Peers
    /\ s.phase \in Bound /\ s.tree = Tmp =>
          s.jmem = NoJournal /\ s.seed = ZeroBlocks /\ ~s.resumed
    /\ s.phase \in Bound \cup {"closing", "linked"} /\ s.tree # Tmp =>
          /\ journal[s.tree] \in {s.jmem, NoJournal}
          /\ s.jmem.fp = s.fp
          /\ s.peer = origin[s.tree]
          /\ JournalOK(s.jmem, s.tree)
    /\ s.phase \in Bound /\ ~s.resumed => s.seed = ZeroBlocks
    /\ s.phase = "bound" => s.cur = 1 /\ s.next = 0
    /\ s.phase = "bound" /\ ~s.resumed => s.jmem.have = ZeroBlocks

\* What the process told the sender is what the journal in memory says, and
\* what the .part files hold.
ProgressOK ==
    /\ s.phase \in Bound =>
          \A f \in Files : Backs(part[s.tree][f], s.jmem.have[f], s.fp)
    /\ s.phase \in Receiving =>
          /\ \A f \in Files : f < s.cur => Holds(part[s.tree][f], Blocks[f], s.fp)
          /\ s.tree # Tmp => \A f \in Files : s.jmem.have[f] = Told(f)
    /\ s.phase = "opening" => s.next = 0
    /\ s.phase \in {"recv", "written", "synced"} =>
          s.cur \in Files /\ s.next < Blocks[s.cur]
    /\ s.phase = "recv" => Holds(part[s.tree][s.cur], s.next, s.fp)
    /\ s.phase = "written" /\ part[s.tree][s.cur].there =>
          /\ part[s.tree][s.cur].len = s.next + 1
          /\ part[s.tree][s.cur].synced = s.next
          /\ part[s.tree][s.cur].by = {s.fp}
    /\ s.phase = "synced" => Holds(part[s.tree][s.cur], s.next + 1, s.fp)

\* While Close runs, the files before cur are promoted and the others whole.
ClosingOK ==
    /\ s.phase \in {"closing", "linked"} =>
          /\ \A f \in Files : f >= s.cur => Holds(part[s.tree][f], Blocks[f], s.fp)
          /\ \A f \in Files : f < s.cur => final[f].kind = "ours" /\ final[f].by \subseteq {s.fp}
    /\ s.phase = "linked" =>
          /\ s.cur \in Files
          /\ final[s.cur].kind = "ours" /\ final[s.cur].by \subseteq {s.fp}

IInv == /\ TypeOK
        /\ PartsOK
        /\ JournalsOK
        /\ CheckpointBacked
        /\ FinalIsWhole
        /\ SessionOK
        /\ ProgressOK
        /\ ClosingOK

-----------------------------------------------------------------------------

LEMMA ZeroType == ZeroBlocks \in [Files -> Nat]
BY DEF ZeroBlocks

LEMMA NoJournalType == NoJournal \in Journals /\ NoJournal.fp = None
BY ZeroType DEF NoJournal, Journals

LEMMA IdleType == Idle \in Sessions
<1>1. 1 \in 1 .. NFiles + 1
      BY ConstantsAssumption
<1> QED BY <1>1, ZeroType, NoJournalType DEF Idle, Sessions, Phases, Trees

\* The journal of a new or a finished transfer claims nothing.
LEMMA NoJournalOK == \A id \in Ids : JournalOK(NoJournal, id)
<1> SUFFICES ASSUME NEW id \in Ids PROVE JournalOK(NoJournal, id)
    OBVIOUS
<1>1. NoJournal.cred = None /\ NoJournal.have = ZeroBlocks
      BY DEF NoJournal
<1>2. \A f \in Files : ZeroBlocks[f] <= Blocks[f]
      BY ConstantsAssumption DEF ZeroBlocks
<1> QED BY <1>1, <1>2 DEF JournalOK

LEMMA InitIInv == Init => IInv
<1> SUFFICES ASSUME Init PROVE IInv
    OBVIOUS
<1>1. TypeOK
      BY IdleType, NoJournalType DEF Init, TypeOK, Parts, NoTree, Absent, NoFinal
<1>2. PartsOK
      BY DEF Init, PartsOK, NoTree, Absent
<1>3. JournalsOK
      BY NoJournalOK DEF Init, JournalsOK
<1>4. CheckpointBacked
      BY NoJournalType DEF Init, CheckpointBacked, Exists
<1>5. FinalIsWhole
      BY DEF Init, FinalIsWhole, NoFinal
<1>6. SessionOK /\ ProgressOK /\ ClosingOK
      BY DEF Init, Idle, SessionOK, ProgressOK, ClosingOK, Bound, Receiving, Closed
<1> QED BY <1>1, <1>2, <1>3, <1>4, <1>5, <1>6 DEF IInv

LEMMA NewDestinationIInv ==
    ASSUME IInv, NEW p \in Peers, NEW e \in Ids \cup {None}, NewDurableDestination(p, e)
    PROVE  IInv'
<1> USE DEF NewDurableDestination, disk
<1>1. TypeOK'
  <2>1. \E c \in Peers \cup {None} :
           s' = [Idle EXCEPT !.phase = "started", !.peer = p, !.expect = e, !.cred = c]
        BY DEF IInv, TypeOK, Journals
  <2>2. s' \in Sessions
        BY <2>1, IdleType DEF Sessions, Phases
  <2> QED BY <2>2 DEF IInv, TypeOK
<1>2. (PartsOK /\ JournalsOK /\ CheckpointBacked /\ FinalIsWhole)'
      BY DEF IInv, PartsOK, JournalsOK, JournalOK, CheckpointBacked, Exists, FinalIsWhole
<1>3. SessionOK'
      BY DEF IInv, TypeOK, Journals, JournalsOK, JournalOK, SessionOK, Idle, Bound, Receiving, Closed
<1>4. (ProgressOK /\ ClosingOK)'
      BY DEF Idle, ProgressOK, ClosingOK, Bound, Receiving, Closed
<1> QED BY <1>1, <1>2, <1>3, <1>4 DEF IInv

LEMMA AuthorizedIInv ==
    ASSUME IInv, SetResumeAuthorized
    PROVE  IInv'
<1> USE ConstantsAssumption DEF SetResumeAuthorized, disk
<1>1. TypeOK'
      BY DEF IInv, TypeOK, Sessions
<1>2. (PartsOK /\ JournalsOK /\ CheckpointBacked /\ FinalIsWhole)'
      BY DEF IInv, PartsOK, JournalsOK, JournalOK, CheckpointBacked, Exists, FinalIsWhole
<1>3. SessionOK'
      BY DEF IInv, TypeOK, Sessions, SessionOK, Bound, Receiving, Closed
<1>4. (ProgressOK /\ ClosingOK)'
      BY DEF IInv, TypeOK, Sessions, ProgressOK, ClosingOK, Bound, Receiving, Closed
<1> QED BY <1>1, <1>2, <1>3, <1>4 DEF IInv

LEMMA PrepareTempIInv ==
    ASSUME IInv, NEW fp \in Fps, PrepareTemp(fp)
    PROVE  IInv'
<1> USE ConstantsAssumption DEF PrepareTemp, EnsurePartialBase
<1>1. TypeOK'
      BY DEF IInv, TypeOK, Sessions, Phases, Parts, NoTree, Absent, Trees
<1>2. \A f \in Files : part'[Tmp][f] = Absent
      BY DEF IInv, TypeOK, NoTree, Trees
<1>3. \A id \in Ids : part'[id] = part[id]
      BY DEF IInv, TypeOK, Trees
<1>4. PartsOK'
      BY <1>2, <1>3 DEF IInv, PartsOK, Absent, Trees
<1>5. (JournalsOK /\ FinalIsWhole)'
      BY DEF IInv, JournalsOK, JournalOK, FinalIsWhole
<1>6. CheckpointBacked'
      BY <1>3 DEF IInv, CheckpointBacked, Exists
<1>7. SessionOK'
      BY DEF IInv, TypeOK, Sessions, SessionOK, Bound, Receiving, Closed, Trees, NoJournal
<1>8. (ProgressOK /\ ClosingOK)'
      BY <1>2 DEF IInv, TypeOK, Sessions, SessionOK, ProgressOK, ClosingOK, Bound, Receiving, Closed,
                  Backs, Absent
<1> QED BY <1>1, <1>4, <1>5, <1>6, <1>7, <1>8 DEF IInv

LEMMA PrepareFreshIInv ==
    ASSUME IInv, NEW id \in Ids, NEW fp \in Fps, PrepareFresh(id, fp)
    PROVE  IInv'
<1> DEFINE j == [NoJournal EXCEPT !.fp = fp]
<1>j. /\ j \in Journals /\ j.fp = fp /\ j.cred = None /\ j.have = ZeroBlocks
      /\ fp # None
      BY NoJournalType, ConstantsAssumption DEF Journals, NoJournal
<1>z. \A f \in Files : ZeroBlocks[f] = 0
      BY DEF ZeroBlocks
<1>a. /\ s.phase = "started" /\ journal' = [journal EXCEPT ![id] = j]
      /\ s' = [s EXCEPT !.phase = "bound", !.tree = id, !.fp = fp, !.jmem = j]
      /\ dir' = [dir EXCEPT ![id] = TRUE]
      /\ origin' = [origin EXCEPT ![id] = s.peer]
      /\ UNCHANGED <<part, final, discarding>>
      BY DEF PrepareFresh, EnsurePartialBase
<1> HIDE DEF j
<1>1. TypeOK'
      BY <1>a, <1>j DEF IInv, TypeOK, Sessions, Phases, Trees
<1>2. (PartsOK /\ FinalIsWhole)'
      BY <1>a DEF IInv, PartsOK, FinalIsWhole
<1>3. JournalOK(j, id)'
      BY <1>j, <1>z, ConstantsAssumption DEF JournalOK
<1>4. JournalsOK'
      BY <1>a, <1>3 DEF IInv, TypeOK, JournalsOK, JournalOK
<1>5. CheckpointBacked'
      BY <1>a, <1>j, <1>z DEF IInv, TypeOK, CheckpointBacked, Exists
<1>6. SessionOK'
      BY <1>a, <1>j, <1>3, ConstantsAssumption
      DEF IInv, TypeOK, Sessions, SessionOK, Bound, Receiving, Closed, Trees, JournalOK
<1>7. (ProgressOK /\ ClosingOK)'
      BY <1>a, <1>j, <1>z DEF IInv, TypeOK, Sessions, SessionOK, ProgressOK, ClosingOK, Bound, Receiving,
                              Closed, Backs
<1> QED BY <1>1, <1>2, <1>4, <1>5, <1>6, <1>7 DEF IInv

LEMMA PrepareResumedIInv ==
    ASSUME IInv, NEW id \in Ids, NEW fp \in Fps, PrepareResumed(id, fp)
    PROVE  IInv'
<1> USE DEF PrepareResumed, EnsurePartialBase, MayResume, AuthorizedForThisJournal
<1>1. TypeOK'
      BY DEF IInv, TypeOK, Sessions, Phases, Trees
<1>2. (PartsOK /\ FinalIsWhole /\ JournalsOK /\ CheckpointBacked)'
      BY DEF IInv, PartsOK, FinalIsWhole, JournalsOK, JournalOK, CheckpointBacked, Exists
<1>3. SessionOK'
      BY ConstantsAssumption
      DEF IInv, TypeOK, Sessions, SessionOK, Bound, Receiving, Closed, Trees, JournalsOK, JournalOK
<1>4. (ProgressOK /\ ClosingOK)'
      BY ConstantsAssumption
      DEF IInv, TypeOK, Sessions, SessionOK, ProgressOK, ClosingOK, Bound, Receiving,
          Closed, Backs, CheckpointBacked, Exists
<1> QED BY <1>1, <1>2, <1>3, <1>4 DEF IInv

LEMMA PrepareRefusedIInv ==
    ASSUME IInv, NEW id \in Ids, NEW fp \in Fps, PrepareRefused(id, fp)
    PROVE  IInv'
<1> USE DEF PrepareRefused, disk
<1>1. TypeOK'
      BY DEF IInv, TypeOK, Sessions, Phases, Trees
<1>2. (PartsOK /\ FinalIsWhole /\ JournalsOK /\ CheckpointBacked)'
      BY DEF IInv, PartsOK, FinalIsWhole, JournalsOK, JournalOK, CheckpointBacked, Exists
<1>3. (SessionOK /\ ProgressOK /\ ClosingOK)'
      BY DEF IInv, TypeOK, Sessions, SessionOK, ProgressOK, ClosingOK, Bound, Receiving, Closed
<1> QED BY <1>1, <1>2, <1>3 DEF IInv

LEMMA BindManifestIInv ==
    ASSUME IInv, BindManifest
    PROVE  IInv'
<1> USE ConstantsAssumption
<1>0. /\ s.phase = "bound" /\ s.cur = 1 /\ s.next = 0
      /\ UNCHANGED <<dir, part, final, discarding, origin>>
      /\ (PartsOK /\ FinalIsWhole)'
      BY DEF IInv, SessionOK, BindManifest, PartsOK, FinalIsWhole
<1>f. \A f \in Files : f \in Nat /\ ~(f < 1)
      BY DEF Files
<1>1. CASE s.tree = Tmp
  <2>1. s' = [s EXCEPT !.phase = "opening"] /\ journal' = journal
        BY <1>1 DEF BindManifest
  <2>2. TypeOK'
        BY <1>0, <2>1 DEF IInv, TypeOK, Sessions, Phases, Receiving
  <2>3. (JournalsOK /\ CheckpointBacked)'
        BY <1>0, <2>1 DEF IInv, JournalsOK, JournalOK, CheckpointBacked, Exists
  <2>4. (SessionOK /\ ProgressOK /\ ClosingOK)'
        BY <1>0, <1>1, <1>f, <2>1
        DEF IInv, TypeOK, Sessions, SessionOK, ProgressOK, ClosingOK, Bound, Receiving, Closed, Backs, Told
  <2> QED BY <1>0, <2>2, <2>3, <2>4 DEF IInv
<1>2. CASE s.tree # Tmp
  <2> DEFINE j == AttachResumeSecret(s.jmem)
  <2>1. /\ s' = [s EXCEPT !.phase = "opening", !.jmem = j, !.seed = j.have]
        /\ journal' = IF j # s.jmem THEN [journal EXCEPT ![s.tree] = j] ELSE journal
        BY <1>2 DEF BindManifest
  <2>2. s.tree \in Ids /\ s.jmem.fp = s.fp /\ s.fp \in Fps /\ s.peer = origin[s.tree] /\ s.peer \in Peers
        BY <1>0, <1>2 DEF IInv, SessionOK, Bound, Trees
  <2>3. /\ j \in Journals /\ j.fp = s.fp /\ j.have = s.jmem.have
        /\ j.cred \in {s.jmem.cred, s.peer}
        BY <2>2 DEF IInv, TypeOK, Sessions, Journals, AttachResumeSecret
  <2>4. JournalOK(j, s.tree)
        BY <1>0, <1>2, <2>2, <2>3 DEF IInv, SessionOK, Bound, JournalOK
  <2> HIDE DEF j
  <2>5. TypeOK'
        BY <1>0, <2>1, <2>2, <2>3 DEF IInv, TypeOK, Sessions, Journals, Phases, Receiving
  <2>6. JournalsOK'
        BY <1>0, <2>1, <2>2, <2>4 DEF IInv, TypeOK, JournalsOK, JournalOK
  <2>7. CheckpointBacked'
        BY <1>0, <2>1, <2>2, <2>3
        DEF IInv, TypeOK, CheckpointBacked, Exists, ProgressOK, Bound, Backs
  <2>8. SessionOK'
        BY <1>0, <1>2, <2>1, <2>2, <2>3, <2>4
        DEF IInv, TypeOK, Sessions, SessionOK, Bound, Receiving, Closed, JournalOK
  <2>9. (ProgressOK /\ ClosingOK)'
        BY <1>0, <1>2, <1>f, <2>1, <2>2, <2>3
        DEF IInv, TypeOK, Sessions, ProgressOK, ClosingOK, Bound, Receiving, Closed, Backs, Told
  <2> QED BY <1>0, <2>5, <2>6, <2>7, <2>8, <2>9 DEF IInv
<1> QED BY <1>1, <1>2

\* What Open leaves behind for the file it opens.
LEMMA OpenedFile ==
    ASSUME IInv, Open
    PROVE  LET f == s.cur IN
           /\ s.phase = "opening" /\ f \in Files /\ s.tree \in Trees /\ s.next = 0
           /\ s.seed[f] \in Nat /\ s.seed[f] <= Blocks[f]
           /\ s.jmem.have[f] = s.seed[f]
           /\ part' \in [Trees -> [Files -> Parts]]
           /\ part'[s.tree][f].there
           /\ Holds(part'[s.tree][f], s.seed[f], s.fp)
           /\ \A t \in Trees, g \in Files :
                 t # s.tree \/ g # f => part'[t][g] = part[t][g]
           /\ UNCHANGED <<journal, dir, final, discarding, origin>>
<1> USE ConstantsAssumption
<1> DEFINE f == s.cur
           p == part[s.tree][f]
           n == s.seed[f]
<1>1. /\ s.phase = "opening" /\ f \in Files /\ MayOpen(p, s.jmem.have[f])
      /\ part' = [part EXCEPT ![s.tree][f] = OpenPartial(p, s.jmem.have[f])]
      /\ UNCHANGED <<journal, dir, final, discarding, origin>>
      BY DEF Open
<1>2. s.tree \in Trees /\ s.fp \in Fps /\ s.next = 0 /\ p \in Parts /\ n \in Nat
      BY <1>1 DEF IInv, SessionOK, ProgressOK, Bound, Receiving, TypeOK, Sessions
<1>3. Told(f) = n
      BY <1>1, <1>2 DEF Told, Files
<1>4. s.jmem.have[f] = n
  <2>1. CASE s.tree = Tmp
        BY <1>1, <2>1 DEF IInv, SessionOK, Bound, Receiving, NoJournal, ZeroBlocks
  <2>2. CASE s.tree # Tmp
        BY <1>1, <1>3, <2>2 DEF IInv, ProgressOK, Receiving
  <2> QED BY <2>1, <2>2
<1>5. n <= Blocks[f]
  <2>1. CASE s.tree = Tmp
        BY <1>1, <2>1 DEF IInv, SessionOK, Bound, Receiving, ZeroBlocks
  <2>2. CASE s.tree # Tmp
        BY <1>1, <1>4, <2>2 DEF IInv, SessionOK, Bound, Receiving, JournalOK
  <2> QED BY <2>1, <2>2
<1>6. p.synced <= p.len /\ (p.len > 0 => p.by # {})
      BY <1>1, <1>2 DEF IInv, PartsOK
<1>7. p.there /\ n > 0 => n <= p.synced /\ p.by \subseteq {s.fp}
      BY <1>1, <1>4 DEF IInv, ProgressOK, Bound, Receiving, Backs
<1>8. part'[s.tree][f] = OpenPartial(p, n)
      BY <1>1, <1>2, <1>4 DEF IInv, TypeOK
<1>9. OpenPartial(p, n) \in Parts /\ OpenPartial(p, n).there /\ Holds(OpenPartial(p, n), n, s.fp)
  <2>1. CASE s.resumed /\ p.there
    <3>1. p.by \subseteq Fps /\ p.len \in Nat /\ p.synced \in Nat /\ p.there \in BOOLEAN
          BY <1>2 DEF Parts
    <3>2. n > 0 => p.by = {s.fp}
          BY <1>2, <1>6, <1>7, <2>1, <3>1
    <3>3. OpenPartial(p, n) = Truncate(p, n)
          BY <2>1 DEF OpenPartial
    <3>4. Truncate(p, n) \in Parts
          BY <1>2, <3>1 DEF Truncate, Parts
    <3>5. /\ Truncate(p, n).len = n /\ Truncate(p, n).synced = n /\ Truncate(p, n).there
          /\ Truncate(p, n).by = IF n = 0 THEN {} ELSE p.by
          BY <1>2, <2>1 DEF Truncate, Parts
    <3>6. n # 0 => p.by = {s.fp}
          BY <1>2, <3>2
    <3>7. Truncate(p, n).by = IF n = 0 THEN {} ELSE {s.fp}
          BY <3>5, <3>6, Zenon
    <3> QED BY <3>3, <3>4, <3>5, <3>7 DEF Holds
  <2>2. CASE s.resumed /\ ~p.there
    <3>1. n = 0
          BY <1>1, <1>2, <1>4, <2>2 DEF MayOpen, CheckSafePartial
    <3> QED BY <2>2, <3>1 DEF OpenPartial, Empty, Parts, Holds
  <2>3. CASE ~s.resumed
    <3>1. n = 0
          BY <1>1, <2>3 DEF IInv, SessionOK, Bound, Receiving, ZeroBlocks
    <3> QED BY <2>3, <3>1 DEF OpenPartial, Empty, Parts, Holds
  <2> QED BY <2>1, <2>2, <2>3
<1>10. \A t \in Trees, g \in Files : t # s.tree \/ g # f => part'[t][g] = part[t][g]
      BY <1>1, <1>2 DEF IInv, TypeOK
<1>11. part' \in [Trees -> [Files -> Parts]]
  <2> DEFINE q == OpenPartial(p, n)
  <2>1. part' = [part EXCEPT ![s.tree][f] = q] /\ q \in Parts
        BY <1>1, <1>4, <1>9
  <2> HIDE DEF q
  <2> QED BY <1>1, <1>2, <2>1 DEF IInv, TypeOK
<1> QED BY <1>1, <1>2, <1>4, <1>5, <1>8, <1>9, <1>10, <1>11

LEMMA OpenIInv ==
    ASSUME IInv, Open
    PROVE  IInv'
<1> USE ConstantsAssumption
<1> DEFINE f == s.cur
           n == s.seed[f]
<1>0. /\ s.phase = "opening" /\ f \in Files /\ s.tree \in Trees /\ s.next = 0
      /\ n \in Nat /\ n <= Blocks[f] /\ s.jmem.have[f] = n
      /\ part' \in [Trees -> [Files -> Parts]]
      /\ part'[s.tree][f].there /\ Holds(part'[s.tree][f], n, s.fp)
      /\ \A t \in Trees, g \in Files : t # s.tree \/ g # f => part'[t][g] = part[t][g]
      /\ UNCHANGED <<journal, dir, final, discarding, origin>>
      BY OpenedFile
<1>1. s' = IF n < Blocks[f] THEN [s EXCEPT !.phase = "recv", !.next = n]
           ELSE [s EXCEPT !.phase = "opening", !.cur = f + 1, !.next = 0]
      BY DEF Open, NextFile
<1>2. TypeOK'
  <2>1. f + 1 \in 1 .. NFiles + 1
        BY <1>0 DEF Files
  <2>2. s \in Sessions /\ "recv" \in Phases /\ "opening" \in Phases /\ 0 \in Nat
        BY DEF IInv, TypeOK, Phases, Receiving
  <2>3. [s EXCEPT !.phase = "recv", !.next = n] \in Sessions
        BY <1>0, <2>2 DEF Sessions
  <2>4. [s EXCEPT !.phase = "opening", !.cur = f + 1, !.next = 0] \in Sessions
        BY <2>1, <2>2 DEF Sessions
  <2>5. s' \in Sessions
        BY <1>1, <2>3, <2>4
  <2> QED BY <1>0, <2>5 DEF IInv, TypeOK
<1>3. PartsOK'
  <2>1. part'[s.tree][f].len = n /\ part'[s.tree][f].synced = n
        BY <1>0 DEF Holds
  <2>2. n # 0 => part'[s.tree][f].by = {s.fp}
        BY <1>0, Zenon DEF Holds
  <2>3. n \in Nat /\ n > 0 => n # 0
        OBVIOUS
  <2>4. n > 0 => part'[s.tree][f].by # {}
        BY <1>0, <2>2, <2>3, Zenon
  <2> QED BY <1>0, <2>1, <2>4 DEF IInv, PartsOK
<1>4. (JournalsOK /\ FinalIsWhole)'
      BY <1>0 DEF IInv, JournalsOK, JournalOK, FinalIsWhole
<1>5. SessionOK'
      BY <1>0, <1>1 DEF IInv, TypeOK, Sessions, SessionOK, Bound, Receiving, Closed, JournalOK
<1>6. \A g \in Files : g \in Nat /\ (g < f \/ g = f \/ g > f)
      BY <1>0 DEF Files
<1>7. f \in Nat
      BY <1>0 DEF Files
<1>8. n > 0 /\ part'[s.tree][f].there => n <= part'[s.tree][f].synced /\ part'[s.tree][f].by \subseteq {s.fp}
      BY <1>0 DEF Holds
<1>9. CheckpointBacked'
  <2> SUFFICES ASSUME NEW id \in Ids, NEW g \in Files,
                      Exists(id), part'[id][g].there, journal[id].have[g] > 0
               PROVE  journal[id].have[g] <= part'[id][g].synced /\ part'[id][g].by \subseteq {journal[id].fp}
      BY <1>0 DEF CheckpointBacked, Exists
  <2>1. CASE id = s.tree /\ g = f
    <3>1. s.tree # Tmp
          BY <2>1
    <3>2. journal[id] = s.jmem /\ s.jmem.fp = s.fp
          BY <1>0, <2>1, <3>1, NoJournalType DEF IInv, SessionOK, Bound, Receiving, Exists
    <3> QED BY <1>0, <1>8, <2>1, <3>2
  <2>2. CASE ~(id = s.tree /\ g = f)
    <3>1. part'[id][g] = part[id][g]
          BY <1>0, <2>2 DEF Trees
    <3> QED BY <3>1 DEF IInv, CheckpointBacked
  <2> QED BY <2>1, <2>2
<1>10. \A g \in Files : Backs(part'[s.tree][g], s.jmem.have[g], s.fp)
      BY <1>0, <1>8 DEF IInv, ProgressOK, Bound, Receiving, Backs
<1>11. \A g \in Files : g < f => Holds(part'[s.tree][g], Blocks[g], s.fp)
      BY <1>0, <1>7 DEF IInv, ProgressOK, Receiving
<1>12. s.tree # Tmp => \A g \in Files : s.jmem.have[g] = IF g < f THEN Blocks[g] ELSE s.seed[g]
      BY <1>0 DEF IInv, ProgressOK, Receiving, Told
<1>13. (ProgressOK /\ ClosingOK)'
  <2>1. CASE n < Blocks[f]
    <3>1. s' = [s EXCEPT !.phase = "recv", !.next = n]
          BY <1>1, <2>1
    <3>2. /\ s'.phase = "recv" /\ s'.next = n /\ s'.cur = f /\ s'.tree = s.tree /\ s'.fp = s.fp
          /\ s'.jmem = s.jmem /\ s'.seed = s.seed
          BY <3>1 DEF IInv, TypeOK, Sessions
    <3>3. \A g \in Files : Told(g)' = IF g < f THEN Blocks[g] ELSE s.seed[g]
          BY <1>6, <3>2 DEF Told
    <3> QED BY <1>0, <1>10, <1>11, <1>12, <2>1, <3>2, <3>3
            DEF ProgressOK, ClosingOK, Bound, Receiving
  <2>2. CASE n = Blocks[f]
    <3>1. s' = [s EXCEPT !.phase = "opening", !.cur = f + 1, !.next = 0]
          BY <1>0, <1>1, <2>2
    <3>2. /\ s'.phase = "opening" /\ s'.next = 0 /\ s'.cur = f + 1 /\ s'.tree = s.tree /\ s'.fp = s.fp
          /\ s'.jmem = s.jmem /\ s'.seed = s.seed
          BY <3>1 DEF IInv, TypeOK, Sessions
    <3>3. \A g \in Files : Told(g)' = IF g < f + 1 THEN Blocks[g] ELSE s.seed[g]
          BY <3>2 DEF Told
    <3>4. \A g \in Files : g < f + 1 => g < f \/ g = f
          BY <1>6, <1>7
    <3>5. \A g \in Files : g < f => g < f + 1
          BY <1>6, <1>7
    <3>6. s.tree # Tmp => \A g \in Files : s.jmem.have[g] = Told(g)'
          BY <1>0, <1>12, <2>2, <3>3, <3>4, <3>5
    <3>7. \A g \in Files : g < f + 1 => Holds(part'[s.tree][g], Blocks[g], s.fp)
          BY <1>0, <1>11, <2>2, <3>4
    <3> QED BY <1>10, <3>2, <3>6, <3>7 DEF ProgressOK, ClosingOK, Bound, Receiving
  <2>3. Blocks[f] \in Nat
        BY <1>0
  <2> QED BY <1>0, <2>1, <2>2, <2>3
<1> QED BY <1>2, <1>3, <1>4, <1>5, <1>9, <1>13 DEF IInv

\* The file being received.
LEMMA CurrentFile ==
    ASSUME IInv, s.phase \in {"recv", "written", "synced"}
    PROVE  /\ s.tree \in Trees /\ s.fp \in Fps /\ s.cur \in Files /\ s.cur \in Nat
           /\ s.next \in Nat /\ Blocks[s.cur] \in Nat /\ s.next < Blocks[s.cur]
           /\ part[s.tree][s.cur] \in Parts
           /\ s.tree # Tmp => /\ s.tree \in Ids
                              /\ journal[s.tree] \in {s.jmem, NoJournal}
                              /\ s.jmem.fp = s.fp
                              /\ s.jmem \in Journals
                              /\ s.jmem.have[s.cur] = s.next
<1> USE ConstantsAssumption
<1>1. s.tree \in Trees /\ s.fp \in Fps /\ s.cur \in Files /\ s.next < Blocks[s.cur]
      BY DEF IInv, SessionOK, ProgressOK, Bound, Receiving
<1>2. s.cur \in Nat /\ s.next \in Nat /\ Blocks[s.cur] \in Nat /\ part[s.tree][s.cur] \in Parts
      BY <1>1 DEF IInv, TypeOK, Sessions, Files
<1>3. Told(s.cur) = s.next
      BY <1>2 DEF Told
<1>4. s.tree # Tmp => s.jmem.have[s.cur] = s.next
      BY <1>1, <1>3 DEF IInv, ProgressOK, Receiving
<1> QED BY <1>1, <1>2, <1>4 DEF IInv, TypeOK, Sessions, SessionOK, Bound, Receiving, Trees

\* Writing or syncing the current file disturbs nothing else.
LEMMA FileStep ==
    ASSUME IInv, s.phase \in {"recv", "written"}, NEW ph \in {"written", "synced"},
           s' = [s EXCEPT !.phase = ph], NEW q \in Parts,
           part' = [part EXCEPT ![s.tree][s.cur] = q],
           UNCHANGED <<journal, dir, final, discarding, origin>>,
           q.there = part[s.tree][s.cur].there,
           part[s.tree][s.cur].synced <= q.synced, q.synced <= q.len,
           q.len > 0 => q.by # {},
           q.there => q.by \subseteq {s.fp},
           ph = "written" /\ q.there => q.len = s.next + 1 /\ q.synced = s.next /\ q.by = {s.fp},
           ph = "synced" => Holds(q, s.next + 1, s.fp)
    PROVE  IInv'
<1> USE ConstantsAssumption
<1>0. /\ s.tree \in Trees /\ s.fp \in Fps /\ s.cur \in Files /\ s.cur \in Nat
      /\ s.next \in Nat /\ s.next < Blocks[s.cur] /\ part[s.tree][s.cur] \in Parts
      /\ s.tree # Tmp => s.tree \in Ids /\ journal[s.tree] \in {s.jmem, NoJournal} /\ s.jmem.fp = s.fp
      BY CurrentFile
<1>1. /\ s'.phase = ph /\ s'.tree = s.tree /\ s'.fp = s.fp /\ s'.cur = s.cur /\ s'.next = s.next
      /\ s'.jmem = s.jmem /\ s'.seed = s.seed
      BY DEF IInv, TypeOK, Sessions
<1>2. /\ part' \in [Trees -> [Files -> Parts]]
      /\ part'[s.tree][s.cur] = q
      /\ \A t \in Trees, g \in Files : t # s.tree \/ g # s.cur => part'[t][g] = part[t][g]
      BY <1>0 DEF IInv, TypeOK
<1>3. TypeOK'
      BY <1>2 DEF IInv, TypeOK, Sessions, Phases, Receiving
<1>4. PartsOK'
      BY <1>2 DEF IInv, PartsOK
<1>5. (JournalsOK /\ FinalIsWhole)'
      BY DEF IInv, JournalsOK, JournalOK, FinalIsWhole
<1>6. CheckpointBacked'
  <2> SUFFICES ASSUME NEW id \in Ids, NEW g \in Files,
                      Exists(id), part'[id][g].there, journal[id].have[g] > 0
               PROVE  journal[id].have[g] <= part'[id][g].synced /\ part'[id][g].by \subseteq {journal[id].fp}
      BY DEF CheckpointBacked, Exists
  <2>1. part[id][g].there => journal[id].have[g] <= part[id][g].synced /\ part[id][g].by \subseteq {journal[id].fp}
        BY DEF IInv, CheckpointBacked
  <2>2. CASE id = s.tree /\ g = s.cur
    <3>1. journal[id].fp = s.fp
          BY <1>0, <2>2, NoJournalType DEF Exists
    <3>2. journal[id].have[g] \in Nat /\ q.synced \in Nat /\ part[id][g].synced \in Nat
          BY <1>0, <2>2 DEF IInv, TypeOK, Journals, Parts
    <3> QED BY <1>2, <2>1, <2>2, <3>1, <3>2
  <2>3. CASE ~(id = s.tree /\ g = s.cur)
        BY <1>2, <2>1, <2>3 DEF Trees
  <2> QED BY <2>2, <2>3
<1>7. SessionOK'
      BY DEF IInv, TypeOK, Sessions, SessionOK, Bound, Receiving, Closed, JournalOK
<1>8. (ProgressOK /\ ClosingOK)'
  <2>1. \A g \in Files : Told(g)' = Told(g)
        BY <1>1 DEF Told
  <2>2. \A g \in Files : Backs(part'[s.tree][g], s.jmem.have[g], s.fp)
    <3> SUFFICES ASSUME NEW g \in Files PROVE Backs(part'[s.tree][g], s.jmem.have[g], s.fp)
        OBVIOUS
    <3>1. Backs(part[s.tree][g], s.jmem.have[g], s.fp)
          BY DEF IInv, ProgressOK, Bound, Receiving
    <3>2. s.jmem.have[g] \in Nat /\ q.synced \in Nat /\ part[s.tree][s.cur].synced \in Nat
          BY <1>0 DEF IInv, TypeOK, Sessions, Journals, Parts
    <3> QED BY <1>0, <1>2, <3>1, <3>2 DEF Backs
  <2>3. \A g \in Files : g < s.cur => Holds(part'[s.tree][g], Blocks[g], s.fp)
        BY <1>0, <1>2 DEF IInv, ProgressOK, Receiving
  <2> QED BY <1>0, <1>1, <1>2, <2>1, <2>2, <2>3 DEF IInv, ProgressOK, ClosingOK, Bound, Receiving
<1> QED BY <1>3, <1>4, <1>5, <1>6, <1>7, <1>8 DEF IInv

LEMMA WriteAtIInv ==
    ASSUME IInv, WriteAt
    PROVE  IInv'
<1> DEFINE p == part[s.tree][s.cur]
           q == IF p.there THEN [p EXCEPT !.len = s.next + 1, !.by = @ \cup {s.fp}] ELSE p
<1>0. /\ s.phase = "recv" /\ s' = [s EXCEPT !.phase = "written"]
      /\ UNCHANGED <<journal, dir, final, discarding, origin>>
      BY DEF WriteAt
<1>1. s.tree \in Trees /\ s.fp \in Fps /\ s.cur \in Files /\ s.next \in Nat /\ p \in Parts
      BY <1>0, CurrentFile
<1>2. part' = [part EXCEPT ![s.tree][s.cur] = q]
      BY <1>1 DEF WriteAt, IInv, TypeOK
<1>3. p.there => p.synced = s.next /\ p.by \subseteq {s.fp}
      BY <1>0 DEF IInv, ProgressOK, Holds
<1>4. q \in Parts /\ q.there = p.there /\ q.synced = p.synced
  <2>1. p.by \cup {s.fp} \in SUBSET Fps /\ s.next + 1 \in Nat
        BY <1>1 DEF Parts
  <2>2. [p EXCEPT !.len = s.next + 1, !.by = p.by \cup {s.fp}] \in Parts
        BY <1>1, <2>1 DEF Parts
  <2> QED BY <1>1, <2>2 DEF Parts
<1>5. q.there => q.len = s.next + 1 /\ q.by = p.by \cup {s.fp}
      BY <1>1 DEF Parts
<1>6. q.there => q.by = {s.fp}
      BY <1>3, <1>4, <1>5
<1>7. p.synced <= p.len /\ (p.len > 0 => p.by # {}) /\ p.synced \in Nat /\ p.len \in Nat
      BY <1>1 DEF IInv, PartsOK, Parts
<1>8. q.synced <= q.len /\ (q.len > 0 => q.by # {})
  <2>1. CASE p.there
        BY <1>1, <1>3, <1>4, <1>5, <1>6, <2>1
  <2>2. CASE ~p.there
        BY <1>7, <2>2
  <2> QED BY <2>1, <2>2
<1>9. /\ p.synced <= q.synced
      /\ q.there => q.len = s.next + 1 /\ q.synced = s.next /\ q.by = {s.fp}
      BY <1>3, <1>4, <1>5, <1>6, <1>7
<1> HIDE DEF q
<1> QED BY <1>0, <1>2, <1>4, <1>6, <1>8, <1>9, FileStep

LEMMA SyncFileIInv ==
    ASSUME IInv, SyncFile
    PROVE  IInv'
<1> DEFINE p == part[s.tree][s.cur]
           q == [p EXCEPT !.synced = p.len]
<1>0. /\ s.phase = "written" /\ s' = [s EXCEPT !.phase = "synced"]
      /\ UNCHANGED <<journal, dir, final, discarding, origin>>
      BY DEF SyncFile
<1>1. s.tree \in Trees /\ s.fp \in Fps /\ s.cur \in Files /\ s.next \in Nat /\ p \in Parts
      BY <1>0, CurrentFile
<1>2. part' = [part EXCEPT ![s.tree][s.cur] = q]
      BY <1>1 DEF SyncFile, IInv, TypeOK
<1>3. p.there => p.len = s.next + 1 /\ p.by = {s.fp}
      BY <1>0 DEF IInv, ProgressOK
<1>4. q \in Parts /\ q.there = p.there /\ q.len = p.len /\ q.synced = p.len /\ q.by = p.by
      BY <1>1 DEF Parts
<1>5. p.synced <= p.len /\ (p.len > 0 => p.by # {}) /\ p.synced \in Nat /\ p.len \in Nat
      BY <1>1 DEF IInv, PartsOK, Parts
<1>6. s.next + 1 # 0
      BY <1>1
<1>7. Holds(q, s.next + 1, s.fp)
      BY <1>3, <1>4, <1>6 DEF Holds
<1> HIDE DEF q
<1>8. p.synced <= q.synced /\ q.synced <= q.len
      BY <1>4, <1>5
<1> QED BY <1>0, <1>2, <1>3, <1>4, <1>5, <1>7, <1>8, FileStep

LEMMA CommitIInv ==
    ASSUME IInv, Commit
    PROVE  IInv'
<1> USE ConstantsAssumption
<1> DEFINE f == s.cur
           n == s.next + 1
           j == IF s.tree = Tmp THEN s.jmem ELSE CommitBlocks(s.jmem, f, n)
<1>0. /\ s.phase = "synced"
      /\ UNCHANGED <<dir, part, final, discarding, origin>>
      BY DEF Commit
<1>1. /\ s.tree \in Trees /\ s.fp \in Fps /\ f \in Files /\ f \in Nat
      /\ s.next \in Nat /\ Blocks[f] \in Nat /\ s.next < Blocks[f]
      /\ n \in Nat /\ n > 0 /\ n <= Blocks[f]
      BY <1>0, CurrentFile
<1>2. s' = IF n = Blocks[f]
           THEN [s EXCEPT !.phase = "opening", !.cur = f + 1, !.next = 0, !.jmem = j]
           ELSE [s EXCEPT !.phase = "recv", !.next = n, !.jmem = j]
      BY <1>1 DEF Commit, Acked, NextFile, IInv, TypeOK, Sessions
<1>3. journal' = IF s.tree = Tmp THEN journal ELSE [journal EXCEPT ![s.tree] = j]
      BY DEF Commit
<1>4. /\ j \in Journals /\ j.fp = s.jmem.fp /\ j.cred = s.jmem.cred
      /\ s.tree = Tmp => j = s.jmem
      /\ s.tree # Tmp => \A g \in Files : j.have[g] = IF g = f THEN n ELSE s.jmem.have[g]
      BY <1>1 DEF IInv, TypeOK, Sessions, Journals, CommitBlocks
<1>5. s.tree # Tmp =>
         /\ s.tree \in Ids /\ s.jmem.fp = s.fp /\ s.peer = origin[s.tree]
         /\ JournalOK(s.jmem, s.tree)
      BY <1>0, <1>1 DEF IInv, SessionOK, Bound, Receiving, Trees
<1> HIDE DEF j
<1>6. s.tree # Tmp => JournalOK(j, s.tree)
      BY <1>1, <1>4, <1>5 DEF JournalOK
<1>7. TypeOK'
  <2>1. f + 1 \in 1 .. NFiles + 1 /\ "recv" \in Phases /\ "opening" \in Phases /\ s \in Sessions
        BY <1>1 DEF Files, Phases, Receiving, IInv, TypeOK
  <2>2. [s EXCEPT !.phase = "opening", !.cur = f + 1, !.next = 0, !.jmem = j] \in Sessions
        BY <1>4, <2>1 DEF Sessions
  <2>3. [s EXCEPT !.phase = "recv", !.next = n, !.jmem = j] \in Sessions
        BY <1>1, <1>4, <2>1 DEF Sessions
  <2>4. s' \in Sessions
        BY <1>2, <2>2, <2>3
  <2> QED BY <1>0, <1>1, <1>3, <1>4, <2>4 DEF IInv, TypeOK, Trees
<1>8. (PartsOK /\ FinalIsWhole)'
      BY <1>0 DEF IInv, PartsOK, FinalIsWhole
<1>9. JournalsOK'
      BY <1>0, <1>1, <1>3, <1>6 DEF IInv, TypeOK, JournalsOK, JournalOK, Trees
<1>10. \A g \in Files : Backs(part[s.tree][g], j.have[g], s.fp)
  <2> SUFFICES ASSUME NEW g \in Files PROVE Backs(part[s.tree][g], j.have[g], s.fp)
      OBVIOUS
  <2>1. Backs(part[s.tree][g], s.jmem.have[g], s.fp)
        BY <1>0 DEF IInv, ProgressOK, Bound, Receiving
  <2>2. Holds(part[s.tree][f], n, s.fp)
        BY <1>0 DEF IInv, ProgressOK
  <2>3. n <= n
        BY <1>1
  <2> QED BY <1>4, <2>1, <2>2, <2>3 DEF Backs, Holds
<1>11. CheckpointBacked'
  <2>1. CASE s.tree = Tmp
        BY <1>0, <1>3, <2>1 DEF IInv, CheckpointBacked, Exists
  <2>2. CASE s.tree # Tmp
        BY <1>0, <1>3, <1>4, <1>5, <1>10, <2>2 DEF IInv, TypeOK, CheckpointBacked, Exists, Backs
  <2> QED BY <2>1, <2>2
<1>12. /\ s'.tree = s.tree /\ s'.fp = s.fp /\ s'.jmem = j /\ s'.seed = s.seed /\ s'.peer = s.peer
       /\ s'.resumed = s.resumed /\ s'.phase \in {"opening", "recv"}
      BY <1>2 DEF IInv, TypeOK, Sessions
<1>13. SessionOK'
  <2>1. s.tree # Tmp => /\ journal'[s.tree] = j
                        /\ j.fp = s.fp /\ s.peer = origin'[s.tree]
                        /\ j.fp = None => j = NoJournal
                        /\ j.cred \in {None, origin'[s.tree]}
                        /\ \A g \in Files : j.have[g] <= Blocks[g]
        BY <1>0, <1>1, <1>3, <1>4, <1>5, <1>6 DEF IInv, TypeOK, JournalOK, Trees
  <2>2. /\ s.tree = Tmp => j = NoJournal /\ s.seed = ZeroBlocks /\ ~s.resumed
        /\ ~s.resumed => s.seed = ZeroBlocks
        /\ s.peer \in Peers
        BY <1>0, <1>4 DEF IInv, SessionOK, Bound, Receiving
  <2> QED BY <1>1, <1>12, <2>1, <2>2 DEF SessionOK, Bound, Receiving, Closed, JournalOK
<1>14. \A g \in Files : g < f => Holds(part[s.tree][g], Blocks[g], s.fp)
      BY <1>0 DEF IInv, ProgressOK, Receiving
<1>15. Holds(part[s.tree][f], n, s.fp)
      BY <1>0 DEF IInv, ProgressOK
<1>16. s.tree # Tmp => \A g \in Files : j.have[g] = IF g = f THEN n ELSE Told(g)
      BY <1>0, <1>4 DEF IInv, ProgressOK, Receiving
<1>17. \A g \in Files : g \in Nat
      BY DEF Files
<1>18. (ProgressOK /\ ClosingOK)'
  <2>1. CASE n = Blocks[f]
    <3>1. s'.phase = "opening" /\ s'.cur = f + 1 /\ s'.next = 0
          BY <1>2, <2>1 DEF IInv, TypeOK, Sessions
    <3>2. \A g \in Files : g < f + 1 => g < f \/ g = f
          BY <1>1, <1>17
    <3>3. \A g \in Files : g < f + 1 => Holds(part[s.tree][g], Blocks[g], s.fp)
          BY <1>14, <1>15, <2>1, <3>2
    <3>4. \A g \in Files : Told(g)' = IF g < f + 1 THEN Blocks[g] ELSE s.seed[g]
          BY <1>12, <3>1 DEF Told
    <3>5. \A g \in Files : Told(g) = IF g < f THEN Blocks[g] ELSE IF g = f THEN s.next ELSE s.seed[g]
          BY <1>0 DEF Told
    <3>6. \A g \in Files : g < f => g < f + 1
          BY <1>1, <1>17
    <3>7. f < f + 1
          BY <1>1
    <3>8. s.tree # Tmp => \A g \in Files : j.have[g] = Told(g)'
          BY <1>16, <2>1, <3>2, <3>4, <3>5, <3>6, <3>7
    <3> QED BY <1>0, <1>10, <1>12, <3>1, <3>3, <3>8 DEF ProgressOK, ClosingOK, Bound, Receiving
  <2>2. CASE n # Blocks[f]
    <3>1. s'.phase = "recv" /\ s'.cur = f /\ s'.next = n
          BY <1>2, <2>2 DEF IInv, TypeOK, Sessions
    <3>2. \A g \in Files : Told(g)' = IF g < f THEN Blocks[g] ELSE IF g = f THEN n ELSE s.seed[g]
          BY <1>12, <3>1 DEF Told
    <3>3. \A g \in Files : Told(g) = IF g < f THEN Blocks[g] ELSE IF g = f THEN s.next ELSE s.seed[g]
          BY <1>0 DEF Told
    <3>4. ~(f < f)
          BY <1>1
    <3>5. s.tree # Tmp => \A g \in Files : j.have[g] = Told(g)'
          BY <1>16, <3>2, <3>3, <3>4
    <3>6. n < Blocks[f]
          BY <1>1, <2>2
    <3> QED BY <1>0, <1>1, <1>10, <1>12, <1>14, <1>15, <3>1, <3>5, <3>6
            DEF ProgressOK, ClosingOK, Bound, Receiving
  <2> QED BY <2>1, <2>2
<1> QED BY <1>7, <1>8, <1>9, <1>11, <1>13, <1>18 DEF IInv

LEMMA CloseStartIInv ==
    ASSUME IInv, CloseStart
    PROVE  IInv'
<1> USE ConstantsAssumption
<1>0. /\ s.phase = "opening" /\ s.cur = NFiles + 1
      /\ s' = [s EXCEPT !.phase = "closing", !.cur = 1]
      /\ UNCHANGED <<journal, dir, part, final, discarding, origin>>
      BY DEF CloseStart, disk
<1>1. TypeOK'
  <2>1. 1 \in 1 .. NFiles + 1 /\ "closing" \in Phases /\ s \in Sessions
        BY DEF IInv, TypeOK, Phases, Closed
  <2>2. s' \in Sessions
        BY <1>0, <2>1 DEF Sessions
  <2> QED BY <1>0, <2>2 DEF IInv, TypeOK
<1>2. (PartsOK /\ JournalsOK /\ FinalIsWhole /\ CheckpointBacked)'
      BY <1>0 DEF IInv, PartsOK, JournalsOK, JournalOK, FinalIsWhole, CheckpointBacked, Exists
<1>3. SessionOK'
      BY <1>0 DEF IInv, TypeOK, Sessions, SessionOK, Bound, Receiving, Closed, JournalOK
<1>4. \A g \in Files : g < NFiles + 1 /\ ~(g < 1)
      BY DEF Files
<1>5. (ProgressOK /\ ClosingOK)'
      BY <1>0, <1>4 DEF IInv, TypeOK, Sessions, ProgressOK, ClosingOK, Bound, Receiving, Closed
<1> QED BY <1>1, <1>2, <1>3, <1>5 DEF IInv

\* What promotion puts at a final name.
LEMMA PromotedFile ==
    ASSUME IInv, s.phase = "closing", s.cur \in Files, MayPromote(s.cur), final' = Promoted(s.cur)
    PROVE  /\ s.tree \in Trees /\ s.cur \in Nat
           /\ final' \in [Files -> [kind : {"none", "foreign", "ours"}, len : Nat, by : SUBSET Fps]]
           /\ FinalIsWhole'
           /\ final'[s.cur].kind = "ours" /\ final'[s.cur].by \subseteq {s.fp}
           /\ \A g \in Files : g # s.cur => final'[g] = final[g]
<1> USE ConstantsAssumption
<1> DEFINE p == part[s.tree][s.cur]
           n == Blocks[s.cur]
<1>1. s.tree \in Trees /\ s.fp \in Fps /\ p \in Parts /\ s.cur \in Nat /\ n \in Nat
      BY DEF IInv, TypeOK, SessionOK, Bound, Closed, Files
<1>2. s.cur >= s.cur
      BY <1>1
<1>3. p.len = n /\ p.by = IF n = 0 THEN {} ELSE {s.fp}
      BY <1>2 DEF IInv, ClosingOK, Holds, MayPromote
<1>4. final' = [final EXCEPT ![s.cur] = [kind |-> "ours", len |-> p.len, by |-> p.by]]
      BY DEF Promoted
<1>5. p.len \in Nat /\ p.by \in SUBSET Fps
      BY <1>1 DEF Parts
<1>6. /\ final'[s.cur] = [kind |-> "ours", len |-> p.len, by |-> p.by]
      /\ \A g \in Files : g # s.cur => final'[g] = final[g]
      /\ final' \in [Files -> [kind : {"none", "foreign", "ours"}, len : Nat, by : SUBSET Fps]]
      BY <1>4, <1>5 DEF IInv, TypeOK
<1>7. p.by \subseteq {s.fp} /\ (p.by = {} <=> n = 0)
      BY <1>3
<1>8. FinalIsWhole'
  <2> SUFFICES ASSUME NEW g \in Files, final'[g].kind = "ours"
               PROVE  /\ final'[g].len = Blocks[g]
                      /\ final'[g].by = {} <=> Blocks[g] = 0
                      /\ \A a, b \in final'[g].by : a = b
      BY DEF FinalIsWhole
  <2>1. CASE g = s.cur
        BY <1>3, <1>6, <1>7, <2>1
  <2>2. CASE g # s.cur
        BY <1>6, <2>2 DEF IInv, FinalIsWhole
  <2> QED BY <2>1, <2>2
<1> QED BY <1>1, <1>6, <1>7, <1>8

LEMMA PromoteLinkIInv ==
    ASSUME IInv, PromoteLink
    PROVE  IInv'
<1>0. /\ s.phase = "closing" /\ s.cur \in Files /\ s' = [s EXCEPT !.phase = "linked"]
      /\ MayPromote(s.cur) /\ final' = Promoted(s.cur)
      /\ UNCHANGED <<journal, dir, part, discarding, origin>>
      BY DEF PromoteLink
<1>1. /\ s.tree \in Trees /\ s.cur \in Nat
      /\ final' \in [Files -> [kind : {"none", "foreign", "ours"}, len : Nat, by : SUBSET Fps]]
      /\ FinalIsWhole'
      /\ final'[s.cur].kind = "ours" /\ final'[s.cur].by \subseteq {s.fp}
      /\ \A g \in Files : g # s.cur => final'[g] = final[g]
      BY <1>0, PromotedFile
<1>2. TypeOK'
      BY <1>0, <1>1 DEF IInv, TypeOK, Sessions, Phases, Closed
<1>3. (PartsOK /\ JournalsOK /\ CheckpointBacked)'
      BY <1>0 DEF IInv, PartsOK, JournalsOK, JournalOK, CheckpointBacked, Exists
<1>4. SessionOK'
      BY <1>0 DEF IInv, TypeOK, Sessions, SessionOK, Bound, Receiving, Closed, JournalOK
<1>5. \A g \in Files : g < s.cur => final'[g].kind = "ours" /\ final'[g].by \subseteq {s.fp}
      BY <1>0, <1>1 DEF IInv, ClosingOK
<1>6. (ProgressOK /\ ClosingOK)'
      BY <1>0, <1>1, <1>5 DEF IInv, TypeOK, Sessions, ProgressOK, ClosingOK, Bound, Receiving, Closed
<1> QED BY <1>1, <1>2, <1>3, <1>4, <1>6 DEF IInv

\* Unlinking the .part of the promoted file, however it was promoted.
LEMMA PromotedIInv ==
    ASSUME IInv, s.phase \in {"closing", "linked"}, s.cur \in Files,
           s' = [s EXCEPT !.phase = "closing", !.cur = s.cur + 1],
           part' = [part EXCEPT ![s.tree][s.cur] = Absent],
           UNCHANGED <<journal, dir, discarding, origin>>,
           final' \in [Files -> [kind : {"none", "foreign", "ours"}, len : Nat, by : SUBSET Fps]],
           FinalIsWhole',
           final'[s.cur].kind = "ours", final'[s.cur].by \subseteq {s.fp},
           \A g \in Files : g # s.cur => final'[g] = final[g]
    PROVE  IInv'
<1> USE ConstantsAssumption
<1>0. s.tree \in Trees /\ s.cur \in Nat /\ s.cur + 1 \in 1 .. NFiles + 1
      BY DEF IInv, SessionOK, Bound, Closed, Files
<1>1. /\ s'.phase = "closing" /\ s'.cur = s.cur + 1 /\ s'.tree = s.tree /\ s'.fp = s.fp
      BY DEF IInv, TypeOK, Sessions
<1>2. Absent \in Parts /\ ~Absent.there /\ Absent.len = 0 /\ Absent.synced = 0
      BY DEF Absent, Parts
<1>3. /\ part' \in [Trees -> [Files -> Parts]]
      /\ part'[s.tree][s.cur] = Absent
      /\ \A t \in Trees, g \in Files : t # s.tree \/ g # s.cur => part'[t][g] = part[t][g]
      BY <1>0, <1>2 DEF IInv, TypeOK
<1>4. TypeOK'
      BY <1>0, <1>3 DEF IInv, TypeOK, Sessions, Phases, Closed
<1>5. PartsOK'
      BY <1>2, <1>3 DEF IInv, PartsOK
<1>6. JournalsOK'
      BY DEF IInv, JournalsOK, JournalOK
<1>7. CheckpointBacked'
      BY <1>2, <1>3 DEF IInv, CheckpointBacked, Exists, Trees
<1>8. SessionOK'
      BY DEF IInv, TypeOK, Sessions, SessionOK, Bound, Receiving, Closed, JournalOK
<1>9. \A g \in Files : g \in Nat /\ (g < s.cur + 1 => g < s.cur \/ g = s.cur)
                       /\ (g >= s.cur + 1 => g >= s.cur /\ g # s.cur)
      BY <1>0 DEF Files
<1>10. \A g \in Files : g >= s.cur + 1 => Holds(part'[s.tree][g], Blocks[g], s.fp)
      BY <1>0, <1>3, <1>9 DEF IInv, ClosingOK
<1>11. \A g \in Files : g < s.cur => final'[g].kind = "ours" /\ final'[g].by \subseteq {s.fp}
      BY <1>0 DEF IInv, ClosingOK
<1>12. \A g \in Files : g < s.cur + 1 => final'[g].kind = "ours" /\ final'[g].by \subseteq {s.fp}
      BY <1>9, <1>11
<1>13. (ProgressOK /\ ClosingOK)'
      BY <1>1, <1>10, <1>12 DEF ProgressOK, ClosingOK, Bound, Receiving
<1> QED BY <1>4, <1>5, <1>6, <1>7, <1>8, <1>13 DEF IInv

LEMMA PromoteUnlinkIInv ==
    ASSUME IInv, PromoteUnlink
    PROVE  IInv'
<1>0. /\ s.phase = "linked" /\ part' = [part EXCEPT ![s.tree][s.cur] = Absent]
      /\ s' = [s EXCEPT !.phase = "closing", !.cur = s.cur + 1]
      /\ UNCHANGED <<journal, dir, final, discarding, origin>>
      BY DEF PromoteUnlink
<1>1. s.cur \in Files /\ final'[s.cur].kind = "ours" /\ final'[s.cur].by \subseteq {s.fp}
      BY <1>0 DEF IInv, ClosingOK
<1>2. /\ final' \in [Files -> [kind : {"none", "foreign", "ours"}, len : Nat, by : SUBSET Fps]]
      /\ FinalIsWhole'
      BY <1>0 DEF IInv, TypeOK, FinalIsWhole
<1> QED BY <1>0, <1>1, <1>2, PromotedIInv

LEMMA PromoteRenameIInv ==
    ASSUME IInv, PromoteRename
    PROVE  IInv'
<1>0. /\ s.phase = "closing" /\ s.cur \in Files /\ MayPromote(s.cur) /\ final' = Promoted(s.cur)
      /\ part' = [part EXCEPT ![s.tree][s.cur] = Absent]
      /\ s' = [s EXCEPT !.phase = "closing", !.cur = s.cur + 1]
      /\ UNCHANGED <<journal, dir, discarding, origin>>
      BY DEF PromoteRename, IInv, TypeOK, Sessions
<1> QED BY <1>0, PromotedFile, PromotedIInv

\* An idle process claims nothing.
LEMMA IdleOK ==
    ASSUME s' = Idle
    PROVE  (SessionOK /\ ProgressOK /\ ClosingOK)'
BY DEF Idle, SessionOK, ProgressOK, ClosingOK, Bound, Receiving, Closed

\* Removing a tree of .part files never makes a journal claim too much.
LEMMA RemovedTree ==
    ASSUME IInv, NEW t \in Trees, RemoveTree(t), UNCHANGED journal
    PROVE  /\ dir' \in [Trees -> BOOLEAN] /\ part' \in [Trees -> [Files -> Parts]]
           /\ (PartsOK /\ CheckpointBacked)'
           /\ \A g \in Files : ~part'[t][g].there
           /\ \A u \in Trees : u # t => part'[u] = part[u]
<1>1. NoTree \in [Files -> Parts]
      BY DEF NoTree, Absent, Parts
<1>2. \A g \in Files : ~NoTree[g].there /\ NoTree[g].len = 0 /\ NoTree[g].synced = 0
      BY DEF NoTree, Absent
<1>3. dir' = [dir EXCEPT ![t] = FALSE] /\ part' = [part EXCEPT ![t] = NoTree]
      BY DEF RemoveTree
<1>4. /\ dir' \in [Trees -> BOOLEAN] /\ part' \in [Trees -> [Files -> Parts]]
      /\ part'[t] = NoTree
      /\ \A u \in Trees : u # t => part'[u] = part[u]
      BY <1>1, <1>3 DEF IInv, TypeOK
<1>5. PartsOK'
      BY <1>2, <1>4 DEF IInv, PartsOK
<1>6. CheckpointBacked'
      BY <1>2, <1>4 DEF IInv, CheckpointBacked, Exists, Trees
<1> QED BY <1>2, <1>4, <1>5, <1>6

LEMMA CloseJournalIInv ==
    ASSUME IInv, CloseJournal
    PROVE  IInv'
<1> USE ConstantsAssumption
<1>0. /\ s.phase = "closing" /\ s' = [s EXCEPT !.phase = "emptying"]
      /\ journal' = IF s.tree = Tmp THEN journal ELSE [journal EXCEPT ![s.tree] = NoJournal]
      /\ UNCHANGED <<dir, part, final, discarding, origin>>
      BY DEF CloseJournal
<1>1. s.tree \in Trees
      BY <1>0 DEF IInv, SessionOK, Bound, Closed
<1>2. TypeOK'
      BY <1>0, <1>1, NoJournalType DEF IInv, TypeOK, Sessions, Phases, Closed, Trees
<1>3. \A id \in Ids : journal'[id] \in {journal[id], NoJournal}
      BY <1>0 DEF IInv, TypeOK
<1>4. JournalsOK'
      BY <1>0, <1>3, NoJournalOK DEF IInv, JournalsOK, JournalOK
<1>5. CheckpointBacked'
      BY <1>0, <1>3, NoJournalType DEF IInv, CheckpointBacked, Exists
<1>6. (PartsOK /\ FinalIsWhole)'
      BY <1>0 DEF IInv, PartsOK, FinalIsWhole
<1>7. (SessionOK /\ ProgressOK /\ ClosingOK)'
      BY <1>0 DEF IInv, TypeOK, Sessions, SessionOK, ProgressOK, ClosingOK, Bound, Receiving, Closed
<1> QED BY <1>2, <1>4, <1>5, <1>6, <1>7 DEF IInv

LEMMA CloseTreeIInv ==
    ASSUME IInv, CloseTree
    PROVE  IInv'
<1>0. /\ s.phase = "emptying" /\ RemoveTree(s.tree) /\ s' = Idle
      /\ UNCHANGED <<journal, final, discarding, origin>>
      BY DEF CloseTree
<1>1. s.tree \in Trees
      BY <1>0 DEF IInv, SessionOK, Bound, Closed
<1>2. /\ dir' \in [Trees -> BOOLEAN] /\ part' \in [Trees -> [Files -> Parts]]
      /\ (PartsOK /\ CheckpointBacked)'
      BY <1>0, <1>1, RemovedTree
<1>3. TypeOK'
      BY <1>0, <1>2, IdleType DEF IInv, TypeOK
<1>4. (JournalsOK /\ FinalIsWhole)'
      BY <1>0 DEF IInv, JournalsOK, JournalOK, FinalIsWhole
<1> QED BY <1>0, <1>2, <1>3, <1>4, IdleOK DEF IInv

LEMMA AbortIInv ==
    ASSUME IInv, Abort
    PROVE  IInv'
<1>0. s' = Idle /\ UNCHANGED <<journal, final, discarding, origin>>
      BY DEF Abort
<1>1. (JournalsOK /\ FinalIsWhole)'
      BY <1>0 DEF IInv, JournalsOK, JournalOK, FinalIsWhole
<1>2. dir' \in [Trees -> BOOLEAN] /\ part' \in [Trees -> [Files -> Parts]] /\ (PartsOK /\ CheckpointBacked)'
  <2>1. CASE s.tree # None /\ RemoveTree(s.tree)
    <3>1. s.tree \in Trees
          BY <2>1 DEF IInv, TypeOK, Sessions
    <3> QED BY <1>0, <2>1, <3>1, RemovedTree
  <2>2. CASE UNCHANGED <<dir, part>>
        BY <1>0, <2>2 DEF IInv, TypeOK, PartsOK, CheckpointBacked, Exists
  <2> QED BY <2>1, <2>2 DEF Abort
<1>3. TypeOK'
      BY <1>0, <1>2, IdleType DEF IInv, TypeOK
<1> QED BY <1>0, <1>1, <1>2, <1>3, IdleOK DEF IInv

LEMMA CrashIInv ==
    ASSUME IInv, NEW machine \in BOOLEAN, Crash(machine)
    PROVE  IInv'
<1>0. s' = Idle /\ UNCHANGED <<journal, dir, final, origin>> /\ discarding' \in {discarding, None}
      BY DEF Crash
<1>1. (JournalsOK /\ FinalIsWhole)'
      BY <1>0 DEF IInv, JournalsOK, JournalOK, FinalIsWhole
<1>2. part' \in [Trees -> [Files -> Parts]] /\ (PartsOK /\ CheckpointBacked)'
  <2>1. CASE UNCHANGED part
        BY <1>0, <2>1 DEF IInv, TypeOK, PartsOK, CheckpointBacked, Exists
  <2>2. CASE machine
    <3>1. part' = [t \in Trees |-> [f \in Files |-> LoseUnsynced(part[t][f])]]
          BY <2>2 DEF Crash
    <3>2. \A t \in Trees, f \in Files : part[t][f] \in Parts
          BY DEF IInv, TypeOK
    <3>3. \A t \in Trees, f \in Files :
             /\ part'[t][f] \in Parts
             /\ part'[t][f].there = part[t][f].there
             /\ part'[t][f].len = part[t][f].synced
             /\ part'[t][f].synced = part[t][f].synced
             /\ part'[t][f].by = part[t][f].by
          BY <3>1, <3>2 DEF LoseUnsynced, Parts
    <3>4. part' \in [Trees -> [Files -> Parts]]
          BY <3>1, <3>3
    <3>5. PartsOK'
          BY <3>2, <3>3 DEF IInv, PartsOK, Parts
    <3>6. CheckpointBacked'
          BY <1>0, <3>3 DEF IInv, CheckpointBacked, Exists, Trees
    <3> QED BY <3>4, <3>5, <3>6
  <2> QED BY <2>1, <2>2 DEF Crash
<1>3. TypeOK'
      BY <1>0, <1>2, IdleType DEF IInv, TypeOK
<1> QED BY <1>0, <1>1, <1>2, <1>3, IdleOK DEF IInv

LEMMA DiscardJournalIInv ==
    ASSUME IInv, NEW id \in Ids, DiscardJournal(id)
    PROVE  IInv'
<1>0. /\ journal' = [journal EXCEPT ![id] = NoJournal] /\ discarding' = id
      /\ UNCHANGED <<dir, part, final, s, origin>>
      BY DEF DiscardJournal
<1>1. TypeOK'
      BY <1>0, NoJournalType DEF IInv, TypeOK
<1>2. \A i \in Ids : journal'[i] \in {journal[i], NoJournal}
      BY <1>0 DEF IInv, TypeOK
<1>3. JournalsOK'
      BY <1>0, <1>2, NoJournalOK DEF IInv, JournalsOK, JournalOK
<1>4. CheckpointBacked'
      BY <1>0, <1>2, NoJournalType DEF IInv, CheckpointBacked, Exists
<1>5. (PartsOK /\ FinalIsWhole)'
      BY <1>0 DEF IInv, PartsOK, FinalIsWhole
<1>6. SessionOK'
      BY <1>0, <1>2 DEF IInv, SessionOK, JournalOK, Bound, Receiving, Closed, Trees
<1>7. (ProgressOK /\ ClosingOK)'
      BY <1>0 DEF IInv, ProgressOK, ClosingOK, Told
<1> QED BY <1>1, <1>3, <1>4, <1>5, <1>6, <1>7 DEF IInv

LEMMA DiscardTreeIInv ==
    ASSUME IInv, DiscardTree
    PROVE  IInv'
<1>0. /\ discarding \in Ids /\ RemoveTree(discarding) /\ discarding' = None
      /\ UNCHANGED <<journal, final, s, origin>>
      BY DEF DiscardTree, IInv, TypeOK
<1>1. /\ dir' \in [Trees -> BOOLEAN] /\ part' \in [Trees -> [Files -> Parts]]
      /\ (PartsOK /\ CheckpointBacked)'
      /\ \A g \in Files : ~part'[discarding][g].there
      /\ \A u \in Trees : u # discarding => part'[u] = part[u]
      BY <1>0, RemovedTree DEF Trees
<1>2. TypeOK'
      BY <1>0, <1>1 DEF IInv, TypeOK
<1>3. (JournalsOK /\ FinalIsWhole /\ SessionOK)'
      BY <1>0 DEF IInv, JournalsOK, JournalOK, FinalIsWhole, SessionOK
<1>4. \A g \in Files : Told(g)' = Told(g)
      BY <1>0 DEF Told
<1>5. s.phase \in Bound \cup Closed => s.tree \in Trees
      BY DEF IInv, SessionOK
<1>6. (ProgressOK /\ ClosingOK)'
  <2>1. CASE s.tree = discarding
    <3>1. \A g \in Files : ~part'[s.tree][g].there
          BY <1>1, <2>1
    <3>2. ProgressOK'
          BY <1>0, <1>4, <3>1 DEF IInv, ProgressOK, Backs, Holds, Bound, Receiving
    <3>3. ClosingOK'
          BY <1>0, <3>1 DEF IInv, ClosingOK, Holds
    <3> QED BY <3>2, <3>3
  <2>2. CASE s.tree # discarding
    <3>1. s.phase \in Bound \cup Closed => part'[s.tree] = part[s.tree]
          BY <1>1, <1>5, <2>2
    <3>2. ProgressOK'
          BY <1>0, <1>4, <3>1 DEF IInv, ProgressOK, Bound, Receiving
    <3>3. ClosingOK'
          BY <1>0, <3>1 DEF IInv, ClosingOK, Closed
    <3> QED BY <3>2, <3>3
  <2> QED BY <2>1, <2>2
<1> QED BY <1>1, <1>2, <1>3, <1>6 DEF IInv

LEMMA ForeignFileIInv ==
    ASSUME IInv, NEW f \in Files, ForeignFile(f)
    PROVE  IInv'
<1>0. /\ final[f].kind = "none" /\ final' = [final EXCEPT ![f].kind = "foreign"]
      /\ UNCHANGED <<journal, dir, part, s, discarding, origin>>
      BY DEF ForeignFile
<1>1. TypeOK'
      BY <1>0 DEF IInv, TypeOK
<1>2. final'[f].kind = "foreign" /\ \A g \in Files : g # f => final'[g] = final[g]
      BY <1>0 DEF IInv, TypeOK
<1>3. \A g \in Files : final[g].kind = "ours" => final'[g] = final[g]
      BY <1>0, <1>2
<1>4. FinalIsWhole'
      BY <1>2 DEF IInv, FinalIsWhole
<1>5. (PartsOK /\ JournalsOK /\ CheckpointBacked /\ SessionOK)'
      BY <1>0 DEF IInv, PartsOK, JournalsOK, JournalOK, CheckpointBacked, Exists, SessionOK
<1>6. ProgressOK'
      BY <1>0 DEF IInv, ProgressOK, Told
<1>7. ClosingOK'
      BY <1>0, <1>3 DEF IInv, ClosingOK
<1> QED BY <1>1, <1>4, <1>5, <1>6, <1>7 DEF IInv

LEMMA StutterIInv ==
    ASSUME IInv, UNCHANGED vars
    PROVE  IInv'
<1> USE DEF vars
<1>1. (TypeOK /\ PartsOK /\ JournalsOK /\ CheckpointBacked /\ FinalIsWhole)'
      BY DEF IInv, TypeOK, PartsOK, JournalsOK, JournalOK, CheckpointBacked, Exists, FinalIsWhole
<1>2. (SessionOK /\ ProgressOK /\ ClosingOK)'
      BY DEF IInv, SessionOK, JournalOK, ProgressOK, ClosingOK, Told
<1> QED BY <1>1, <1>2 DEF IInv

LEMMA NextIInv ==
    ASSUME IInv, [Next]_vars
    PROVE  IInv'
<1>1. ASSUME NEW p \in Peers, NEW e \in Ids \cup {None}, NewDurableDestination(p, e) PROVE IInv'
      BY <1>1, NewDestinationIInv
<1>2. CASE SetResumeAuthorized
      BY <1>2, AuthorizedIInv
<1>3. ASSUME NEW fp \in Fps, PrepareTemp(fp) PROVE IInv'
      BY <1>3, PrepareTempIInv
<1>4. ASSUME NEW id \in Ids, NEW fp \in Fps, PrepareFresh(id, fp) PROVE IInv'
      BY <1>4, PrepareFreshIInv
<1>5. ASSUME NEW id \in Ids, NEW fp \in Fps, PrepareResumed(id, fp) PROVE IInv'
      BY <1>5, PrepareResumedIInv
<1>6. ASSUME NEW id \in Ids, NEW fp \in Fps, PrepareRefused(id, fp) PROVE IInv'
      BY <1>6, PrepareRefusedIInv
<1>7. CASE BindManifest \/ Open \/ WriteAt \/ SyncFile \/ Commit
      BY <1>7, BindManifestIInv, OpenIInv, WriteAtIInv, SyncFileIInv, CommitIInv
<1>8. CASE CloseStart \/ PromoteLink \/ PromoteUnlink \/ PromoteRename
      BY <1>8, CloseStartIInv, PromoteLinkIInv, PromoteUnlinkIInv, PromoteRenameIInv
<1>9. CASE CloseJournal \/ CloseTree \/ Abort \/ DiscardTree
      BY <1>9, CloseJournalIInv, CloseTreeIInv, AbortIInv, DiscardTreeIInv
<1>10. ASSUME NEW machine \in BOOLEAN, Crash(machine) PROVE IInv'
      BY <1>10, CrashIInv
<1>11. ASSUME NEW id \in Ids, DiscardJournal(id) PROVE IInv'
      BY <1>11, DiscardJournalIInv
<1>12. ASSUME NEW f \in Files, ForeignFile(f) PROVE IInv'
      BY <1>12, ForeignFileIInv
<1>13. CASE UNCHANGED vars
      BY <1>13, StutterIInv
<1> QED BY <1>1, <1>2, <1>3, <1>4, <1>5, <1>6, <1>7, <1>8, <1>9, <1>10, <1>11, <1>12, <1>13 DEF Next

\* The inductive invariant: in every state the process's belief, the journal
\* and the .part files agree.
THEOREM Inductive == Spec => []IInv
<1>1. Init => IInv
      BY InitIInv
<1>2. IInv /\ [Next]_vars => IInv'
      BY NextIInv
<1> QED BY <1>1, <1>2, PTL DEF Spec

\* The store, the .part files and the process always have their types.
THEOREM TypeCorrect == Spec => []TypeOK
BY Inductive, PTL DEF IInv

\* No journal ever claims a block that a power loss could take, or a block of
\* another manifest (DurableFileSink.Write, Open, Prepare).
THEOREM JournalsBacked == Spec => []CheckpointBacked
BY Inductive, PTL DEF IInv

\* Every file a receive promoted is complete and of one manifest (Close).
THEOREM FinalsWhole == Spec => []FinalIsWhole
BY Inductive, PTL DEF IInv

\* The advertised seed and every ack stand for blocks on stable storage that the
\* journal claims (DurableFileSink.Write, ResumeStateFor).
THEOREM AcksDurable == Spec => []AckedIsDurable
<1>1. IInv => AckedIsDurable
  <2> SUFFICES ASSUME IInv, s.phase \in Receiving, NEW f \in Files, Told(f) > 0
               PROVE  /\ part[s.tree][f].there => /\ Told(f) <= part[s.tree][f].synced
                                                  /\ part[s.tree][f].by \subseteq {s.fp}
                      /\ (s.tree # Tmp /\ Exists(s.tree)) => Told(f) <= journal[s.tree].have[f]
      BY DEF AckedIsDurable
  <2> USE ConstantsAssumption
  <2>0. s.tree \in Trees /\ f \in Nat /\ s.cur \in Nat /\ Blocks[f] \in Nat /\ s.seed[f] \in Nat /\ s.next \in Nat
        BY DEF IInv, TypeOK, Sessions, SessionOK, Bound, Files
  <2>1. Told(f) \in Nat
        BY <2>0 DEF Told
  <2>2. CASE s.tree # Tmp
    <3>1. s.jmem.have[f] = Told(f)
          BY <2>2 DEF IInv, ProgressOK
    <3>2. Backs(part[s.tree][f], s.jmem.have[f], s.fp)
          BY DEF IInv, ProgressOK, Bound
    <3>3. Exists(s.tree) => journal[s.tree] = s.jmem
          BY <2>2, NoJournalType DEF IInv, SessionOK, Bound, Exists
    <3> QED BY <2>1, <3>1, <3>2, <3>3 DEF Backs
  <2>3. CASE s.tree = Tmp
    <3> SUFFICES ASSUME part[s.tree][f].there
                 PROVE  Told(f) <= part[s.tree][f].synced /\ part[s.tree][f].by \subseteq {s.fp}
        BY <2>3
    <3>1. s.seed[f] = 0
          BY <2>3 DEF IInv, SessionOK, Bound, ZeroBlocks
    <3>2. CASE f < s.cur
          BY <2>0, <3>2 DEF IInv, ProgressOK, Holds, Told
    <3>3. CASE f = s.cur /\ s.phase # "opening"
      <4>1. s.phase \in {"recv", "written", "synced"} /\ Told(f) = s.next
            BY <2>0, <3>3 DEF Receiving, Told
      <4>2. CASE s.phase = "written"
            BY <2>0, <3>3, <4>1, <4>2 DEF IInv, ProgressOK
      <4>3. CASE s.phase = "recv"
            BY <2>0, <3>3, <4>1, <4>3 DEF IInv, ProgressOK, Holds
      <4>4. CASE s.phase = "synced"
            BY <2>0, <3>3, <4>1, <4>4 DEF IInv, ProgressOK, Holds
      <4> QED BY <4>1, <4>2, <4>3, <4>4
    <3>4. CASE ~(f < s.cur) /\ ~(f = s.cur /\ s.phase # "opening")
          BY <3>1, <3>4 DEF Told
    <3> QED BY <3>2, <3>3, <3>4
  <2> QED BY <2>2, <2>3
<1> QED BY <1>1, Inductive, PTL

\* A session that advertises earlier progress talks to the peer of the session
\* that created the journal (AttachResumeSecret, Prepare).
THEOREM OnlyOriginalPeer == Spec => []ProgressOnlyToOriginalPeer
<1>1. IInv => ProgressOnlyToOriginalPeer
      BY DEF IInv, SessionOK, Bound, ProgressOnlyToOriginalPeer
<1> QED BY <1>1, Inductive, PTL

\* No step changes a file at a final name (promoteFile).
THEOREM FinalsKept == Spec => FinalNeverOverwritten
<1>1. IInv /\ [Next]_vars => [\A f \in Files : final[f].kind # "none" => final'[f] = final[f]]_vars
  <2> SUFFICES ASSUME IInv, [Next]_vars, NEW f \in Files, final[f].kind # "none"
               PROVE  final'[f] = final[f]
      OBVIOUS
  <2>1. CASE PromoteLink \/ PromoteRename
        BY <2>1 DEF PromoteLink, PromoteRename, MayPromote, Promoted, IInv, TypeOK
  <2>2. ASSUME NEW g \in Files, ForeignFile(g) PROVE final'[f] = final[f]
        BY <2>2 DEF ForeignFile, IInv, TypeOK
  <2>3. CASE UNCHANGED final
        BY <2>3
  <2> QED BY <2>1, <2>2, <2>3
          DEF Next, vars, disk, NewDurableDestination, SetResumeAuthorized, PrepareTemp, PrepareFresh,
              PrepareResumed, PrepareRefused, BindManifest, Open, WriteAt, SyncFile, Commit, CloseStart,
              PromoteUnlink, CloseJournal, CloseTree, Abort, Crash, DiscardJournal, DiscardTree
<1> QED BY <1>1, Inductive, PTL DEF Spec, FinalNeverOverwritten

\* A journal keeps its manifest and credential and its progress only grows,
\* until a discard or the completed promotion removes it (Prepare,
\* AttachResumeSecret, commitBlocks, Close, Discard).
THEOREM ProgressKept == Spec => ProgressNeverRegresses
<1>1. IInv /\ [Next]_vars =>
        [\A id \in Ids : Exists(id) => JournalKept(id) \/ discarding' = id \/ JournalDone(id)]_vars
  <2> SUFFICES ASSUME IInv, [Next]_vars, NEW id \in Ids, Exists(id)
               PROVE  JournalKept(id) \/ discarding' = id \/ JournalDone(id)
      OBVIOUS
  <2> USE ConstantsAssumption DEF JournalKept, JournalDone
  <2>0. journal[id] \in Journals /\ s \in Sessions
        BY DEF IInv, TypeOK
  <2>1. ASSUME journal'[id] = journal[id] PROVE JournalKept(id)
        BY <2>0, <2>1 DEF Journals
  <2>2. ASSUME NEW i \in Ids, NEW fp \in Fps, PrepareFresh(i, fp) PROVE JournalKept(id)
        BY <2>1, <2>2 DEF PrepareFresh, IInv, TypeOK
  <2>3. CASE BindManifest
    <3>1. CASE s.tree = Tmp
          BY <2>1, <2>3, <3>1 DEF BindManifest
    <3>2. CASE s.tree # Tmp /\ s.tree # id
          BY <2>1, <2>3, <3>2 DEF BindManifest, IInv, TypeOK
    <3>3. CASE s.tree = id
      <4>1. journal[id] = s.jmem
            BY <2>3, <3>3, NoJournalType DEF BindManifest, IInv, SessionOK, Bound, Exists
      <4> DEFINE j == AttachResumeSecret(s.jmem)
      <4>2. journal'[id] = j
            BY <2>3, <3>3, <4>1 DEF BindManifest, IInv, TypeOK
      <4>3. j.fp = s.jmem.fp /\ s.jmem.cred \in {None, j.cred} /\ j.have = s.jmem.have
            BY <2>0, <4>1 DEF AttachResumeSecret, Journals
      <4> HIDE DEF j
      <4> QED BY <2>0, <4>1, <4>2, <4>3 DEF Journals
    <3> QED BY <3>1, <3>2, <3>3
  <2>4. CASE Commit
    <3>1. CASE s.tree = Tmp
          BY <2>1, <2>4, <3>1 DEF Commit
    <3>2. CASE s.tree # Tmp /\ s.tree # id
          BY <2>1, <2>4, <3>2 DEF Commit, IInv, TypeOK
    <3>3. CASE s.tree = id
      <4> DEFINE j == CommitBlocks(s.jmem, s.cur, s.next + 1)
      <4>1. journal[id] \in {s.jmem, NoJournal} /\ s.jmem.have[s.cur] = s.next /\ s.next \in Nat /\ s.cur \in Files
            BY <2>4, <3>3, CurrentFile DEF Commit
      <4>2. journal[id] = s.jmem
            BY <4>1, NoJournalType DEF Exists
      <4>3. journal'[id] = j
            BY <2>4, <3>3 DEF Commit, IInv, TypeOK
      <4>4. /\ j.fp = journal[id].fp /\ j.cred = journal[id].cred
            /\ \A f \in Files : j.have[f] = IF f = s.cur THEN s.next + 1 ELSE journal[id].have[f]
            BY <2>0, <4>1, <4>2 DEF CommitBlocks, Journals
      <4>5. \A f \in Files : journal[id].have[f] \in Nat
            BY <2>0 DEF Journals
      <4> HIDE DEF j
      <4> QED BY <4>1, <4>2, <4>3, <4>4, <4>5
    <3> QED BY <3>1, <3>2, <3>3
  <2>5. CASE CloseJournal
    <3>1. CASE s.tree # id
          BY <2>1, <2>5, <3>1 DEF CloseJournal, IInv, TypeOK
    <3>2. CASE s.tree = id
      <4>1. s.phase = "closing" /\ s.cur = NFiles + 1 /\ journal'[id] = NoJournal
            BY <2>5, <3>2 DEF CloseJournal, IInv, TypeOK
      <4>2. journal[id].fp = s.fp
            BY <3>2, <4>1, NoJournalType DEF IInv, SessionOK, Exists
      <4>3. \A f \in Files : f < NFiles + 1
            BY DEF Files
      <4> QED BY <4>1, <4>2, <4>3 DEF IInv, ClosingOK
    <3> QED BY <3>1, <3>2
  <2>6. ASSUME NEW i \in Ids, DiscardJournal(i) PROVE JournalKept(id) \/ discarding' = id
    <3>1. i # id => journal'[id] = journal[id]
          BY <2>6 DEF DiscardJournal, IInv, TypeOK
    <3>2. discarding' = i
          BY <2>6 DEF DiscardJournal
    <3> QED BY <2>1, <3>1, <3>2
  <2>7. CASE UNCHANGED journal
        BY <2>1, <2>7
  <2> HIDE DEF JournalKept, JournalDone
  <2> QED BY <2>2, <2>3, <2>4, <2>5, <2>6, <2>7
          DEF Next, vars, disk, NewDurableDestination, SetResumeAuthorized, PrepareTemp,
              PrepareResumed, PrepareRefused, Open, WriteAt, SyncFile, CloseStart, PromoteLink,
              PromoteUnlink, PromoteRename, CloseTree, Abort, Crash, DiscardTree, ForeignFile
<1> QED BY <1>1, Inductive, PTL DEF Spec, ProgressNeverRegresses

\* What a journal claims stays in .part files that a later resume accepts, in
\* every step but a discard, the promotions of Close and the Abort after a
\* refusal (Open, DurableFileSink.Write, Abort, Crash).
THEOREM ClaimsKept == Spec => ClaimedDataKept
<1> DEFINE Kept(id) == \/ Resumable(id, part'[id])
                       \/ discarding = id
                       \/ s.tree = id /\ s.phase \in Closed \cup {"refused"}
<1>1. IInv /\ [Next]_vars =>
        [\A id \in Ids : Exists(id) /\ Exists(id)' /\ Resumable(id, part[id]) => Kept(id)]_vars
  <2> SUFFICES ASSUME IInv, [Next]_vars, NEW id \in Ids, Exists(id), Resumable(id, part[id])
               PROVE  Kept(id)
      OBVIOUS
  <2> USE ConstantsAssumption
  <2>0. /\ id \in Trees /\ id # Tmp
        /\ part \in [Trees -> [Files -> Parts]]
        /\ journal[id] \in Journals
        /\ s \in Sessions
        BY DEF IInv, TypeOK, Trees
  <2>1. ASSUME part'[id] = part[id] PROVE Kept(id)
        BY <2>1
  <2>2. ASSUME \A f \in Files : journal[id].have[f] > 0 /\ CheckSafePartial(part[id][f], journal[id].have[f])
                                  => CheckSafePartial(part'[id][f], journal[id].have[f])
        PROVE  Kept(id)
        BY <2>2 DEF Resumable
  <2>3. ASSUME NEW fp \in Fps, PrepareTemp(fp) PROVE Kept(id)
        BY <2>0, <2>1, <2>3 DEF PrepareTemp
  <2>4. CASE Open
    <3>1. CASE s.tree # id
          BY <2>0, <2>1, <2>4, <3>1 DEF Open
    <3>2. CASE s.tree = id
      <4>1. journal[id] = s.jmem
            BY <2>0, <2>4, <3>2, NoJournalType DEF Open, IInv, SessionOK, Bound, Receiving, Exists
      <4>2. s.cur \in Files /\ journal[id].have[s.cur] \in Nat
            BY <2>0, <2>4 DEF Open, Journals
      <4>3. /\ MayOpen(part[id][s.cur], s.jmem.have[s.cur])
            /\ part'[id] = [part[id] EXCEPT ![s.cur] = OpenPartial(part[id][s.cur], s.jmem.have[s.cur])]
            BY <2>0, <2>4, <3>2 DEF Open
      <4>4. part[id] \in [Files -> Parts]
            BY <2>0
      <4>5. CheckSafePartial(part[id][s.cur], s.jmem.have[s.cur]) =>
              CheckSafePartial(OpenPartial(part[id][s.cur], s.jmem.have[s.cur]), s.jmem.have[s.cur])
            BY <4>1, <4>2, <4>3, <4>4
               DEF MayOpen, OpenPartial, CheckSafePartial, Truncate, Parts
      <4> QED BY <2>2, <4>1, <4>2, <4>3, <4>4, <4>5
    <3> QED BY <3>1, <3>2
  <2>5. CASE WriteAt
    <3>1. CASE s.tree # id \/ ~part[s.tree][s.cur].there
          BY <2>0, <2>1, <2>5, <3>1 DEF WriteAt
    <3>2. CASE s.tree = id /\ part[id][s.cur].there
      <4>1. s.cur \in Files /\ part[id][s.cur].len = s.next /\ s.next \in Nat
            BY <2>0, <2>5, <3>2 DEF WriteAt, IInv, ProgressOK, Holds, Sessions
      <4>2. part'[id] = [part[id] EXCEPT ![s.cur].len = s.next + 1, ![s.cur].by = @ \cup {s.fp}]
            BY <2>0, <2>5, <3>2 DEF WriteAt
      <4>3. \A f \in Files : journal[id].have[f] \in Nat
            BY <2>0 DEF Journals
      <4>4. part[id] \in [Files -> Parts]
            BY <2>0
      <4>5. \A f \in Files : part'[id][f].there = part[id][f].there /\ part'[id][f].len >= part[id][f].len
            BY <4>1, <4>2, <4>4 DEF Parts
      <4>6. \A f \in Files : part'[id][f].len \in Nat /\ part[id][f].len \in Nat
            BY <4>1, <4>2, <4>4 DEF Parts
      <4> QED BY <2>2, <4>3, <4>5, <4>6 DEF CheckSafePartial
    <3> QED BY <3>1, <3>2
  <2>6. CASE SyncFile
    <3>1. CASE s.tree # id
          BY <2>0, <2>1, <2>6, <3>1 DEF SyncFile
    <3>2. CASE s.tree = id
      <4>1. part'[id] = [part[id] EXCEPT ![s.cur].synced = part[id][s.cur].len]
            BY <2>0, <2>6, <3>2 DEF SyncFile
      <4>2. \A f \in Files : part'[id][f].there = part[id][f].there /\ part'[id][f].len = part[id][f].len
            BY <2>0, <4>1 DEF Parts
      <4> QED BY <2>2, <4>2 DEF CheckSafePartial
    <3> QED BY <3>1, <3>2
  <2>7. CASE PromoteUnlink \/ PromoteRename \/ CloseTree
    <3>1. s.phase \in Closed
          BY <2>7 DEF PromoteUnlink, PromoteRename, CloseTree, Closed
    <3>2. s.tree # id => part'[id] = part[id]
          BY <2>0, <2>7 DEF PromoteUnlink, PromoteRename, CloseTree, RemoveTree
    <3> QED BY <2>1, <3>1, <3>2
  <2>8. CASE Abort
    <3>1. CASE s.tree # id \/ s.phase \in Closed \/ s.jmem.fp # None
          BY <2>0, <2>1, <2>8, <3>1 DEF Abort, RemoveTree
    <3>2. CASE s.tree = id /\ s.phase \notin Closed /\ s.jmem.fp = None
      <4>1. s.phase \notin Bound
            BY <2>0, <3>2 DEF IInv, SessionOK, Sessions
      <4>2. s.phase \notin {"idle", "started"}
            BY <2>0, <3>2 DEF IInv, SessionOK, Idle, Trees
      <4> QED BY <2>0, <3>2, <4>1, <4>2 DEF Sessions, Phases, Bound
    <3> QED BY <3>1, <3>2
  <2>9. ASSUME NEW machine \in BOOLEAN, Crash(machine) PROVE Kept(id)
    <3>1. CASE ~machine
          BY <2>1, <2>9, <3>1 DEF Crash
    <3>2. CASE machine
      <4>1. \A f \in Files : /\ part'[id][f].there = part[id][f].there
                             /\ part'[id][f].len = part[id][f].synced
            BY <2>0, <2>9, <3>2 DEF Crash, LoseUnsynced, Parts
      <4>2. \A f \in Files : part[id][f].there /\ journal[id].have[f] > 0 =>
                               journal[id].have[f] <= part[id][f].synced
            BY <2>0 DEF IInv, CheckpointBacked
      <4>3. \A f \in Files : journal[id].have[f] \in Nat /\ part[id][f].synced \in Nat
            BY <2>0 DEF Journals, Parts
      <4> QED BY <2>2, <4>1, <4>2, <4>3 DEF CheckSafePartial
    <3> QED BY <3>1, <3>2
  <2>10. CASE DiscardTree
        BY <2>0, <2>1, <2>10 DEF DiscardTree, RemoveTree
  <2>11. CASE UNCHANGED part
        BY <2>1, <2>11
  <2> HIDE DEF Kept
  <2> QED BY <2>3, <2>4, <2>5, <2>6, <2>7, <2>8, <2>9, <2>10, <2>11
          DEF Next, vars, disk, NewDurableDestination, SetResumeAuthorized, PrepareFresh, PrepareResumed,
              PrepareRefused, BindManifest, Commit, CloseStart, PromoteLink, CloseJournal,
              DiscardJournal, ForeignFile
<1> QED BY <1>1, Inductive, PTL DEF Spec, ClaimedDataKept
=============================================================================
