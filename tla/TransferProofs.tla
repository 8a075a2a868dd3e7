--------------------------- MODULE TransferProofs ---------------------------
(***************************************************************************)
(* Proofs about Transfer, for any manifest, window, number of fragments,   *)
(* retries, timer expiries and pauses.                                     *)
(***************************************************************************)
EXTENDS Transfer, FiniteSetTheorems, WellFoundedInduction, TLAPS

-----------------------------------------------------------------------------
(***************************************************************************)
(* The inductive invariant.                                                *)
(***************************************************************************)
Paths == {"direct", "relay"}

Phases == {"manifest", "resume", "stream", "file", "complete", "done"}

Windows == UNION {[D -> 0 .. MaxRetries] : D \in SUBSET Nat}

SndType ==
    [phase : Phases, file : 0 .. NFiles, nextNew : Nat, inflight : Windows,
     retryQueue : Seq(Nat), retryQueued : SUBSET Nat, sending : Seq(Frames), acked : Nat,
     paused : BOOLEAN, plan : [Files -> Nat], resendManifest : BOOLEAN, res : Results]

RcvType ==
    [manifest : BOOLEAN, file : 1 .. NFiles + 1, next : Nat, buf : Frames, awaiting : BOOLEAN,
     ahead : SUBSET Nat, nack : Frames, paused : BOOLEAN, closed : BOOLEAN,
     settling : BOOLEAN, res : Results]

LinkType == [out : Paths, in : Paths, seen : Paths, late : Frames]

TypeInv ==
    /\ snd \in SndType /\ rcv \in RcvType
    /\ IsFiniteSet(DOMAIN snd.inflight) /\ Cardinality(DOMAIN snd.inflight) <= Window
    /\ IsFiniteSet(rcv.ahead) /\ Cardinality(rcv.ahead) <= Window
    /\ seed \in Seeds
    /\ net \in [Paths -> [Sides -> Seq(Frames)]]
    /\ link \in [Sides -> LinkType]
    /\ timeouts \in Nat /\ pauses \in Nat

\* Where Run stands, and what is in the window and in the retry queue there.
SenderOK ==
    /\ snd.phase # "stream" => DOMAIN snd.inflight = {} /\ snd.retryQueue = <<>>
    /\ \A b \in DOMAIN snd.inflight : b < snd.nextNew
    /\ RetryQueueOfFile
    /\ snd.plan # NoPlan => snd.plan = seed /\ rcv.manifest
    /\ snd.phase \in {"manifest", "resume"} => snd.file = 0
    /\ snd.phase \in {"stream", "file"} => snd.file > 0
    /\ snd.phase \in {"complete", "done"} => snd.file = NFiles
    /\ snd.phase \notin {"manifest", "resume"} => snd.plan # NoPlan
    /\ snd.file > 0 => snd.nextNew <= Blocks[snd.file]
    /\ snd.phase \in {"file", "complete", "done"} /\ snd.file > 0 => snd.nextNew = Blocks[snd.file]

\* The receiver is at a block it does not hold, of a file that is not finished.
ReceiverOK ==
    /\ rcv.manifest /\ rcv.file <= NFiles => seed[rcv.file] <= rcv.next /\ rcv.next < Blocks[rcv.file]
    /\ rcv.buf # NoFrame => rcv.manifest /\ rcv.buf.t = "data" /\ rcv.buf.f <= rcv.file
    /\ rcv.closed => rcv.manifest /\ rcv.file = NFiles + 1 /\ snd.phase = "done"
    /\ rcv.settling \/ rcv.res = "ok" => rcv.closed
    /\ snd.res = "ok" => rcv.closed

\* What may be under way to the sender: an ack of a block that is written, a
\* Done of a destination that is closed.
Answers ==
    {x \in Frames :
        /\ x.t = "ack" => x.f \in 1 .. snd.file /\ Held(x.f, x.b)
        /\ x.t = "nack" => x.f <= snd.file
        /\ x.t = "resume" => rcv.manifest
        /\ x.t = "done" => rcv.closed}

\* What may be under way to the receiver: no block of a file not begun.
Requests ==
    {x \in Frames :
        /\ x.t \in {"data", "hash"} => x.f \in 1 .. snd.file
        /\ x.t = "complete" => snd.phase = "done"}

WiresOK ==
    /\ \A path \in Paths : net[path]["s"] \in Seq(Answers) /\ net[path]["r"] \in Seq(Requests)
    /\ link["s"].late \in Answers /\ link["r"].late \in Requests
    /\ snd.sending \in Seq(Requests)

IInv == TypeInv /\ SenderOK /\ ReceiverOK /\ AckedIsWritten /\ WiresOK

-----------------------------------------------------------------------------
(***************************************************************************)
(* The order of the fragments, without a frame handled after the move that *)
(* overtook it.                                                            *)
(***************************************************************************)
Block(x) == x.t \in {"data", "hash"}

\* y is the frame of a block that comes after x, in the block or as the first of
\* the next one.
Follows(x, y) ==
    IF x.t = "data"
    THEN \/ x.off + 1 < Frags /\ y = Frame("data", x.f, x.b, x.off + 1)
         \/ x.off + 1 = Frags /\ y = Frame("hash", x.f, x.b, 0)
    ELSE y.t = "data" /\ y.off = 0

\* In q, no frame of a block is strictly between positions i and j.
Between(q, i, j) == \A k \in DOMAIN q : i < k /\ k < j => ~Block(q[k])

Chain(q) ==
    \A i, j \in DOMAIN q :
        i < j /\ Block(q[i]) /\ Block(q[j]) /\ Between(q, i, j) => Follows(q[i], q[j])

Starts(x, q) == \A j \in DOMAIN q : Block(q[j]) /\ Between(q, 0, j) => Follows(x, q[j])

Ends(q) == \A i \in DOMAIN q : Block(q[i]) /\ Between(q, i, Len(q) + 1) => q[i].t = "hash"

NoBlock(q) == \A i \in DOMAIN q : ~Block(q[i])

\* What path p will still bring the receiver, as far as the sender has begun it.
Line(p) == net[p]["r"] \o (IF link["s"].out = p THEN snd.sending ELSE <<>>)

PathsOK ==
    /\ \A e \in Sides : link[e].late = NoFrame /\ (link[e].seen = "relay" => link[e].in = "relay")
    /\ link["s"].out = "direct" => net["relay"]["r"] = <<>>
    /\ link["r"].in = "relay" => net["direct"]["r"] = <<>>

AssemblyOK ==
    IF rcv.awaiting THEN rcv.buf = NoFrame
    ELSE /\ Starts(rcv.buf, Line(link["r"].in))
         /\ link["r"].in = "relay" => link["s"].out = "relay"
         /\ link["r"].in = link["s"].out /\ NoBlock(Line(link["r"].in)) => rcv.buf = NoFrame

OrderOK ==
    /\ PathsOK
    /\ \A p \in Paths : Chain(Line(p))
    /\ Ends(Line(link["s"].out))
    /\ rcv.res = "none" => AssemblyOK
    /\ NoIntegrityFailure

-----------------------------------------------------------------------------
(***************************************************************************)
(* Sequences.                                                              *)
(***************************************************************************)
LEMMA SeqWider ==
    ASSUME NEW S, NEW T, S \subseteq T, NEW q \in Seq(S)
    PROVE  q \in Seq(T)
OBVIOUS

LEMMA Cat ==
    ASSUME NEW S, NEW a \in Seq(S), NEW b \in Seq(S)
    PROVE  /\ a \o b \in Seq(S) /\ Len(a) \in Nat /\ Len(b) \in Nat
           /\ Len(a \o b) = Len(a) + Len(b) /\ DOMAIN (a \o b) = 1 .. Len(a) + Len(b)
           /\ DOMAIN a = 1 .. Len(a) /\ DOMAIN b = 1 .. Len(b)
           /\ \A i \in DOMAIN a : (a \o b)[i] = a[i]
           /\ \A i \in DOMAIN b : (a \o b)[Len(a) + i] = b[i]
           /\ \A i \in DOMAIN (a \o b) :
                 \/ i \in DOMAIN a /\ (a \o b)[i] = a[i]
                 \/ i - Len(a) \in DOMAIN b /\ i > Len(a) /\ (a \o b)[i] = b[i - Len(a)]
OBVIOUS

-----------------------------------------------------------------------------
(***************************************************************************)
(* Frames and paths.                                                       *)
(***************************************************************************)
LEMMA FrameTypes ==
    /\ NoFrame \in Frames /\ NoFrame.t = "none"
    /\ \A x \in Frames : /\ x.f \in Nat /\ x.b \in Nat /\ x.off \in Nat
                         /\ x = Frame(x.t, x.f, x.b, x.off)
    /\ \A f, b, o \in Nat : /\ Frame("data", f, b, o) \in Frames /\ Frame("hash", f, b, o) \in Frames
                            /\ Frame("ack", f, b, o) \in Frames /\ Frame("nack", f, b, o) \in Frames
    /\ \A t, f, b, o : /\ Frame(t, f, b, o).t = t /\ Frame(t, f, b, o).f = f
                       /\ Frame(t, f, b, o).b = b /\ Frame(t, f, b, o).off = o
BY DEF NoFrame, Msg, Frame, Frames

Plain == {"manifest", "pause", "unpause", "cancel", "fail"}

LEMMA PlainFrames ==
    /\ \A t \in Plain : Msg(t) \in Answers /\ Msg(t) \in Requests
    /\ NoFrame \in Answers /\ NoFrame \in Requests
    /\ Answers \subseteq Frames /\ Requests \subseteq Frames
BY DEF Msg, Frame, Frames, Answers, Requests, Plain, NoFrame

\* Frames of one side's queues stay in a set under a send of either side.
Carries(n, A, R) ==
    /\ n \in [Paths -> [Sides -> Seq(Frames)]]
    /\ \A path \in Paths : n[path]["s"] \in Seq(A) /\ n[path]["r"] \in Seq(R)

LEMMA CarriesMore ==
    ASSUME NEW n, NEW A, NEW R, NEW A2, NEW R2, Carries(n, A, R), A \subseteq A2, R \subseteq R2
    PROVE  Carries(n, A2, R2)
BY DEF Carries

LEMMA PutByS ==
    ASSUME link \in [Sides -> LinkType], NEW A, NEW R, NEW n, Carries(n, A, R), R \subseteq Frames,
           NEW q \in Seq(R)
    PROVE  Carries(Put("s", n, q), A, R)
<1>1. q \in Seq(Frames) /\ \A path \in Paths : n[path]["r"] \o q \in Seq(Frames) /\ n[path]["r"] \o q \in Seq(R)
  BY DEF Carries, Paths, Sides
<1> QED  BY <1>1 DEF Put, Carries, Paths, Sides, Peer

LEMMA PutByR ==
    ASSUME link \in [Sides -> LinkType], NEW A, NEW R, NEW n, Carries(n, A, R), A \subseteq Frames,
           NEW q \in Seq(A)
    PROVE  Carries(Put("r", n, q), A, R)
<1>1. q \in Seq(Frames) /\ \A path \in Paths : n[path]["s"] \o q \in Seq(Frames) /\ n[path]["s"] \o q \in Seq(A)
  BY DEF Carries, Paths, Sides
<1> QED  BY <1>1 DEF Put, Carries, Paths, Sides, Peer

LEMMA ArriveS ==
    ASSUME TypeInv, WiresOK, NEW m \in Arrivals("s")
    PROVE  /\ m.fr \in Answers /\ m.fr \in Frames /\ m.late \in Answers /\ m.late \in Frames
           /\ m.via \in Paths /\ Carries(m.net, Answers, Requests)
<1>1. Carries(net, Answers, Requests) /\ link["s"].in \in Paths /\ "s" \in Sides
  BY DEF TypeInv, WiresOK, Carries, LinkType, Sides
<1> DEFINE p == link["s"].in
           n2 == [net EXCEPT ![p]["s"] = Tail(@)]
<1>2. CASE net[p]["s"] # <<>> /\ m = [fr |-> Head(net[p]["s"]), via |-> p, late |-> link["s"].late, net |-> n2]
  <2>1. Tail(net[p]["s"]) \in Seq(Answers) /\ Tail(net[p]["s"]) \in Seq(Frames) /\ Head(net[p]["s"]) \in Answers
    BY <1>1, <1>2 DEF Carries
  <2>2. Carries(n2, Answers, Requests)
    BY <1>1, <2>1 DEF Carries, Sides
  <2> QED  BY <1>1, <1>2, <2>1, <2>2, PlainFrames DEF WiresOK
<1>3. CASE m = [fr |-> link["s"].late, via |-> "direct", late |-> NoFrame, net |-> net]
  BY <1>1, <1>3, PlainFrames DEF WiresOK, Paths
<1> QED  BY <1>2, <1>3 DEF Arrivals

LEMMA ArriveR ==
    ASSUME TypeInv, WiresOK, NEW m \in Arrivals("r")
    PROVE  /\ m.fr \in Requests /\ m.fr \in Frames /\ m.late \in Requests /\ m.late \in Frames
           /\ m.via \in Paths /\ Carries(m.net, Answers, Requests)
<1>1. Carries(net, Answers, Requests) /\ link["r"].in \in Paths /\ "r" \in Sides
  BY DEF TypeInv, WiresOK, Carries, LinkType, Sides
<1> DEFINE p == link["r"].in
           n2 == [net EXCEPT ![p]["r"] = Tail(@)]
<1>2. CASE net[p]["r"] # <<>> /\ m = [fr |-> Head(net[p]["r"]), via |-> p, late |-> link["r"].late, net |-> n2]
  <2>1. Tail(net[p]["r"]) \in Seq(Requests) /\ Tail(net[p]["r"]) \in Seq(Frames) /\ Head(net[p]["r"]) \in Requests
    BY <1>1, <1>2 DEF Carries
  <2>2. Carries(n2, Answers, Requests)
    BY <1>1, <2>1 DEF Carries, Sides
  <2> QED  BY <1>1, <1>2, <2>1, <2>2, PlainFrames DEF WiresOK
<1>3. CASE m = [fr |-> link["r"].late, via |-> "direct", late |-> NoFrame, net |-> net]
  BY <1>1, <1>3, PlainFrames DEF WiresOK, Paths
<1> QED  BY <1>2, <1>3 DEF Arrivals

-----------------------------------------------------------------------------
(***************************************************************************)
(* The window of blocks in flight.                                         *)
(***************************************************************************)
LEMMA WindowType ==
    ASSUME NEW w \in Windows
    PROVE  /\ DOMAIN w \subseteq Nat /\ w \in [DOMAIN w -> 0 .. MaxRetries]
           /\ \A b \in DOMAIN w : w[b] \in 0 .. MaxRetries
BY DEF Windows

LEMMA WindowMade ==
    ASSUME NEW D \in SUBSET Nat, NEW w \in [D -> 0 .. MaxRetries]
    PROVE  w \in Windows /\ DOMAIN w = D
BY DEF Windows

LEMMA WindowEmpty == <<>> \in Windows /\ DOMAIN <<>> = {} /\ IsFiniteSet({}) /\ Cardinality({}) = 0
<1>1. <<>> \in [{} -> 0 .. MaxRetries]
  OBVIOUS
<1> QED  BY <1>1, WindowMade, FS_EmptySet

LEMMA WindowRetry ==
    ASSUME NEW w \in Windows, NEW b \in DOMAIN w, w[b] < MaxRetries, MaxRetries \in Nat
    PROVE  [w EXCEPT ![b] = @ + 1] \in Windows /\ DOMAIN [w EXCEPT ![b] = @ + 1] = DOMAIN w
<1>1. w \in [DOMAIN w -> 0 .. MaxRetries] /\ DOMAIN w \subseteq Nat
  BY WindowType
<1>2. [w EXCEPT ![b] = @ + 1] \in [DOMAIN w -> 0 .. MaxRetries]
  BY <1>1
<1> QED  BY <1>1, <1>2, WindowMade

LEMMA WindowReset ==
    ASSUME NEW w \in Windows, MaxRetries \in Nat
    PROVE  [b \in DOMAIN w |-> 0] \in Windows /\ DOMAIN [b \in DOMAIN w |-> 0] = DOMAIN w
<1>1. DOMAIN w \subseteq Nat /\ [b \in DOMAIN w |-> 0] \in [DOMAIN w -> 0 .. MaxRetries]
  BY WindowType
<1> QED  BY <1>1, WindowMade

LEMMA WindowWith ==
    ASSUME NEW w \in Windows, NEW b \in Nat, MaxRetries \in Nat, IsFiniteSet(DOMAIN w)
    PROVE  /\ With(w, b, 0) \in Windows /\ DOMAIN With(w, b, 0) = DOMAIN w \cup {b}
           /\ IsFiniteSet(DOMAIN w \cup {b})
           /\ Cardinality(DOMAIN w) \in Nat /\ Cardinality(DOMAIN w \cup {b}) <= Cardinality(DOMAIN w) + 1
<1>1. DOMAIN w \subseteq Nat /\ w \in [DOMAIN w -> 0 .. MaxRetries]
  BY WindowType
<1>2. With(w, b, 0) \in [DOMAIN w \cup {b} -> 0 .. MaxRetries]
  BY <1>1 DEF With
<1>3. DOMAIN w \cup {b} \in SUBSET Nat
  BY <1>1
<1>4. /\ IsFiniteSet(DOMAIN w \cup {b}) /\ Cardinality(DOMAIN w) \in Nat
      /\ Cardinality(DOMAIN w \cup {b}) <= Cardinality(DOMAIN w) + 1
  BY FS_AddElement, FS_CardinalityType
<1> QED  BY <1>2, <1>3, <1>4, WindowMade

LEMMA WindowWithout ==
    ASSUME NEW w \in Windows, NEW b, IsFiniteSet(DOMAIN w), Cardinality(DOMAIN w) <= Window, Window \in Nat
    PROVE  /\ Without(w, b) \in Windows /\ DOMAIN Without(w, b) = DOMAIN w \ {b}
           /\ IsFiniteSet(DOMAIN w \ {b}) /\ Cardinality(DOMAIN w \ {b}) <= Window
<1>1. DOMAIN w \subseteq Nat /\ w \in [DOMAIN w -> 0 .. MaxRetries]
  BY WindowType
<1>2. Without(w, b) \in [DOMAIN w \ {b} -> 0 .. MaxRetries]
  BY <1>1 DEF Without
<1>3. DOMAIN w \ {b} \in SUBSET Nat
  BY <1>1
<1>4. DOMAIN w \ {b} \subseteq DOMAIN w
  OBVIOUS
<1>5. /\ IsFiniteSet(DOMAIN w \ {b}) /\ Cardinality(DOMAIN w \ {b}) <= Cardinality(DOMAIN w)
      /\ Cardinality(DOMAIN w) \in Nat /\ Cardinality(DOMAIN w \ {b}) \in Nat
  BY <1>4, FS_Subset, FS_CardinalityType
<1> QED  BY <1>2, <1>3, <1>5, WindowMade

-----------------------------------------------------------------------------
(***************************************************************************)
(* What a step of one side leaves of the invariant.                        *)
(***************************************************************************)
Forward ==
    /\ seed' = seed
    /\ snd.file <= snd'.file /\ (snd.phase = "done" => snd'.phase = "done")
    /\ rcv.closed => rcv'.closed
    /\ rcv.manifest => /\ rcv'.manifest
                       /\ rcv.file < rcv'.file \/ (rcv.file = rcv'.file /\ rcv.next <= rcv'.next)

LEMMA SeedType ==
    ASSUME seed \in Seeds
    PROVE  seed \in [Files -> Nat] /\ \A f \in Files : seed[f] <= Blocks[f] /\ Blocks[f] \in Nat
BY TransferAssumption

LEMMA Monotone ==
    ASSUME snd \in SndType, rcv \in RcvType, snd' \in SndType, rcv' \in RcvType, Forward
    PROVE  /\ \A f, b \in Nat : Held(f, b) => Held(f, b)'
           /\ Answers \subseteq Answers' /\ Requests \subseteq Requests'
<1>0. /\ snd.file \in Nat /\ snd'.file \in Nat /\ rcv.file \in Nat /\ rcv'.file \in Nat
      /\ rcv.next \in Nat /\ rcv'.next \in Nat
  BY TransferAssumption DEF SndType, RcvType
<1>1. ASSUME NEW f \in Nat, NEW b \in Nat, Held(f, b) PROVE Held(f, b)'
  BY <1>0, <1>1 DEF Held, Forward
<1>2. ASSUME NEW x \in Answers PROVE x \in Answers'
  <2>1. x \in Frames /\ x.f \in Nat /\ x.b \in Nat
    BY FrameTypes DEF Answers
  <2> QED  BY <1>0, <1>1, <2>1 DEF Answers, Forward
<1>3. ASSUME NEW x \in Requests PROVE x \in Requests'
  <2>1. x \in Frames /\ x.f \in Nat
    BY FrameTypes DEF Requests
  <2> QED  BY <1>0, <2>1 DEF Requests, Forward
<1> QED  BY <1>1, <1>2, <1>3

\* The frames held back at a move stay among those that may be under way.
LinksFit(A, R) == /\ link' \in [Sides -> LinkType]
                  /\ link'["s"].late \in A /\ link'["r"].late \in R

LEMMA SenderHolds ==
    ASSUME IInv, UNCHANGED <<rcv, seed>>, snd' \in SndType,
           IsFiniteSet(DOMAIN snd'.inflight), Cardinality(DOMAIN snd'.inflight) <= Window,
           SenderOK', AckedIsWritten', snd.file <= snd'.file, snd.phase = "done" => snd'.phase = "done",
           snd'.res = "ok" => rcv.closed, timeouts' \in Nat, pauses' \in Nat,
           LinksFit(Answers, Requests), Carries(net', Answers', Requests'), snd'.sending \in Seq(Requests')
    PROVE  IInv'
<1>1. Forward /\ snd \in SndType /\ rcv \in RcvType /\ rcv' \in RcvType
  BY DEF IInv, TypeInv, Forward, RcvType
<1>2. Answers \subseteq Answers' /\ Requests \subseteq Requests'
  BY <1>1, Monotone
<1>3. TypeInv'
  BY DEF IInv, TypeInv, LinksFit, Carries
<1>4. ReceiverOK'
  BY DEF IInv, ReceiverOK
<1>5. WiresOK'
  BY <1>2 DEF WiresOK, LinksFit, Carries
<1> QED  BY <1>3, <1>4, <1>5 DEF IInv

LEMMA ReceiverHolds ==
    ASSUME IInv, UNCHANGED <<snd, seed>>, rcv' \in RcvType,
           IsFiniteSet(rcv'.ahead), Cardinality(rcv'.ahead) <= Window,
           ReceiverOK', Forward, timeouts' \in Nat, pauses' \in Nat,
           LinksFit(Answers, Requests), Carries(net', Answers', Requests')
    PROVE  IInv'
<1>1. snd \in SndType /\ rcv \in RcvType /\ snd' \in SndType
  BY DEF IInv, TypeInv
<1>2. /\ Answers \subseteq Answers' /\ Requests \subseteq Requests'
      /\ \A f, b \in Nat : Held(f, b) => Held(f, b)'
  BY <1>1, Monotone
<1>3. TypeInv'
  BY DEF IInv, TypeInv, LinksFit, Carries
<1>4. SenderOK'
  BY DEF IInv, SenderOK, RetryQueueOfFile, Forward
<1>5. AckedIsWritten'
  <2>1. snd.file \in Nat /\ snd.nextNew \in Nat /\ \A f \in 1 .. snd.file - 1 : f \in Nat /\ Blocks[f] \in Nat
    BY <1>1, TransferAssumption DEF SndType, Files
  <2> QED  BY <1>2, <2>1 DEF IInv, AckedIsWritten
<1>6. WiresOK'
  BY <1>2 DEF IInv, WiresOK, LinksFit, Carries
<1> QED  BY <1>3, <1>4, <1>5, <1>6 DEF IInv

LEMMA LinksSame == IInv /\ link' = link => LinksFit(Answers, Requests)
BY DEF IInv, TypeInv, WiresOK, LinksFit

LEMMA NetFits == IInv => Carries(net, Answers, Requests)
BY DEF IInv, TypeInv, WiresOK, Carries

\* A step of the sender that changes neither the window nor where Run stands.
LEMMA SenderMinor ==
    ASSUME IInv, UNCHANGED <<rcv, seed>>, snd' \in SndType,
           snd'.phase = snd.phase, snd'.file = snd.file, snd'.nextNew = snd.nextNew,
           snd'.inflight = snd.inflight, snd'.retryQueue = snd.retryQueue, snd'.plan = snd.plan,
           snd'.res = "ok" => rcv.closed, timeouts' \in Nat, pauses' \in Nat,
           LinksFit(Answers, Requests), Carries(net', Answers', Requests'), snd'.sending \in Seq(Requests')
    PROVE  IInv'
<1>1. SenderOK'
  BY DEF IInv, SenderOK, RetryQueueOfFile
<1>2. AckedIsWritten'
  BY DEF IInv, AckedIsWritten, Held
<1>3. snd.file <= snd'.file
  BY TransferAssumption DEF IInv, TypeInv, SndType
<1>4. IsFiniteSet(DOMAIN snd'.inflight) /\ Cardinality(DOMAIN snd'.inflight) <= Window
  BY DEF IInv, TypeInv
<1> QED  BY <1>1, <1>2, <1>3, <1>4, SenderHolds

LEMMA InitHolds == Init => IInv
<1> SUFFICES ASSUME Init PROVE IInv
    OBVIOUS
<1>1. <<>> \in Windows /\ DOMAIN <<>> = {} /\ IsFiniteSet({}) /\ Cardinality({}) = 0
  BY WindowEmpty
<1>2. NoPlan \in [Files -> Nat]
  BY TransferAssumption DEF NoPlan
<1>3. snd \in SndType /\ IsFiniteSet(DOMAIN snd.inflight) /\ Cardinality(DOMAIN snd.inflight) <= Window
  BY <1>1, <1>2, TransferAssumption DEF Init, SndType, Phases, Results
<1>4. rcv \in RcvType /\ IsFiniteSet(rcv.ahead) /\ Cardinality(rcv.ahead) <= Window
  BY <1>1, FrameTypes, TransferAssumption DEF Init, RcvType, Results
<1>5. /\ seed \in Seeds /\ net \in [Paths -> [Sides -> Seq(Frames)]] /\ link \in [Sides -> LinkType]
      /\ timeouts \in Nat /\ pauses \in Nat
  BY FrameTypes DEF Init, Paths, LinkType
<1>6. SenderOK
  BY <1>1 DEF Init, SenderOK, RetryQueueOfFile
<1>7. ReceiverOK
  BY DEF Init, ReceiverOK
<1>8. AckedIsWritten
  BY DEF Init, AckedIsWritten
<1>9. WiresOK
  BY PlainFrames DEF Init, WiresOK, Paths, Sides
<1> QED  BY <1>3, <1>4, <1>5, <1>6, <1>7, <1>8, <1>9 DEF IInv, TypeInv

-----------------------------------------------------------------------------
(***************************************************************************)
(* Sender.Run and the timers.                                              *)
(***************************************************************************)
LEMMA SendsFrames ==
    ASSUME IInv, Answers \subseteq Answers', Requests \subseteq Requests', NEW q \in Seq(Requests')
    PROVE  Carries(Put("s", net, q), Answers', Requests')
<1>1. Carries(net, Answers', Requests')
  BY NetFits, CarriesMore
<1>2. Requests' \subseteq Frames
  BY PlainFrames DEF Requests
<1> QED  BY <1>1, <1>2, PutByS DEF IInv, TypeInv

LEMMA PlainNext ==
    /\ \A t \in Plain : <<Msg(t)>> \in Seq(Answers') /\ <<Msg(t)>> \in Seq(Requests')
    /\ <<>> \in Seq(Answers') /\ <<>> \in Seq(Requests')
    /\ Answers' \subseteq Frames /\ Requests' \subseteq Frames
<1>1. \A t \in Plain : Msg(t) \in Answers' /\ Msg(t) \in Requests'
  BY DEF Msg, Frame, Frames, Answers, Requests, Plain
<1>2. Answers' \subseteq Frames /\ Requests' \subseteq Frames
  BY DEF Answers, Requests
<1> QED  BY <1>1, <1>2

\* A step of the sender that stays on its path and sends frames, or none.
LEMMA SenderRuns ==
    ASSUME IInv, UNCHANGED <<rcv, seed, link>>, snd' \in SndType,
           IsFiniteSet(DOMAIN snd'.inflight), Cardinality(DOMAIN snd'.inflight) <= Window,
           SenderOK', AckedIsWritten', snd.file <= snd'.file, snd.phase = "done" => snd'.phase = "done",
           snd'.res = "ok" => rcv.closed, timeouts' \in Nat, pauses' \in Nat,
           net' = net \/ \E q \in Seq(Requests') : net' = Put("s", net, q),
           snd'.sending = snd.sending \/ snd'.sending \in Seq(Requests')
    PROVE  IInv'
<1>1. Forward
  BY TransferAssumption DEF IInv, TypeInv, RcvType, Forward
<1>2. Answers \subseteq Answers' /\ Requests \subseteq Requests'
  BY <1>1, Monotone DEF IInv, TypeInv
<1>3. Carries(net', Answers', Requests')
  BY <1>2, SendsFrames, NetFits, CarriesMore
<1>4. snd'.sending \in Seq(Requests')
  BY <1>2 DEF IInv, WiresOK
<1> QED  BY <1>3, <1>4, LinksSame, SenderHolds

\* The same, of a step that changes neither the window nor where Run stands.
LEMMA SenderSends ==
    ASSUME IInv, UNCHANGED <<rcv, seed, link>>, snd' \in SndType,
           snd'.phase = snd.phase, snd'.file = snd.file, snd'.nextNew = snd.nextNew,
           snd'.inflight = snd.inflight, snd'.retryQueue = snd.retryQueue, snd'.plan = snd.plan,
           snd'.res = "ok" => snd.res = "ok", timeouts' \in Nat, pauses' \in Nat,
           net' = net \/ \E q \in Seq(Requests') : net' = Put("s", net, q),
           snd'.sending = snd.sending \/ snd'.sending \in Seq(Requests')
    PROVE  IInv'
<1>1. SenderOK'
  BY DEF IInv, SenderOK, RetryQueueOfFile
<1>2. AckedIsWritten'
  BY DEF IInv, AckedIsWritten, Held
<1>3. snd.file <= snd'.file
  BY TransferAssumption DEF IInv, TypeInv, SndType
<1>4. /\ IsFiniteSet(DOMAIN snd'.inflight) /\ Cardinality(DOMAIN snd'.inflight) <= Window
      /\ snd'.res = "ok" => rcv.closed
  BY DEF IInv, TypeInv, ReceiverOK
<1> QED  BY <1>1, <1>2, <1>3, <1>4, SenderRuns

LEMMA SendManifestHolds == IInv /\ SendManifest => IInv'
<1> SUFFICES ASSUME IInv, SendManifest PROVE IInv'
    OBVIOUS
<1>1. snd' \in SndType /\ UNCHANGED <<rcv, seed, link, timeouts, pauses>> /\ snd'.file = snd.file
      /\ snd'.inflight = snd.inflight /\ snd'.res = snd.res /\ snd'.sending = snd.sending
  BY DEF IInv, TypeInv, SendManifest, SndType, Phases
<1>2. snd.phase = "manifest" /\ snd.file = 0 /\ snd.file <= snd'.file
  BY <1>1, TransferAssumption DEF IInv, TypeInv, SenderOK, SndType, SendManifest, Running
<1>3. SenderOK'
  BY <1>1, <1>2 DEF IInv, SenderOK, RetryQueueOfFile, SendManifest
<1>4. AckedIsWritten'
  BY <1>1, <1>2 DEF AckedIsWritten
<1>5. \E q \in Seq(Requests') : net' = Put("s", net, q)
  BY PlainNext DEF SendManifest, Plain
<1>6. /\ snd'.res = "ok" => rcv.closed
      /\ IsFiniteSet(DOMAIN snd'.inflight) /\ Cardinality(DOMAIN snd'.inflight) <= Window
      /\ timeouts' \in Nat /\ pauses' \in Nat
  BY <1>1 DEF IInv, ReceiverOK, TypeInv
<1> QED  BY <1>1, <1>2, <1>3, <1>4, <1>5, <1>6, SenderRuns

LEMMA NextFileHolds == IInv /\ NextFile => IInv'
<1> SUFFICES ASSUME IInv, NextFile PROVE IInv'
    OBVIOUS
<1>0. /\ UNCHANGED <<rcv, seed, net, link, timeouts, pauses>> /\ timeouts \in Nat /\ pauses \in Nat
      /\ snd.phase \in {"resume", "file"} /\ snd.plan # NoPlan /\ snd.plan = seed /\ rcv.manifest
      /\ DOMAIN snd.inflight = {} /\ snd.retryQueue = <<>>
      /\ snd.file \in 0 .. NFiles /\ NFiles \in Nat /\ snd.nextNew \in Nat /\ snd.acked \in Nat /\ snd \in SndType
      /\ snd.file > 0 => snd.phase = "file" /\ snd.nextNew = Blocks[snd.file]
      /\ seed \in [Files -> Nat] /\ \A f \in Files : seed[f] <= Blocks[f] /\ Blocks[f] \in Nat
  BY TransferAssumption, SeedType DEF IInv, TypeInv, SenderOK, SndType, NextFile, Running
<1>4. /\ IsFiniteSet(DOMAIN snd.inflight) /\ Cardinality(DOMAIN snd.inflight) <= Window
      /\ snd.res = "ok" => rcv.closed
  BY DEF IInv, TypeInv, ReceiverOK
<1>1. \A f \in 1 .. snd.file : \A b \in 0 .. Blocks[f] - 1 : Held(f, b)
  BY <1>0 DEF IInv, AckedIsWritten
<1>2. CASE snd.file = NFiles
  <2>1. snd' = [snd EXCEPT !.phase = "complete"]
    BY <1>2 DEF NextFile
  <2>2. snd' \in SndType
    BY <1>0, <2>1 DEF SndType, Phases
  <2>3. SenderOK'
    BY <1>0, <1>2, <2>1 DEF IInv, SenderOK, SndType, RetryQueueOfFile
  <2>4. AckedIsWritten'
    BY <1>0, <2>1 DEF IInv, AckedIsWritten, Held, SndType
  <2>5. /\ snd.file <= snd'.file /\ (snd.phase = "done" => snd'.phase = "done") /\ (snd'.res = "ok" => rcv.closed)
        /\ IsFiniteSet(DOMAIN snd'.inflight) /\ Cardinality(DOMAIN snd'.inflight) <= Window
        /\ snd'.sending = snd.sending
    <3>1. /\ snd'.file = snd.file /\ snd'.inflight = snd.inflight /\ snd'.res = snd.res
          /\ snd'.sending = snd.sending /\ snd.phase # "done"
      BY <1>0, <2>1 DEF SndType
    <3>2. snd.file <= snd.file
      BY <1>0
    <3> QED  BY <1>4, <3>1, <3>2
  <2> QED  BY <1>0, <2>2, <2>3, <2>4, <2>5, SenderRuns
<1>3. CASE snd.file # NFiles
  <2>0. snd.file + 1 \in Files /\ snd.file + 1 \in 1 .. NFiles /\ seed[snd.file + 1] \in Nat
    BY <1>0, <1>3 DEF Files
  <2>1. snd' = [snd EXCEPT !.phase = "stream", !.file = snd.file + 1, !.nextNew = seed[snd.file + 1],
                           !.acked = snd.acked + seed[snd.file + 1]]
    BY <1>0, <1>3 DEF NextFile
  <2>2. snd' \in SndType
    <3>1. /\ snd.file + 1 \in 0 .. NFiles /\ seed[snd.file + 1] \in Nat /\ snd.acked + seed[snd.file + 1] \in Nat
          /\ "stream" \in Phases
      BY <1>0, <2>0 DEF Phases
    <3> QED  BY <1>0, <2>1, <3>1 DEF SndType
  <2>3. /\ snd'.file = snd.file + 1 /\ snd'.nextNew = seed[snd.file + 1] /\ snd'.inflight = snd.inflight
        /\ snd'.retryQueue = <<>> /\ snd'.phase = "stream" /\ snd'.plan = seed /\ snd'.plan # NoPlan
        /\ snd'.res = snd.res /\ snd'.sending = snd.sending
    BY <1>0, <2>1 DEF SndType
  <2>4. NoPlan' = NoPlan
    BY DEF NoPlan
  <2>5. SenderOK'
    BY <1>0, <2>0, <2>3, <2>4 DEF SenderOK, RetryQueueOfFile
  <2>6. AckedIsWritten'
    BY <1>0, <1>1, <2>0, <2>3 DEF AckedIsWritten, Held
  <2>7. /\ snd.file <= snd'.file /\ (snd.phase = "done" => snd'.phase = "done") /\ (snd'.res = "ok" => rcv.closed)
        /\ IsFiniteSet(DOMAIN snd'.inflight) /\ Cardinality(DOMAIN snd'.inflight) <= Window
    <3>1. snd.phase # "done" /\ snd.file <= snd.file + 1
      BY <1>0
    <3> QED  BY <1>4, <2>3, <3>1
  <2> QED  BY <1>0, <2>2, <2>3, <2>5, <2>6, <2>7, SenderRuns
<1> QED  BY <1>2, <1>3

LEMMA BlockFramesFit ==
    ASSUME NEW f \in 1 .. snd.file, NEW b \in Nat, snd.file \in Nat
    PROVE  /\ BlockFrames(f, b) \in Seq(Requests) /\ BlockFrames(f, b) \in Seq(Frames)
           /\ Len(BlockFrames(f, b)) = Frags + 1
           /\ \A i \in 1 .. Frags : BlockFrames(f, b)[i] = Frame("data", f, b, i - 1)
           /\ BlockFrames(f, b)[Frags + 1] = Frame("hash", f, b, 0)
<1> DEFINE data == [i \in 1 .. Frags |-> Frame("data", f, b, i - 1)]
<1>1. Frags \in Nat /\ f \in Nat
  BY TransferAssumption
<1>2. \A o \in Nat : Frame("data", f, b, o) \in Requests /\ Frame("hash", f, b, o) \in Requests
  BY <1>1 DEF Requests, Frame, Frames
<1>3. data \in Seq(Requests) /\ Len(data) = Frags
  BY <1>1, <1>2
<1>4. <<Frame("hash", f, b, 0)>> \in Seq(Requests) /\ Len(<<Frame("hash", f, b, 0)>>) = 1
  BY <1>2
<1>5. BlockFrames(f, b) = data \o <<Frame("hash", f, b, 0)>>
  BY DEF BlockFrames
<1>6. Requests \subseteq Frames
  BY PlainFrames
<1> HIDE DEF data
<1>7. /\ BlockFrames(f, b) \in Seq(Requests) /\ Len(BlockFrames(f, b)) = Frags + 1
      /\ \A i \in 1 .. Frags : BlockFrames(f, b)[i] = data[i]
      /\ BlockFrames(f, b)[Frags + 1] = Frame("hash", f, b, 0)
  BY <1>1, <1>3, <1>4, <1>5
<1>8. \A i \in 1 .. Frags : data[i] = Frame("data", f, b, i - 1)
  BY DEF data
<1> QED  BY <1>6, <1>7, <1>8

LEMMA SndFields ==
    IInv => /\ snd \in SndType /\ snd.phase \in Phases /\ snd.file \in 0 .. NFiles /\ snd.nextNew \in Nat
            /\ snd.inflight \in Windows /\ snd.retryQueue \in Seq(Nat) /\ snd.retryQueued \subseteq Nat
            /\ snd.sending \in Seq(Frames) /\ snd.acked \in Nat /\ snd.plan \in [Files -> Nat]
            /\ NFiles \in Nat /\ MaxRetries \in Nat /\ Window \in Nat /\ timeouts \in Nat /\ pauses \in Nat
            /\ IsFiniteSet(DOMAIN snd.inflight) /\ Cardinality(DOMAIN snd.inflight) <= Window
            /\ snd.phase \in {"stream", "file"} => snd.file \in 1 .. NFiles
BY TransferAssumption DEF IInv, TypeInv, SndType, SenderOK

LEMMA RetryHolds == IInv /\ Retry => IInv'
<1> SUFFICES ASSUME IInv, Retry PROVE IInv'
    OBVIOUS
<1> DEFINE b == Head(snd.retryQueue)
           s == [snd EXCEPT !.retryQueue = Tail(@), !.retryQueued = @ \ {b}]
<1>0. /\ UNCHANGED <<rcv, seed, link, timeouts, pauses>> /\ timeouts \in Nat /\ pauses \in Nat
      /\ snd \in SndType /\ snd.phase = "stream" /\ snd.res = "none" /\ snd.file \in 1 .. NFiles
      /\ NFiles \in Nat /\ MaxRetries \in Nat /\ snd.inflight \in Windows
      /\ snd.retryQueue \in Seq(Nat) /\ snd.retryQueue # <<>> /\ snd.retryQueued \subseteq Nat
  <2>1. /\ UNCHANGED <<rcv, seed, link, timeouts, pauses>> /\ snd.phase = "stream" /\ snd.res = "none"
        /\ snd.retryQueue # <<>>
    BY DEF Retry, Ready, Running
  <2> QED  BY <2>1, SndFields
<1>1. b \in Nat /\ Tail(snd.retryQueue) \in Seq(Nat) /\ snd.retryQueued \ {b} \subseteq Nat
      /\ \A i \in DOMAIN Tail(snd.retryQueue) : Tail(snd.retryQueue)[i] < snd.nextNew
  <2>1. \A i \in DOMAIN snd.retryQueue : snd.retryQueue[i] < snd.nextNew
    BY DEF IInv, SenderOK, RetryQueueOfFile
  <2>2. b \in Nat /\ Tail(snd.retryQueue) \in Seq(Nat) /\ snd.retryQueued \ {b} \subseteq Nat
    BY <1>0
  <2>3. ASSUME NEW i \in DOMAIN Tail(snd.retryQueue)
        PROVE  i + 1 \in DOMAIN snd.retryQueue /\ Tail(snd.retryQueue)[i] = snd.retryQueue[i + 1]
    BY <1>0
  <2> QED  BY <2>1, <2>2, <2>3
<1>2. s \in SndType
  BY <1>0, <1>1 DEF SndType
<1>3. ASSUME snd' \in SndType, snd'.file = snd.file, snd'.phase = "stream", snd'.nextNew = snd.nextNew,
             DOMAIN snd'.inflight = DOMAIN snd.inflight, snd'.plan = snd.plan,
             snd'.retryQueue = Tail(snd.retryQueue), snd'.res # "ok",
             net' = net \/ \E q \in Seq(Requests') : net' = Put("s", net, q),
             snd'.sending = snd.sending \/ snd'.sending \in Seq(Requests')
      PROVE  IInv'
  <2>1. SenderOK'
    <3>1. RetryQueueOfFile'
      BY <1>1, <1>3 DEF RetryQueueOfFile
    <3>2. NoPlan' = NoPlan /\ UNCHANGED <<rcv, seed>>
      BY <1>0 DEF NoPlan
    <3> QED  BY <1>0, <1>3, <3>1, <3>2 DEF IInv, SenderOK
  <2>2. AckedIsWritten'
    BY <1>0, <1>3 DEF IInv, AckedIsWritten, Held
  <2>3. snd.file <= snd'.file /\ (snd.phase = "done" => snd'.phase = "done")
    BY <1>0, <1>3
  <2>4. IsFiniteSet(DOMAIN snd'.inflight) /\ Cardinality(DOMAIN snd'.inflight) <= Window
    BY <1>3 DEF IInv, TypeInv
  <2> QED  BY <1>0, <1>3, <2>1, <2>2, <2>3, <2>4, SenderRuns
<1>4. CASE snd' = s /\ UNCHANGED net
  <2>1. /\ snd'.file = snd.file /\ snd'.phase = "stream" /\ snd'.nextNew = snd.nextNew
        /\ snd'.inflight = snd.inflight /\ snd'.plan = snd.plan
        /\ snd'.retryQueue = Tail(snd.retryQueue) /\ snd'.res # "ok" /\ snd'.sending = snd.sending
    BY <1>0, <1>4 DEF SndType
  <2> QED  BY <1>2, <1>3, <1>4, <2>1
<1>5. CASE /\ b \in DOMAIN snd.inflight /\ snd.inflight[b] < MaxRetries
           /\ snd' = [s EXCEPT !.inflight[b] = @ + 1, !.sending = BlockFrames(snd.file, b)]
           /\ UNCHANGED net
  <2> DEFINE w == [snd.inflight EXCEPT ![b] = @ + 1]
  <2>1. w \in Windows /\ DOMAIN w = DOMAIN snd.inflight
    BY <1>0, <1>5, WindowRetry
  <2>2. BlockFrames(snd.file, b) \in Seq(Requests) /\ BlockFrames(snd.file, b) \in Seq(Frames)
    BY <1>0, <1>1, BlockFramesFit
  <2>3. snd' = [s EXCEPT !.inflight = w, !.sending = BlockFrames(snd.file, b)]
    BY <1>5, <1>2 DEF SndType
  <2> HIDE DEF w
  <2>4. snd' \in SndType
    BY <1>2, <2>1, <2>2, <2>3 DEF SndType
  <2>5. /\ snd'.file = snd.file /\ snd'.phase = "stream" /\ snd'.nextNew = snd.nextNew
        /\ snd'.inflight = w /\ snd'.plan = snd.plan
        /\ snd'.retryQueue = Tail(snd.retryQueue) /\ snd'.res # "ok" /\ snd'.sending = BlockFrames(snd.file, b)
    BY <1>0, <2>3 DEF SndType
  <2>6. Requests' = Requests
    BY <1>0, <2>5 DEF Requests
  <2> QED  BY <1>3, <1>5, <2>1, <2>2, <2>4, <2>5, <2>6
<1>6. CASE snd' = [s EXCEPT !.res = "retry"] /\ net' = Put("s", net, <<Msg("fail")>>)
  <2>1. /\ snd'.file = snd.file /\ snd'.phase = "stream" /\ snd'.nextNew = snd.nextNew
        /\ snd'.inflight = snd.inflight /\ snd'.plan = snd.plan
        /\ snd'.retryQueue = Tail(snd.retryQueue) /\ snd'.res # "ok" /\ snd'.sending = snd.sending
    BY <1>0, <1>6 DEF SndType
  <2>2. snd' \in SndType
    BY <1>2, <1>6 DEF SndType, Results
  <2>3. \E q \in Seq(Requests') : net' = Put("s", net, q)
    BY <1>6, PlainNext DEF Plain
  <2> QED  BY <1>3, <2>1, <2>2, <2>3
<1> QED  BY <1>4, <1>5, <1>6 DEF Retry

LEMMA NewBlockHolds == IInv /\ NewBlock => IInv'
<1> SUFFICES ASSUME IInv, NewBlock PROVE IInv'
    OBVIOUS
<1> DEFINE b == snd.nextNew
           w == With(snd.inflight, b, 0)
<1>0. /\ UNCHANGED <<rcv, seed, net, link, timeouts, pauses>>
      /\ snd.phase = "stream" /\ snd.res = "none" /\ snd.retryQueue = <<>>
      /\ snd.nextNew < Blocks[snd.file] /\ Cardinality(DOMAIN snd.inflight) < Window
      /\ snd' = [snd EXCEPT !.inflight = w, !.nextNew = b + 1, !.sending = BlockFrames(snd.file, b)]
  BY DEF NewBlock, Ready, Running
<1>1. b \in Nat /\ b + 1 \in Nat /\ snd.file \in 1 .. NFiles /\ snd.file \in Nat /\ Blocks[snd.file] \in Nat
  BY <1>0, SndFields, TransferAssumption DEF Files
<1>2. /\ w \in Windows /\ DOMAIN w = DOMAIN snd.inflight \cup {b} /\ IsFiniteSet(DOMAIN w)
      /\ Cardinality(DOMAIN w) <= Window
  <2>1. /\ w \in Windows /\ DOMAIN w = DOMAIN snd.inflight \cup {b} /\ IsFiniteSet(DOMAIN snd.inflight \cup {b})
        /\ Cardinality(DOMAIN snd.inflight) \in Nat
        /\ Cardinality(DOMAIN snd.inflight \cup {b}) <= Cardinality(DOMAIN snd.inflight) + 1
    BY <1>1, SndFields, WindowWith
  <2>2. Cardinality(DOMAIN snd.inflight \cup {b}) \in Nat /\ Window \in Nat
    BY <2>1, FS_CardinalityType, SndFields
  <2> QED  BY <1>0, <2>1, <2>2
<1>3. BlockFrames(snd.file, b) \in Seq(Requests) /\ BlockFrames(snd.file, b) \in Seq(Frames)
  BY <1>1, BlockFramesFit
<1> HIDE DEF w
<1>4. snd' \in SndType
  BY <1>0, <1>1, <1>2, <1>3, SndFields DEF SndType
<1>5. /\ snd'.file = snd.file /\ snd'.phase = "stream" /\ snd'.nextNew = b + 1 /\ snd'.inflight = w
      /\ snd'.plan = snd.plan /\ snd'.retryQueue = <<>> /\ snd'.res = "none"
      /\ snd'.sending = BlockFrames(snd.file, b)
  BY <1>0, SndFields DEF SndType
<1>6. Requests' = Requests
  BY <1>0, <1>5 DEF Requests
<1>7. SenderOK'
  <2>1. \A k \in DOMAIN w : k < b + 1
    <3>1. \A k \in DOMAIN snd.inflight : k < b /\ k \in Nat
      BY SndFields, WindowType DEF IInv, SenderOK
    <3> QED  BY <1>1, <1>2, <3>1
  <2>2. RetryQueueOfFile'
    BY <1>5 DEF RetryQueueOfFile
  <2>3. NoPlan' = NoPlan /\ UNCHANGED <<rcv, seed>>
    BY <1>0 DEF NoPlan
  <2>4. snd.file > 0 /\ b + 1 <= Blocks[snd.file]
    BY <1>0, <1>1
  <2> QED  BY <1>0, <1>5, <2>1, <2>2, <2>3, <2>4 DEF IInv, SenderOK
<1>8. AckedIsWritten'
  BY <1>0, <1>1, <1>2, <1>5 DEF IInv, AckedIsWritten, Held
<1>9. snd.file <= snd'.file /\ timeouts' \in Nat /\ pauses' \in Nat
  BY <1>0, <1>1, <1>5, SndFields
<1> QED  BY <1>0, <1>2, <1>3, <1>4, <1>5, <1>6, <1>7, <1>8, <1>9, SenderRuns

LEMMA SendFrameHolds == IInv /\ SendFrame => IInv'
<1> SUFFICES ASSUME IInv, SendFrame PROVE IInv'
    OBVIOUS
<1>0. /\ UNCHANGED <<rcv, seed, link, timeouts, pauses>> /\ snd.sending # <<>>
      /\ net' = Put("s", net, <<Head(snd.sending)>>) /\ snd' = [snd EXCEPT !.sending = Tail(snd.sending)]
  BY DEF SendFrame
<1>1. /\ Tail(snd.sending) \in Seq(Frames) /\ Tail(snd.sending) \in Seq(Requests) /\ Head(snd.sending) \in Requests
  BY <1>0, SndFields DEF IInv, WiresOK
<1>2. snd' \in SndType
  BY <1>0, <1>1, SndFields DEF SndType
<1>3. /\ snd'.phase = snd.phase /\ snd'.file = snd.file /\ snd'.nextNew = snd.nextNew
      /\ snd'.inflight = snd.inflight /\ snd'.retryQueue = snd.retryQueue /\ snd'.plan = snd.plan
      /\ snd'.res = snd.res /\ snd'.sending = Tail(snd.sending)
  BY <1>0, SndFields DEF SndType
<1>4. Requests' = Requests
  BY <1>0, <1>3 DEF Requests
<1>5. <<Head(snd.sending)>> \in Seq(Requests')
  BY <1>1, <1>4
<1>6. timeouts' \in Nat /\ pauses' \in Nat
  BY <1>0, SndFields
<1> QED  BY <1>0, <1>1, <1>2, <1>3, <1>4, <1>5, <1>6, SenderSends

LEMMA WaitInflightHolds == IInv /\ WaitInflight => IInv'
<1> SUFFICES ASSUME IInv, WaitInflight PROVE IInv'
    OBVIOUS
<1>0. /\ UNCHANGED <<rcv, seed, net, link, timeouts, pauses>>
      /\ snd.phase = "stream" /\ snd.res = "none" /\ snd.retryQueue = <<>>
      /\ snd.nextNew = Blocks[snd.file] /\ DOMAIN snd.inflight = {}
      /\ snd' = [snd EXCEPT !.phase = "file"]
  BY DEF WaitInflight, Ready, Running
<1>1. snd' \in SndType
  BY <1>0, SndFields DEF SndType, Phases
<1>2. /\ snd'.phase = "file" /\ snd'.file = snd.file /\ snd'.nextNew = snd.nextNew
      /\ snd'.inflight = snd.inflight /\ snd'.retryQueue = snd.retryQueue /\ snd'.plan = snd.plan
      /\ snd'.res = snd.res /\ snd'.sending = snd.sending
  BY <1>0, SndFields DEF SndType
<1>3. SenderOK'
  BY <1>0, <1>2 DEF IInv, SenderOK, RetryQueueOfFile, NoPlan
<1>4. AckedIsWritten'
  BY <1>0, <1>2 DEF IInv, AckedIsWritten, Held
<1>5. snd.file <= snd'.file /\ timeouts' \in Nat /\ pauses' \in Nat /\ (snd.phase = "done" => snd'.phase = "done")
  BY <1>0, <1>2, SndFields
<1>6. IsFiniteSet(DOMAIN snd'.inflight) /\ Cardinality(DOMAIN snd'.inflight) <= Window
  BY <1>2, SndFields
<1> QED  BY <1>0, <1>1, <1>2, <1>3, <1>4, <1>5, <1>6, SenderRuns

LEMMA SendCompleteHolds == IInv /\ SendComplete => IInv'
<1> SUFFICES ASSUME IInv, SendComplete PROVE IInv'
    OBVIOUS
<1>0. /\ UNCHANGED <<rcv, seed, link, timeouts, pauses>> /\ snd.phase = "complete" /\ snd.res = "none"
      /\ snd' = [snd EXCEPT !.phase = "done"] /\ net' = Put("s", net, <<Msg("complete")>>)
  BY DEF SendComplete, Running
<1>1. snd' \in SndType
  BY <1>0, SndFields DEF SndType, Phases
<1>2. /\ snd'.phase = "done" /\ snd'.file = snd.file /\ snd'.nextNew = snd.nextNew
      /\ snd'.inflight = snd.inflight /\ snd'.retryQueue = snd.retryQueue /\ snd'.plan = snd.plan
      /\ snd'.res = snd.res /\ snd'.sending = snd.sending
  BY <1>0, SndFields DEF SndType
<1>3. SenderOK'
  BY <1>0, <1>2 DEF IInv, SenderOK, RetryQueueOfFile, NoPlan
<1>4. AckedIsWritten'
  BY <1>0, <1>2 DEF IInv, AckedIsWritten, Held
<1>5. snd.file <= snd'.file /\ timeouts' \in Nat /\ pauses' \in Nat
  BY <1>0, <1>2, SndFields
<1>6. IsFiniteSet(DOMAIN snd'.inflight) /\ Cardinality(DOMAIN snd'.inflight) <= Window
  BY <1>2, SndFields
<1>7. Msg("complete") \in Requests'
  BY <1>2 DEF Requests, Msg, Frame, Frames
<1>8. <<Msg("complete")>> \in Seq(Requests')
  BY <1>7
<1> QED  BY <1>0, <1>1, <1>2, <1>3, <1>4, <1>5, <1>6, <1>8, SenderRuns

LEMMA RetransmitCompleteHolds == IInv /\ RetransmitComplete => IInv'
<1> SUFFICES ASSUME IInv, RetransmitComplete PROVE IInv'
    OBVIOUS
<1>0. /\ UNCHANGED <<snd, rcv, seed, link, timeouts, pauses>> /\ snd.phase = "done"
      /\ net' = Put("s", net, <<Msg("complete")>>)
  BY DEF RetransmitComplete, Running
<1>1. Msg("complete") \in Requests'
  BY <1>0 DEF Requests, Msg, Frame, Frames
<1>2. <<Msg("complete")>> \in Seq(Requests')
  BY <1>1
<1> QED  BY <1>0, <1>2, SndFields, SenderSends

LEMMA QueueRetryFits ==
    ASSUME IInv, NEW b
    PROVE  LET s == QueueRetry(b)
           IN  /\ s \in SndType /\ s.phase = snd.phase /\ s.file = snd.file /\ s.nextNew = snd.nextNew
               /\ s.inflight = snd.inflight /\ s.plan = snd.plan /\ s.res = snd.res
               /\ s.sending = snd.sending
               /\ \A i \in DOMAIN s.retryQueue : s.retryQueue[i] < s.nextNew
               /\ s.phase # "stream" => s.retryQueue = <<>>
<1> DEFINE s == [snd EXCEPT !.retryQueue = Append(@, b), !.retryQueued = @ \cup {b}]
<1>1. \A i \in DOMAIN snd.retryQueue : snd.retryQueue[i] < snd.nextNew
  BY DEF IInv, SenderOK, RetryQueueOfFile
<1>2. CASE QueueRetry(b) = snd
  BY <1>1, <1>2, SndFields DEF IInv, SenderOK
<1>3. CASE b \in DOMAIN snd.inflight /\ QueueRetry(b) = s
  <2>1. b \in Nat /\ b < snd.nextNew /\ snd.phase = "stream"
    BY <1>3, SndFields, WindowType DEF IInv, SenderOK
  <2>2. /\ Append(snd.retryQueue, b) \in Seq(Nat) /\ snd.retryQueued \cup {b} \subseteq Nat
        /\ \A i \in DOMAIN Append(snd.retryQueue, b) : Append(snd.retryQueue, b)[i] < snd.nextNew
    <3>1. snd.retryQueue \in Seq(Nat) /\ snd.retryQueued \subseteq Nat
      BY SndFields
    <3>2. Append(snd.retryQueue, b) \in Seq(Nat) /\ snd.retryQueued \cup {b} \subseteq Nat
      BY <2>1, <3>1
    <3>3. ASSUME NEW i \in DOMAIN Append(snd.retryQueue, b) PROVE Append(snd.retryQueue, b)[i] < snd.nextNew
      BY <1>1, <2>1, <3>1
    <3> QED  BY <3>2, <3>3
  <2>3. s \in SndType
    BY <2>2, SndFields DEF SndType
  <2>4. /\ s.phase = snd.phase /\ s.file = snd.file /\ s.nextNew = snd.nextNew
        /\ s.inflight = snd.inflight /\ s.plan = snd.plan /\ s.res = snd.res
        /\ s.sending = snd.sending /\ s.retryQueue = Append(snd.retryQueue, b)
    BY SndFields DEF SndType
  <2> HIDE DEF s
  <2> QED  BY <1>3, <2>1, <2>2, <2>3, <2>4
<1> QED  BY <1>2, <1>3 DEF QueueRetry

\* A step that only changes the retry queue, and within the file.
LEMMA SenderQueues ==
    ASSUME IInv, UNCHANGED <<rcv, seed>>, NEW b, snd' = QueueRetry(b), timeouts' \in Nat, pauses' \in Nat,
           LinksFit(Answers, Requests), Carries(net', Answers, Requests)
    PROVE  IInv'
<1>1. /\ snd' \in SndType /\ snd'.phase = snd.phase /\ snd'.file = snd.file /\ snd'.nextNew = snd.nextNew
      /\ snd'.inflight = snd.inflight /\ snd'.plan = snd.plan /\ snd'.res = snd.res
      /\ snd'.sending = snd.sending
      /\ \A i \in DOMAIN snd'.retryQueue : snd'.retryQueue[i] < snd'.nextNew
      /\ snd'.phase # "stream" => snd'.retryQueue = <<>>
  BY QueueRetryFits
<1>2. SenderOK'
  BY <1>1 DEF IInv, SenderOK, RetryQueueOfFile, NoPlan
<1>3. AckedIsWritten'
  BY <1>1 DEF IInv, AckedIsWritten, Held
<1>4. Answers' = Answers /\ Requests' = Requests
  BY <1>1 DEF Answers, Requests, Held
<1>5. snd.file <= snd'.file /\ (snd.phase = "done" => snd'.phase = "done") /\ (snd'.res = "ok" => rcv.closed)
      /\ IsFiniteSet(DOMAIN snd'.inflight) /\ Cardinality(DOMAIN snd'.inflight) <= Window
      /\ snd'.sending \in Seq(Requests')
  BY <1>1, <1>4, SndFields DEF IInv, ReceiverOK, WiresOK
<1> QED  BY <1>1, <1>2, <1>3, <1>4, <1>5, SenderHolds

LEMMA AckTimeoutHolds == IInv /\ AckTimeout => IInv'
<1> SUFFICES ASSUME IInv, AckTimeout PROVE IInv'
    OBVIOUS
<1>1. PICK b \in DOMAIN snd.inflight \ snd.retryQueued : snd' = QueueRetry(b)
  BY DEF AckTimeout
<1>2. UNCHANGED <<rcv, seed, net, link, pauses>> /\ timeouts' \in {timeouts, timeouts + 1}
  BY DEF AckTimeout
<1>3. timeouts' \in Nat /\ pauses' \in Nat /\ LinksFit(Answers, Requests) /\ Carries(net', Answers, Requests)
  BY <1>2, SndFields, LinksSame, NetFits
<1> QED  BY <1>1, <1>2, <1>3, SenderQueues

LEMMA SenderEndsHolds == IInv /\ (DoneTimeout \/ SourceError) => IInv'
<1> SUFFICES ASSUME IInv, DoneTimeout \/ SourceError PROVE IInv'
    OBVIOUS
<1>1. /\ UNCHANGED <<rcv, seed, net, link, pauses>> /\ timeouts' \in {timeouts, timeouts + 1}
      /\ snd' = [snd EXCEPT !.res = "retry"] \/ snd' = [snd EXCEPT !.res = "source"]
  BY DEF DoneTimeout, SourceError
<1>2. snd' \in SndType
  BY <1>1, SndFields DEF SndType, Results
<1>3. /\ snd'.phase = snd.phase /\ snd'.file = snd.file /\ snd'.nextNew = snd.nextNew
      /\ snd'.inflight = snd.inflight /\ snd'.retryQueue = snd.retryQueue /\ snd'.plan = snd.plan
      /\ snd'.res # "ok" /\ snd'.sending = snd.sending
  BY <1>1, SndFields DEF SndType
<1>4. timeouts' \in Nat /\ pauses' \in Nat
  BY <1>1, SndFields
<1> QED  BY <1>1, <1>2, <1>3, <1>4, SenderSends

LEMMA ResendManifestHolds == IInv /\ ResendManifest => IInv'
<1> SUFFICES ASSUME IInv, ResendManifest PROVE IInv'
    OBVIOUS
<1>1. /\ UNCHANGED <<rcv, seed, link, timeouts, pauses>>
      /\ snd' = [snd EXCEPT !.resendManifest = FALSE] /\ net' = Put("s", net, <<Msg("manifest")>>)
  BY DEF ResendManifest
<1>2. snd' \in SndType
  BY <1>1, SndFields DEF SndType
<1>3. /\ snd'.phase = snd.phase /\ snd'.file = snd.file /\ snd'.nextNew = snd.nextNew
      /\ snd'.inflight = snd.inflight /\ snd'.retryQueue = snd.retryQueue /\ snd'.plan = snd.plan
      /\ snd'.res = snd.res /\ snd'.sending = snd.sending
  BY <1>1, SndFields DEF SndType
<1>4. timeouts' \in Nat /\ pauses' \in Nat /\ \E q \in Seq(Requests') : net' = Put("s", net, q)
  BY <1>1, SndFields, PlainNext DEF Plain
<1> QED  BY <1>1, <1>2, <1>3, <1>4, SenderSends

\* The sender's halves of Pause, Resume and Cancel.
LEMMA SenderActs ==
    ASSUME IInv, UNCHANGED <<rcv, seed, link, timeouts>>, pauses' \in {pauses, pauses + 1},
           NEW t \in Plain, net' = Put("s", net, <<Msg(t)>>),
           \/ \E v \in BOOLEAN : snd' = [snd EXCEPT !.paused = v]
           \/ snd' = [snd EXCEPT !.res = "canceled"]
    PROVE  IInv'
<1>1. snd' \in SndType
  <2>1. CASE \E v \in BOOLEAN : snd' = [snd EXCEPT !.paused = v]
    BY <2>1, SndFields DEF SndType
  <2>2. CASE snd' = [snd EXCEPT !.res = "canceled"]
    BY <2>2, SndFields DEF SndType, Results
  <2> QED  BY <2>1, <2>2
<1>2. /\ snd'.phase = snd.phase /\ snd'.file = snd.file /\ snd'.nextNew = snd.nextNew
      /\ snd'.inflight = snd.inflight /\ snd'.retryQueue = snd.retryQueue /\ snd'.plan = snd.plan
      /\ snd'.res = "ok" => snd.res = "ok"
      /\ snd'.sending = snd.sending
  BY SndFields DEF SndType
<1>3. timeouts' \in Nat /\ pauses' \in Nat /\ \E q \in Seq(Requests') : net' = Put("s", net, q)
  <2>1. <<Msg(t)>> \in Seq(Requests')
    BY PlainNext
  <2>2. timeouts' \in Nat /\ pauses' \in Nat
    BY SndFields
  <2> QED  BY <2>1, <2>2
<1> QED  BY <1>1, <1>2, <1>3, SenderSends

-----------------------------------------------------------------------------
(***************************************************************************)
(* Sender.Handle.                                                          *)
(***************************************************************************)
LEMMA SOpens ==
    ASSUME IInv, NEW m \in Arrivals("s"), Opened("s", m)
    PROVE  LinksFit(Answers, Requests)
<1>1. m.late \in Answers /\ m.late \in Frames /\ m.via \in Paths
  BY ArriveS DEF IInv
<1>2. link \in [Sides -> LinkType] /\ link["r"].late \in Requests
  BY DEF IInv, TypeInv, WiresOK
<1>3. link' = [link EXCEPT !["s"] = [@ EXCEPT !.late = m.late, !.seen = m.via]]
  BY <1>2 DEF Opened, Sides
<1>4. [link["s"] EXCEPT !.late = m.late, !.seen = m.via] \in LinkType
  BY <1>1, <1>2 DEF LinkType, Sides
<1>5. [link["s"] EXCEPT !.late = m.late, !.seen = m.via].late = m.late
  BY <1>2 DEF LinkType, Sides
<1> QED  BY <1>1, <1>2, <1>3, <1>4, <1>5 DEF LinksFit, Sides

LEMMA ROpens ==
    ASSUME IInv, NEW m \in Arrivals("r"), Opened("r", m)
    PROVE  LinksFit(Answers, Requests)
<1>1. m.late \in Requests /\ m.late \in Frames /\ m.via \in Paths
  BY ArriveR DEF IInv
<1>2. link \in [Sides -> LinkType] /\ link["s"].late \in Answers
  BY DEF IInv, TypeInv, WiresOK
<1>3. link' = [link EXCEPT !["r"] = [@ EXCEPT !.late = m.late, !.seen = m.via]]
  BY <1>2 DEF Opened, Sides
<1>4. [link["r"] EXCEPT !.late = m.late, !.seen = m.via] \in LinkType
  BY <1>1, <1>2 DEF LinkType, Sides
<1>5. [link["r"] EXCEPT !.late = m.late, !.seen = m.via].late = m.late
  BY <1>2 DEF LinkType, Sides
<1> QED  BY <1>1, <1>2, <1>3, <1>4, <1>5 DEF LinksFit, Sides

LEMMA OnAckHolds == ASSUME IInv, NEW m \in Arrivals("s"), OnAck(m) PROVE IInv'
<1> DEFINE b == m.fr.b
           w == Without(snd.inflight, b)
<1>0. /\ UNCHANGED <<rcv, seed, timeouts, pauses>> /\ m.fr.t = "ack" /\ snd.res = "none"
      /\ Opened("s", m) /\ net' = m.net
  BY DEF OnAck, SReceives
<1>1. m.fr \in Answers /\ m.fr \in Frames /\ Carries(m.net, Answers, Requests)
  BY ArriveS DEF IInv
<1>2. LinksFit(Answers, Requests) /\ timeouts' \in Nat /\ pauses' \in Nat
  BY <1>0, SOpens, SndFields
<1>3. m.fr.f \in 1 .. snd.file /\ Held(m.fr.f, b) /\ b \in Nat /\ m.fr.f \in Nat /\ snd.file \in Nat
  <2>1. m.fr.f \in 1 .. snd.file /\ Held(m.fr.f, b)
    BY <1>0, <1>1 DEF Answers
  <2>2. b \in Nat /\ m.fr.f \in Nat
    BY <1>1, FrameTypes
  <2>3. snd.file \in Nat
    BY SndFields
  <2> QED  BY <2>1, <2>2, <2>3
<1>4. CASE snd' = snd
  <2>1. Answers' = Answers /\ Requests' = Requests /\ snd.sending \in Seq(Requests)
    BY <1>0, <1>4 DEF Answers, Requests, Held, IInv, WiresOK
  <2> QED  BY <1>0, <1>1, <1>2, <1>4, <2>1, SenderMinor, SndFields
<1>5. CASE /\ m.fr.f = snd.file /\ b \in DOMAIN snd.inflight
           /\ snd' = [snd EXCEPT !.inflight = w, !.retryQueued = @ \ {b}, !.acked = @ + 1]
  <2>1. w \in Windows /\ DOMAIN w = DOMAIN snd.inflight \ {b} /\ IsFiniteSet(DOMAIN w) /\ Cardinality(DOMAIN w) <= Window
    BY SndFields, WindowWithout
  <2> HIDE DEF w
  <2>2. snd' \in SndType
    <3>1. snd.retryQueued \ {b} \subseteq Nat /\ snd.acked + 1 \in Nat
      BY SndFields
    <3> QED  BY <1>5, <2>1, <3>1, SndFields DEF SndType
  <2>3. /\ snd'.phase = snd.phase /\ snd'.file = snd.file /\ snd'.nextNew = snd.nextNew
        /\ snd'.inflight = w /\ snd'.retryQueue = snd.retryQueue /\ snd'.plan = snd.plan
        /\ snd'.res = snd.res /\ snd'.sending = snd.sending
    BY <1>5, SndFields DEF SndType
  <2>4. SenderOK'
    <3>1. RetryQueueOfFile'
      BY <2>3 DEF IInv, SenderOK, RetryQueueOfFile
    <3>2. DOMAIN snd'.inflight \subseteq DOMAIN snd.inflight /\ NoPlan' = NoPlan
      BY <2>1, <2>3 DEF NoPlan
    <3> QED  BY <1>0, <2>3, <3>1, <3>2 DEF IInv, SenderOK
  <2>5. AckedIsWritten'
    BY <1>0, <1>3, <1>5, <2>1, <2>3 DEF IInv, AckedIsWritten, Held
  <2>6. Answers' = Answers /\ Requests' = Requests
    BY <1>0, <2>3 DEF Answers, Requests, Held
  <2>7. snd.file <= snd'.file /\ (snd.phase = "done" => snd'.phase = "done") /\ snd'.res # "ok"
        /\ snd'.sending \in Seq(Requests')
    BY <1>0, <1>3, <2>3, <2>6 DEF IInv, WiresOK
  <2> QED  BY <1>0, <1>1, <1>2, <2>1, <2>2, <2>3, <2>4, <2>5, <2>6, <2>7, SenderHolds
<1> QED  BY <1>3, <1>4, <1>5 DEF OnAck

LEMMA OnNackHolds == ASSUME IInv, NEW m \in Arrivals("s"), OnNack(m) PROVE IInv'
<1>0. /\ UNCHANGED <<rcv, seed, timeouts, pauses>> /\ m.fr.t = "nack"
      /\ Opened("s", m) /\ net' = m.net
  BY DEF OnNack, SReceives
<1>1. m.fr \in Answers /\ m.fr \in Frames /\ Carries(m.net, Answers, Requests)
  BY ArriveS DEF IInv
<1>2. LinksFit(Answers, Requests) /\ timeouts' \in Nat /\ pauses' \in Nat
  BY <1>0, SOpens, SndFields
<1>3. ~(m.fr.f > snd.file)
  <2>1. m.fr.f <= snd.file
    BY <1>0, <1>1 DEF Answers
  <2>2. m.fr.f \in Nat
    BY <1>1, FrameTypes
  <2>3. snd.file \in Nat
    BY SndFields
  <2> QED  BY <2>1, <2>2, <2>3
<1>4. CASE snd' = snd
  <2>1. Answers' = Answers /\ Requests' = Requests /\ snd.sending \in Seq(Requests)
    BY <1>0, <1>4 DEF Answers, Requests, Held, IInv, WiresOK
  <2>2. snd'.res = "ok" => rcv.closed
    BY <1>4 DEF IInv, ReceiverOK
  <2> QED  BY <1>0, <1>1, <1>2, <1>4, <2>1, <2>2, SenderMinor, SndFields
<1>5. CASE snd' = QueueRetry(m.fr.b)
  BY <1>0, <1>1, <1>2, <1>5, SenderQueues
<1> QED  BY <1>3, <1>4, <1>5 DEF OnNack

LEMMA OnResumeStateHolds == ASSUME IInv, NEW m \in Arrivals("s"), OnResumeState(m) PROVE IInv'
<1>0. /\ UNCHANGED <<rcv, seed, timeouts, pauses>> /\ m.fr.t = "resume"
      /\ Opened("s", m) /\ net' = m.net /\ snd' = [snd EXCEPT !.plan = seed]
  BY DEF OnResumeState, SReceives
<1>1. m.fr \in Answers /\ Carries(m.net, Answers, Requests)
  BY ArriveS DEF IInv
<1>2. LinksFit(Answers, Requests) /\ timeouts' \in Nat /\ pauses' \in Nat
  BY <1>0, SOpens, SndFields
<1>3. rcv.manifest
  BY <1>0, <1>1 DEF Answers
<1>4. seed \in [Files -> Nat]
  BY SeedType DEF IInv, TypeInv
<1>5. snd' \in SndType
  BY <1>0, <1>4, SndFields DEF SndType
<1>6. /\ snd'.phase = snd.phase /\ snd'.file = snd.file /\ snd'.nextNew = snd.nextNew
      /\ snd'.inflight = snd.inflight /\ snd'.retryQueue = snd.retryQueue /\ snd'.plan = seed
      /\ snd'.res = snd.res /\ snd'.sending = snd.sending
  BY <1>0, SndFields DEF SndType
<1>7. SenderOK'
  BY <1>0, <1>3, <1>6 DEF IInv, SenderOK, RetryQueueOfFile, NoPlan
<1>8. AckedIsWritten'
  BY <1>0, <1>6 DEF IInv, AckedIsWritten, Held
<1>9. Answers' = Answers /\ Requests' = Requests
  BY <1>0, <1>6 DEF Answers, Requests, Held
<1>10. snd.file <= snd'.file /\ (snd.phase = "done" => snd'.phase = "done") /\ (snd'.res = "ok" => rcv.closed)
       /\ IsFiniteSet(DOMAIN snd'.inflight) /\ Cardinality(DOMAIN snd'.inflight) <= Window
       /\ snd'.sending \in Seq(Requests')
  BY <1>6, <1>9, SndFields DEF IInv, ReceiverOK, WiresOK
<1> QED  BY <1>0, <1>1, <1>2, <1>5, <1>7, <1>8, <1>9, <1>10, SenderHolds

\* A Done, a failure, a cancellation or a pause of the receiver.
LEMMA SenderHears ==
    ASSUME IInv, NEW m \in Arrivals("s"), OnDone(m) \/ OnReceiverFail(m) \/ SetPausedByReceiver(m)
    PROVE  IInv'
<1>0. /\ UNCHANGED <<rcv, seed, timeouts, pauses>> /\ Opened("s", m) /\ net' = m.net
      /\ \/ m.fr.t = "done" /\ snd' = [snd EXCEPT !.res = IF snd.phase = "done" THEN "ok" ELSE "integrity"]
         \/ snd' = [snd EXCEPT !.res = "peer"] \/ snd' = [snd EXCEPT !.res = "canceled"]
         \/ snd' = [snd EXCEPT !.paused = TRUE] \/ snd' = [snd EXCEPT !.paused = FALSE]
  BY DEF OnDone, OnReceiverFail, SetPausedByReceiver, SReceives
<1>1. m.fr \in Answers /\ Carries(m.net, Answers, Requests)
  BY ArriveS DEF IInv
<1>2. LinksFit(Answers, Requests) /\ timeouts' \in Nat /\ pauses' \in Nat
  BY <1>0, SOpens, SndFields
<1>3. m.fr.t = "done" => rcv.closed
  BY <1>1 DEF Answers
<1>4. snd' \in SndType
  <2>1. CASE \E x \in Results : snd' = [snd EXCEPT !.res = x]
    BY <2>1, SndFields DEF SndType
  <2>2. CASE \E x \in BOOLEAN : snd' = [snd EXCEPT !.paused = x]
    BY <2>2, SndFields DEF SndType
  <2> QED  BY <1>0, <2>1, <2>2 DEF Results
<1>5. /\ snd'.phase = snd.phase /\ snd'.file = snd.file /\ snd'.nextNew = snd.nextNew
      /\ snd'.inflight = snd.inflight /\ snd'.retryQueue = snd.retryQueue /\ snd'.plan = snd.plan
      /\ snd'.sending = snd.sending
  BY <1>0, SndFields DEF SndType
<1>6. snd'.res = "ok" => rcv.closed
  <2>1. snd'.res = "ok" => m.fr.t = "done" \/ snd.res = "ok"
    BY <1>0, SndFields DEF SndType
  <2> QED  BY <1>3, <2>1 DEF IInv, ReceiverOK
<1>7. Answers' = Answers /\ Requests' = Requests /\ snd'.sending \in Seq(Requests)
  BY <1>0, <1>5 DEF Answers, Requests, Held, IInv, WiresOK
<1> QED  BY <1>0, <1>1, <1>2, <1>4, <1>5, <1>6, <1>7, SenderMinor

LEMMA DroppedHolds == ASSUME IInv, NEW e \in Sides, Dropped(e) PROVE IInv'
<1>1. PICK m \in Arrivals(e) : /\ net' = m.net /\ link' = [link EXCEPT ![e].late = m.late]
                               /\ UNCHANGED <<snd, rcv, seed, timeouts, pauses>>
  BY DEF Dropped
<1>2. /\ Carries(m.net, Answers, Requests) /\ m.late \in Frames
      /\ (e = "s" => m.late \in Answers) /\ (e = "r" => m.late \in Requests)
  BY ArriveS, ArriveR DEF IInv, Sides
<1>3. LinksFit(Answers, Requests)
  <2>1. link \in [Sides -> LinkType] /\ link["s"].late \in Answers /\ link["r"].late \in Requests
    BY DEF IInv, TypeInv, WiresOK
  <2>2. link' = [link EXCEPT ![e] = [@ EXCEPT !.late = m.late]]
    BY <1>1, <2>1
  <2>3. [link[e] EXCEPT !.late = m.late] \in LinkType /\ [link[e] EXCEPT !.late = m.late].late = m.late
    BY <1>2, <2>1 DEF LinkType
  <2> QED  BY <1>2, <2>1, <2>2, <2>3 DEF LinksFit, Sides
<1>4. Answers' = Answers /\ Requests' = Requests /\ snd'.sending \in Seq(Requests)
  BY <1>1 DEF Answers, Requests, Held, IInv, WiresOK
<1>5. snd'.res = "ok" => rcv.closed
  BY <1>1 DEF IInv, ReceiverOK
<1> QED  BY <1>1, <1>2, <1>3, <1>4, <1>5, SenderMinor, SndFields

-----------------------------------------------------------------------------
(***************************************************************************)
(* Receiver.Handle.                                                        *)
(***************************************************************************)
LEMMA Least ==
    ASSUME NEW S \in SUBSET Nat, S # {}
    PROVE  \E x \in S : \A y \in S : x <= y
<1> DEFINE R == OpToRel(<, Nat)
<1>1. PICK x \in S : \A y \in S : ~(<<y, x>> \in R)
  BY NatLessThanWellFounded, WFMin
<1>2. \A y \in S : ~(y < x)
  BY <1>1 DEF OpToRel
<1> QED  BY <1>2

LEMMA OpensNext ==
    ASSUME NEW r \in RcvType, seed \in Seeds, NEW f \in 1 .. NFiles + 1
    PROVE  LET o == OpenNextFile(r, f)
           IN  /\ o \in RcvType /\ o.file \in f .. NFiles + 1 /\ o.ahead = {} /\ o.nack = NoFrame
               /\ o.file <= NFiles => o.next = seed[o.file] /\ o.next < Blocks[o.file]
               /\ o.manifest = r.manifest /\ o.buf = r.buf /\ o.awaiting = r.awaiting
               /\ o.closed = r.closed /\ o.settling = r.settling /\ o.res = r.res
<1> DEFINE open == {x \in f .. NFiles : seed[x] < Blocks[x]}
           g == IF open = {} THEN NFiles + 1 ELSE CHOOSE x \in open : \A y \in open : x <= y
           o == [r EXCEPT !.file = g, !.next = IF open = {} THEN 0 ELSE seed[g], !.ahead = {}, !.nack = NoFrame]
<1>1. NFiles \in Nat /\ seed \in [Files -> Nat] /\ f \in Nat /\ open \subseteq Nat
  BY TransferAssumption
<1>2. ASSUME open # {} PROVE g \in open
  <2> HIDE DEF open
  <2>1. \E x \in open : \A y \in open : x <= y
    BY <1>1, <1>2, Least
  <2>2. (CHOOSE x \in open : \A y \in open : x <= y) \in open
    BY <2>1
  <2> QED  BY <1>2, <2>2
<1>9. open # {} => g \in f .. NFiles /\ seed[g] < Blocks[g]
  <2> HIDE DEF g
  <2> QED  BY <1>2
<1>3. g \in f .. NFiles + 1 /\ g \in 1 .. NFiles + 1 /\ (open = {} => g = NFiles + 1)
  <2> HIDE DEF open
  <2>1. open = {} => g = NFiles + 1
    OBVIOUS
  <2> HIDE DEF g
  <2> QED  BY <1>1, <1>9, <2>1
<1>4. g <= NFiles => open # {} /\ g \in Files /\ seed[g] \in Nat /\ seed[g] < Blocks[g]
  <2> HIDE DEF open, g
  <2> QED  BY <1>1, <1>3, <1>9 DEF Files
<1> HIDE DEF open, g
<1>5. (IF open = {} THEN 0 ELSE seed[g]) \in Nat
  BY <1>1, <1>9 DEF Files
<1>6. o \in RcvType
  BY <1>3, <1>5, FrameTypes DEF RcvType
<1>7. /\ o.file = g /\ (open # {} => o.next = seed[g]) /\ o.ahead = {} /\ o.nack = NoFrame
      /\ o.manifest = r.manifest /\ o.buf = r.buf /\ o.awaiting = r.awaiting
      /\ o.closed = r.closed /\ o.settling = r.settling /\ o.res = r.res
  BY DEF RcvType
<1>8. OpenNextFile(r, f) = o
  BY DEF OpenNextFile, open, g
<1> QED  BY <1>3, <1>4, <1>6, <1>7, <1>8

LEMMA RcvFields ==
    IInv => /\ rcv \in RcvType /\ rcv.file \in 1 .. NFiles + 1 /\ rcv.next \in Nat /\ rcv.buf \in Frames
            /\ rcv.nack \in Frames /\ rcv.ahead \subseteq Nat /\ IsFiniteSet(rcv.ahead)
            /\ Cardinality(rcv.ahead) <= Window /\ Window \in Nat /\ NFiles \in Nat /\ seed \in Seeds
            /\ rcv.manifest \in BOOLEAN /\ timeouts \in Nat /\ pauses \in Nat
BY TransferAssumption DEF IInv, TypeInv, RcvType

LEMMA AnswersSent ==
    ASSUME IInv, Answers \subseteq Answers', Requests \subseteq Requests', NEW n, Carries(n, Answers, Requests),
           NEW q \in Seq(Answers')
    PROVE  Carries(Put("r", n, q), Answers', Requests')
<1>1. Carries(n, Answers', Requests')
  BY CarriesMore
<1>2. Answers' \subseteq Frames
  BY PlainNext
<1> QED  BY <1>1, <1>2, PutByR DEF IInv, TypeInv

\* The receiver handles a frame and answers with others, or none.
LEMMA Replies ==
    ASSUME IInv, NEW m \in Arrivals("r"), UNCHANGED <<snd, seed, timeouts, pauses>>, Opened("r", m),
           rcv' \in RcvType, IsFiniteSet(rcv'.ahead), Cardinality(rcv'.ahead) <= Window,
           ReceiverOK', Forward, NEW q \in Seq(Answers'), net' = Put("r", m.net, q)
    PROVE  IInv'
<1>1. Answers \subseteq Answers' /\ Requests \subseteq Requests'
  BY Monotone DEF IInv, TypeInv
<1>2. Carries(m.net, Answers, Requests)
  BY ArriveR DEF IInv
<1>3. Carries(net', Answers', Requests')
  BY <1>1, <1>2, AnswersSent
<1>4. timeouts' \in Nat /\ pauses' \in Nat
  BY RcvFields
<1> QED  BY <1>3, <1>4, ROpens, ReceiverHolds

\* The same, of a step that writes nothing.
LEMMA RepliesInPlace ==
    ASSUME IInv, NEW m \in Arrivals("r"), UNCHANGED <<snd, seed, timeouts, pauses>>, Opened("r", m),
           rcv' \in RcvType, IsFiniteSet(rcv'.ahead), Cardinality(rcv'.ahead) <= Window,
           rcv'.manifest = rcv.manifest, rcv'.file = rcv.file, rcv'.next = rcv.next,
           rcv'.closed = rcv.closed, rcv'.settling = rcv.settling, rcv'.res = "ok" => rcv.res = "ok",
           rcv'.buf \in {rcv.buf, NoFrame} \/ (rcv.manifest /\ rcv'.buf.t = "data" /\ rcv'.buf.f <= rcv.file),
           NEW q \in Seq(Answers'), net' = Put("r", m.net, q)
    PROVE  IInv'
<1>1. ReceiverOK'
  BY DEF IInv, ReceiverOK, NoFrame, Msg, Frame
<1>2. Forward
  BY RcvFields, SndFields DEF Forward
<1> QED  BY <1>1, <1>2, Replies

LEMMA SameAnswers ==
    ASSUME UNCHANGED <<snd, seed>>, rcv'.manifest = rcv.manifest, rcv'.file = rcv.file, rcv'.next = rcv.next,
           rcv'.closed = rcv.closed
    PROVE  Answers' = Answers /\ Requests' = Requests
BY DEF Answers, Requests, Held

LEMMA AbortHolds ==
    ASSUME IInv, NEW m \in Arrivals("r"), UNCHANGED <<snd, seed, timeouts, pauses>>, Opened("r", m),
           AbortWith(m, "integrity") \/ SinkError(m)
    PROVE  IInv'
<1>1. PICK x \in {"integrity", "sink"} : /\ rcv' = [rcv EXCEPT !.res = x] /\ net' = Put("r", m.net, <<Msg("fail")>>)
  BY DEF AbortWith, SinkError, Reply
<1>2. rcv' \in RcvType
  BY <1>1, RcvFields DEF RcvType, Results
<1>3. /\ rcv'.manifest = rcv.manifest /\ rcv'.file = rcv.file /\ rcv'.next = rcv.next
      /\ rcv'.closed = rcv.closed /\ rcv'.settling = rcv.settling /\ rcv'.res # "ok"
      /\ rcv'.buf = rcv.buf /\ rcv'.ahead = rcv.ahead
  BY <1>1, RcvFields DEF RcvType
<1>4. <<Msg("fail")>> \in Seq(Answers')
  BY PlainNext DEF Plain
<1> QED  BY <1>1, <1>2, <1>3, <1>4, RepliesInPlace, RcvFields

LEMMA ApplyManifestHolds == ASSUME IInv, NEW m \in Arrivals("r"), ApplyManifest(m) PROVE IInv'
<1>0. UNCHANGED <<snd, seed, timeouts, pauses>> /\ Opened("r", m)
  BY DEF ApplyManifest, RReceives
<1>1. CASE rcv.manifest /\ Reply(m, rcv, <<Msg("resume")>>)
  <2>1. rcv' = rcv /\ net' = Put("r", m.net, <<Msg("resume")>>)
    BY <1>1 DEF Reply
  <2>2. Msg("resume") \in Answers'
    BY <1>1, <2>1 DEF Answers, Msg, Frame, Frames
  <2>3. <<Msg("resume")>> \in Seq(Answers')
    BY <2>2
  <2> QED  BY <1>0, <2>1, <2>3, RepliesInPlace, RcvFields
<1>2. CASE ~rcv.manifest /\ Reply(m, OpenNextFile([rcv EXCEPT !.manifest = TRUE, !.awaiting = TRUE], 1), <<Msg("resume")>>)
  <2> DEFINE r == [rcv EXCEPT !.manifest = TRUE, !.awaiting = TRUE]
  <2>1. rcv' = OpenNextFile(r, 1) /\ net' = Put("r", m.net, <<Msg("resume")>>)
    BY <1>2 DEF Reply
  <2>2. r \in RcvType /\ 1 \in 1 .. NFiles + 1 /\ seed \in Seeds
    <3>1. r \in RcvType
      BY RcvFields DEF RcvType
    <3>2. 1 \in 1 .. NFiles + 1 /\ seed \in Seeds
      BY RcvFields
    <3> QED  BY <3>1, <3>2
  <2>3. /\ r.manifest = TRUE /\ r.buf = rcv.buf /\ r.closed = rcv.closed /\ r.settling = rcv.settling
        /\ r.res = rcv.res
    BY RcvFields DEF RcvType
  <2> HIDE DEF r
  <2>4. /\ rcv' \in RcvType /\ rcv'.file \in 1 .. NFiles + 1 /\ rcv'.ahead = {}
        /\ rcv'.file <= NFiles => rcv'.next = seed[rcv'.file] /\ rcv'.next < Blocks[rcv'.file]
        /\ rcv'.manifest /\ rcv'.buf = rcv.buf
        /\ rcv'.closed = rcv.closed /\ rcv'.settling = rcv.settling /\ rcv'.res = rcv.res
    BY <2>1, <2>2, <2>3, OpensNext
  <2>5. rcv.buf = NoFrame /\ ~rcv.closed /\ ~rcv.settling /\ rcv.res # "ok" /\ snd.res # "ok"
    BY <1>2 DEF IInv, ReceiverOK
  <2>6. rcv'.file <= NFiles => seed[rcv'.file] <= rcv'.next
    <3>1. ASSUME rcv'.file <= NFiles PROVE rcv'.file \in Files
      BY <2>4, <3>1, RcvFields DEF Files
    <3> QED  BY <2>4, <3>1, SeedType, RcvFields
  <2>7. ReceiverOK'
    BY <1>0, <2>4, <2>5, <2>6 DEF ReceiverOK
  <2>8. Forward
    BY <1>0, <1>2, <2>4, SndFields DEF Forward
  <2>9. Msg("resume") \in Answers'
    BY <2>4 DEF Answers, Msg, Frame, Frames
  <2>10. <<Msg("resume")>> \in Seq(Answers')
    BY <2>9
  <2>11. IsFiniteSet(rcv'.ahead) /\ Cardinality(rcv'.ahead) <= Window
    BY <2>4, FS_EmptySet, RcvFields
  <2> QED  BY <1>0, <2>1, <2>4, <2>7, <2>8, <2>10, <2>11, Replies
<1>3. CASE SinkError(m)
  BY <1>0, <1>3, AbortHolds
<1> QED  BY <1>1, <1>2, <1>3 DEF ApplyManifest

LEMMA OnBlockDataHolds == ASSUME IInv, NEW m \in Arrivals("r"), OnBlockData(m) PROVE IInv'
<1> DEFINE x == m.fr
<1>0. UNCHANGED <<snd, seed, timeouts, pauses>> /\ Opened("r", m) /\ m.fr.t = "data"
  BY DEF OnBlockData, RReceives
<1>1. CASE Reply(m, rcv, <<>>)
  <2>1. rcv' = rcv /\ net' = Put("r", m.net, <<>>)
    BY <1>1 DEF Reply
  <2>2. <<>> \in Seq(Answers')
    BY PlainNext
  <2> QED  BY <1>0, <2>1, <2>2, RepliesInPlace, RcvFields
<1>2. CASE AbortWith(m, "integrity")
  BY <1>0, <1>2, AbortHolds
<1>3. CASE /\ rcv.manifest /\ ~(x.f > rcv.file)
           /\ Reply(m, [rcv EXCEPT !.buf = x, !.awaiting = @ /\ ~(x.off = 0)], <<>>)
  <2>1. rcv' = [rcv EXCEPT !.buf = x, !.awaiting = @ /\ ~(x.off = 0)] /\ net' = Put("r", m.net, <<>>)
    BY <1>3 DEF Reply
  <2>2. x \in Frames
    BY ArriveR DEF IInv
  <2>3. rcv' \in RcvType
    BY <2>1, <2>2, RcvFields DEF RcvType
  <2>4. /\ rcv'.manifest = rcv.manifest /\ rcv'.file = rcv.file /\ rcv'.next = rcv.next
        /\ rcv'.closed = rcv.closed /\ rcv'.settling = rcv.settling /\ rcv'.res = rcv.res
        /\ rcv'.buf = x /\ rcv'.ahead = rcv.ahead
    BY <2>1, RcvFields DEF RcvType
  <2>5. x.f \in Nat /\ rcv.file \in Nat
    <3>1. x.f \in Nat
      BY <2>2, FrameTypes
    <3> QED  BY <3>1, RcvFields
  <2>6. x.f <= rcv.file
    BY <1>3, <2>5
  <2>7. <<>> \in Seq(Answers')
    BY PlainNext
  <2> QED  BY <1>0, <1>3, <2>1, <2>3, <2>4, <2>6, <2>7, RepliesInPlace, RcvFields
<1> QED  BY <1>1, <1>2, <1>3 DEF OnBlockData

\* What requestMissing does to the receiver and to the path.
LEMMA Missing ==
    ASSUME NEW m, NEW r \in RcvType, NEW fs, RequestMissing(m, r, fs)
    PROVE  LET nack == Frame("nack", r.file, r.next, 0)
           IN  /\ rcv' = r \/ rcv' = [r EXCEPT !.nack = nack]
               /\ rcv' \in RcvType
               /\ rcv'.manifest = r.manifest /\ rcv'.file = r.file /\ rcv'.next = r.next
               /\ rcv'.closed = r.closed /\ rcv'.settling = r.settling /\ rcv'.res = r.res
               /\ rcv'.buf = r.buf /\ rcv'.ahead = r.ahead /\ rcv'.awaiting = r.awaiting
               /\ net' = Put("r", m.net, fs) \/ net' = Put("r", m.net, Append(fs, nack))
<1> DEFINE nack == Frame("nack", r.file, r.next, 0)
<1>1. nack \in Frames
  BY TransferAssumption DEF RcvType, Frame, Frames
<1>2. \/ rcv' = r /\ net' = Put("r", m.net, fs)
      \/ rcv' = [r EXCEPT !.nack = nack] /\ net' = Put("r", m.net, Append(fs, nack))
  BY DEF RequestMissing, Reply
<1> HIDE DEF nack
<1>3. rcv' \in RcvType
  BY <1>1, <1>2 DEF RcvType
<1>4. /\ rcv'.manifest = r.manifest /\ rcv'.file = r.file /\ rcv'.next = r.next
      /\ rcv'.closed = r.closed /\ rcv'.settling = r.settling /\ rcv'.res = r.res
      /\ rcv'.buf = r.buf /\ rcv'.ahead = r.ahead /\ rcv'.awaiting = r.awaiting
  BY <1>2 DEF RcvType
<1> QED  BY <1>2, <1>3, <1>4 DEF nack

\* A nack for a file the sender has begun may be sent.
LEMMA NackFits ==
    ASSUME NEW f \in Nat, NEW b \in Nat, f <= snd'.file, NEW fs \in Seq(Answers')
    PROVE  Append(fs, Frame("nack", f, b, 0)) \in Seq(Answers')
<1>1. Frame("nack", f, b, 0) \in Answers'
  BY DEF Answers, Frame, Frames
<1> QED  BY <1>1

LEMMA AckFits ==
    ASSUME NEW f \in Nat, NEW b \in Nat, f \in 1 .. snd'.file, Held(f, b)'
    PROVE  <<Frame("ack", f, b, 0)>> \in Seq(Answers')
<1>1. Frame("ack", f, b, 0) \in Answers'
  BY DEF Answers, Frame, Frames
<1> QED  BY <1>1

\* A block ahead of the expected one is remembered, and the missing one asked for.
LEMMA PastNextHolds ==
    ASSUME IInv, NEW m \in Arrivals("r"), UNCHANGED <<snd, seed, timeouts, pauses>>, Opened("r", m),
           rcv.file <= snd.file, m.fr.b \in Nat, PastNext(m, [rcv EXCEPT !.buf = NoFrame])
    PROVE  IInv'
<1> DEFINE r == [rcv EXCEPT !.buf = NoFrame]
           a == IF Cardinality(r.ahead) < Window THEN r.ahead \cup {m.fr.b} ELSE r.ahead
           p == [r EXCEPT !.ahead = a]
<1>1. r \in RcvType /\ r.ahead = rcv.ahead
  BY RcvFields, FrameTypes DEF RcvType
<1>2. a \subseteq Nat /\ IsFiniteSet(a) /\ Cardinality(a) <= Window
  <2>1. CASE ~(Cardinality(rcv.ahead) < Window)
    BY <1>1, <2>1, RcvFields
  <2>2. CASE Cardinality(rcv.ahead) < Window
    <3>1. a = rcv.ahead \cup {m.fr.b}
      BY <1>1, <2>2
    <3>2. /\ IsFiniteSet(a) /\ Cardinality(a) \in {Cardinality(rcv.ahead), Cardinality(rcv.ahead) + 1}
          /\ Cardinality(rcv.ahead) \in Nat
      <4> HIDE DEF a
      <4>1. IsFiniteSet(rcv.ahead)
        BY RcvFields
      <4>2. /\ IsFiniteSet(rcv.ahead \cup {m.fr.b}) /\ Cardinality(rcv.ahead) \in Nat
            /\ Cardinality(rcv.ahead \cup {m.fr.b}) \in {Cardinality(rcv.ahead), Cardinality(rcv.ahead) + 1}
        BY <4>1, FS_AddElement, FS_CardinalityType
      <4> QED  BY <3>1, <4>2
    <3> HIDE DEF a
    <3>3. a \subseteq Nat /\ Window \in Nat
      BY <3>1, RcvFields
    <3> QED  BY <2>2, <3>2, <3>3
  <2> QED  BY <2>1, <2>2
<1> HIDE DEF a
<1>3. p \in RcvType
  BY <1>1, <1>2 DEF RcvType
<1>4. /\ p.manifest = rcv.manifest /\ p.file = rcv.file /\ p.next = rcv.next
      /\ p.closed = rcv.closed /\ p.settling = rcv.settling /\ p.res = rcv.res
      /\ p.buf = NoFrame /\ p.ahead = a
  BY RcvFields DEF RcvType
<1>5. RequestMissing(m, p, <<>>)
  BY <1>1 DEF PastNext, a
<1> HIDE DEF p
<1>6. /\ rcv' \in RcvType
      /\ rcv'.manifest = p.manifest /\ rcv'.file = p.file /\ rcv'.next = p.next
      /\ rcv'.closed = p.closed /\ rcv'.settling = p.settling /\ rcv'.res = p.res
      /\ rcv'.buf = p.buf /\ rcv'.ahead = p.ahead
      /\ net' = Put("r", m.net, <<>>) \/ net' = Put("r", m.net, Append(<<>>, Frame("nack", p.file, p.next, 0)))
  BY <1>3, <1>5, Missing
<1>7. rcv.file \in Nat /\ rcv.next \in Nat /\ rcv.file <= snd'.file
  BY RcvFields
<1>8. <<>> \in Seq(Answers') /\ Append(<<>>, Frame("nack", p.file, p.next, 0)) \in Seq(Answers')
  BY <1>4, <1>7, PlainNext, NackFits
<1>9. PICK q \in Seq(Answers') : net' = Put("r", m.net, q)
  BY <1>6, <1>8
<1> QED  BY <1>2, <1>4, <1>6, <1>9, RepliesInPlace

LEMMA WriteBlockHolds ==
    ASSUME IInv, NEW m \in Arrivals("r"), UNCHANGED <<snd, seed, timeouts, pauses>>, Opened("r", m),
           rcv.manifest, m.fr.f = rcv.file, m.fr.b = rcv.next, rcv.file \in 1 .. snd.file, rcv.res = "none",
           WriteBlock(m, [rcv EXCEPT !.buf = NoFrame])
    PROVE  IInv'
<1> DEFINE r == [rcv EXCEPT !.buf = NoFrame]
           w == [r EXCEPT !.next = @ + 1, !.nack = NoFrame]
           ack == <<Frame("ack", rcv.file, rcv.next, 0)>>
<1>0. /\ rcv.file \in Files /\ rcv.file \in Nat /\ rcv.next \in Nat /\ rcv.file <= NFiles /\ NFiles \in Nat
      /\ seed[rcv.file] <= rcv.next /\ rcv.next < Blocks[rcv.file] /\ Blocks[rcv.file] \in Nat
      /\ seed \in Seeds /\ seed \in [Files -> Nat] /\ snd.file \in Nat
  <2>1. snd.file \in 0 .. NFiles /\ NFiles \in Nat /\ seed \in Seeds
    BY SndFields, RcvFields
  <2>2. rcv.file \in Files /\ rcv.file \in Nat /\ rcv.file <= NFiles /\ rcv.next \in Nat
    BY <2>1, RcvFields DEF Files
  <2>3. seed[rcv.file] <= rcv.next /\ rcv.next < Blocks[rcv.file]
    BY <2>2 DEF IInv, ReceiverOK
  <2> QED  BY <2>1, <2>2, <2>3, SeedType
<1>1. r \in RcvType /\ w \in RcvType
  <2>1. r \in RcvType /\ r.next = rcv.next
    BY RcvFields, FrameTypes DEF RcvType
  <2> HIDE DEF r
  <2>2. r.next + 1 \in Nat
    BY <1>0, <2>1
  <2>6. NoFrame \in Frames
    BY FrameTypes
  <2>3. w = [r EXCEPT !.next = r.next + 1, !.nack = NoFrame]
    BY <2>1 DEF RcvType
  <2> DEFINE k == r.next + 1
  <2>4. k \in Nat /\ w = [r EXCEPT !.next = k, !.nack = NoFrame]
    BY <2>2, <2>3
  <2> HIDE DEF k, w
  <2>5. w \in RcvType
    BY <2>1, <2>6, <2>4 DEF RcvType
  <2> QED  BY <2>1, <2>5
<1>2. /\ w.manifest /\ w.file = rcv.file /\ w.next = rcv.next + 1 /\ w.buf = NoFrame
      /\ w.closed = rcv.closed /\ w.settling = rcv.settling /\ w.res = rcv.res /\ w.ahead = rcv.ahead
  BY RcvFields DEF RcvType
<1>3. ~rcv.closed /\ ~rcv.settling /\ snd.res # "ok"
  BY <1>0 DEF IInv, ReceiverOK
<1>4. \/ SinkError(m)
      \/ w.next = Blocks[w.file] /\ Reply(m, OpenNextFile(w, w.file + 1), ack)
      \/ w.next # Blocks[w.file] /\ RequestMissing(m, [w EXCEPT !.ahead = @ \ {w.next}], ack)
      \/ w.next # Blocks[w.file] /\ Reply(m, w, ack)
  BY DEF WriteBlock
<1> HIDE DEF w, r
<1>5. ASSUME rcv' \in RcvType, rcv'.manifest, rcv'.buf = NoFrame, rcv'.closed = rcv.closed,
             rcv'.settling = rcv.settling, rcv'.res = rcv.res, IsFiniteSet(rcv'.ahead),
             Cardinality(rcv'.ahead) <= Window,
             rcv.file < rcv'.file \/ (rcv'.file = rcv.file /\ rcv'.next = rcv.next + 1),
             rcv'.file <= NFiles => seed[rcv'.file] <= rcv'.next /\ rcv'.next < Blocks[rcv'.file],
             net' = Put("r", m.net, ack) \/ net' = Put("r", m.net, Append(ack, Frame("nack", rcv.file, rcv'.next, 0)))
      PROVE  IInv'
  <2>0. rcv'.next \in Nat /\ rcv'.file \in Nat
    BY <1>5, TransferAssumption DEF RcvType
  <2>1. ReceiverOK'
    BY <1>3, <1>5 DEF ReceiverOK
  <2>2. Forward
    BY <1>0, <1>5, <2>0, SndFields DEF Forward
  <2>3. ASSUME NEW f \in Nat, NEW b \in Nat, f = rcv.file, b = rcv.next
        PROVE  <<Frame("ack", f, b, 0)>> \in Seq(Answers')
    <3>1. Held(f, b)'
      BY <1>0, <1>5, <2>0, <2>3 DEF Held
    <3>2. f \in 1 .. snd'.file
      BY <2>3
    <3> QED  BY <3>1, <3>2, AckFits
  <2>4. ack \in Seq(Answers')
    BY <1>0, <2>3
  <2>5. Append(ack, Frame("nack", rcv.file, rcv'.next, 0)) \in Seq(Answers')
    <3>1. rcv.file <= snd'.file
      BY <1>0
    <3> QED  BY <1>0, <2>0, <2>4, <3>1, NackFits
  <2> QED  BY <1>5, <2>1, <2>2, <2>4, <2>5, Replies
<1>6. CASE SinkError(m)
  BY <1>6, AbortHolds
<1>7. CASE w.next = Blocks[w.file] /\ Reply(m, OpenNextFile(w, w.file + 1), ack)
  <2>1. rcv' = OpenNextFile(w, w.file + 1) /\ net' = Put("r", m.net, ack)
    BY <1>7 DEF Reply
  <2>2. w.file + 1 \in 1 .. NFiles + 1
    BY <1>0, <1>2
  <2>3. /\ rcv' \in RcvType /\ rcv'.file \in (w.file + 1) .. NFiles + 1 /\ rcv'.ahead = {}
        /\ rcv'.file <= NFiles => rcv'.next = seed[rcv'.file] /\ rcv'.next < Blocks[rcv'.file]
        /\ rcv'.manifest = w.manifest /\ rcv'.buf = w.buf
        /\ rcv'.closed = w.closed /\ rcv'.settling = w.settling /\ rcv'.res = w.res
    BY <1>0, <1>1, <2>1, <2>2, OpensNext
  <2>4. rcv.file < rcv'.file /\ rcv'.file \in Nat
    BY <1>0, <1>2, <2>3
  <2>5. rcv'.file <= NFiles => seed[rcv'.file] <= rcv'.next
    <3>1. ASSUME rcv'.file <= NFiles PROVE rcv'.file \in Files
      BY <1>0, <2>4, <3>1 DEF Files
    <3> QED  BY <1>0, <2>3, <3>1
  <2>6. IsFiniteSet(rcv'.ahead) /\ Cardinality(rcv'.ahead) <= Window
    BY <2>3, FS_EmptySet, RcvFields
  <2> QED  BY <1>2, <1>5, <2>1, <2>3, <2>4, <2>5, <2>6
<1>8. CASE w.next # Blocks[w.file] /\ RequestMissing(m, [w EXCEPT !.ahead = @ \ {w.next}], ack)
  <2> DEFINE v == [w EXCEPT !.ahead = @ \ {w.next}]
  <2>1. v \in RcvType
    BY <1>1 DEF RcvType
  <2>2. /\ v.manifest = w.manifest /\ v.file = w.file /\ v.next = w.next /\ v.buf = w.buf
        /\ v.closed = w.closed /\ v.settling = w.settling /\ v.res = w.res /\ v.ahead = w.ahead \ {w.next}
    BY <1>1 DEF RcvType
  <2>6. RequestMissing(m, v, ack)
    BY <1>8
  <2> HIDE DEF v
  <2>3. /\ rcv' \in RcvType
        /\ rcv'.manifest = v.manifest /\ rcv'.file = v.file /\ rcv'.next = v.next
        /\ rcv'.closed = v.closed /\ rcv'.settling = v.settling /\ rcv'.res = v.res
        /\ rcv'.buf = v.buf /\ rcv'.ahead = v.ahead
        /\ net' = Put("r", m.net, ack) \/ net' = Put("r", m.net, Append(ack, Frame("nack", v.file, v.next, 0)))
    BY <2>1, <2>6, Missing
  <2>4. IsFiniteSet(rcv'.ahead) /\ Cardinality(rcv'.ahead) <= Window
    <3>1. rcv'.ahead \subseteq rcv.ahead
      BY <1>2, <2>2, <2>3
    <3>2. /\ IsFiniteSet(rcv'.ahead) /\ Cardinality(rcv'.ahead) <= Cardinality(rcv.ahead)
          /\ Cardinality(rcv.ahead) \in Nat /\ Cardinality(rcv'.ahead) \in Nat
      BY <3>1, FS_Subset, FS_CardinalityType, RcvFields
    <3> QED  BY <3>2, RcvFields
  <2>5. seed[rcv.file] <= rcv.next + 1 /\ rcv.next + 1 < Blocks[rcv.file]
    BY <1>0, <1>2, <1>8
  <2> QED  BY <1>2, <1>5, <2>2, <2>3, <2>4, <2>5
<1>9. CASE w.next # Blocks[w.file] /\ Reply(m, w, ack)
  <2>1. rcv' = w /\ net' = Put("r", m.net, ack)
    BY <1>9 DEF Reply
  <2>2. seed[rcv.file] <= rcv.next + 1 /\ rcv.next + 1 < Blocks[rcv.file]
    BY <1>0, <1>2, <1>9
  <2> QED  BY <1>1, <1>2, <1>5, <2>1, <2>2, RcvFields
<1> QED  BY <1>4, <1>6, <1>7, <1>8, <1>9

LEMMA OnBlockHashHolds == ASSUME IInv, NEW m \in Arrivals("r"), OnBlockHash(m) PROVE IInv'
<1> DEFINE x == m.fr
           r == [rcv EXCEPT !.buf = NoFrame]
<1>0. UNCHANGED <<snd, seed, timeouts, pauses>> /\ Opened("r", m) /\ x.t = "hash" /\ rcv.res = "none"
  BY DEF OnBlockHash, RReceives
<1>1. x \in Requests /\ x \in Frames
  BY ArriveR DEF IInv
<1>2. x.f \in 1 .. snd.file /\ x.f \in Nat /\ x.b \in Nat
  <2>1. x.f \in 1 .. snd.file
    BY <1>0, <1>1 DEF Requests
  <2> QED  BY <1>1, <2>1, FrameTypes
<1>3. CASE Reply(m, rcv, <<>>)
  <2>1. rcv' = rcv /\ net' = Put("r", m.net, <<>>)
    BY <1>3 DEF Reply
  <2>2. <<>> \in Seq(Answers')
    BY PlainNext
  <2> QED  BY <1>0, <2>1, <2>2, RepliesInPlace, RcvFields
<1>4. CASE AbortWith(m, "integrity")
  BY <1>0, <1>4, AbortHolds
<1>5. ASSUME rcv.buf = Frame("data", x.f, x.b, Frags - 1)
      PROVE  rcv.manifest /\ x.f <= rcv.file /\ rcv.file \in Nat /\ rcv.next \in Nat
  <2>1. rcv.buf.t = "data" /\ rcv.buf.f = x.f
    BY <1>5 DEF Frame
  <2>2. rcv.buf # NoFrame
    BY <2>1, FrameTypes
  <2>3. rcv.manifest /\ x.f <= rcv.file
    BY <2>1, <2>2 DEF IInv, ReceiverOK
  <2> QED  BY <2>3, RcvFields
<1>6. CASE /\ rcv.buf = Frame("data", x.f, x.b, Frags - 1) /\ (x.f < rcv.file \/ x.b < rcv.next)
           /\ Reply(m, r, <<Frame("ack", x.f, x.b, 0)>>)
  <2>1. rcv' = r /\ net' = Put("r", m.net, <<Frame("ack", x.f, x.b, 0)>>)
    BY <1>6 DEF Reply
  <2>2. rcv' \in RcvType
    BY <2>1, RcvFields, FrameTypes DEF RcvType
  <2>3. /\ rcv'.manifest = rcv.manifest /\ rcv'.file = rcv.file /\ rcv'.next = rcv.next
        /\ rcv'.closed = rcv.closed /\ rcv'.settling = rcv.settling /\ rcv'.res = rcv.res
        /\ rcv'.buf = NoFrame /\ rcv'.ahead = rcv.ahead
    BY <2>1, RcvFields DEF RcvType
  <2>4. Held(x.f, x.b)
    BY <1>2, <1>5, <1>6 DEF Held
  <2>5. Answers' = Answers
    BY <1>0, <2>3, SameAnswers
  <2>6. Frame("ack", x.f, x.b, 0) \in Answers
    BY <1>2, <2>4 DEF Answers, Frame, Frames
  <2>7. <<Frame("ack", x.f, x.b, 0)>> \in Seq(Answers')
    BY <2>5, <2>6
  <2> QED  BY <1>0, <2>1, <2>2, <2>3, <2>7, RepliesInPlace, RcvFields
<1>7. CASE /\ rcv.buf = Frame("data", x.f, x.b, Frags - 1) /\ ~(x.f < rcv.file \/ x.b < rcv.next)
           /\ PastNext(m, r)
  <2>1. rcv.file <= snd.file
    <3>1. snd.file \in Nat
      BY SndFields
    <3> QED  BY <1>2, <1>5, <1>7, <3>1
  <2> QED  BY <1>0, <1>2, <1>7, <2>1, PastNextHolds
<1>8. CASE /\ rcv.buf = Frame("data", x.f, x.b, Frags - 1) /\ ~(x.f < rcv.file \/ x.b < rcv.next)
           /\ ~(x.b > rcv.next) /\ WriteBlock(m, r)
  <2>1. rcv.file \in 1 .. snd.file /\ x.f = rcv.file /\ x.b = rcv.next /\ rcv.manifest
    BY <1>2, <1>5, <1>8
  <2> QED  BY <1>0, <1>8, <2>1, WriteBlockHolds
<1> QED  BY <1>3, <1>4, <1>6, <1>7, <1>8 DEF OnBlockHash

LEMMA OnCompleteHolds == ASSUME IInv, NEW m \in Arrivals("r"), OnComplete(m) PROVE IInv'
<1>0. UNCHANGED <<snd, seed, timeouts, pauses>> /\ Opened("r", m) /\ m.fr.t = "complete" /\ rcv.res = "none"
  BY DEF OnComplete, RReceives
<1>1. snd.phase = "done" /\ snd.file = NFiles
  <2>1. m.fr \in Requests
    BY ArriveR DEF IInv
  <2>2. snd.phase = "done"
    BY <1>0, <2>1 DEF Requests
  <2> QED  BY <2>2 DEF IInv, SenderOK
<1>2. CASE AbortWith(m, "integrity") \/ SinkError(m)
  BY <1>0, <1>2, AbortHolds
<1>3. CASE rcv.file <= NFiles /\ RequestMissing(m, rcv, <<>>)
  <2>1. /\ rcv' \in RcvType
        /\ rcv'.manifest = rcv.manifest /\ rcv'.file = rcv.file /\ rcv'.next = rcv.next
        /\ rcv'.closed = rcv.closed /\ rcv'.settling = rcv.settling /\ rcv'.res = rcv.res
        /\ rcv'.buf = rcv.buf /\ rcv'.ahead = rcv.ahead
        /\ net' = Put("r", m.net, <<>>) \/ net' = Put("r", m.net, Append(<<>>, Frame("nack", rcv.file, rcv.next, 0)))
    BY <1>3, RcvFields, Missing
  <2>2. rcv.file \in Nat /\ rcv.next \in Nat /\ rcv.file <= snd'.file
    BY <1>0, <1>1, <1>3, RcvFields
  <2>3. <<>> \in Seq(Answers') /\ Append(<<>>, Frame("nack", rcv.file, rcv.next, 0)) \in Seq(Answers')
    BY <2>2, PlainNext, NackFits
  <2>4. PICK q \in Seq(Answers') : net' = Put("r", m.net, q)
    BY <2>1, <2>3
  <2>5. IsFiniteSet(rcv'.ahead) /\ Cardinality(rcv'.ahead) <= Window
    BY <2>1, RcvFields
  <2> QED  BY <1>0, <2>1, <2>4, <2>5, RepliesInPlace
<1>4. CASE /\ rcv.manifest /\ ~(rcv.file <= NFiles)
           /\ Reply(m, [rcv EXCEPT !.closed = TRUE, !.settling = TRUE], <<Msg("done")>>)
  <2>1. rcv' = [rcv EXCEPT !.closed = TRUE, !.settling = TRUE] /\ net' = Put("r", m.net, <<Msg("done")>>)
    BY <1>4 DEF Reply
  <2>2. rcv' \in RcvType
    BY <2>1, RcvFields DEF RcvType
  <2>3. /\ rcv'.manifest = rcv.manifest /\ rcv'.file = rcv.file /\ rcv'.next = rcv.next
        /\ rcv'.closed /\ rcv'.settling /\ rcv'.res = rcv.res
        /\ rcv'.buf = rcv.buf /\ rcv'.ahead = rcv.ahead
    BY <2>1, RcvFields DEF RcvType
  <2>4. rcv.file = NFiles + 1 /\ rcv.file \in Nat /\ rcv.next \in Nat
    BY <1>4, RcvFields
  <2>5. ReceiverOK'
    BY <1>0, <1>1, <1>4, <2>3, <2>4 DEF IInv, ReceiverOK
  <2>6. Forward
    BY <1>0, <2>3, <2>4, SndFields DEF Forward
  <2>7. Msg("done") \in Answers'
    BY <2>3 DEF Answers, Msg, Frame, Frames
  <2>8. <<Msg("done")>> \in Seq(Answers')
    BY <2>7
  <2>9. IsFiniteSet(rcv'.ahead) /\ Cardinality(rcv'.ahead) <= Window
    BY <2>3, RcvFields
  <2> QED  BY <1>0, <2>1, <2>2, <2>5, <2>6, <2>8, <2>9, Replies
<1> QED  BY <1>2, <1>3, <1>4 DEF OnComplete

LEMMA ReplyDoneHolds == ASSUME IInv, NEW m \in Arrivals("r"), ReplyDoneAfterCutover(m) PROVE IInv'
<1>1. /\ UNCHANGED <<snd, seed, timeouts, pauses>> /\ Opened("r", m) /\ rcv.res = "ok"
      /\ rcv' = rcv /\ net' = Put("r", m.net, <<Msg("done")>>)
  BY DEF ReplyDoneAfterCutover, RReceives, Reply
<1>2. rcv'.closed
  BY <1>1 DEF IInv, ReceiverOK
<1>3. Msg("done") \in Answers'
  BY <1>2 DEF Answers, Msg, Frame, Frames
<1>4. <<Msg("done")>> \in Seq(Answers')
  BY <1>3
<1> QED  BY <1>1, <1>4, RepliesInPlace, RcvFields

LEMMA OnSenderControlHolds == ASSUME IInv, NEW m \in Arrivals("r"), OnSenderControl(m) PROVE IInv'
<1>1. /\ UNCHANGED <<snd, seed, timeouts, pauses>> /\ Opened("r", m) /\ net' = Put("r", m.net, <<>>)
      /\ \/ \E v \in BOOLEAN : rcv' = [rcv EXCEPT !.paused = v]
         \/ \E v \in {"canceled", "peer"} : rcv' = [rcv EXCEPT !.res = v]
  BY DEF OnSenderControl, RReceives, Reply
<1>2. rcv' \in RcvType
  <2>1. CASE \E v \in BOOLEAN : rcv' = [rcv EXCEPT !.paused = v]
    BY <2>1, RcvFields DEF RcvType
  <2>2. CASE \E v \in {"canceled", "peer"} : rcv' = [rcv EXCEPT !.res = v]
    BY <2>2, RcvFields DEF RcvType, Results
  <2> QED  BY <1>1, <2>1, <2>2
<1>3. /\ rcv'.manifest = rcv.manifest /\ rcv'.file = rcv.file /\ rcv'.next = rcv.next
      /\ rcv'.closed = rcv.closed /\ rcv'.settling = rcv.settling /\ (rcv'.res = "ok" => rcv.res = "ok")
      /\ rcv'.buf = rcv.buf /\ rcv'.ahead = rcv.ahead
  BY <1>1, RcvFields DEF RcvType
<1>4. <<>> \in Seq(Answers')
  BY PlainNext
<1>5. IsFiniteSet(rcv'.ahead) /\ Cardinality(rcv'.ahead) <= Window
  BY <1>3, RcvFields
<1> QED  BY <1>1, <1>2, <1>3, <1>4, <1>5, RepliesInPlace

\* A step of the receiver on its own: settle, a pause or a cancellation.
LEMMA ReceiverActs ==
    ASSUME IInv, UNCHANGED <<snd, seed, link, timeouts>>, pauses' \in {pauses, pauses + 1},
           rcv' \in RcvType, rcv'.manifest = rcv.manifest, rcv'.file = rcv.file, rcv'.next = rcv.next,
           rcv'.closed = rcv.closed, rcv'.settling => rcv.settling, rcv'.res = "ok" => rcv.closed,
           rcv'.buf = rcv.buf \/ rcv'.buf = NoFrame, rcv'.ahead = rcv.ahead,
           net' = net \/ \E t \in Plain : net' = Put("r", net, <<Msg(t)>>)
    PROVE  IInv'
<1>1. ReceiverOK'
  BY DEF IInv, ReceiverOK
<1>2. Forward
  BY RcvFields, SndFields DEF Forward
<1>3. Answers' = Answers /\ Requests' = Requests
  BY SameAnswers
<1>4. Carries(net', Answers', Requests')
  <2>1. Carries(net, Answers, Requests)
    BY NetFits
  <2>2. \A t \in Plain : <<Msg(t)>> \in Seq(Answers')
    BY PlainNext
  <2> QED  BY <1>3, <2>1, <2>2, AnswersSent
<1>5. IsFiniteSet(rcv'.ahead) /\ Cardinality(rcv'.ahead) <= Window /\ timeouts' \in Nat /\ pauses' \in Nat
  BY RcvFields
<1> QED  BY <1>1, <1>2, <1>4, <1>5, LinksSame, ReceiverHolds

LEMMA SettleHolds == IInv /\ Settle => IInv'
<1> SUFFICES ASSUME IInv, Settle PROVE IInv'
    OBVIOUS
<1>1. /\ UNCHANGED <<snd, seed, net, link, timeouts, pauses>> /\ rcv.settling
      /\ rcv' = [rcv EXCEPT !.settling = FALSE, !.res = IF rcv.res = "none" THEN "ok" ELSE rcv.res]
  BY DEF Settle
<1>2. rcv' \in RcvType
  BY <1>1, RcvFields DEF RcvType, Results
<1>3. /\ rcv'.manifest = rcv.manifest /\ rcv'.file = rcv.file /\ rcv'.next = rcv.next
      /\ rcv'.closed = rcv.closed /\ ~rcv'.settling /\ rcv'.buf = rcv.buf /\ rcv'.ahead = rcv.ahead
  BY <1>1, RcvFields DEF RcvType
<1>4. rcv.closed
  BY <1>1 DEF IInv, ReceiverOK
<1> QED  BY <1>1, <1>2, <1>3, <1>4, ReceiverActs

\* The receiver's halves of Pause, Resume and Cancel.
LEMMA ReceiverTells ==
    ASSUME IInv, UNCHANGED <<snd, seed, link, timeouts>>, pauses' \in {pauses, pauses + 1},
           NEW t \in Plain, net' = Put("r", net, <<Msg(t)>>),
           \/ \E v \in BOOLEAN : rcv' = [rcv EXCEPT !.paused = v]
           \/ rcv' = [rcv EXCEPT !.res = "canceled"]
    PROVE  IInv'
<1>1. rcv' \in RcvType
  <2>1. CASE \E v \in BOOLEAN : rcv' = [rcv EXCEPT !.paused = v]
    BY <2>1, RcvFields DEF RcvType
  <2>2. CASE rcv' = [rcv EXCEPT !.res = "canceled"]
    BY <2>2, RcvFields DEF RcvType, Results
  <2> QED  BY <2>1, <2>2
<1>2. /\ rcv'.manifest = rcv.manifest /\ rcv'.file = rcv.file /\ rcv'.next = rcv.next
      /\ rcv'.closed = rcv.closed /\ rcv'.settling = rcv.settling /\ (rcv'.res = "ok" => rcv.res = "ok")
      /\ rcv'.buf = rcv.buf /\ rcv'.ahead = rcv.ahead
  BY RcvFields DEF RcvType
<1>3. rcv'.res = "ok" => rcv.closed
  BY <1>2 DEF IInv, ReceiverOK
<1> QED  BY <1>1, <1>2, <1>3, ReceiverActs

LEMMA UserHolds == IInv /\ (Pause \/ Resume \/ Cancel) => IInv'
<1> SUFFICES ASSUME IInv, Pause \/ Resume \/ Cancel PROVE IInv'
    OBVIOUS
<1>1. "pause" \in Plain /\ "unpause" \in Plain /\ "cancel" \in Plain
  BY DEF Plain
<1>2. UNCHANGED <<seed, link, timeouts>> /\ pauses' \in {pauses, pauses + 1}
  BY DEF Pause, Resume, Cancel
<1>3. CASE Pause
  <2>1. CASE snd' = [snd EXCEPT !.paused = TRUE] /\ net' = Put("s", net, <<Msg("pause")>>) /\ UNCHANGED rcv
    BY <1>1, <1>2, <2>1, SenderActs
  <2>2. CASE rcv' = [rcv EXCEPT !.paused = TRUE] /\ net' = Put("r", net, <<Msg("pause")>>) /\ UNCHANGED snd
    BY <1>1, <1>2, <2>2, ReceiverTells
  <2> QED  BY <1>3, <2>1, <2>2 DEF Pause
<1>4. CASE Resume
  <2>1. CASE snd' = [snd EXCEPT !.paused = FALSE] /\ net' = Put("s", net, <<Msg("unpause")>>) /\ UNCHANGED rcv
    BY <1>1, <1>2, <2>1, SenderActs
  <2>2. CASE rcv' = [rcv EXCEPT !.paused = FALSE] /\ net' = Put("r", net, <<Msg("unpause")>>) /\ UNCHANGED snd
    BY <1>1, <1>2, <2>2, ReceiverTells
  <2> QED  BY <1>4, <2>1, <2>2 DEF Resume
<1>5. CASE Cancel
  <2>1. CASE snd' = [snd EXCEPT !.res = "canceled"] /\ net' = Put("s", net, <<Msg("cancel")>>) /\ UNCHANGED rcv
    BY <1>1, <1>2, <2>1, SenderActs
  <2>2. CASE rcv' = [rcv EXCEPT !.res = "canceled"] /\ net' = Put("r", net, <<Msg("cancel")>>) /\ UNCHANGED snd
    BY <1>1, <1>2, <2>2, ReceiverTells
  <2> QED  BY <1>5, <2>1, <2>2 DEF Cancel
<1> QED  BY <1>3, <1>4, <1>5

-----------------------------------------------------------------------------
(***************************************************************************)
(* The move to the relay.                                                  *)
(***************************************************************************)
LEMMA SwitchOutHolds == ASSUME IInv, NEW e \in Sides, SwitchOut(e) PROVE IInv'
<1>1. UNCHANGED <<snd, rcv, seed, net, timeouts, pauses>> /\ link' = [link EXCEPT ![e].out = "relay"]
  BY DEF SwitchOut
<1>2. LinksFit(Answers, Requests)
  <2>1. link \in [Sides -> LinkType] /\ link["s"].late \in Answers /\ link["r"].late \in Requests
    BY DEF IInv, TypeInv, WiresOK
  <2>2. link' = [link EXCEPT ![e] = [@ EXCEPT !.out = "relay"]]
    BY <1>1, <2>1
  <2>3. [link[e] EXCEPT !.out = "relay"] \in LinkType /\ [link[e] EXCEPT !.out = "relay"].late = link[e].late
    BY <2>1 DEF LinkType, Paths
  <2> QED  BY <2>1, <2>2, <2>3 DEF LinksFit, Sides
<1>3. Answers' = Answers /\ Requests' = Requests /\ snd'.sending \in Seq(Requests)
  BY <1>1 DEF Answers, Requests, Held, IInv, WiresOK
<1>4. snd'.res = "ok" => rcv.closed
  BY <1>1 DEF IInv, ReceiverOK
<1> QED  BY <1>1, <1>2, <1>3, <1>4, SenderMinor, SndFields, NetFits

LEMMA ActivateFits ==
    ASSUME IInv, NEW e \in Sides, ActivateRelay(e)
    PROVE  LinksFit(Answers, Requests) /\ Carries(net', Answers, Requests)
<1> DEFINE q == net["direct"][e]
<1>1. Carries(net, Answers, Requests)
  BY NetFits
<1>2. link \in [Sides -> LinkType] /\ link["s"].late \in Answers /\ link["r"].late \in Requests
  BY DEF IInv, TypeInv, WiresOK
<1>3. PICK late \in {NoFrame} \cup (IF "late" \in Races /\ q # <<>> THEN {Head(q)} ELSE {}) :
          link' = [link EXCEPT ![e].out = "relay", ![e].in = "relay", ![e].late = late]
  BY DEF ActivateRelay
<1>4. late = NoFrame \/ (q # <<>> /\ late = Head(q))
  BY <1>3
<1>5. late \in Frames /\ (e = "s" => late \in Answers) /\ (e = "r" => late \in Requests)
  <2>1. q \in Seq(Frames) /\ (e = "s" => q \in Seq(Answers)) /\ (e = "r" => q \in Seq(Requests))
    BY <1>1 DEF Carries, Paths
  <2> QED  BY <1>4, <2>1, PlainFrames
<1>6. link' = [link EXCEPT ![e] = [@ EXCEPT !.out = "relay", !.in = "relay", !.late = late]]
  BY <1>2, <1>3
<1>7. LET l == [link[e] EXCEPT !.out = "relay", !.in = "relay", !.late = late]
      IN  l \in LinkType /\ l.late = late
  BY <1>2, <1>5 DEF LinkType, Paths
<1>8. LinksFit(Answers, Requests)
  BY <1>2, <1>5, <1>6, <1>7 DEF LinksFit, Sides
<1>9. Carries(net', Answers, Requests)
  <2>1. net' = [net EXCEPT !["direct"][e] = <<>>]
    BY DEF ActivateRelay
  <2> QED  BY <1>1, <2>1 DEF Carries, Paths, Sides
<1> QED  BY <1>8, <1>9

LEMMA SenderMoves ==
    ASSUME IInv, ActivateRelay("s"), SenderTransportChanged, UNCHANGED <<rcv, seed, timeouts, pauses>>
    PROVE  IInv'
<1> DEFINE lost == DOMAIN snd.inflight \ snd.retryQueued
           w == [b \in DOMAIN snd.inflight |-> 0]
<1>0. LinksFit(Answers, Requests) /\ Carries(net', Answers, Requests) /\ timeouts' \in Nat /\ pauses' \in Nat
  BY ActivateFits, SndFields DEF Sides
<1>1. CASE UNCHANGED snd
  <2>1. Answers' = Answers /\ Requests' = Requests /\ snd'.sending \in Seq(Requests)
    BY <1>1 DEF Answers, Requests, Held, IInv, WiresOK
  <2>2. snd'.res = "ok" => rcv.closed
    BY <1>1 DEF IInv, ReceiverOK
  <2> QED  BY <1>0, <1>1, <2>1, <2>2, SenderMinor, SndFields
<1>2. CASE snd.res = "none" /\ ~UNCHANGED snd
  <2> DEFINE again == snd.phase # "manifest" /\ snd.acked = 0
  <2>1. PICK q \in Orders(lost) :
            snd' = [snd EXCEPT !.retryQueue = @ \o q, !.retryQueued = @ \cup lost, !.inflight = w,
                               !.resendManifest = again]
    BY <1>2 DEF SenderTransportChanged
  <2>2. /\ lost \subseteq Nat /\ lost \subseteq DOMAIN snd.inflight /\ IsFiniteSet(lost)
        /\ Cardinality(lost) \in Nat
    <3>1. DOMAIN snd.inflight \subseteq Nat /\ lost \subseteq DOMAIN snd.inflight
      BY SndFields, WindowType
    <3>2. IsFiniteSet(lost)
      BY <3>1, SndFields, FS_Subset
    <3> QED  BY <3>1, <3>2, FS_CardinalityType
  <2>3. q \in Seq(lost) /\ q \in Seq(Nat)
    <3> HIDE DEF lost
    <3>1. q \in [1 .. Cardinality(lost) -> lost]
      BY <2>1 DEF Orders
    <3>2. q \in Seq(lost)
      BY <2>2, <3>1
    <3>3. lost \subseteq Nat
      BY <2>2
    <3> QED  BY <3>2, <3>3, SeqWider
  <2>4. lost = {} => q = <<>>
    BY <2>3
  <2>5. w \in Windows /\ DOMAIN w = DOMAIN snd.inflight
    BY SndFields, WindowReset
  <2>6. \A b \in lost : b < snd.nextNew
    BY <2>2 DEF IInv, SenderOK
  <2> HIDE DEF w, lost
  <2>7. again \in BOOLEAN
    OBVIOUS
  <2> HIDE DEF again
  <2>8. snd.retryQueue \o q \in Seq(Nat) /\ snd.retryQueued \cup lost \subseteq Nat
    <3>1. snd.retryQueue \in Seq(Nat) /\ snd.retryQueued \subseteq Nat
      BY SndFields
    <3>2. snd.retryQueue \o q \in Seq(Nat)
      BY <2>3, <3>1, Cat
    <3> QED  BY <2>2, <3>1, <3>2
  <2>9. snd' \in SndType
    BY <2>1, <2>5, <2>7, <2>8, SndFields DEF SndType
  <2>10. /\ snd'.phase = snd.phase /\ snd'.file = snd.file /\ snd'.nextNew = snd.nextNew
         /\ snd'.inflight = w /\ snd'.retryQueue = snd.retryQueue \o q /\ snd'.plan = snd.plan
         /\ snd'.res = snd.res /\ snd'.sending = snd.sending
    BY <2>1, SndFields DEF SndType
  <2>11. RetryQueueOfFile'
    <3>1. \A i \in DOMAIN snd.retryQueue : snd.retryQueue[i] < snd.nextNew
      BY DEF IInv, SenderOK, RetryQueueOfFile
    <3>2. \A i \in DOMAIN q : q[i] \in lost
      BY <2>3
    <3>3. ASSUME NEW i \in DOMAIN (snd.retryQueue \o q)
          PROVE  \/ i \in DOMAIN snd.retryQueue /\ (snd.retryQueue \o q)[i] = snd.retryQueue[i]
                 \/ i - Len(snd.retryQueue) \in DOMAIN q /\ (snd.retryQueue \o q)[i] = q[i - Len(snd.retryQueue)]
      <4>1. snd.retryQueue \in Seq(Nat)
        BY SndFields
      <4> QED  BY <2>3, <4>1, Cat
    <3> QED  BY <2>6, <2>10, <3>1, <3>2, <3>3 DEF RetryQueueOfFile
  <2>12. snd.phase # "stream" => DOMAIN snd'.inflight = {} /\ snd'.retryQueue = <<>>
    <3>1. ASSUME snd.phase # "stream" PROVE DOMAIN snd.inflight = {} /\ snd.retryQueue = <<>>
      BY <3>1 DEF IInv, SenderOK
    <3>2. ASSUME snd.phase # "stream" PROVE q = <<>>
      BY <2>2, <2>4, <3>1, <3>2
    <3>3. <<>> \o <<>> = <<>>
      OBVIOUS
    <3> QED  BY <2>5, <2>10, <3>1, <3>2, <3>3
  <2>13. SenderOK'
    <3>1. \A b \in DOMAIN w : b < snd.nextNew
      BY <2>5 DEF IInv, SenderOK
    <3>2. NoPlan' = NoPlan
      BY DEF NoPlan
    <3> QED  BY <2>10, <2>11, <2>12, <3>1, <3>2 DEF IInv, SenderOK
  <2>14. AckedIsWritten'
    BY <2>5, <2>10 DEF IInv, AckedIsWritten, Held
  <2>15. Answers' = Answers /\ Requests' = Requests
    BY <2>10 DEF Answers, Requests, Held
  <2>16. snd.file <= snd'.file /\ (snd.phase = "done" => snd'.phase = "done") /\ (snd'.res = "ok" => rcv.closed)
         /\ IsFiniteSet(DOMAIN snd'.inflight) /\ Cardinality(DOMAIN snd'.inflight) <= Window
         /\ snd'.sending \in Seq(Requests')
    BY <1>2, <2>5, <2>10, <2>15, SndFields DEF IInv, WiresOK
  <2> QED  BY <1>0, <2>9, <2>13, <2>14, <2>15, <2>16, SenderHolds
<1> QED  BY <1>1, <1>2 DEF SenderTransportChanged

LEMMA ReceiverMoves ==
    ASSUME IInv, ActivateRelay("r"), ReceiverTransportChanged, UNCHANGED <<snd, seed, timeouts, pauses>>
    PROVE  IInv'
<1>0. LinksFit(Answers, Requests) /\ Carries(net', Answers, Requests) /\ timeouts' \in Nat /\ pauses' \in Nat
  BY ActivateFits, SndFields DEF Sides
<1>1. rcv' = [rcv EXCEPT !.buf = NoFrame, !.ahead = {}, !.nack = NoFrame, !.awaiting = TRUE]
  BY DEF ReceiverTransportChanged
<1>2. rcv' \in RcvType
  BY <1>1, RcvFields, FrameTypes DEF RcvType
<1>3. /\ rcv'.manifest = rcv.manifest /\ rcv'.file = rcv.file /\ rcv'.next = rcv.next
      /\ rcv'.closed = rcv.closed /\ rcv'.settling = rcv.settling /\ rcv'.res = rcv.res
      /\ rcv'.buf = NoFrame /\ rcv'.ahead = {}
  BY <1>1, RcvFields DEF RcvType
<1>4. ReceiverOK'
  BY <1>3 DEF IInv, ReceiverOK
<1>5. Forward
  BY <1>3, RcvFields, SndFields DEF Forward
<1>6. Answers' = Answers /\ Requests' = Requests
  BY <1>3, SameAnswers
<1>7. IsFiniteSet(rcv'.ahead) /\ Cardinality(rcv'.ahead) <= Window
  BY <1>3, FS_EmptySet, RcvFields
<1> QED  BY <1>0, <1>2, <1>4, <1>5, <1>6, <1>7, ReceiverHolds

LEMMA MoveHolds == ASSUME IInv, NEW e \in Sides, SwitchIn(e) \/ PromoteOnData(e) PROVE IInv'
<1>1. ActivateRelay(e) /\ TransportChanged(e) /\ UNCHANGED <<seed, timeouts, pauses>>
  BY DEF SwitchIn, PromoteOnData
<1>2. CASE e = "s"
  BY <1>1, <1>2, SenderMoves DEF TransportChanged
<1>3. CASE e = "r"
  BY <1>1, <1>3, ReceiverMoves DEF TransportChanged
<1> QED  BY <1>2, <1>3 DEF Sides

LEMMA DropHolds == IInv /\ DropOnCandidate => IInv'
<1> SUFFICES ASSUME IInv, DropOnCandidate PROVE IInv'
    OBVIOUS
<1>1. /\ UNCHANGED <<snd, rcv, seed, link, timeouts, pauses>> /\ net["relay"]["r"] # <<>>
      /\ net' = [net EXCEPT !["relay"]["r"] = Tail(@)]
  BY DEF DropOnCandidate
<1>2. Carries(net, Answers, Requests)
  BY NetFits
<1>3. Tail(net["relay"]["r"]) \in Seq(Requests) /\ Tail(net["relay"]["r"]) \in Seq(Frames)
  BY <1>1, <1>2 DEF Carries, Paths, Sides
<1>4. Carries(net', Answers, Requests)
  BY <1>1, <1>2, <1>3 DEF Carries, Paths, Sides
<1>5. Answers' = Answers /\ Requests' = Requests /\ snd'.sending \in Seq(Requests)
  BY <1>1 DEF Answers, Requests, Held, IInv, WiresOK
<1>6. snd'.res = "ok" => rcv.closed
  BY <1>1 DEF IInv, ReceiverOK
<1> QED  BY <1>1, <1>4, <1>5, <1>6, LinksSame, SenderMinor, SndFields

-----------------------------------------------------------------------------
LEMMA StutterHolds == IInv /\ UNCHANGED vars => IInv'
<1> SUFFICES ASSUME IInv, UNCHANGED vars PROVE IInv'
    OBVIOUS
<1>1. UNCHANGED <<snd, rcv, seed, net, link, timeouts, pauses>>
  BY DEF vars
<1>2. Answers' = Answers /\ Requests' = Requests
  BY <1>1 DEF Answers, Requests, Held
<1>3. TypeInv' /\ WiresOK'
  BY <1>1, <1>2 DEF IInv, TypeInv, WiresOK
<1>4. SenderOK' /\ ReceiverOK'
  BY <1>1 DEF IInv, SenderOK, ReceiverOK, RetryQueueOfFile, NoPlan
<1>5. AckedIsWritten'
  BY <1>1 DEF IInv, AckedIsWritten, Held
<1> QED  BY <1>3, <1>4, <1>5 DEF IInv

LEMMA NextHolds == IInv /\ [Next]_vars => IInv'
<1> SUFFICES ASSUME IInv, [Next]_vars PROVE IInv'
    OBVIOUS
<1>1. CASE RunThread
  BY <1>1, SendManifestHolds, NextFileHolds, RetryHolds, NewBlockHolds, SendFrameHolds,
     WaitInflightHolds, SendCompleteHolds DEF RunThread
<1>2. CASE RetransmitComplete \/ AckTimeout \/ DoneTimeout \/ SourceError
  BY <1>2, RetransmitCompleteHolds, AckTimeoutHolds, SenderEndsHolds
<1>3. CASE SenderHandle
  <2>1. CASE Dropped("s")
    BY <2>1, DroppedHolds DEF Sides
  <2>2. ASSUME NEW m \in Arrivals("s"),
               \/ OnAck(m) \/ OnNack(m) \/ OnResumeState(m) \/ OnDone(m)
               \/ OnReceiverFail(m) \/ SetPausedByReceiver(m)
        PROVE  IInv'
    BY <2>2, OnAckHolds, OnNackHolds, OnResumeStateHolds, SenderHears
  <2> QED  BY <1>3, <2>1, <2>2 DEF SenderHandle
<1>4. CASE ReceiverHandle
  <2>1. CASE Dropped("r")
    BY <2>1, DroppedHolds DEF Sides
  <2>2. ASSUME NEW m \in Arrivals("r"),
               \/ ApplyManifest(m) \/ OnBlockData(m) \/ OnBlockHash(m)
               \/ OnComplete(m) \/ ReplyDoneAfterCutover(m) \/ OnSenderControl(m)
        PROVE  IInv'
    BY <2>2, ApplyManifestHolds, OnBlockDataHolds, OnBlockHashHolds, OnCompleteHolds, ReplyDoneHolds,
       OnSenderControlHolds
  <2> QED  BY <1>4, <2>1, <2>2, SettleHolds DEF ReceiverHandle
<1>5. CASE Pause \/ Resume \/ Cancel
  BY <1>5, UserHolds
<1>6. CASE Moves
  <2>1. ASSUME NEW e \in Sides, SwitchOut(e) \/ SwitchIn(e) \/ PromoteOnData(e) PROVE IInv'
    BY <2>1, SwitchOutHolds, MoveHolds
  <2> QED  BY <1>6, <2>1, DropHolds, ResendManifestHolds DEF Moves
<1>7. CASE Returned \/ UNCHANGED vars
  BY <1>7, StutterHolds DEF Returned
<1> QED  BY <1>1, <1>2, <1>3, <1>4, <1>5, <1>6, <1>7 DEF Next

\* Through every interleaving of Run, the timers, both Handles, user acts and the
\* move: where Run stands, what the receiver has written and what is under way
\* agree (transfer_sender.go, transfer_receiver.go).
THEOREM Inductive == Spec => []IInv
BY InitHolds, NextHolds, PTL DEF Spec

\* The fields of both engines keep their types; the window and the blocks seen
\* ahead never exceed DefaultInflightBlocks, a block's retries never
\* DefaultMaxBlockRetries.
THEOREM TypeCorrect == Spec => []TypeOK
<1>1. ASSUME IInv PROVE TypeOK
  <2>1. \A b \in DOMAIN snd.inflight : snd.inflight[b] \in 0 .. MaxRetries
    BY <1>1, SndFields, WindowType
  <2>2. DOMAIN snd.inflight \subseteq Nat
    BY <1>1, SndFields, WindowType
  <2>3. snd.res \in Results /\ rcv.res \in Results
    BY <1>1 DEF IInv, TypeInv, SndType, RcvType
  <2>4. \A path \in {"direct", "relay"}, e \in Sides : net[path][e] \in Seq(Frames)
    BY <1>1 DEF IInv, TypeInv, Paths
  <2> QED  BY <1>1, <2>1, <2>2, <2>3, <2>4, SndFields, RcvFields DEF TypeOK, Phases
<1> QED  BY <1>1, Inductive, PTL

\* onAck and the resume plan: what the sender no longer keeps in flight is in the
\* receiver's sink, for every window, whatever is retried, duplicated or lost in
\* the move.
THEOREM AcksWritten == Spec => []AckedIsWritten
<1>1. IInv => AckedIsWritten
  BY DEF IInv
<1> QED  BY <1>1, Inductive, PTL

\* queueRetry and WaitInflight: no entry of the retry queue outlives its file,
\* although a timer or a nack may queue a block at any moment.
THEOREM RetriesOfFile == Spec => []RetryQueueOfFile
<1>1. IInv => RetryQueueOfFile
  BY DEF IInv, SenderOK
<1> QED  BY <1>1, Inductive, PTL

\* Done is authoritative: when Run returns a digest the receiver has closed a
\* destination that holds every block of every file.
THEOREM SuccessComplete == Spec => []SuccessMeansComplete
<1>1. ASSUME IInv PROVE SuccessMeansComplete
  <2> SUFFICES ASSUME snd.res = "ok"
               PROVE  rcv.closed /\ \A f \in Files : \A b \in 0 .. Blocks[f] - 1 : Held(f, b)
      BY DEF SuccessMeansComplete
  <2>1. rcv.closed /\ rcv.manifest /\ rcv.file = NFiles + 1
    BY <1>1 DEF IInv, ReceiverOK
  <2>2. \A f \in Files : f < NFiles + 1
    BY TransferAssumption DEF Files
  <2> QED  BY <2>1, <2>2 DEF Held
<1> QED  BY <1>1, Inductive, PTL

-----------------------------------------------------------------------------
(***************************************************************************)
(* Chains of fragments.                                                    *)
(***************************************************************************)
LEMMA TailAt ==
    ASSUME NEW S, NEW q \in Seq(S), q # <<>>
    PROVE  /\ Tail(q) \in Seq(S) /\ Len(q) \in Nat /\ Len(q) > 0 /\ Len(Tail(q)) = Len(q) - 1
           /\ DOMAIN q = 1 .. Len(q) /\ DOMAIN Tail(q) = 1 .. Len(q) - 1 /\ Head(q) = q[1]
           /\ \A i \in DOMAIN Tail(q) : i + 1 \in DOMAIN q /\ Tail(q)[i] = q[i + 1]
OBVIOUS

LEMMA ChainAt ==
    ASSUME NEW q, Chain(q), NEW i \in DOMAIN q, NEW j \in DOMAIN q, i < j, Block(q[i]), Block(q[j]),
           Between(q, i, j)
    PROVE  Follows(q[i], q[j])
BY Zenon DEF Chain

\* A part of a sequence, from position n + 1 on, is a chain where the whole is.
LEMMA ChainFrom ==
    ASSUME NEW q \in Seq(Frames), NEW r \in Seq(Frames), NEW n \in Nat, Len(q) >= n + Len(r),
           \A i \in DOMAIN r : r[i] = q[n + i]
    PROVE  /\ Chain(q) => Chain(r)
           /\ Len(q) = n + Len(r) /\ Ends(q) => Ends(r)
           /\ \A x : Starts(x, q) /\ n = 0 => Starts(x, r)
           /\ NoBlock(q) => NoBlock(r)
<1>1. DOMAIN q = 1 .. Len(q) /\ DOMAIN r = 1 .. Len(r) /\ Len(q) \in Nat /\ Len(r) \in Nat
  OBVIOUS
<1>2. \A i \in DOMAIN r : i \in Nat /\ n + i \in DOMAIN q /\ q[n + i] = r[i]
  BY <1>1
<1>3. ASSUME NEW i \in 0 .. Len(r), NEW j \in 1 .. Len(r) + 1, Between(r, i, j)
      PROVE  Between(q, n + i, n + j)
  <2> SUFFICES ASSUME NEW k \in DOMAIN q, n + i < k, k < n + j PROVE ~Block(q[k])
      BY DEF Between
  <2>1. k - n \in DOMAIN r /\ i < k - n /\ k - n < j /\ k = n + (k - n)
    BY <1>1
  <2> QED  BY <1>2, <1>3, <2>1 DEF Between
<1>4. ASSUME Chain(q) PROVE Chain(r)
  <2> SUFFICES ASSUME NEW i \in DOMAIN r, NEW j \in DOMAIN r, i < j, Block(r[i]), Block(r[j]), Between(r, i, j)
               PROVE  Follows(r[i], r[j])
      BY DEF Chain
  <2>1. Between(q, n + i, n + j)
    BY <1>1, <1>3
  <2>2. /\ n + i \in DOMAIN q /\ n + j \in DOMAIN q /\ n + i < n + j
        /\ q[n + i] = r[i] /\ q[n + j] = r[j]
    BY <1>1, <1>2
  <2> QED  BY <1>4, <2>1, <2>2, ChainAt
<1>5. ASSUME Len(q) = n + Len(r), Ends(q) PROVE Ends(r)
  <2> SUFFICES ASSUME NEW i \in DOMAIN r, Block(r[i]), Between(r, i, Len(r) + 1) PROVE r[i].t = "hash"
      BY DEF Ends
  <2>1. Between(q, n + i, n + (Len(r) + 1)) /\ n + (Len(r) + 1) = Len(q) + 1
    BY <1>1, <1>3, <1>5
  <2> QED  BY <1>2, <1>5, <2>1 DEF Ends
<1>6. ASSUME NEW x, Starts(x, q), n = 0 PROVE Starts(x, r)
  <2> SUFFICES ASSUME NEW j \in DOMAIN r, Block(r[j]), Between(r, 0, j) PROVE Follows(x, r[j])
      BY DEF Starts
  <2>1. Between(q, n + 0, n + j) /\ n + 0 = 0 /\ n + j = j
    BY <1>1, <1>3, <1>6
  <2> QED  BY <1>2, <1>6, <2>1 DEF Starts
<1>7. ASSUME NoBlock(q) PROVE NoBlock(r)
  BY <1>2, <1>7 DEF NoBlock
<1> QED  BY <1>4, <1>5, <1>6, <1>7

LEMMA ChainTail ==
    ASSUME NEW q \in Seq(Frames), q # <<>>
    PROVE  /\ Chain(q) => Chain(Tail(q))
           /\ Ends(q) => Ends(Tail(q))
           /\ Chain(q) /\ Block(Head(q)) => Starts(Head(q), Tail(q))
           /\ \A x : Starts(x, q) /\ ~Block(Head(q)) => Starts(x, Tail(q))
           /\ \A x : Starts(x, q) /\ Block(Head(q)) => Follows(x, Head(q))
           /\ Ends(q) /\ Block(Head(q)) /\ NoBlock(Tail(q)) => Head(q).t = "hash"
           /\ ~Block(Head(q)) /\ NoBlock(Tail(q)) => NoBlock(q)
<1> DEFINE r == Tail(q)
<1>1. /\ Len(q) \in Nat /\ Len(q) > 0 /\ Len(r) = Len(q) - 1 /\ DOMAIN q = 1 .. Len(q)
      /\ DOMAIN r = 1 .. Len(q) - 1 /\ Head(q) = q[1] /\ r \in Seq(Frames)
      /\ \A i \in DOMAIN r : i + 1 \in DOMAIN q /\ r[i] = q[i + 1]
  BY TailAt
<1>t. r = Tail(q)
  OBVIOUS
<1> HIDE DEF r
<1>2. \A i \in DOMAIN r : r[i] = q[1 + i]
  BY <1>1
<1>3. (Chain(q) => Chain(r)) /\ (Ends(q) => Ends(r))
  <2>1. Len(q) >= 1 + Len(r) /\ Len(q) = 1 + Len(r)
    BY <1>1
  <2> QED  BY <1>1, <1>2, <2>1, ChainFrom
<1>4. \A k \in DOMAIN q : 1 < k => k - 1 \in DOMAIN r /\ q[k] = r[k - 1]
  BY <1>1
<1>5. ASSUME NEW j \in DOMAIN r, Between(r, 0, j) PROVE j + 1 \in DOMAIN q /\ 1 < j + 1 /\ q[j + 1] = r[j] /\ Between(q, 1, j + 1)
  <2>1. j + 1 \in DOMAIN q /\ 1 < j + 1 /\ q[j + 1] = r[j]
    BY <1>1
  <2>2. ASSUME NEW k \in DOMAIN q, 1 < k, k < j + 1 PROVE ~Block(q[k])
    <3>1. k - 1 \in DOMAIN r /\ 0 < k - 1 /\ k - 1 < j /\ q[k] = r[k - 1]
      BY <1>1, <1>4, <2>2
    <3> QED  BY <1>5, <3>1 DEF Between
  <2> QED  BY <2>1, <2>2 DEF Between
<1>6. ASSUME Chain(q), Block(q[1]) PROVE Starts(q[1], r)
  <2> SUFFICES ASSUME NEW j \in DOMAIN r, Block(r[j]), Between(r, 0, j) PROVE Follows(q[1], r[j])
      BY DEF Starts
  <2>1. 1 \in DOMAIN q
    BY <1>1
  <2> QED  BY <1>5, <1>6, <2>1, ChainAt
<1>7. ASSUME NEW x, Starts(x, q), ~Block(q[1]) PROVE Starts(x, r)
  <2> SUFFICES ASSUME NEW j \in DOMAIN r, Block(r[j]), Between(r, 0, j) PROVE Follows(x, r[j])
      BY DEF Starts
  <2>1. j + 1 \in DOMAIN q /\ q[j + 1] = r[j] /\ Between(q, 1, j + 1)
    BY <1>5
  <2>2. Between(q, 0, j + 1)
    <3> SUFFICES ASSUME NEW k \in DOMAIN q, 0 < k, k < j + 1 PROVE ~Block(q[k])
        BY DEF Between
    <3>1. k = 1 \/ 1 < k
      BY <1>1
    <3> QED  BY <1>7, <2>1, <3>1 DEF Between
  <2> QED  BY <1>7, <2>1, <2>2 DEF Starts
<1>8. ASSUME NEW x, Starts(x, q), Block(q[1]) PROVE Follows(x, q[1])
  <2>1. 1 \in DOMAIN q /\ Between(q, 0, 1)
    BY <1>1 DEF Between
  <2> QED  BY <1>8, <2>1 DEF Starts
<1>9. ASSUME Ends(q), Block(q[1]), NoBlock(r) PROVE q[1].t = "hash"
  <2>1. 1 \in DOMAIN q /\ Between(q, 1, Len(q) + 1)
    BY <1>1, <1>4, <1>9 DEF NoBlock, Between
  <2> QED  BY <1>9, <2>1 DEF Ends
<1>10. ASSUME ~Block(q[1]), NoBlock(r) PROVE NoBlock(q)
  <2> SUFFICES ASSUME NEW k \in DOMAIN q PROVE ~Block(q[k])
      BY DEF NoBlock
  <2>1. k = 1 \/ 1 < k
    BY <1>1
  <2>2. CASE 1 < k
    <3>1. k - 1 \in DOMAIN r /\ q[k] = r[k - 1]
      BY <1>4, <2>2
    <3> QED  BY <1>10, <3>1 DEF NoBlock
  <2> QED  BY <1>10, <2>1, <2>2
<1>11. /\ Chain(q) => Chain(r)
       /\ Ends(q) => Ends(r)
       /\ Chain(q) /\ Block(q[1]) => Starts(q[1], r)
       /\ Ends(q) /\ Block(q[1]) /\ NoBlock(r) => q[1].t = "hash"
       /\ ~Block(q[1]) /\ NoBlock(r) => NoBlock(q)
  BY <1>3, <1>6, <1>9, <1>10
<1>12. /\ \A x : Starts(x, q) /\ ~Block(q[1]) => Starts(x, r)
       /\ \A x : Starts(x, q) /\ Block(q[1]) => Follows(x, q[1])
  BY <1>7, <1>8
<1>13. Head(q) = q[1]
  BY <1>1
<1> QED  BY <1>11, <1>12, <1>13, <1>t

LEMMA ChainParts ==
    ASSUME NEW a \in Seq(Frames), NEW b \in Seq(Frames)
    PROVE  /\ Chain(a \o b) => Chain(a) /\ Chain(b)
           /\ Ends(a \o b) => Ends(b)
           /\ \A x : Starts(x, a \o b) => Starts(x, a)
<1>1. /\ a \o b \in Seq(Frames) /\ Len(a) \in Nat /\ Len(b) \in Nat
      /\ Len(a \o b) = Len(a) + Len(b)
      /\ \A i \in DOMAIN b : b[i] = (a \o b)[Len(a) + i]
      /\ \A i \in DOMAIN a : a[i] = (a \o b)[i]
  BY Cat
<1>2. \A i \in DOMAIN a : a[i] = (a \o b)[0 + i]
  OBVIOUS
<1> DEFINE q == a \o b
<1>3. (Chain(q) => Chain(b)) /\ (Ends(q) => Ends(b))
  <2>1. q \in Seq(Frames) /\ Len(q) >= Len(a) + Len(b) /\ Len(q) = Len(a) + Len(b) /\ Len(a) \in Nat
        /\ \A i \in DOMAIN b : b[i] = q[Len(a) + i]
    BY <1>1
  <2> HIDE DEF q
  <2> QED  BY <2>1, ChainFrom
<1>4. (Chain(q) => Chain(a)) /\ \A x : Starts(x, q) => Starts(x, a)
  <2>1. q \in Seq(Frames) /\ Len(q) >= 0 + Len(a) /\ 0 \in Nat
        /\ \A i \in DOMAIN a : a[i] = q[0 + i]
    BY <1>1, <1>2
  <2> HIDE DEF q
  <2> QED  BY <2>1, ChainFrom
<1> QED  BY <1>3, <1>4

\* A frame that is no part of a block changes no chain it is put into.
LEMMA ChainInsert ==
    ASSUME NEW a \in Seq(Frames), NEW b \in Seq(Frames), NEW c \in Frames, ~Block(c)
    PROVE  /\ (a \o <<c>>) \o b \in Seq(Frames)
           /\ Chain(a \o b) => Chain((a \o <<c>>) \o b)
           /\ Ends(a \o b) => Ends((a \o <<c>>) \o b)
           /\ \A x : Starts(x, a \o b) => Starts(x, (a \o <<c>>) \o b)
           /\ NoBlock((a \o <<c>>) \o b) => NoBlock(a \o b)
<1> DEFINE q == a \o b
           p == (a \o <<c>>) \o b
           n == Len(a)
           G(k) == IF k <= n THEN k ELSE k + 1
           H(k) == IF k <= n THEN k ELSE k - 1
<1>0. <<c>> \in Seq(Frames) /\ Len(<<c>>) = 1 /\ <<c>>[1] = c /\ DOMAIN <<c>> = 1 .. 1
  OBVIOUS
<1>1. /\ q \in Seq(Frames) /\ n \in Nat /\ Len(b) \in Nat /\ Len(q) = n + Len(b)
      /\ \A i \in 1 .. n : q[i] = a[i]
      /\ \A i \in 1 .. Len(b) : q[n + i] = b[i]
  BY Cat
<1>2. /\ a \o <<c>> \in Seq(Frames) /\ Len(a \o <<c>>) = n + 1
      /\ \A i \in 1 .. n : (a \o <<c>>)[i] = a[i]
      /\ (a \o <<c>>)[n + 1] = c
  BY <1>0
<1>3. /\ p \in Seq(Frames) /\ Len(p) = n + 1 + Len(b)
      /\ \A i \in 1 .. n + 1 : p[i] = (a \o <<c>>)[i]
      /\ \A i \in 1 .. Len(b) : p[n + 1 + i] = b[i]
  BY <1>1, <1>2, Cat
<1>4. DOMAIN q = 1 .. Len(q) /\ DOMAIN p = 1 .. Len(q) + 1 /\ Len(q) \in Nat /\ Len(p) = Len(q) + 1 /\ n <= Len(q)
  BY <1>1, <1>3
<1>5. \A k \in 1 .. n : p[k] = q[k]
  BY <1>1, <1>2, <1>3
<1>6. p[n + 1] = c
  BY <1>1, <1>2, <1>3
<1>7. ASSUME NEW k \in n + 1 .. Len(q) PROVE p[k + 1] = q[k]
  <2>1. k - n \in 1 .. Len(b) /\ n + 1 + (k - n) = k + 1 /\ n + (k - n) = k
    BY <1>1
  <2> QED  BY <1>1, <1>3, <2>1
<1>p. p \in Seq(Frames)
  BY <1>3
<1>n. n \in Nat
  BY <1>1
<1>d. p = (a \o <<c>>) \o b /\ q = a \o b
  OBVIOUS
<1> HIDE DEF p, q, n
<1>8. ASSUME NEW k \in DOMAIN p, Block(p[k])
      PROVE  H(k) \in DOMAIN q /\ p[k] = q[H(k)] /\ k # n + 1
  <2>1. k # n + 1
    BY <1>6, <1>8
  <2>2. CASE k <= n
    BY <1>4, <1>5, <1>n, <2>2
  <2>3. CASE k > n + 1
    <3>1. k - 1 \in n + 1 .. Len(q) /\ (k - 1) + 1 = k
      BY <1>4, <1>n, <2>3
    <3> QED  BY <1>4, <1>7, <1>n, <2>1, <2>3, <3>1
  <2> QED  BY <1>4, <1>n, <2>1, <2>2, <2>3
<1>9. ASSUME NEW k \in DOMAIN q PROVE G(k) \in DOMAIN p /\ p[G(k)] = q[k]
  <2>1. CASE k <= n
    BY <1>4, <1>5, <1>n, <2>1
  <2>2. CASE k > n
    <3>1. k \in n + 1 .. Len(q)
      BY <1>4, <1>n, <2>2
    <3> QED  BY <1>4, <1>7, <1>n, <2>2, <3>1
  <2> QED  BY <1>4, <1>n, <2>1, <2>2
<1>10. ASSUME NEW i \in 0 .. Len(p), NEW j \in 1 .. Len(p) + 1, i # n + 1, j # n + 1, Between(p, i, j)
       PROVE  Between(q, H(i), H(j))
  <2> SUFFICES ASSUME NEW k \in DOMAIN q, H(i) < k, k < H(j) PROVE ~Block(q[k])
      BY DEF Between
  <2>1. i < G(k) /\ G(k) < j
    BY <1>4, <1>n, <1>10
  <2> QED  BY <1>9, <1>10, <2>1 DEF Between
<1> HIDE DEF G
<1>11. ASSUME Chain(q) PROVE Chain(p)
  <2> SUFFICES ASSUME NEW i \in DOMAIN p, NEW j \in DOMAIN p, i < j, Block(p[i]), Block(p[j]), Between(p, i, j)
               PROVE  Follows(p[i], p[j])
      BY DEF Chain
  <2>1. H(i) \in DOMAIN q /\ H(j) \in DOMAIN q /\ p[i] = q[H(i)] /\ p[j] = q[H(j)] /\ i # n + 1 /\ j # n + 1
    BY <1>8
  <2>2. H(i) < H(j)
    BY <1>4, <1>n, <2>1
  <2>3. Between(q, H(i), H(j))
    BY <1>4, <1>10, <2>1
  <2> HIDE DEF H
  <2> QED  BY <1>11, <2>1, <2>2, <2>3, ChainAt
<1>12. ASSUME Ends(q) PROVE Ends(p)
  <2> SUFFICES ASSUME NEW i \in DOMAIN p, Block(p[i]), Between(p, i, Len(p) + 1) PROVE p[i].t = "hash"
      BY DEF Ends
  <2>1. H(i) \in DOMAIN q /\ p[i] = q[H(i)] /\ i # n + 1
    BY <1>8
  <2>2. H(Len(p) + 1) = Len(q) + 1 /\ Len(p) + 1 # n + 1
    BY <1>4, <1>n
  <2>3. Between(q, H(i), H(Len(p) + 1))
    BY <1>4, <1>10, <2>1, <2>2
  <2> HIDE DEF H
  <2> QED  BY <1>12, <2>1, <2>2, <2>3 DEF Ends
<1>13. ASSUME NEW x, Starts(x, q) PROVE Starts(x, p)
  <2> SUFFICES ASSUME NEW j \in DOMAIN p, Block(p[j]), Between(p, 0, j) PROVE Follows(x, p[j])
      BY DEF Starts
  <2>1. H(j) \in DOMAIN q /\ p[j] = q[H(j)] /\ j # n + 1
    BY <1>8
  <2>2. H(0) = 0 /\ 0 # n + 1
    BY <1>4, <1>n
  <2>3. Between(q, H(0), H(j))
    BY <1>4, <1>10, <2>1, <2>2
  <2> HIDE DEF H
  <2> QED  BY <1>13, <2>1, <2>2, <2>3 DEF Starts
<1>14. ASSUME NoBlock(p) PROVE NoBlock(q)
  BY <1>9, <1>14 DEF NoBlock
<1> QED  BY <1>11, <1>12, <1>13, <1>14, <1>d, <1>p

\* sendBlock: its fragments and hash, by themselves.
LEMMA BlockChain ==
    ASSUME NEW f \in Nat, NEW b \in Nat
    PROVE  LET w == BlockFrames(f, b)
           IN  /\ w \in Seq(Frames) /\ Len(w) = Frags + 1 /\ Frags \in Nat /\ Frags > 0
               /\ \A i \in DOMAIN w : Block(w[i])
               /\ w[1].t = "data" /\ w[1].off = 0 /\ w[Frags + 1].t = "hash"
               /\ \A i \in 1 .. Frags : Follows(w[i], w[i + 1])
<1> DEFINE w == BlockFrames(f, b)
           d == [i \in 1 .. Frags |-> Frame("data", f, b, i - 1)]
<1>1. Frags \in Nat /\ Frags > 0
  BY TransferAssumption
<1>2. \A i \in 1 .. Frags : Frame("data", f, b, i - 1) \in Frames
  BY FrameTypes, <1>1
<1>3. d \in Seq(Frames) /\ Len(d) = Frags /\ DOMAIN d = 1 .. Frags
  BY <1>1, <1>2
<1>4. Frame("hash", f, b, 0) \in Frames
  BY FrameTypes
<1>5. <<Frame("hash", f, b, 0)>> \in Seq(Frames) /\ Len(<<Frame("hash", f, b, 0)>>) = 1
  BY <1>4
<1>6. /\ w \in Seq(Frames) /\ Len(w) = Frags + 1 /\ DOMAIN w = 1 .. Frags + 1
      /\ \A i \in 1 .. Frags : w[i] = d[i]
      /\ w[Frags + 1] = Frame("hash", f, b, 0)
  BY <1>1, <1>3, <1>5 DEF BlockFrames
<1>7. \A i \in 1 .. Frags : w[i] = Frame("data", f, b, i - 1)
  BY <1>6
<1> HIDE DEF w, d
<1>8. \A i \in DOMAIN w : Block(w[i])
  <2> SUFFICES ASSUME NEW i \in DOMAIN w PROVE Block(w[i])
      OBVIOUS
  <2>1. i = Frags + 1 \/ i \in 1 .. Frags
    BY <1>1, <1>6
  <2>2. w[i] = Frame("hash", f, b, 0) \/ w[i] = Frame("data", f, b, i - 1)
    BY <1>6, <1>7, <2>1
  <2>3. w[i].t \in {"data", "hash"}
    BY <2>2 DEF Frame
  <2> QED  BY <2>3 DEF Block
<1>9. w[1].t = "data" /\ w[1].off = 0 /\ w[Frags + 1].t = "hash"
  <2>1. 1 \in 1 .. Frags /\ 1 - 1 = 0
    BY <1>1
  <2>2. w[1] = Frame("data", f, b, 0)
    BY <1>7, <2>1
  <2> QED  BY <1>6, <2>2 DEF Frame
<1>10. ASSUME NEW i \in 1 .. Frags PROVE Follows(w[i], w[i + 1])
  <2>1. w[i] = Frame("data", f, b, i - 1)
    BY <1>7
  <2>2. w[i].t = "data" /\ w[i].f = f /\ w[i].b = b /\ w[i].off = i - 1 /\ w[i].off + 1 = i
    BY <2>1, <1>1 DEF Frame
  <2>3. CASE i = Frags
    BY <1>6, <2>2, <2>3 DEF Follows
  <2>4. CASE i < Frags
    <3>1. i + 1 \in 1 .. Frags /\ (i + 1) - 1 = i
      BY <1>1, <2>4
    <3> QED  BY <1>7, <2>2, <2>4, <3>1 DEF Follows
  <2> QED  BY <1>1, <2>3, <2>4
<1> QED  BY <1>1, <1>6, <1>8, <1>9, <1>10 DEF w

\* The frames of one more block after lines that end with a hash.
LEMMA ChainExtend ==
    ASSUME NEW a \in Seq(Frames), NEW f \in Nat, NEW b \in Nat, Ends(a)
    PROVE  /\ Chain(a) => Chain(a \o BlockFrames(f, b))
           /\ Ends(a \o BlockFrames(f, b))
           /\ \A x : Starts(x, a) /\ (NoBlock(a) => x.t # "data") => Starts(x, a \o BlockFrames(f, b))
           /\ ~NoBlock(a \o BlockFrames(f, b))
<1> DEFINE w == BlockFrames(f, b)
           q == a \o w
           n == Len(a)
<1>1. /\ w \in Seq(Frames) /\ Len(w) = Frags + 1 /\ Frags \in Nat /\ Frags > 0
      /\ \A i \in DOMAIN w : Block(w[i])
      /\ w[1].t = "data" /\ w[1].off = 0 /\ w[Frags + 1].t = "hash"
      /\ \A i \in 1 .. Frags : Follows(w[i], w[i + 1])
  BY BlockChain
<1> HIDE DEF w
<1>2. /\ q \in Seq(Frames) /\ n \in Nat /\ DOMAIN a = 1 .. n /\ DOMAIN w = 1 .. Frags + 1
      /\ Len(q) = n + Frags + 1 /\ DOMAIN q = 1 .. n + Frags + 1
      /\ \A i \in DOMAIN a : q[i] = a[i]
      /\ \A i \in DOMAIN w : q[n + i] = w[i]
  <2>0. w \in Seq(Frames)
    BY <1>1
  <2>1. /\ q \in Seq(Frames) /\ Len(a) \in Nat /\ Len(q) = Len(a) + Len(w)
        /\ \A i \in DOMAIN a : q[i] = a[i]
        /\ \A i \in DOMAIN w : q[Len(a) + i] = w[i]
    BY <2>0
  <2>2. DOMAIN a = 1 .. n /\ DOMAIN w = 1 .. Frags + 1
    BY <1>1
  <2> HIDE DEF q
  <2>3. Len(q) = n + Frags + 1 /\ DOMAIN q = 1 .. n + Frags + 1
    BY <1>1, <2>1
  <2> QED  BY <2>1, <2>2, <2>3
<1> HIDE DEF q, n
<1>3. /\ n + 1 \in DOMAIN q /\ Block(q[n + 1]) /\ q[n + 1].t = "data" /\ q[n + 1].off = 0
      /\ q[n + Frags + 1].t = "hash"
  <2>1. 1 \in DOMAIN w /\ Frags + 1 \in DOMAIN w /\ n + (Frags + 1) = n + Frags + 1
    BY <1>1, <1>2
  <2>2. q[n + 1] = w[1] /\ q[n + (Frags + 1)] = w[Frags + 1]
    BY <1>2, <2>1
  <2> QED  BY <1>1, <1>2, <2>1, <2>2
<1>4. ASSUME NEW k \in n + 1 .. n + Frags PROVE Follows(q[k], q[k + 1]) /\ Block(q[k + 1])
  <2>1. k - n \in 1 .. Frags /\ k - n \in DOMAIN w /\ k - n + 1 \in DOMAIN w /\ n + (k - n) = k /\ n + (k - n + 1) = k + 1
    BY <1>1, <1>2
  <2> QED  BY <1>1, <1>2, <2>1
<1>5. ASSUME NEW i \in 0 .. n, Between(q, i, n + 1) PROVE Between(a, i, n + 1)
  <2> SUFFICES ASSUME NEW k \in DOMAIN a, i < k, k < n + 1 PROVE ~Block(a[k])
      BY DEF Between
  <2>1. k \in DOMAIN q /\ q[k] = a[k]
    BY <1>1, <1>2
  <2> QED  BY <1>5, <2>1 DEF Between
<1>6. ASSUME NEW i \in 0 .. n, NEW j \in DOMAIN q, i < j, Between(q, i, j) PROVE j <= n + 1
  <2>1. i < n + 1 /\ j \in Nat
    BY <1>1, <1>2
  <2>2. ~(n + 1 < j)
    BY <1>3, <1>6, <2>1 DEF Between
  <2> QED  BY <1>2, <2>1, <2>2
<1>7. \A y : y.t # "data" => Follows(y, q[n + 1])
  BY <1>3 DEF Follows
<1>8. ASSUME Chain(a) PROVE Chain(q)
  <2> SUFFICES ASSUME NEW i \in DOMAIN q, NEW j \in DOMAIN q, i < j, Block(q[i]), Block(q[j]), Between(q, i, j)
               PROVE  Follows(q[i], q[j])
      BY DEF Chain
  <2>1. CASE i > n
    <3>1. i \in n + 1 .. n + Frags
      BY <1>1, <1>2, <2>1
    <3>2. i + 1 \in DOMAIN q /\ Block(q[i + 1])
      BY <1>1, <1>2, <1>4, <3>1
    <3>3. j = i + 1
      <4>1. i < i + 1 /\ j \in Nat /\ i \in Nat
        BY <1>1, <1>2
      <4>2. ~(i + 1 < j)
        BY <3>2, <4>1 DEF Between
      <4> QED  BY <4>1, <4>2
    <3> QED  BY <1>4, <3>1, <3>3
  <2>2. CASE i <= n /\ j <= n
    <3>1. i \in DOMAIN a /\ j \in DOMAIN a /\ q[i] = a[i] /\ q[j] = a[j]
      BY <1>2, <2>2
    <3>2. Between(a, i, j)
      <4> SUFFICES ASSUME NEW k \in DOMAIN a, i < k, k < j PROVE ~Block(a[k])
          BY DEF Between
      <4>1. k \in DOMAIN q /\ q[k] = a[k]
        BY <1>1, <1>2
      <4> QED  BY <4>1 DEF Between
    <3> QED  BY <1>8, <3>1, <3>2, ChainAt
  <2>3. CASE i <= n /\ j > n
    <3>1. i \in 0 .. n /\ i \in DOMAIN a /\ q[i] = a[i]
      BY <1>2, <2>3
    <3>2. j = n + 1
      BY <1>2, <1>6, <2>3, <3>1
    <3>3. Between(a, i, n + 1)
      BY <1>5, <3>1, <3>2
    <3>4. q[i].t = "hash"
      BY <3>1, <3>3 DEF Ends, n
    <3> QED  BY <1>7, <3>2, <3>4
  <2> QED  BY <1>2, <2>1, <2>2, <2>3
<1>9. Ends(q)
  <2> SUFFICES ASSUME NEW i \in DOMAIN q, Block(q[i]), Between(q, i, Len(q) + 1) PROVE q[i].t = "hash"
      BY DEF Ends
  <2>0. n + Frags + 1 \in DOMAIN q /\ Block(q[n + Frags + 1])
    BY <1>1, <1>2, <1>3 DEF Block
  <2>1. i = n + Frags + 1
    BY <1>1, <1>2, <2>0 DEF Between
  <2> QED  BY <1>3, <2>1
<1>10. ASSUME NEW x, Starts(x, a), NoBlock(a) => x.t # "data" PROVE Starts(x, q)
  <2> SUFFICES ASSUME NEW j \in DOMAIN q, Block(q[j]), Between(q, 0, j) PROVE Follows(x, q[j])
      BY DEF Starts
  <2>1. j <= n + 1 /\ 0 \in 0 .. n
    BY <1>2, <1>6
  <2>2. CASE j <= n
    <3>1. j \in DOMAIN a /\ q[j] = a[j]
      BY <1>2, <2>2
    <3>2. Between(a, 0, j)
      <4> SUFFICES ASSUME NEW k \in DOMAIN a, 0 < k, k < j PROVE ~Block(a[k])
          BY DEF Between
      <4>1. k \in DOMAIN q /\ q[k] = a[k]
        BY <1>1, <1>2
      <4> QED  BY <4>1 DEF Between
    <3> QED  BY <1>10, <3>1, <3>2 DEF Starts
  <2>3. CASE j = n + 1
    <3>1. Between(a, 0, n + 1)
      BY <1>5, <2>1, <2>3
    <3>2. NoBlock(a)
      BY <1>2, <3>1 DEF NoBlock, Between
    <3> QED  BY <1>7, <1>10, <2>3, <3>2
  <2> QED  BY <1>2, <2>1, <2>2, <2>3
<1>11. ~NoBlock(q)
  BY <1>3 DEF NoBlock
<1> QED  BY <1>8, <1>9, <1>10, <1>11 DEF q, w

-----------------------------------------------------------------------------
(***************************************************************************)
(* Lines.                                                                  *)
(***************************************************************************)

\* Line r serves the receiver as well as line q.
Serves(r, q) ==
    /\ Chain(q) => Chain(r)
    /\ Ends(q) => Ends(r)
    /\ \A x : Starts(x, q) => Starts(x, r)
    /\ NoBlock(r) => NoBlock(q)

LEMMA ServesSame == \A q : Serves(q, q)
BY DEF Serves

LEMMA LineTypes ==
    ASSUME IInv
    PROVE  /\ \A p \in Paths : net[p]["r"] \in Seq(Frames) /\ net[p]["s"] \in Seq(Frames)
           /\ snd.sending \in Seq(Frames)
           /\ \A e \in Sides : link[e].out \in Paths /\ link[e].in \in Paths /\ link[e].seen \in Paths
           /\ "s" \in Sides /\ "r" \in Sides
BY DEF IInv, TypeInv, SndType, LinkType, Sides

LEMMA NoMore == ASSUME NEW q \in Seq(Frames) PROVE q \o <<>> = q /\ <<>> \o q = q /\ <<>> \in Seq(Frames)
OBVIOUS

LEMMA Lines ==
    ASSUME IInv, NEW p \in Paths
    PROVE  /\ link["s"].out = p => Line(p) = net[p]["r"] \o snd.sending
           /\ link["s"].out # p => Line(p) = net[p]["r"]
           /\ Line(p) \in Seq(Frames)
BY LineTypes, NoMore, Cat DEF Line

\* PathsOK under a step that leaves the paths as they are.
LEMMA PathsKept ==
    ASSUME IInv, PathsOK, \A e \in Sides : /\ link'[e].late = link[e].late /\ link'[e].in = link[e].in
                                           /\ link'[e].seen \in {link[e].seen, link[e].in},
           link'["s"].out = link["s"].out,
           link["s"].out = "direct" => net'["relay"]["r"] = net["relay"]["r"],
           link["r"].in = "relay" /\ net["direct"]["r"] = <<>> => net'["direct"]["r"] = <<>>
    PROVE  PathsOK'
BY LineTypes DEF PathsOK, Sides, Paths

LEMMA OrderKept ==
    ASSUME IInv, OrderOK, PathsOK', NoIntegrityFailure',
           link'["s"].out = link["s"].out, link'["r"].in = link["r"].in,
           rcv'.res = "none" => rcv.res = "none" /\ rcv'.buf = rcv.buf /\ rcv'.awaiting = rcv.awaiting,
           \A p \in Paths : Serves(Line(p)', Line(p))
    PROVE  OrderOK'
<1>1. \A e \in Sides : link[e].out \in Paths /\ link[e].in \in Paths
  BY LineTypes
<1>2. \A p \in Paths : Chain(Line(p)')
  BY DEF OrderOK, Serves
<1>3. Ends(Line(link["s"].out)')
  BY <1>1 DEF OrderOK, Serves, Sides
<1>4. ASSUME rcv'.res = "none" PROVE AssemblyOK'
  <2>1. AssemblyOK /\ rcv'.buf = rcv.buf /\ rcv'.awaiting = rcv.awaiting
    BY <1>4 DEF OrderOK
  <2>2. Serves(Line(link["r"].in)', Line(link["r"].in))
    BY <1>1 DEF Sides
  <2> QED  BY <2>1, <2>2 DEF AssemblyOK, Serves
<1> QED  BY <1>2, <1>3, <1>4 DEF OrderOK

\* A step that leaves the lines to the receiver alone.
LEMMA SameLines ==
    ASSUME IInv, OrderOK, NoIntegrityFailure', \A p \in Paths : net'[p]["r"] = net[p]["r"],
           snd'.sending = snd.sending,
           \A e \in Sides : /\ link'[e].late = link[e].late /\ link'[e].in = link[e].in
                            /\ link'[e].seen \in {link[e].seen, link[e].in},
           link'["s"].out = link["s"].out,
           rcv'.res = "none" => rcv.res = "none" /\ rcv'.buf = rcv.buf /\ rcv'.awaiting = rcv.awaiting
    PROVE  OrderOK'
<1>1. PathsOK'
  BY PathsKept DEF OrderOK, Paths
<1>2. \A p \in Paths : Line(p)' = Line(p)
  BY DEF Line
<1>3. \A p \in Paths : Serves(Line(p)', Line(p))
  BY <1>2, ServesSame
<1>4. link'["r"].in = link["r"].in
  BY DEF Sides
<1> QED  BY <1>1, <1>3, <1>4, OrderKept

\* Where a frame of the sender goes.
LEMMA PutLine ==
    ASSUME IInv, NEW q \in Seq(Frames), net' = Put("s", net, q), NEW p \in Paths
    PROVE  IF link["s"].out = p /\ ~(p = "direct" /\ link["r"].in = "relay")
           THEN net'[p]["r"] = net[p]["r"] \o q
           ELSE net'[p]["r"] = net[p]["r"]
<1>1. net \in [Paths -> [Sides -> Seq(Frames)]] /\ link["s"].out \in Paths
  BY LineTypes DEF IInv, TypeInv
<1> QED  BY <1>1 DEF Put, Peer, Paths, Sides

\* A frame that is no part of a block, put on a path by the sender.
LEMMA PlainPut ==
    ASSUME IInv, OrderOK, NoIntegrityFailure', NEW c \in Frames, ~Block(c), net' = Put("s", net, <<c>>),
           snd'.sending = snd.sending, link' = link, rcv' = rcv
    PROVE  OrderOK'
<1>1. <<c>> \in Seq(Frames)
  OBVIOUS
<1>2. \A p \in Paths : IF link["s"].out = p /\ ~(p = "direct" /\ link["r"].in = "relay")
                       THEN net'[p]["r"] = net[p]["r"] \o <<c>>
                       ELSE net'[p]["r"] = net[p]["r"]
  BY <1>1, PutLine
<1>3. PathsOK'
  <2>1. "relay" \in Paths /\ "direct" \in Paths
    BY DEF Paths
  <2>2. link["s"].out = "direct" => net'["relay"]["r"] = net["relay"]["r"]
    BY <1>2, <2>1
  <2>3. link["r"].in = "relay" => net'["direct"]["r"] = net["direct"]["r"]
    BY <1>2, <2>1
  <2> QED  BY <2>2, <2>3, PathsKept DEF OrderOK
<1>4. ASSUME NEW p \in Paths PROVE Serves(Line(p)', Line(p))
  <2>1. CASE net'[p]["r"] = net[p]["r"]
    <3>1. Line(p)' = Line(p)
      BY <2>1 DEF Line
    <3> QED  BY <3>1, ServesSame
  <2>2. CASE link["s"].out = p /\ net'[p]["r"] = net[p]["r"] \o <<c>>
    <3>1. Line(p) = net[p]["r"] \o snd.sending
      BY <2>2, Lines
    <3>2. Line(p)' = (net[p]["r"] \o <<c>>) \o snd.sending
      BY <2>2 DEF Line
    <3>3. net[p]["r"] \in Seq(Frames) /\ snd.sending \in Seq(Frames)
      BY LineTypes
    <3>4. Serves((net[p]["r"] \o <<c>>) \o snd.sending, net[p]["r"] \o snd.sending)
      BY <3>3, ChainInsert DEF Serves
    <3> QED  BY <3>1, <3>2, <3>4
  <2> QED  BY <1>2, <2>1, <2>2
<1> QED  BY <1>3, <1>4, OrderKept

LEMMA PlainBlock == \A t : t \notin {"data", "hash"} => ~Block(Msg(t))
BY DEF Block, Msg, Frame

-----------------------------------------------------------------------------
(***************************************************************************)
(* The order of the fragments: Sender.Run, the timers and the user.        *)
(***************************************************************************)
LEMMA SndRecord == IInv => snd \in SndType /\ rcv \in RcvType
BY DEF IInv, TypeInv

LEMMA CallsKeepOrder ==
    ASSUME IInv, OrderOK, SendManifest \/ SendComplete \/ RetransmitComplete \/ ResendManifest
    PROVE  OrderOK'
<1>1. PICK t \in {"manifest", "complete"} : net' = Put("s", net, <<Msg(t)>>)
  BY DEF SendManifest, SendComplete, RetransmitComplete, ResendManifest
<1>2. snd'.sending = snd.sending /\ snd'.res = snd.res /\ link' = link /\ rcv' = rcv
  BY SndRecord DEF SendManifest, SendComplete, RetransmitComplete, ResendManifest, SndType
<1>3. Msg(t) \in Frames /\ ~Block(Msg(t))
  BY PlainBlock DEF Msg, Frame, Frames
<1>4. NoIntegrityFailure'
  BY <1>2 DEF OrderOK, NoIntegrityFailure
<1> QED  BY <1>1, <1>2, <1>3, <1>4, PlainPut

LEMMA QuietKeepsOrder ==
    ASSUME IInv, OrderOK, NextFile \/ WaitInflight \/ AckTimeout \/ DoneTimeout \/ SourceError
    PROVE  OrderOK'
<1>1. snd'.sending = snd.sending /\ (snd'.res = "integrity" => snd.res = "integrity")
  BY SndRecord DEF NextFile, WaitInflight, AckTimeout, DoneTimeout, SourceError, SndType, QueueRetry
<1>2. link' = link /\ rcv' = rcv /\ net' = net
  BY DEF NextFile, WaitInflight, AckTimeout, DoneTimeout, SourceError
<1>3. NoIntegrityFailure'
  BY <1>1, <1>2 DEF OrderOK, NoIntegrityFailure
<1> QED  BY <1>1, <1>2, <1>3, SameLines

\* sendBlock begins.
LEMMA BlockKeepsOrder ==
    ASSUME IInv, OrderOK, snd.sending = <<>>, NEW f \in Nat, NEW b \in Nat,
           snd'.sending = BlockFrames(f, b), snd'.res = snd.res, net' = net, link' = link, rcv' = rcv
    PROVE  OrderOK'
<1> DEFINE p == link["s"].out
           a == net[p]["r"]
<1>1. p \in Paths /\ a \in Seq(Frames)
  BY LineTypes
<1>2. Line(p) = a /\ Line(p)' = a \o BlockFrames(f, b)
  BY <1>1, Lines, NoMore DEF Line
<1>3. \A g \in Paths : g # p => Line(g)' = Line(g)
  BY DEF Line
<1>4. Chain(a) /\ Ends(a)
  BY <1>1, <1>2 DEF OrderOK
<1>5. /\ Chain(a \o BlockFrames(f, b)) /\ Ends(a \o BlockFrames(f, b)) /\ ~NoBlock(a \o BlockFrames(f, b))
      /\ \A x : Starts(x, a) /\ (NoBlock(a) => x.t # "data") => Starts(x, a \o BlockFrames(f, b))
  BY <1>1, <1>4, ChainExtend
<1>6. PathsOK' /\ NoIntegrityFailure'
  BY DEF OrderOK, PathsOK, NoIntegrityFailure
<1>7. \A g \in Paths : Chain(Line(g)')
  BY <1>2, <1>3, <1>5 DEF OrderOK
<1>8. Ends(Line(link["s"].out)')
  BY <1>2, <1>5
<1>9. ASSUME rcv'.res = "none" PROVE AssemblyOK'
  <2>1. AssemblyOK
    BY <1>9 DEF OrderOK
  <2>2. CASE rcv.awaiting
    BY <2>1, <2>2 DEF AssemblyOK
  <2>3. CASE ~rcv.awaiting /\ link["r"].in # p
    <3>1. Line(link["r"].in)' = Line(link["r"].in)
      BY <1>3, <2>3, LineTypes
    <3> QED  BY <2>1, <2>3, <3>1 DEF AssemblyOK
  <2>4. CASE ~rcv.awaiting /\ link["r"].in = p
    <3>1. NoBlock(a) => rcv.buf.t # "data"
      BY <1>2, <2>1, <2>4, FrameTypes DEF AssemblyOK
    <3>2. Starts(rcv.buf, a)
      BY <1>2, <2>1, <2>4 DEF AssemblyOK
    <3>3. Starts(rcv.buf, Line(p)') /\ ~NoBlock(Line(p)')
      BY <1>2, <1>5, <3>1, <3>2
    <3> QED  BY <2>1, <2>4, <3>3 DEF AssemblyOK
  <2> QED  BY <2>2, <2>3, <2>4
<1> QED  BY <1>6, <1>7, <1>8, <1>9 DEF OrderOK

LEMMA NewBlockKeepsOrder == ASSUME IInv, OrderOK, NewBlock PROVE OrderOK'
<1>1. snd.sending = <<>> /\ net' = net /\ link' = link /\ rcv' = rcv
  BY DEF NewBlock, Ready
<1>2. snd'.sending = BlockFrames(snd.file, snd.nextNew) /\ snd'.res = snd.res
  BY SndRecord DEF NewBlock, SndType
<1>3. snd.file \in Nat /\ snd.nextNew \in Nat
  BY SndFields
<1> QED  BY <1>1, <1>2, <1>3, BlockKeepsOrder

LEMMA RetryKeepsOrder == ASSUME IInv, OrderOK, Retry PROVE OrderOK'
<1> DEFINE b == Head(snd.retryQueue)
           s == [snd EXCEPT !.retryQueue = Tail(@), !.retryQueued = @ \ {b}]
<1>1. snd.sending = <<>> /\ link' = link /\ rcv' = rcv
  BY DEF Retry, Ready
<1>2. s.sending = snd.sending /\ s.res = snd.res /\ s.inflight = snd.inflight
  BY SndRecord DEF SndType
<1>3. snd.file \in Nat /\ b \in Nat
  BY SndFields DEF Retry
<1>4. \/ snd' = s /\ net' = net
      \/ snd' = [s EXCEPT !.inflight[b] = @ + 1, !.sending = BlockFrames(snd.file, b)] /\ net' = net
      \/ snd' = [s EXCEPT !.res = "retry"] /\ net' = Put("s", net, <<Msg("fail")>>)
  BY DEF Retry
<1>5. CASE snd' = s /\ net' = net
  <2>1. NoIntegrityFailure'
    BY <1>1, <1>2, <1>5 DEF OrderOK, NoIntegrityFailure
  <2> QED  BY <1>1, <1>2, <1>5, <2>1, SameLines
<1>6. CASE snd' = [s EXCEPT !.inflight[b] = @ + 1, !.sending = BlockFrames(snd.file, b)] /\ net' = net
  <2>1. snd'.sending = BlockFrames(snd.file, b) /\ snd'.res = snd.res
    BY <1>6, SndRecord DEF SndType
  <2> HIDE DEF b, s
  <2> QED  BY <1>1, <1>3, <1>6, <2>1, BlockKeepsOrder
<1>7. CASE snd' = [s EXCEPT !.res = "retry"] /\ net' = Put("s", net, <<Msg("fail")>>)
  <2>1. snd'.sending = snd.sending /\ snd'.res = "retry"
    BY <1>7, SndRecord DEF SndType
  <2>2. NoIntegrityFailure'
    BY <1>1, <2>1 DEF OrderOK, NoIntegrityFailure
  <2>3. Msg("fail") \in Frames /\ ~Block(Msg("fail"))
    BY PlainBlock DEF Msg, Frame, Frames
  <2> QED  BY <1>1, <1>7, <2>1, <2>2, <2>3, PlainPut
<1> QED  BY <1>4, <1>5, <1>6, <1>7

LEMMA HeadMoves ==
    ASSUME NEW a \in Seq(Frames), NEW b \in Seq(Frames), b # <<>>
    PROVE  (a \o <<Head(b)>>) \o Tail(b) = a \o b
OBVIOUS

LEMMA SendFrameKeepsOrder == ASSUME IInv, OrderOK, SendFrame PROVE OrderOK'
<1> DEFINE h == Head(snd.sending)
           out == link["s"].out
<1>1. snd.sending # <<>> /\ link' = link /\ rcv' = rcv /\ net' = Put("s", net, <<h>>)
  BY DEF SendFrame
<1>2. snd'.sending = Tail(snd.sending) /\ snd'.res = snd.res
  BY SndRecord DEF SendFrame, SndType
<1>3. snd.sending \in Seq(Frames) /\ out \in Paths /\ net[out]["r"] \in Seq(Frames)
  BY LineTypes
<1>4. h \in Frames /\ <<h>> \in Seq(Frames)
  BY <1>1, <1>3
<1>5. NoIntegrityFailure'
  BY <1>1, <1>2 DEF OrderOK, NoIntegrityFailure
<1> HIDE DEF h
<1>6. \A p \in Paths : IF out = p /\ ~(p = "direct" /\ link["r"].in = "relay")
                       THEN net'[p]["r"] = net[p]["r"] \o <<h>>
                       ELSE net'[p]["r"] = net[p]["r"]
  BY <1>1, <1>4, PutLine
<1>7. PathsOK'
  <2>1. "relay" \in Paths /\ "direct" \in Paths
    BY DEF Paths
  <2>2. link["s"].out = "direct" => net'["relay"]["r"] = net["relay"]["r"]
    BY <1>6, <2>1
  <2>3. link["r"].in = "relay" => net'["direct"]["r"] = net["direct"]["r"]
    BY <1>6, <2>1
  <2> QED  BY <1>1, <2>2, <2>3, PathsKept DEF OrderOK
<1>8. \A p \in Paths : p # out => Line(p)' = Line(p)
  <2> SUFFICES ASSUME NEW p \in Paths, p # out PROVE Line(p)' = Line(p)
      OBVIOUS
  <2>1. net'[p]["r"] = net[p]["r"] /\ link'["s"].out # p
    BY <1>1, <1>6
  <2> QED  BY <2>1 DEF Line
<1>9. CASE ~(out = "direct" /\ link["r"].in = "relay")
  <2>1. Line(out) = net[out]["r"] \o snd.sending
    BY <1>3, Lines
  <2>2. net'[out]["r"] = net[out]["r"] \o <<h>>
    BY <1>3, <1>6, <1>9
  <2>3. \A p \in Paths : p = out => Line(p)' = (net[out]["r"] \o <<h>>) \o Tail(snd.sending)
    BY <1>1, <1>2, <2>2 DEF Line
  <2>4. (net[out]["r"] \o <<h>>) \o Tail(snd.sending) = net[out]["r"] \o snd.sending
    BY <1>1, <1>3, HeadMoves DEF h
  <2>5. \A p \in Paths : Line(p)' = Line(p)
    BY <1>8, <2>1, <2>3, <2>4
  <2>6. \A p \in Paths : Serves(Line(p)', Line(p))
    BY <2>5, ServesSame
  <2> QED  BY <1>1, <1>5, <1>7, <2>6, OrderKept
<1>10. CASE out = "direct" /\ link["r"].in = "relay"
  <2>1. net["direct"]["r"] = <<>> /\ net'["direct"]["r"] = <<>>
    BY <1>3, <1>6, <1>10 DEF OrderOK, PathsOK
  <2>2. Tail(snd.sending) \in Seq(Frames)
    BY <1>1, <1>3
  <2>3. Line("direct") = snd.sending
    BY <1>3, <1>10, <2>1, Lines, NoMore
  <2>4. Line("direct")' = Tail(snd.sending)
    BY <1>1, <1>2, <1>10, <2>1, <2>2, NoMore DEF Line
  <2>5. Chain(snd.sending) /\ Ends(snd.sending)
    BY <1>10, <2>3 DEF OrderOK, Paths
  <2>6. Chain(Tail(snd.sending)) /\ Ends(Tail(snd.sending))
    BY <1>1, <1>3, <2>5, ChainTail
  <2>7. Ends(Line(link["s"].out)')
    BY <1>1, <1>10, <2>4, <2>6
  <2>8. \A p \in Paths : Chain(Line(p)')
    <3> SUFFICES ASSUME NEW p \in Paths PROVE Chain(Line(p)')
        OBVIOUS
    <3>1. CASE p = "direct"
      BY <2>4, <2>6, <3>1
    <3>2. CASE p # "direct"
      BY <1>8, <1>10, <3>2 DEF OrderOK
    <3> QED  BY <3>1, <3>2
  <2>9. rcv'.res = "none" => AssemblyOK'
    BY <1>1, <1>10 DEF OrderOK, AssemblyOK
  <2> QED  BY <1>5, <1>7, <2>7, <2>8, <2>9 DEF OrderOK
<1> QED  BY <1>9, <1>10

LEMMA UserKeepsOrder == ASSUME IInv, OrderOK, Pause \/ Resume \/ Cancel PROVE OrderOK'
<1>1. link' = link
  BY DEF Pause, Resume, Cancel
<1>2. CASE /\ \E t \in {"pause", "unpause", "cancel"} : net' = Put("s", net, <<Msg(t)>>)
           /\ snd'.sending = snd.sending /\ (snd'.res = "integrity" => snd.res = "integrity") /\ rcv' = rcv
  <2>1. PICK t \in {"pause", "unpause", "cancel"} : net' = Put("s", net, <<Msg(t)>>)
    BY <1>2
  <2>2. Msg(t) \in Frames /\ ~Block(Msg(t))
    BY PlainBlock DEF Msg, Frame, Frames
  <2>3. NoIntegrityFailure'
    BY <1>2 DEF OrderOK, NoIntegrityFailure
  <2> QED  BY <1>1, <1>2, <2>1, <2>2, <2>3, PlainPut
<1>3. CASE /\ \E t \in {"pause", "unpause", "cancel"} : net' = Put("r", net, <<Msg(t)>>)
           /\ rcv'.buf = rcv.buf /\ rcv'.awaiting = rcv.awaiting /\ rcv.res = "none"
           /\ rcv'.res # "integrity" /\ snd' = snd
  <2>1. \A p \in Paths : net'[p]["r"] = net[p]["r"]
    <3>1. net \in [Paths -> [Sides -> Seq(Frames)]]
      BY DEF IInv, TypeInv
    <3> QED  BY <1>3, <3>1 DEF Put, Peer, Paths, Sides
  <2>2. NoIntegrityFailure'
    BY <1>3 DEF OrderOK, NoIntegrityFailure
  <2> QED  BY <1>1, <1>3, <2>1, <2>2, SameLines
<1> QED  BY <1>2, <1>3, SndRecord DEF Pause, Resume, Cancel, SndType, RcvType

-----------------------------------------------------------------------------
(***************************************************************************)
(* The order of the fragments: Sender.Handle.                              *)
(***************************************************************************)
LEMMA ArrivesInOrder ==
    ASSUME IInv, OrderOK, NEW e \in Sides, NEW m \in Arrivals(e)
    PROVE  LET q == net[link[e].in][e]
           IN  /\ q # <<>> /\ q \in Seq(Frames) /\ m.fr = Head(q) /\ m.via = link[e].in /\ m.late = NoFrame
               /\ m.net = [net EXCEPT ![link[e].in][e] = Tail(@)] /\ ~Replay(e, m)
               /\ link[e].late = NoFrame /\ link \in [Sides -> LinkType]
               /\ net \in [Paths -> [Sides -> Seq(Frames)]]
<1>1. link[e].late = NoFrame /\ (link[e].seen = "relay" => link[e].in = "relay")
  BY DEF OrderOK, PathsOK
<1>2. net[link[e].in][e] # <<>> /\ m.fr = Head(net[link[e].in][e]) /\ m.via = link[e].in
      /\ m.late = link[e].late /\ m.net = [net EXCEPT ![link[e].in][e] = Tail(@)]
  BY <1>1 DEF Arrivals
<1>3. ~Replay(e, m)
  BY <1>1, <1>2 DEF Replay
<1>4. link \in [Sides -> LinkType] /\ net \in [Paths -> [Sides -> Seq(Frames)]]
  BY DEF IInv, TypeInv
<1>5. net[link[e].in][e] \in Seq(Frames)
  BY <1>4, LineTypes
<1> QED  BY <1>1, <1>2, <1>3, <1>4, <1>5

\* What the sender takes from its path leaves the lines to the receiver alone.
LEMMA TakenByS ==
    ASSUME IInv, OrderOK, NEW m \in Arrivals("s"), net' = m.net, NoIntegrityFailure',
           snd'.sending = snd.sending, rcv' = rcv,
           link' = [link EXCEPT !["s"].late = m.late] \/ Opened("s", m)
    PROVE  OrderOK'
<1>1. /\ m.via = link["s"].in /\ m.late = NoFrame /\ link["s"].late = NoFrame
      /\ m.net = [net EXCEPT ![link["s"].in]["s"] = Tail(@)]
      /\ link \in [Sides -> LinkType] /\ net \in [Paths -> [Sides -> Seq(Frames)]]
  BY ArrivesInOrder DEF Sides
<1>2. \A p \in Paths : net'[p]["r"] = net[p]["r"]
  <2>1. link["s"].in \in Paths /\ "s" \in Sides /\ "r" \in Sides
    BY LineTypes
  <2> QED  BY <1>1, <2>1
<1>3. /\ \A e \in Sides : /\ link'[e].late = link[e].late /\ link'[e].in = link[e].in
                          /\ link'[e].seen \in {link[e].seen, link[e].in}
      /\ link'["s"].out = link["s"].out
  <2>1. CASE link' = [link EXCEPT !["s"].late = m.late]
    BY <1>1, <2>1 DEF Sides, LinkType
  <2>2. CASE link' = [link EXCEPT !["s"].late = m.late, !["s"].seen = m.via]
    BY <1>1, <2>2 DEF Sides, LinkType
  <2> QED  BY <2>1, <2>2 DEF Opened
<1> QED  BY <1>2, <1>3, SameLines

LEMMA SenderHearsInOrder ==
    ASSUME IInv, OrderOK, NEW m \in Arrivals("s"),
           \/ OnAck(m) \/ OnNack(m) \/ OnResumeState(m) \/ OnDone(m)
           \/ OnReceiverFail(m) \/ SetPausedByReceiver(m)
    PROVE  OrderOK'
<1>1. net' = m.net /\ rcv' = rcv /\ Opened("s", m) /\ snd.res = "none"
  BY DEF OnAck, OnNack, OnResumeState, OnDone, OnReceiverFail, SetPausedByReceiver, SReceives
<1>2. m.fr \in Answers /\ m.fr \in Frames /\ m.fr.f \in Nat /\ snd.file \in Nat
  <2>1. m.fr \in Answers /\ m.fr \in Frames
    BY ArriveS DEF IInv
  <2>2. m.fr.f \in Nat
    BY <2>1, FrameTypes
  <2> QED  BY <2>1, <2>2, SndFields
<1>3. snd'.sending = snd.sending /\ snd'.res # "integrity"
  <2>1. CASE OnAck(m)
    <3>1. m.fr.t = "ack"
      BY <2>1 DEF OnAck, SReceives
    <3>2. ~(m.fr.f > snd.file)
      BY <1>2, <3>1 DEF Answers
    <3>3. \/ snd' = snd
          \/ snd' = [snd EXCEPT !.inflight = Without(@, m.fr.b), !.retryQueued = @ \ {m.fr.b}, !.acked = @ + 1]
      BY <2>1, <3>2 DEF OnAck
    <3> QED  BY <1>1, <3>3, SndRecord DEF SndType
  <2>2. CASE OnNack(m)
    <3>1. m.fr.t = "nack"
      BY <2>2 DEF OnNack, SReceives
    <3>2. ~(m.fr.f > snd.file)
      BY <1>2, <3>1 DEF Answers
    <3>3. snd' = snd \/ snd' = QueueRetry(m.fr.b)
      BY <2>2, <3>2 DEF OnNack
    <3> QED  BY <1>1, <3>3, SndRecord DEF SndType, QueueRetry
  <2>3. CASE OnDone(m)
    <3>1. m.fr.t = "done"
      BY <2>3 DEF OnDone, SReceives
    <3>2. snd.phase = "done"
      BY <1>2, <3>1 DEF Answers, IInv, ReceiverOK
    <3>3. snd' = [snd EXCEPT !.res = "ok"]
      BY <2>3, <3>2 DEF OnDone
    <3> QED  BY <3>3, SndRecord DEF SndType
  <2>4. CASE OnResumeState(m) \/ OnReceiverFail(m) \/ SetPausedByReceiver(m)
    BY <1>1, <2>4, SndRecord DEF OnResumeState, OnReceiverFail, SetPausedByReceiver, SndType
  <2> QED  BY <2>1, <2>2, <2>3, <2>4
<1>4. NoIntegrityFailure'
  BY <1>1, <1>3 DEF OrderOK, NoIntegrityFailure
<1> QED  BY <1>1, <1>3, <1>4, TakenByS

-----------------------------------------------------------------------------
(***************************************************************************)
(* The order of the fragments: Receiver.Handle.                            *)
(***************************************************************************)
TakesByR(m) ==
    /\ snd' = snd
    /\ link' = [link EXCEPT !["r"].late = m.late] \/ Opened("r", m)
    /\ net' = m.net \/ \E frames : net' = Put("r", m.net, frames)

TailCat(a, b) == Tail(a) \o b = Tail(a \o b) /\ Head(a) = Head(a \o b) /\ a \o b # <<>>

LEMMA TailOfCat == \A a, b \in Seq(Frames) : a # <<>> => TailCat(a, b)
<1> SUFFICES ASSUME NEW a \in Seq(Frames), NEW b \in Seq(Frames), a # <<>> PROVE TailCat(a, b)
    OBVIOUS
<1> QED  BY DEF TailCat

LEMMA TakenByR ==
    ASSUME IInv, OrderOK, NEW m \in Arrivals("r"), TakesByR(m)
    PROVE  LET q == Line(link["r"].in)
           IN  /\ q \in Seq(Frames) /\ q # <<>> /\ Head(q) = m.fr
               /\ \A p \in Paths : p = link["r"].in => Line(p)' = Tail(q)
               /\ \A p \in Paths : p # link["r"].in => Line(p)' = Line(p)
               /\ link'["r"].in = link["r"].in /\ link'["s"].out = link["s"].out
               /\ link["r"].in \in Paths /\ link["s"].out \in Paths
               /\ link["r"].in = "relay" => link["s"].out = "relay"
               /\ \A p \in Paths : Chain(Line(p)')
               /\ Ends(Line(link["s"].out)')
               /\ PathsOK'
<1> DEFINE in == link["r"].in
           q == Line(in)
           w == net[in]["r"]
<1>1. /\ w # <<>> /\ w \in Seq(Frames) /\ m.fr = Head(w) /\ m.via = in /\ m.late = NoFrame
      /\ m.net = [net EXCEPT ![in]["r"] = Tail(@)]
      /\ link["r"].late = NoFrame /\ link \in [Sides -> LinkType]
      /\ net \in [Paths -> [Sides -> Seq(Frames)]]
  BY ArrivesInOrder DEF Sides
<1>2. /\ in \in Paths /\ link["s"].out \in Paths /\ "s" \in Sides /\ "r" \in Sides /\ snd.sending \in Seq(Frames)
      /\ "relay" \in Paths /\ "direct" \in Paths
  BY LineTypes DEF Paths
<1>3. m.net \in [Paths -> [Sides -> Seq(Frames)]]
  <2>1. Tail(w) \in Seq(Frames)
    BY <1>1
  <2> QED  BY <1>1, <1>2, <2>1
<1>4. \A p \in Paths : m.net[p]["r"] = IF p = in THEN Tail(w) ELSE net[p]["r"]
  BY <1>1, <1>2
<1>5. \A p \in Paths : net'[p]["r"] = m.net[p]["r"]
  <2>1. CASE net' = m.net
    BY <2>1
  <2>2. ASSUME NEW frames, net' = Put("r", m.net, frames) PROVE \A p \in Paths : net'[p]["r"] = m.net[p]["r"]
    BY <1>2, <1>3, <2>2 DEF Put, Peer, Sides, Paths
  <2> QED  BY <2>1, <2>2 DEF TakesByR
<1>6. /\ \A e \in Sides : /\ link'[e].late = link[e].late /\ link'[e].in = link[e].in
                          /\ link'[e].seen \in {link[e].seen, link[e].in}
      /\ link'["s"].out = link["s"].out
  <2>1. CASE link' = [link EXCEPT !["r"].late = m.late]
    BY <1>1, <2>1 DEF Sides, LinkType
  <2>2. CASE link' = [link EXCEPT !["r"].late = m.late, !["r"].seen = m.via]
    BY <1>1, <2>2 DEF Sides, LinkType
  <2> QED  BY <2>1, <2>2 DEF Opened, TakesByR
<1>7. in = "relay" => link["s"].out = "relay"
  BY <1>1, <1>2 DEF OrderOK, PathsOK, Paths
<1>8. snd'.sending = snd.sending
  BY DEF TakesByR
<1>9. \A p \in Paths : p # in => Line(p)' = Line(p)
  <2> SUFFICES ASSUME NEW p \in Paths, p # in PROVE Line(p)' = Line(p)
      OBVIOUS
  <2>1. net'[p]["r"] = net[p]["r"]
    BY <1>4, <1>5
  <2> QED  BY <1>6, <1>8, <2>1 DEF Line
<1>10. q \in Seq(Frames) /\ q # <<>> /\ Head(q) = m.fr /\ \A p \in Paths : p = in => Line(p)' = Tail(q)
  <2> DEFINE z == IF link["s"].out = in THEN snd.sending ELSE <<>>
  <2>1. z \in Seq(Frames)
    BY <1>2, NoMore
  <2>2. q = w \o z
    BY DEF Line
  <2>3. TailCat(w, z)
    BY <1>1, <2>1, TailOfCat
  <2>4. \A p \in Paths : p = in => Line(p)' = Tail(w) \o z
    <3>1. net'[in]["r"] = Tail(w)
      BY <1>2, <1>4, <1>5
    <3> QED  BY <1>6, <1>8, <3>1 DEF Line
  <2>5. q \in Seq(Frames)
    BY <1>2, Lines
  <2> HIDE DEF z, q, w
  <2> QED  BY <1>1, <2>2, <2>3, <2>4, <2>5 DEF TailCat
<1>11. \A p \in Paths : Chain(Line(p)) /\ (p = link["s"].out => Ends(Line(p)))
  BY DEF OrderOK
<1>12. (Chain(q) => Chain(Tail(q))) /\ (Ends(q) => Ends(Tail(q)))
  BY <1>10, ChainTail
<1>13. \A p \in Paths : Chain(Line(p)') /\ (p = link["s"].out => Ends(Line(p)'))
  <2> SUFFICES ASSUME NEW p \in Paths PROVE Chain(Line(p)') /\ (p = link["s"].out => Ends(Line(p)'))
      OBVIOUS
  <2>1. CASE p = in
    <3>1. Line(p)' = Tail(q) /\ Line(p) = q
      BY <1>10, <2>1
    <3> QED  BY <1>11, <1>12, <3>1
  <2>2. CASE p # in
    <3>1. Line(p)' = Line(p)
      BY <1>9, <2>2
    <3> QED  BY <1>11, <3>1
  <2> QED  BY <2>1, <2>2
<1>14. PathsOK'
  <2>1. link["s"].out = "direct" => net'["relay"]["r"] = net["relay"]["r"]
    BY <1>2, <1>4, <1>5, <1>7
  <2>2. in = "relay" /\ net["direct"]["r"] = <<>> => net'["direct"]["r"] = <<>>
    BY <1>2, <1>4, <1>5
  <2> QED  BY <1>6, <2>1, <2>2, PathsKept DEF OrderOK
<1>15. Ends(Line(link["s"].out)')
  BY <1>2, <1>6, <1>13
<1>16. link'["r"].in = in
  BY <1>2, <1>6
<1>17. \A p \in Paths : Chain(Line(p)')
  BY <1>13
<1> HIDE DEF q, in
<1>18. /\ q \in Seq(Frames) /\ q # <<>> /\ Head(q) = m.fr
       /\ \A p \in Paths : p = in => Line(p)' = Tail(q)
       /\ \A p \in Paths : p # in => Line(p)' = Line(p)
  BY <1>9, <1>10
<1>19. link'["s"].out = link["s"].out /\ in \in Paths /\ link["s"].out \in Paths
  BY <1>2, <1>6
<1> QED  BY <1>7, <1>14, <1>15, <1>16, <1>17, <1>18, <1>19 DEF q, in

\* A frame that is no part of a block, or any frame of a receive that ends here.
LEMMA PlainTaken ==
    ASSUME IInv, OrderOK, NEW m \in Arrivals("r"), TakesByR(m), rcv'.res # "integrity",
           rcv'.res = "none" => /\ rcv.res = "none" /\ ~Block(m.fr)
                                /\ rcv'.buf = rcv.buf /\ rcv'.awaiting = rcv.awaiting
    PROVE  OrderOK'
<1> DEFINE q == Line(link["r"].in)
<1>1. /\ q \in Seq(Frames) /\ q # <<>> /\ Head(q) = m.fr
      /\ \A p \in Paths : p = link["r"].in => Line(p)' = Tail(q)
      /\ \A p \in Paths : p # link["r"].in => Line(p)' = Line(p)
      /\ link'["r"].in = link["r"].in /\ link'["s"].out = link["s"].out
      /\ \A p \in Paths : Chain(Line(p)')
      /\ Ends(Line(link["s"].out)')
      /\ PathsOK'
  BY TakenByR
<1>2. NoIntegrityFailure'
  BY DEF OrderOK, NoIntegrityFailure, TakesByR
<1>3. CASE rcv'.res # "none"
  BY <1>1, <1>2, <1>3 DEF OrderOK
<1>4. CASE rcv'.res = "none"
  <2>1. Serves(Tail(q), q)
    BY <1>1, <1>4, ChainTail DEF Serves
  <2>2. ASSUME NEW p \in Paths PROVE Serves(Line(p)', Line(p))
    <3>1. CASE p = link["r"].in
      BY <1>1, <2>1, <3>1
    <3>2. CASE p # link["r"].in
      <4>1. Line(p)' = Line(p)
        BY <1>1, <3>2
      <4> QED  BY <4>1, ServesSame
    <3> QED  BY <3>1, <3>2
  <2> QED  BY <1>1, <1>2, <1>4, <2>2, OrderKept
<1> QED  BY <1>3, <1>4

\* The receiver waits for a first fragment after this frame.
LEMMA AwaitingTaken ==
    ASSUME IInv, OrderOK, NEW m \in Arrivals("r"), TakesByR(m), rcv'.res # "integrity",
           rcv'.buf = NoFrame, rcv'.awaiting
    PROVE  OrderOK'
<1>1. /\ \A p \in Paths : Chain(Line(p)')
      /\ Ends(Line(link["s"].out)') /\ link'["s"].out = link["s"].out
      /\ PathsOK'
  BY TakenByR
<1>2. NoIntegrityFailure'
  BY DEF OrderOK, NoIntegrityFailure, TakesByR
<1>3. AssemblyOK'
  BY DEF AssemblyOK
<1> QED  BY <1>1, <1>2, <1>3 DEF OrderOK

\* A frame of a block that the receiver assembles.
LEMMA BlockTaken ==
    ASSUME IInv, OrderOK, NEW m \in Arrivals("r"), TakesByR(m), rcv'.res # "integrity",
           Block(m.fr), ~rcv'.awaiting,
           \/ m.fr.t = "data" /\ rcv'.buf = m.fr
           \/ m.fr.t = "hash" /\ rcv'.buf = NoFrame
    PROVE  OrderOK'
<1> DEFINE in == link["r"].in
           q == Line(in)
<1>1. /\ q \in Seq(Frames) /\ q # <<>> /\ Head(q) = m.fr
      /\ \A p \in Paths : p = in => Line(p)' = Tail(q)
      /\ link'["r"].in = in /\ link'["s"].out = link["s"].out
      /\ in \in Paths
      /\ in = "relay" => link["s"].out = "relay"
      /\ \A p \in Paths : Chain(Line(p)')
      /\ Ends(Line(link["s"].out)')
      /\ PathsOK'
  BY TakenByR
<1>2. NoIntegrityFailure'
  BY DEF OrderOK, NoIntegrityFailure, TakesByR
<1>3. Chain(q) /\ (in = link["s"].out => Ends(q))
  BY <1>1 DEF OrderOK
<1>4. Starts(m.fr, Tail(q)) /\ (Ends(q) /\ NoBlock(Tail(q)) => m.fr.t = "hash")
  BY <1>1, <1>3, ChainTail
<1>5. Starts(rcv'.buf, Tail(q))
  <2>1. CASE m.fr.t = "data" /\ rcv'.buf = m.fr
    BY <1>4, <2>1
  <2>2. CASE m.fr.t = "hash" /\ rcv'.buf = NoFrame
    <3>1. \A y : Follows(m.fr, y) => Follows(NoFrame, y)
      BY <2>2, FrameTypes DEF Follows
    <3> QED  BY <1>4, <2>2, <3>1 DEF Starts
  <2> QED  BY <2>1, <2>2
<1>6. Line(link["r"].in)' = Tail(q)
  BY <1>1
<1>7. AssemblyOK'
  <2>1. in = link["s"].out /\ NoBlock(Tail(q)) => rcv'.buf = NoFrame
    BY <1>3, <1>4
  <2> HIDE DEF q
  <2> QED  BY <1>1, <1>5, <1>6, <2>1 DEF AssemblyOK
<1> QED  BY <1>1, <1>2, <1>7 DEF OrderOK

\* The receiver that has the manifest is never behind the file the sender is at.
LEMMA FileReached ==
    ASSUME IInv, rcv.manifest
    PROVE  snd.file <= rcv.file
<1>1. /\ rcv.file \in 1 .. NFiles + 1 /\ snd.file \in 0 .. NFiles /\ NFiles \in Nat /\ rcv.next \in Nat /\ seed \in Seeds
  BY SndFields, RcvFields
<1> SUFFICES ASSUME rcv.file < snd.file PROVE FALSE
    BY <1>1
<1>2. rcv.file \in 1 .. snd.file - 1 /\ rcv.file <= NFiles /\ rcv.file \in Files
  BY <1>1 DEF Files
<1>3. seed[rcv.file] <= rcv.next /\ rcv.next < Blocks[rcv.file]
  BY <1>2 DEF IInv, ReceiverOK
<1>4. seed[rcv.file] \in Nat /\ Blocks[rcv.file] \in Nat
  BY <1>1, <1>2, SeedType
<1>5. rcv.next \in 0 .. Blocks[rcv.file] - 1
  BY <1>1, <1>3, <1>4
<1>6. Held(rcv.file, rcv.next)
  BY <1>2, <1>5 DEF IInv, AckedIsWritten
<1> QED  BY <1>1, <1>3, <1>4, <1>6 DEF Held

\* Frames of blocks, and Complete, come after the manifest.
LEMMA ManifestFirst ==
    ASSUME IInv, NEW m \in Arrivals("r"), m.fr.t \in {"data", "hash", "complete"}
    PROVE  rcv.manifest /\ (m.fr.t \in {"data", "hash"} => m.fr.f <= rcv.file)
<1>1. m.fr \in Requests /\ m.fr \in Frames
  BY ArriveR DEF IInv
<1>2. m.fr.f \in Nat /\ snd.file \in Nat /\ rcv.file \in Nat
  <2>1. m.fr.f \in Nat
    BY <1>1, FrameTypes
  <2>2. snd.file \in Nat
    BY SndFields
  <2>3. rcv.file \in Nat
    BY RcvFields
  <2> QED  BY <2>1, <2>2, <2>3
<1>3. m.fr.t \in {"data", "hash"} => m.fr.f <= snd.file /\ snd.file > 0
  BY <1>1, <1>2 DEF Requests
<1>4. m.fr.t = "complete" => snd.phase = "done"
  BY <1>1 DEF Requests
<1>5. rcv.manifest
  BY <1>3, <1>4 DEF IInv, SenderOK
<1> QED  BY <1>2, <1>3, <1>5, FileReached

\* A handler of the receiver takes its frame and answers.
LEMMA TakesFrame ==
    ASSUME NEW m, NEW t, RReceives(m, t), \E r, frames : Reply(m, r, frames)
    PROVE  TakesByR(m)
BY DEF RReceives, Reply, TakesByR

LEMMA ManifestKeepsOrder == ASSUME IInv, OrderOK, NEW m \in Arrivals("r"), ApplyManifest(m) PROVE OrderOK'
<1>1. RReceives(m, "manifest") /\ rcv.res = "none" /\ m.fr.t = "manifest"
  BY DEF ApplyManifest, RReceives
<1>2. TakesByR(m)
  <2>1. \E r, frames : Reply(m, r, frames)
    BY DEF ApplyManifest, SinkError, AbortWith
  <2> QED  BY <1>1, <2>1, TakesFrame
<1>3. ~Block(m.fr)
  BY <1>1 DEF Block
<1>4. CASE rcv' = rcv
  BY <1>1, <1>2, <1>3, <1>4, PlainTaken
<1>5. CASE rcv' = OpenNextFile([rcv EXCEPT !.manifest = TRUE, !.awaiting = TRUE], 1) /\ ~rcv.manifest
  <2>1. rcv'.res = rcv.res /\ rcv'.buf = rcv.buf /\ rcv'.awaiting = TRUE
    BY <1>5, SndRecord DEF OpenNextFile, RcvType
  <2>2. rcv.buf = NoFrame
    BY <1>5 DEF IInv, ReceiverOK
  <2> QED  BY <1>1, <1>2, <2>1, <2>2, AwaitingTaken
<1>6. CASE rcv' = [rcv EXCEPT !.res = "sink"]
  <2>1. rcv'.res = "sink"
    BY <1>6, SndRecord DEF RcvType
  <2> QED  BY <1>2, <2>1, PlainTaken
<1> QED  BY <1>4, <1>5, <1>6 DEF ApplyManifest, SinkError, AbortWith, Reply

\* The next frame of a block is the one that the assembly needs.
LEMMA Fits ==
    ASSUME IInv, OrderOK, rcv.res = "none", ~rcv.awaiting, NEW m \in Arrivals("r"), TakesByR(m), Block(m.fr)
    PROVE  Follows(rcv.buf, m.fr)
<1> DEFINE q == Line(link["r"].in)
<1>1. q \in Seq(Frames) /\ q # <<>> /\ Head(q) = m.fr
  BY TakenByR
<1>2. Starts(rcv.buf, q)
  BY DEF OrderOK, AssemblyOK
<1> QED  BY <1>1, <1>2, ChainTail

LEMMA BlockDataKeepsOrder == ASSUME IInv, OrderOK, NEW m \in Arrivals("r"), OnBlockData(m) PROVE OrderOK'
<1> DEFINE x == m.fr
           fresh == x.off = 0
           continues == rcv.buf # NoFrame /\ rcv.buf = [x EXCEPT !.off = x.off - 1]
<1>1. RReceives(m, "data") /\ rcv.res = "none" /\ x.t = "data"
  BY DEF OnBlockData, RReceives
<1>2. x \in Frames /\ x.off \in Nat /\ rcv.buf \in Frames /\ rcv.buf.off \in Nat
  <2>1. x \in Frames
    BY ArriveR DEF IInv
  <2>2. rcv.buf \in Frames
    BY RcvFields
  <2> QED  BY <2>1, <2>2, FrameTypes
<1>3. rcv.manifest /\ x.f <= rcv.file
  BY <1>1, ManifestFirst
<1>f. ~(x.f > rcv.file)
  <2>1. x.f \in Nat
    BY <1>2, FrameTypes
  <2>2. rcv.file \in Nat
    BY RcvFields
  <2> QED  BY <1>3, <2>1, <2>2
<1>4. TakesByR(m)
  <2>1. \E r, frames : Reply(m, r, frames)
    BY DEF OnBlockData, AbortWith
  <2> QED  BY <1>1, <2>1, TakesFrame
<1>5. Block(x)
  BY <1>1 DEF Block
<1>6. CASE rcv.awaiting /\ ~fresh
  <2>2. rcv' = rcv
    BY <1>3, <1>f, <1>6 DEF OnBlockData, Reply
  <2>3. rcv.buf = NoFrame
    BY <1>1, <1>6 DEF OrderOK, AssemblyOK
  <2> QED  BY <1>1, <1>4, <1>6, <2>2, <2>3, AwaitingTaken
<1>7. CASE ~(rcv.awaiting /\ ~fresh)
  <2>1. IF fresh THEN rcv.buf = NoFrame ELSE continues
    <3>1. CASE rcv.awaiting
      BY <1>1, <1>7, <3>1 DEF OrderOK, AssemblyOK
    <3>2. CASE ~rcv.awaiting
      <4>1. Follows(rcv.buf, x)
        BY <1>1, <1>4, <1>5, <3>2, Fits
      <4>2. CASE rcv.buf.t = "data"
        <5>1. x = Frame("data", rcv.buf.f, rcv.buf.b, rcv.buf.off + 1)
          BY <1>1, <4>1, <4>2 DEF Follows, Frame
        <5>2. rcv.buf = Frame("data", rcv.buf.f, rcv.buf.b, rcv.buf.off)
          BY <1>2, <4>2, FrameTypes
        <5>3. x.off = rcv.buf.off + 1 /\ x.off - 1 = rcv.buf.off /\ ~fresh
          BY <1>2, <5>1 DEF Frame
        <5>4. [x EXCEPT !.off = x.off - 1] = Frame("data", rcv.buf.f, rcv.buf.b, rcv.buf.off)
          BY <5>1, <5>3 DEF Frame
        <5>5. rcv.buf # NoFrame
          BY <4>2, FrameTypes
        <5> QED  BY <5>2, <5>3, <5>4, <5>5
      <4>3. CASE rcv.buf.t # "data"
        <5>1. rcv.buf = NoFrame
          BY <4>3 DEF IInv, ReceiverOK
        <5> QED  BY <4>1, <4>3, <5>1 DEF Follows
      <4> QED  BY <4>2, <4>3
    <3> QED  BY <3>1, <3>2
  <2>3. rcv' = [rcv EXCEPT !.buf = x, !.awaiting = @ /\ ~fresh]
    BY <1>3, <1>f, <1>7, <2>1 DEF OnBlockData, Reply
  <2>4. rcv'.buf = x /\ ~rcv'.awaiting /\ rcv'.res = rcv.res
    BY <1>7, <2>3, SndRecord DEF RcvType
  <2> QED  BY <1>1, <1>4, <1>5, <2>4, BlockTaken
<1> QED  BY <1>6, <1>7

LEMMA BlockHashKeepsOrder == ASSUME IInv, OrderOK, NEW m \in Arrivals("r"), OnBlockHash(m) PROVE OrderOK'
<1> DEFINE x == m.fr
           r == [rcv EXCEPT !.buf = NoFrame]
<1>1. RReceives(m, "hash") /\ rcv.res = "none" /\ x.t = "hash"
  BY DEF OnBlockHash, RReceives
<1>2. rcv.buf \in Frames /\ rcv.buf.off \in Nat
  BY RcvFields, FrameTypes
<1>3. rcv.manifest
  BY <1>1, ManifestFirst
<1>5. Block(x)
  BY <1>1 DEF Block
<1>6. CASE rcv.awaiting
  <2>1. rcv.buf = NoFrame
    BY <1>1, <1>6 DEF OrderOK, AssemblyOK
  <2>2. Reply(m, rcv, <<>>)
    BY <1>6, <2>1 DEF OnBlockHash
  <2>3. TakesByR(m)
    BY <1>1, <2>2, TakesFrame
  <2> QED  BY <1>1, <1>6, <2>1, <2>2, <2>3, AwaitingTaken DEF Reply
<1>7. CASE ~rcv.awaiting
  <2>1. TakesByR(m)
    <3>1. \E s, frames : Reply(m, s, frames)
      BY DEF OnBlockHash, AbortWith, SinkError, PastNext, RequestMissing, WriteBlock
    <3> QED  BY <1>1, <3>1, TakesFrame
  <2>2. Follows(rcv.buf, x)
    BY <1>1, <1>5, <1>7, <2>1, Fits
  <2>3. rcv.buf = Frame("data", x.f, x.b, Frags - 1)
    <3>1. rcv.buf.t = "data"
      BY <1>1, <2>2 DEF Follows
    <3>2. rcv.buf.off + 1 = Frags /\ x = Frame("hash", rcv.buf.f, rcv.buf.b, 0)
      BY <1>1, <2>2, <3>1 DEF Follows, Frame
    <3>3. rcv.buf = Frame("data", rcv.buf.f, rcv.buf.b, rcv.buf.off)
      BY <1>2, <3>1, FrameTypes
    <3>4. x.f = rcv.buf.f /\ x.b = rcv.buf.b
      BY <3>2 DEF Frame
    <3>5. rcv.buf.off = Frags - 1
      BY <1>2, <3>2, TransferAssumption
    <3> QED  BY <3>3, <3>4, <3>5
  <2>4. \/ \E frames : Reply(m, r, frames)
        \/ PastNext(m, r)
        \/ WriteBlock(m, r)
    BY <1>3, <1>7, <2>3 DEF OnBlockHash
  <2>5. r.buf = NoFrame /\ r.awaiting = rcv.awaiting /\ r.res = rcv.res /\ r \in RcvType
    BY SndRecord, FrameTypes DEF RcvType
  <2>6. \/ rcv'.res = "sink"
        \/ rcv'.buf = NoFrame /\ ~rcv'.awaiting /\ rcv'.res = "none"
    <3>1. CASE \E frames : Reply(m, r, frames)
      BY <1>1, <1>7, <2>5, <3>1 DEF Reply
    <3>2. CASE PastNext(m, r)
      BY <1>1, <1>7, <2>5, <3>2 DEF PastNext, RequestMissing, Reply, RcvType
    <3>3. CASE WriteBlock(m, r)
      <4>1. CASE SinkError(m)
        BY <4>1, SndRecord DEF SinkError, AbortWith, Reply, RcvType
      <4> HIDE DEF r
      <4>2. CASE ~SinkError(m)
        BY <1>1, <1>7, <2>5, <3>3, <4>2 DEF WriteBlock, RequestMissing, Reply, RcvType, OpenNextFile
      <4> QED  BY <4>1, <4>2
    <3> QED  BY <2>4, <3>1, <3>2, <3>3
  <2>7. CASE rcv'.res = "sink"
    BY <2>1, <2>7, PlainTaken
  <2>8. CASE rcv'.buf = NoFrame /\ ~rcv'.awaiting /\ rcv'.res = "none"
    BY <1>1, <1>5, <2>1, <2>8, BlockTaken
  <2> QED  BY <2>6, <2>7, <2>8
<1> QED  BY <1>6, <1>7

LEMMA CompleteKeepsOrder ==
    ASSUME IInv, OrderOK, NEW m \in Arrivals("r"), OnComplete(m) \/ ReplyDoneAfterCutover(m)
    PROVE  OrderOK'
<1>1. RReceives(m, "complete") /\ m.fr.t = "complete"
  BY DEF OnComplete, ReplyDoneAfterCutover, RReceives
<1>2. rcv.manifest /\ ~Block(m.fr)
  BY <1>1, ManifestFirst DEF Block
<1>3. TakesByR(m)
  <2>1. \E r, frames : Reply(m, r, frames)
    BY DEF OnComplete, ReplyDoneAfterCutover, RequestMissing, SinkError, AbortWith
  <2> QED  BY <1>1, <2>1, TakesFrame
<1>4. CASE ReplyDoneAfterCutover(m)
  BY <1>3, <1>4, PlainTaken DEF ReplyDoneAfterCutover, Reply
<1>5. CASE OnComplete(m)
  <2>1. rcv.res = "none"
    BY <1>5 DEF OnComplete
  <2>2. rcv'.res = "sink" \/ (rcv'.res = "none" /\ rcv'.buf = rcv.buf /\ rcv'.awaiting = rcv.awaiting)
    BY <1>2, <1>5, <2>1, SndRecord DEF OnComplete, RequestMissing, SinkError, AbortWith, Reply, RcvType
  <2> QED  BY <1>2, <1>3, <2>1, <2>2, PlainTaken
<1> QED  BY <1>4, <1>5

LEMMA ControlKeepsOrder ==
    ASSUME IInv, OrderOK, NEW m \in Arrivals("r"), OnSenderControl(m)
    PROVE  OrderOK'
<1>1. PICK t \in {"pause", "unpause", "cancel", "fail"} : RReceives(m, t) /\ m.fr.t = t
  BY DEF OnSenderControl, RReceives
<1>2. ~Block(m.fr) /\ rcv.res = "none"
  BY <1>1 DEF Block, OnSenderControl
<1>3. TakesByR(m)
  <2>1. \E r, frames : Reply(m, r, frames)
    BY DEF OnSenderControl
  <2> QED  BY <1>1, <2>1, TakesFrame
<1>4. rcv'.res # "integrity" /\ rcv'.buf = rcv.buf /\ rcv'.awaiting = rcv.awaiting
  BY <1>2, SndRecord DEF OnSenderControl, Reply, RcvType
<1> QED  BY <1>2, <1>3, <1>4, PlainTaken

LEMMA SettleKeepsOrder == ASSUME IInv, OrderOK, Settle PROVE OrderOK'
<1>1. net' = net /\ link' = link /\ snd' = snd
  BY DEF Settle
<1>2. rcv'.res # "none" /\ (rcv'.res = "integrity" => rcv.res = "integrity")
  BY SndRecord DEF Settle, RcvType
<1>3. NoIntegrityFailure'
  BY <1>1, <1>2 DEF OrderOK, NoIntegrityFailure
<1> QED  BY <1>1, <1>2, <1>3, SameLines

LEMMA DroppedKeepsOrder == ASSUME IInv, OrderOK, NEW e \in Sides, Dropped(e) PROVE OrderOK'
<1>1. PICK m \in Arrivals(e) :
        /\ \/ Replay(e, m)
           \/ e = "s" /\ snd.res # "none"
           \/ e = "r" /\ rcv.res # "none"
        /\ net' = m.net /\ link' = [link EXCEPT ![e].late = m.late]
        /\ snd' = snd /\ rcv' = rcv
  BY DEF Dropped
<1>2. ~Replay(e, m)
  BY ArrivesInOrder
<1>3. NoIntegrityFailure'
  BY <1>1 DEF OrderOK, NoIntegrityFailure
<1>4. CASE e = "s"
  BY <1>1, <1>3, <1>4, TakenByS
<1>5. CASE e = "r"
  <2>1. TakesByR(m)
    BY <1>1, <1>5 DEF TakesByR
  <2>2. rcv'.res # "none" /\ rcv'.res # "integrity"
    BY <1>1, <1>2, <1>5 DEF OrderOK, NoIntegrityFailure
  <2> QED  BY <1>5, <2>1, <2>2, PlainTaken
<1> QED  BY <1>4, <1>5 DEF Sides

-----------------------------------------------------------------------------
(***************************************************************************)
(* The order of the fragments: the move.                                   *)
(***************************************************************************)

\* The sender turns to the relay, the lines to the receiver as they are.
LEMMA SenderTurns ==
    ASSUME IInv, OrderOK, \A p \in Paths : net'[p]["r"] = net[p]["r"],
           snd'.sending = snd.sending, snd'.res = snd.res, rcv' = rcv,
           link'["s"].out = "relay", link'["r"] = link["r"],
           link'["s"].late = NoFrame, link'["s"].seen = link["s"].seen,
           link'["s"].in \in {link["s"].in, "relay"}
    PROVE  OrderOK'
<1>1. PathsOK'
  BY DEF OrderOK, PathsOK, Sides, Paths
<1>2. NoIntegrityFailure'
  BY DEF OrderOK, NoIntegrityFailure
<1>3. CASE link["s"].out = "relay"
  <2>1. \A p \in Paths : Line(p)' = Line(p)
    BY <1>3 DEF Line
  <2>2. \A p \in Paths : Serves(Line(p)', Line(p))
    BY <2>1, ServesSame
  <2> QED  BY <1>1, <1>2, <1>3, <2>2, OrderKept
<1>4. CASE link["s"].out = "direct"
  <2> DEFINE a == net["direct"]["r"]
  <2>1. "direct" \in Paths /\ "relay" \in Paths /\ a \in Seq(Frames) /\ snd.sending \in Seq(Frames)
    BY LineTypes DEF Paths
  <2>2. Line("direct") = a \o snd.sending
    BY <1>4, <2>1, Lines
  <2>3. Chain(a \o snd.sending) /\ Ends(a \o snd.sending)
    BY <1>4, <2>1, <2>2 DEF OrderOK
  <2>4. /\ Chain(a) /\ Chain(snd.sending) /\ Ends(snd.sending)
        /\ \A x : Starts(x, a \o snd.sending) => Starts(x, a)
    BY <2>1, <2>3, ChainParts
  <2>5. Line("direct")' = a
    BY <2>1, NoMore DEF Line
  <2>6. Line("relay")' = snd.sending
    <3>1. net'["relay"]["r"] = <<>>
      BY <1>4, <2>1 DEF OrderOK, PathsOK
    <3> QED  BY <2>1, <3>1, NoMore DEF Line
  <2>7. \A p \in Paths : Chain(Line(p)')
    BY <2>4, <2>5, <2>6 DEF Paths
  <2>8. Ends(Line(link["s"].out)')
    BY <2>4, <2>6
  <2>9. ASSUME rcv'.res = "none" PROVE AssemblyOK'
    <3>1. AssemblyOK
      BY <2>9 DEF OrderOK
    <3>2. CASE rcv.awaiting
      BY <3>1, <3>2 DEF AssemblyOK
    <3>3. CASE ~rcv.awaiting
      <4>1. link["r"].in = "direct"
        BY <1>4, <3>1, <3>3, LineTypes DEF AssemblyOK, Paths
      <4>2. Starts(rcv.buf, a)
        BY <2>2, <2>4, <3>1, <3>3, <4>1 DEF AssemblyOK
      <4> QED  BY <2>5, <3>3, <4>1, <4>2 DEF AssemblyOK
    <3> QED  BY <3>2, <3>3
  <2> QED  BY <1>1, <1>2, <2>7, <2>8, <2>9 DEF OrderOK
<1> QED  BY <1>3, <1>4, LineTypes DEF Paths

LEMMA SwitchOutKeepsOrder == ASSUME IInv, OrderOK, NEW e \in Sides, SwitchOut(e) PROVE OrderOK'
<1>1. /\ snd' = snd /\ rcv' = rcv /\ net' = net /\ link \in [Sides -> LinkType]
      /\ link' = [link EXCEPT ![e].out = "relay"]
  BY DEF SwitchOut, IInv, TypeInv
<1>2. \A d \in Sides : link[d].late = NoFrame
  BY DEF OrderOK, PathsOK
<1>3. CASE e = "s"
  <2>1. /\ link'["s"].out = "relay" /\ link'["r"] = link["r"] /\ link'["s"].late = NoFrame
        /\ link'["s"].seen = link["s"].seen /\ link'["s"].in = link["s"].in
    BY <1>1, <1>2, <1>3 DEF LinkType, Sides
  <2> QED  BY <1>1, <2>1, SenderTurns
<1>4. CASE e = "r"
  <2>1. /\ \A d \in Sides : /\ link'[d].late = link[d].late /\ link'[d].in = link[d].in
                            /\ link'[d].seen \in {link[d].seen, link[d].in}
        /\ link'["s"].out = link["s"].out
    BY <1>1, <1>4 DEF LinkType, Sides
  <2>2. NoIntegrityFailure'
    BY <1>1 DEF OrderOK, NoIntegrityFailure
  <2> QED  BY <1>1, <2>1, <2>2, SameLines
<1> QED  BY <1>3, <1>4 DEF Sides

\* Without the late race a move leaves no frame behind to be handled after it.
LEMMA MoveKeepsOrder ==
    ASSUME "late" \notin Races, IInv, OrderOK, NEW e \in Sides, SwitchIn(e) \/ PromoteOnData(e)
    PROVE  OrderOK'
<1>1. ActivateRelay(e) /\ TransportChanged(e)
  BY DEF SwitchIn, PromoteOnData
<1>2. /\ net' = [net EXCEPT !["direct"][e] = <<>>]
      /\ link' = [link EXCEPT ![e].out = "relay", ![e].in = "relay", ![e].late = NoFrame]
  BY <1>1 DEF ActivateRelay
<1>3. link \in [Sides -> LinkType] /\ net \in [Paths -> [Sides -> Seq(Frames)]]
  BY DEF IInv, TypeInv
<1>4. CASE e = "s"
  <2>1. /\ link'["s"].out = "relay" /\ link'["r"] = link["r"] /\ link'["s"].late = NoFrame
        /\ link'["s"].seen = link["s"].seen /\ link'["s"].in = "relay"
    BY <1>2, <1>3, <1>4 DEF LinkType, Sides
  <2>2. \A p \in Paths : net'[p]["r"] = net[p]["r"]
    BY <1>2, <1>3, <1>4 DEF Paths, Sides
  <2>3. rcv' = rcv /\ snd'.sending = snd.sending /\ snd'.res = snd.res
    <3>1. rcv' = rcv /\ SenderTransportChanged
      BY <1>1, <1>4 DEF TransportChanged
    <3> QED  BY <3>1, SndRecord DEF SenderTransportChanged, SndType
  <2> QED  BY <2>1, <2>2, <2>3, SenderTurns
<1>5. CASE e = "r"
  <2>1. /\ link'["r"].in = "relay" /\ link'["r"].late = NoFrame /\ link'["s"] = link["s"]
    BY <1>2, <1>3, <1>5 DEF LinkType, Sides
  <2>2. net'["direct"]["r"] = <<>> /\ net'["relay"]["r"] = net["relay"]["r"]
    BY <1>2, <1>3, <1>5 DEF Paths, Sides
  <2>3. snd' = snd /\ rcv'.res = rcv.res /\ rcv'.buf = NoFrame /\ rcv'.awaiting
    <3>1. snd' = snd /\ ReceiverTransportChanged
      BY <1>1, <1>5 DEF TransportChanged
    <3> QED  BY <3>1, SndRecord DEF ReceiverTransportChanged, RcvType
  <2>4. PathsOK'
    BY <2>1, <2>2 DEF OrderOK, PathsOK, Sides
  <2>5. NoIntegrityFailure'
    BY <2>3 DEF OrderOK, NoIntegrityFailure
  <2>6. AssemblyOK'
    BY <2>3 DEF AssemblyOK
  <2>7. Line("relay")' = Line("relay")
    BY <2>1, <2>2, <2>3 DEF Line
  <2>8. Chain(Line("direct")') /\ (link["s"].out = "direct" => Ends(Line("direct")'))
    <3>1. "direct" \in Paths /\ snd.sending \in Seq(Frames) /\ net["direct"]["r"] \in Seq(Frames)
      BY LineTypes DEF Paths
    <3>2. CASE link["s"].out = "direct"
      <4>1. Line("direct")' = snd.sending
        BY <2>1, <2>2, <2>3, <3>1, <3>2, NoMore DEF Line
      <4>2. Line("direct") = net["direct"]["r"] \o snd.sending
        BY <3>1, <3>2, Lines
      <4>3. Chain(net["direct"]["r"] \o snd.sending) /\ Ends(net["direct"]["r"] \o snd.sending)
        BY <3>1, <3>2, <4>2 DEF OrderOK
      <4>4. Chain(snd.sending) /\ Ends(snd.sending)
        BY <3>1, <4>3, ChainParts
      <4> QED  BY <4>1, <4>4
    <3>3. CASE link["s"].out # "direct"
      <4>1. Line("direct")' = <<>>
        BY <2>1, <2>2, <2>3, <3>3, NoMore DEF Line
      <4>2. Chain(<<>>)
        BY DEF Chain
      <4> QED  BY <3>3, <4>1, <4>2
    <3> QED  BY <3>2, <3>3
  <2>9. \A p \in Paths : Chain(Line(p)')
    BY <2>7, <2>8 DEF OrderOK, Paths
  <2>10. Ends(Line(link["s"].out)')
    BY <2>1, <2>7, <2>8, LineTypes DEF OrderOK, Paths
  <2>11. link'["s"].out = link["s"].out
    BY <2>1
  <2> QED  BY <2>4, <2>5, <2>6, <2>9, <2>10, <2>11 DEF OrderOK
<1> QED  BY <1>4, <1>5 DEF Sides

LEMMA DropKeepsOrder == ASSUME IInv, OrderOK, DropOnCandidate PROVE OrderOK'
<1> DEFINE w == net["relay"]["r"]
           z == snd.sending
           q == w \o z
<1>1. /\ snd' = snd /\ rcv' = rcv /\ link' = link /\ link["r"].in = "direct" /\ w # <<>>
      /\ net' = [net EXCEPT !["relay"]["r"] = Tail(@)]
  BY DEF DropOnCandidate
<1>2. /\ net \in [Paths -> [Sides -> Seq(Frames)]] /\ "relay" \in Paths /\ "direct" \in Paths
      /\ w \in Seq(Frames) /\ z \in Seq(Frames)
  BY LineTypes DEF IInv, TypeInv, Paths
<1>3. net'["relay"]["r"] = Tail(w) /\ net'["direct"]["r"] = net["direct"]["r"]
  BY <1>1, <1>2 DEF Sides
<1>4. link["s"].out = "relay"
  BY <1>1, LineTypes DEF OrderOK, PathsOK, Paths
<1>5. Line("relay") = q /\ q # <<>> /\ q \in Seq(Frames) /\ Line("relay")' = Tail(q)
  <2>1. TailCat(w, z)
    BY <1>1, <1>2, TailOfCat
  <2>2. Line("relay")' = Tail(w) \o z
    BY <1>1, <1>3, <1>4 DEF Line
  <2>3. Line("relay") = q /\ Line("relay") \in Seq(Frames)
    BY <1>2, <1>4, Lines
  <2> QED  BY <2>1, <2>2, <2>3 DEF TailCat
<1>6. Line("direct")' = Line("direct")
  BY <1>1, <1>3 DEF Line
<1> HIDE DEF q
<1>7. Chain(q) /\ Ends(q)
  BY <1>2, <1>4, <1>5 DEF OrderOK
<1>8. Chain(Tail(q)) /\ Ends(Tail(q))
  BY <1>5, <1>7, ChainTail
<1>9. \A p \in Paths : Chain(Line(p)')
  BY <1>2, <1>5, <1>6, <1>8 DEF OrderOK, Paths
<1>10. Ends(Line(link["s"].out)')
  BY <1>1, <1>4, <1>5, <1>8
<1>11. PathsOK' /\ NoIntegrityFailure'
  BY <1>1, <1>3, <1>4 DEF OrderOK, PathsOK, NoIntegrityFailure
<1>12. rcv'.res = "none" => AssemblyOK'
  BY <1>1, <1>4, <1>6 DEF OrderOK, AssemblyOK
<1> QED  BY <1>9, <1>10, <1>11, <1>12 DEF OrderOK

LEMMA OrderInit == Init => OrderOK
<1> SUFFICES ASSUME Init PROVE OrderOK
    OBVIOUS
<1>1. \A p \in Paths : Line(p) = <<>>
  BY NoMore DEF Init, Line, Paths, Sides
<1>2. Chain(<<>>) /\ Ends(<<>>) /\ \A x : Starts(x, <<>>)
  BY DEF Chain, Ends, Starts
<1>3. link["s"].out = "direct" /\ link["r"].in = "direct" /\ "direct" \in Paths
  BY DEF Init, Sides, Paths
<1>4. PathsOK
  BY DEF Init, PathsOK, Sides, Paths
<1>5. AssemblyOK
  BY <1>1, <1>2, <1>3 DEF Init, AssemblyOK
<1>6. NoIntegrityFailure
  BY DEF Init, NoIntegrityFailure
<1> QED  BY <1>1, <1>2, <1>3, <1>4, <1>5, <1>6 DEF OrderOK

LEMMA OrderStutters == ASSUME IInv, OrderOK, UNCHANGED vars PROVE OrderOK'
<1>1. UNCHANGED <<snd, rcv, net, link>>
  BY DEF vars
<1>2. NoIntegrityFailure'
  BY <1>1 DEF OrderOK, NoIntegrityFailure
<1> QED  BY <1>1, <1>2, SameLines

LEMMA OrderHolds == ASSUME "late" \notin Races, IInv, OrderOK, [Next]_vars PROVE OrderOK'
<1>1. CASE RunThread
  BY <1>1, CallsKeepOrder, QuietKeepsOrder, RetryKeepsOrder, NewBlockKeepsOrder, SendFrameKeepsOrder DEF RunThread
<1>2. CASE RetransmitComplete \/ AckTimeout \/ DoneTimeout \/ SourceError
  BY <1>2, CallsKeepOrder, QuietKeepsOrder
<1>3. CASE SenderHandle
  <2>1. CASE Dropped("s")
    BY <2>1, DroppedKeepsOrder DEF Sides
  <2>2. ASSUME NEW m \in Arrivals("s"),
               \/ OnAck(m) \/ OnNack(m) \/ OnResumeState(m) \/ OnDone(m)
               \/ OnReceiverFail(m) \/ SetPausedByReceiver(m)
        PROVE  OrderOK'
    BY <2>2, SenderHearsInOrder
  <2> QED  BY <1>3, <2>1, <2>2 DEF SenderHandle
<1>4. CASE ReceiverHandle
  <2>1. CASE Dropped("r")
    BY <2>1, DroppedKeepsOrder DEF Sides
  <2>2. ASSUME NEW m \in Arrivals("r"),
               \/ ApplyManifest(m) \/ OnBlockData(m) \/ OnBlockHash(m)
               \/ OnComplete(m) \/ ReplyDoneAfterCutover(m) \/ OnSenderControl(m)
        PROVE  OrderOK'
    BY <2>2, ManifestKeepsOrder, BlockDataKeepsOrder, BlockHashKeepsOrder, CompleteKeepsOrder, ControlKeepsOrder
  <2> QED  BY <1>4, <2>1, <2>2, SettleKeepsOrder DEF ReceiverHandle
<1>5. CASE Pause \/ Resume \/ Cancel
  BY <1>5, UserKeepsOrder
<1>6. CASE Moves
  <2>1. ASSUME NEW e \in Sides, SwitchOut(e) \/ SwitchIn(e) \/ PromoteOnData(e) PROVE OrderOK'
    BY <2>1, SwitchOutKeepsOrder, MoveKeepsOrder
  <2> QED  BY <1>6, <2>1, DropKeepsOrder, CallsKeepOrder DEF Moves
<1>7. CASE Returned \/ UNCHANGED vars
  BY <1>7, OrderStutters DEF Returned
<1> QED  BY <1>1, <1>2, <1>3, <1>4, <1>5, <1>6, <1>7 DEF Next

\* Between two honest sides no interleaving of the move with block retries, lost
\* frames, timers, pauses and user acts makes either side call FailIntegrity: the
\* partial block is dropped with the old path and what follows is skipped up to a
\* first fragment (Receiver.TransportChanged, onBlockData, onBlockHash), for any
\* number of fragments, window and manifest.  The hypothesis leaves out the "late"
\* race, a direct frame checked before the move and handled after it: with it the
\* property does not hold.
THEOREM NoFalseFailures == ASSUME "late" \notin Races PROVE Spec => []NoIntegrityFailure
<1>1. Init => IInv /\ OrderOK
  BY InitHolds, OrderInit
<1>2. (IInv /\ OrderOK) /\ [Next]_vars => (IInv /\ OrderOK)'
  BY NextHolds, OrderHolds
<1>3. IInv /\ OrderOK => NoIntegrityFailure
  BY DEF OrderOK
<1> QED  BY <1>1, <1>2, <1>3, PTL DEF Spec

=============================================================================
