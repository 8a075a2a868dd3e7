------------------------- MODULE RelaySessionProofs -------------------------
(***************************************************************************)
(* Proofs about RelaySession, for every window, batch and number of        *)
(* frames: it implements RelayChannel, and the server refuses nothing      *)
(* before a socket is lost or closed.                                      *)
(*                                                                         *)
(* Both rest on counting credit: what the sender's Conn holds, what is     *)
(* under way in two queues, what the receiver has not returned yet, and    *)
(* the frames that are out.  The sum over a queue is carried along as a    *)
(* running total that exists (Total), so that no induction over queues is  *)
(* needed.                                                                 *)
(***************************************************************************)
EXTENDS RelaySession, FiniteSetTheorems, TLAPS

MsgTypes == {"open", "resume", "required", "ready", "credit", "data"}

Msgs == [type : MsgTypes, n : Nat]

CliType == [opened : BOOLEAN, ready : BOOLEAN, closed : BOOLEAN, credit : Nat, consumed : Nat,
            handler : BOOLEAN, pending : Seq(Nat), drain : Seq(Nat)]

SigType == [run : {"reading", "dialing", "swapped", "ended"}, sock : {"seated", "new", "closed"},
            closed : BOOLEAN]

SeatType == [who : {"none", "live", "stale"}, open : BOOLEAN, credit : 0 .. Window, owe : {"no", "yes", "void"}]

HistType == [blips : Nat, refused : BOOLEAN, cut : BOOLEAN, overtaken : BOOLEAN]

TypeInv ==
    /\ cli \in [Sides -> CliType]
    /\ sig \in [Sides -> SigType]
    /\ seat \in [Sides -> SeatType]
    /\ up \in [Sides -> Seq(Msgs)] /\ down \in [Sides -> Seq(Msgs)]
    /\ sent \in Nat /\ got \in Seq(Nat)
    /\ hist \in HistType

\* A frame that is not charged yet has its credit still in the account.
SeatsOK == \A x \in Sides : seat[x].owe = "yes" => seat[x].credit >= 1

-----------------------------------------------------------------------------
\* Running totals.

Adds(c, v) ==
    /\ c \in [0 .. Len(v) -> Nat] /\ c[0] = 0
    /\ \A i \in 1 .. Len(v) : c[i] = c[i - 1] + v[i]
    /\ \A i, j \in 0 .. Len(v) : i <= j => c[i] <= c[j]

Total(v, t) == \E c : Adds(c, v) /\ c[Len(v)] = t

LEMMA TotalEmpty == Total(<<>>, 0)
<1>1. Adds([i \in {0} |-> 0], <<>>)
      BY DEF Adds
<1> QED BY <1>1 DEF Total

LEMMA TotalAppend ==
    ASSUME NEW v \in Seq(Nat), NEW t \in Nat, NEW x \in Nat, Total(v, t)
    PROVE  Total(Append(v, x), t + x)
<1>1. PICK c : Adds(c, v) /\ c[Len(v)] = t
      BY DEF Total
<1>2. PICK k : k = Len(v)
      OBVIOUS
<1>3. k \in Nat /\ c \in [0 .. k -> Nat] /\ c[0] = 0 /\ c[k] = t
      /\ (\A i \in 1 .. k : c[i] = c[i - 1] + v[i]) /\ (\A i, j \in 0 .. k : i <= j => c[i] <= c[j])
      BY <1>1, <1>2 DEF Adds
<1>4. PICK w : w = Append(v, x)
      OBVIOUS
<1>5. Len(w) = k + 1 /\ w[k + 1] = x /\ \A i \in 1 .. k : w[i] = v[i]
      BY <1>2, <1>4
<1>6. PICK d : d = [i \in 0 .. k + 1 |-> IF i = k + 1 THEN t + x ELSE c[i]]
      OBVIOUS
<1>7. d \in [0 .. k + 1 -> Nat] /\ d[0] = 0 /\ d[k + 1] = t + x /\ \A i \in 0 .. k : d[i] = c[i]
      BY <1>3, <1>6
<1>8. \A i \in 1 .. k + 1 : d[i] = d[i - 1] + w[i]
      <2>1. ASSUME NEW i \in 1 .. k PROVE d[i] = d[i - 1] + w[i]
            BY <1>3, <1>5, <1>7
      <2>2. d[k + 1] = d[k] + w[k + 1]
            BY <1>3, <1>5, <1>7
      <2> TAKE i \in 1 .. k + 1
      <2>3. CASE i = k + 1
            <3>1. i - 1 = k
                  BY <1>3, <2>3
            <3> QED BY <2>2, <2>3, <3>1
      <2>4. CASE i # k + 1
            <3>1. i \in 1 .. k
                  BY <1>3, <2>4
            <3> QED BY <2>1, <3>1
      <2> QED BY <2>3, <2>4
<1>9. \A i, j \in 0 .. k + 1 : i <= j => d[i] <= d[j]
      <2>1. ASSUME NEW i \in 0 .. k PROVE d[i] <= d[k + 1]
            BY <1>3, <1>7
      <2>2. ASSUME NEW i \in 0 .. k, NEW j \in 0 .. k, i <= j PROVE d[i] <= d[j]
            BY <1>3, <1>7, <2>2
      <2>3. \A i \in 0 .. k + 1 : i \in 0 .. k \/ i = k + 1
            BY <1>3
      <2>4. ASSUME NEW j \in 0 .. k, k + 1 <= j PROVE FALSE
            BY <1>3, <2>4
      <2>5. d[k + 1] <= d[k + 1]
            BY <1>7
      <2> QED BY <2>1, <2>2, <2>3, <2>4, <2>5
<1>10. Adds(d, w) /\ d[Len(w)] = t + x
      BY <1>5, <1>7, <1>8, <1>9 DEF Adds
<1> QED BY <1>4, <1>10 DEF Total

LEMMA TotalTail ==
    ASSUME NEW v \in Seq(Nat), NEW t \in Nat, v # <<>>, Total(v, t)
    PROVE  v[1] \in Nat /\ v[1] <= t /\ Total(Tail(v), t - v[1])
<1>1. PICK c : Adds(c, v) /\ c[Len(v)] = t
      BY DEF Total
<1>2. PICK k : k = Len(v)
      OBVIOUS
<1>3. k \in Nat /\ k >= 1 /\ c \in [0 .. k -> Nat] /\ c[0] = 0 /\ c[k] = t
      /\ (\A i \in 1 .. k : c[i] = c[i - 1] + v[i]) /\ (\A i, j \in 0 .. k : i <= j => c[i] <= c[j])
      BY <1>1, <1>2 DEF Adds
<1>4. PICK w : w = Tail(v)
      OBVIOUS
<1>5. Len(w) = k - 1 /\ \A i \in 1 .. k - 1 : w[i] = v[i + 1]
      BY <1>2, <1>4
<1>6. v[1] \in Nat /\ c[1] = v[1] /\ c[1] <= t
      BY <1>2, <1>3
<1>7. PICK d : d = [i \in 0 .. k - 1 |-> c[i + 1] - c[1]]
      OBVIOUS
<1>8. d \in [0 .. k - 1 -> Nat] /\ d[0] = 0 /\ d[k - 1] = t - v[1] /\ \A i \in 0 .. k - 1 : d[i] = c[i + 1] - c[1]
      BY <1>3, <1>6, <1>7
<1>9. \A i \in 1 .. k - 1 : d[i] = d[i - 1] + w[i]
      <2> TAKE i \in 1 .. k - 1
      <2>1. c[i + 1] = c[i] + v[i + 1] /\ c[i + 1] \in Nat /\ c[i] \in Nat /\ c[1] \in Nat
            BY <1>3
      <2>2. d[i] = c[i + 1] - c[1] /\ d[i - 1] = c[i] - c[1]
            <3>1. i \in 0 .. k - 1 /\ i - 1 \in 0 .. k - 1 /\ (i - 1) + 1 = i
                  BY <1>3
            <3> QED BY <1>8, <3>1
      <2>3. v[i + 1] \in Nat
            BY <1>2, <1>3
      <2> QED BY <1>5, <2>1, <2>2, <2>3
<1>10. \A i, j \in 0 .. k - 1 : i <= j => d[i] <= d[j]
      <2> TAKE i, j \in 0 .. k - 1
      <2> HAVE i <= j
      <2>1. c[i + 1] <= c[j + 1] /\ c[i + 1] \in Nat /\ c[j + 1] \in Nat /\ c[1] \in Nat
            BY <1>3
      <2> QED BY <1>8, <2>1
<1>11. Adds(d, w) /\ d[Len(w)] = t - v[1]
      BY <1>5, <1>8, <1>9, <1>10 DEF Adds
<1> QED BY <1>4, <1>6, <1>11 DEF Total

-----------------------------------------------------------------------------
\* Queues of messages: the credit in them, the frames, their numbers.

CreditOf(m) == IF m.type = "credit" THEN m.n ELSE 0

FrameOf(m) == IF m.type = "data" THEN 1 ELSE 0

CreditTotal(q, t) == Total([i \in DOMAIN q |-> CreditOf(q[i])], t)

FrameTotal(q, t) == Total([i \in DOMAIN q |-> FrameOf(q[i])], t)

Nums(q) == {q[i].n : i \in {j \in DOMAIN q : q[j].type = "data"}}

Rising(q) == \A i, j \in DOMAIN q : (i < j /\ q[i].type = "data" /\ q[j].type = "data") => q[i].n < q[j].n

Types(q) == {q[i].type : i \in DOMAIN q}

Before(S, T) == \A a \in S, b \in T : a < b

LEMMA QEmpty ==
    /\ <<>> \in Seq(Msgs) /\ Nums(<<>>) = {} /\ Types(<<>>) = {} /\ Rising(<<>>)
    /\ CreditTotal(<<>>, 0) /\ FrameTotal(<<>>, 0)
<1>1. [i \in DOMAIN <<>> |-> CreditOf(<<>>[i])] = <<>> /\ [i \in DOMAIN <<>> |-> FrameOf(<<>>[i])] = <<>>
      OBVIOUS
<1>2. CreditTotal(<<>>, 0) /\ FrameTotal(<<>>, 0)
      BY <1>1, TotalEmpty DEF CreditTotal, FrameTotal
<1> QED BY <1>2 DEF Nums, Types, Rising

LEMMA QHead ==
    ASSUME NEW q \in Seq(Msgs), q # <<>>
    PROVE  /\ Head(q) \in Msgs /\ Head(q).type \in Types(q) /\ Head(q).type \in MsgTypes /\ Head(q).n \in Nat
           /\ Head(q).type = "data" => Head(q).n \in Nums(q)
<1>1. Head(q) = q[1] /\ 1 \in DOMAIN q /\ q[1] \in Msgs
      OBVIOUS
<1> QED BY <1>1 DEF Types, Nums, Msgs

LEMMA QTail ==
    ASSUME NEW q \in Seq(Msgs), q # <<>>
    PROVE  /\ Tail(q) \in Seq(Msgs) /\ Nums(Tail(q)) \subseteq Nums(q) /\ Types(Tail(q)) \subseteq Types(q)
           /\ Rising(q) => Rising(Tail(q))
           /\ (Rising(q) /\ Head(q).type = "data") => Before({Head(q).n}, Nums(Tail(q)))
           /\ Head(q).type = "data" => Nums(q) = Nums(Tail(q)) \cup {Head(q).n}
           /\ Head(q).type # "data" => Nums(q) = Nums(Tail(q))
<1>1. PICK w : w = Tail(q)
      OBVIOUS
<1>2. PICK k : k = Len(q)
      OBVIOUS
<1>3. /\ w \in Seq(Msgs) /\ k \in Nat /\ k >= 1 /\ DOMAIN q = 1 .. k /\ DOMAIN w = 1 .. k - 1 /\ Head(q) = q[1]
      /\ \A i \in 1 .. k - 1 : w[i] = q[i + 1]
      BY <1>1, <1>2
<1>4. \A j \in DOMAIN w : j + 1 \in DOMAIN q /\ w[j] = q[j + 1]
      BY <1>3
<1>5. \A i \in DOMAIN q : i = 1 \/ (i - 1 \in DOMAIN w /\ q[i] = w[i - 1])
      <2> TAKE i \in DOMAIN q
      <2>1. CASE i # 1
            <3>1. i - 1 \in 1 .. k - 1 /\ (i - 1) + 1 = i
                  BY <1>3, <2>1
            <3> QED BY <1>3, <3>1
      <2> QED BY <2>1
<1>6. Types(w) \subseteq Types(q) /\ Nums(w) \subseteq Nums(q)
      BY <1>4 DEF Types, Nums
<1>7. ASSUME Rising(q) PROVE Rising(w)
      <2>1. \A i, j \in DOMAIN w : i < j => i + 1 < j + 1
            BY <1>3
      <2> QED BY <1>4, <1>7, <2>1 DEF Rising
<1>8. ASSUME Rising(q), q[1].type = "data" PROVE Before({q[1].n}, Nums(w))
      <2>1. \A j \in DOMAIN w : 1 < j + 1 /\ 1 \in DOMAIN q
            BY <1>3
      <2>2. \A j \in DOMAIN w : w[j].type = "data" => q[1].n < w[j].n
            BY <1>4, <1>8, <2>1 DEF Rising
      <2> QED BY <2>2 DEF Before, Nums
<1>9. ASSUME NEW a \in Nums(q) PROVE a \in Nums(w) \/ (q[1].type = "data" /\ a = q[1].n)
      BY <1>5 DEF Nums
<1>10. q[1].type = "data" => q[1].n \in Nums(q)
      BY <1>3 DEF Nums
<1> QED BY <1>1, <1>3, <1>6, <1>7, <1>8, <1>9, <1>10

LEMMA Weights ==
    ASSUME NEW q \in Seq(Msgs)
    PROVE  /\ \A m \in Msgs : CreditOf(m) \in Nat /\ FrameOf(m) \in Nat
           /\ \A i \in DOMAIN q : CreditOf(q[i]) \in Nat /\ FrameOf(q[i]) \in Nat
           /\ [i \in DOMAIN q |-> CreditOf(q[i])] \in Seq(Nat)
           /\ [i \in DOMAIN q |-> FrameOf(q[i])] \in Seq(Nat)
<1>1. \A m \in Msgs : CreditOf(m) \in Nat /\ FrameOf(m) \in Nat
      BY DEF CreditOf, FrameOf, Msgs
<1>2. \A i \in DOMAIN q : q[i] \in Msgs
      OBVIOUS
<1>3. \A i \in DOMAIN q : CreditOf(q[i]) \in Nat /\ FrameOf(q[i]) \in Nat
      BY <1>1, <1>2
<1>4. DOMAIN q = 1 .. Len(q) /\ Len(q) \in Nat
      OBVIOUS
<1>5. \A k \in Nat : \A g \in [1 .. k -> Nat] : g \in Seq(Nat)
      OBVIOUS
<1>6. /\ [i \in DOMAIN q |-> CreditOf(q[i])] \in [1 .. Len(q) -> Nat]
      /\ [i \in DOMAIN q |-> FrameOf(q[i])] \in [1 .. Len(q) -> Nat]
      BY <1>3, <1>4
<1> QED BY <1>1, <1>3, <1>4, <1>5, <1>6

LEMMA QTailTotals ==
    ASSUME NEW q \in Seq(Msgs), q # <<>>, NEW t \in Nat
    PROVE  /\ CreditTotal(q, t) => CreditOf(Head(q)) <= t /\ CreditTotal(Tail(q), t - CreditOf(Head(q)))
           /\ FrameTotal(q, t) => FrameOf(Head(q)) <= t /\ FrameTotal(Tail(q), t - FrameOf(Head(q)))
<1>1. PICK v : v = [i \in DOMAIN q |-> CreditOf(q[i])]
      OBVIOUS
<1>2. PICK f : f = [i \in DOMAIN q |-> FrameOf(q[i])]
      OBVIOUS
<1>3. \A i \in DOMAIN q : CreditOf(q[i]) \in Nat /\ FrameOf(q[i]) \in Nat
      BY Weights
<1>4. v \in Seq(Nat) /\ f \in Seq(Nat) /\ v # <<>> /\ f # <<>>
      <2>1. v \in Seq(Nat) /\ f \in Seq(Nat)
            BY <1>1, <1>2, Weights
      <2>2. DOMAIN v = DOMAIN q /\ DOMAIN f = DOMAIN q /\ 1 \in DOMAIN q
            BY <1>1, <1>2
      <2> QED BY <2>1, <2>2
<1>5. /\ Tail(v) = [i \in DOMAIN Tail(q) |-> CreditOf(Tail(q)[i])]
      /\ Tail(f) = [i \in DOMAIN Tail(q) |-> FrameOf(Tail(q)[i])]
      BY <1>1, <1>2, <1>3
<1>6. v[1] = CreditOf(Head(q)) /\ f[1] = FrameOf(Head(q))
      BY <1>1, <1>2
<1>7. CreditTotal(q, t) => CreditOf(Head(q)) <= t /\ CreditTotal(Tail(q), t - CreditOf(Head(q)))
      BY <1>1, <1>4, <1>5, <1>6, TotalTail DEF CreditTotal
<1>8. FrameTotal(q, t) => FrameOf(Head(q)) <= t /\ FrameTotal(Tail(q), t - FrameOf(Head(q)))
      BY <1>2, <1>4, <1>5, <1>6, TotalTail DEF FrameTotal
<1> QED BY <1>7, <1>8

LEMMA QAppend ==
    ASSUME NEW q \in Seq(Msgs), NEW m \in Msgs
    PROVE  /\ Append(q, m) \in Seq(Msgs) /\ q \o <<m>> = Append(q, m)
           /\ Types(Append(q, m)) \subseteq Types(q) \cup {m.type}
           /\ m.type = "data" => Nums(Append(q, m)) = Nums(q) \cup {m.n}
           /\ m.type # "data" => Nums(Append(q, m)) = Nums(q)
           /\ (Rising(q) /\ (m.type = "data" => Before(Nums(q), {m.n}))) => Rising(Append(q, m))
<1>1. PICK w : w = Append(q, m)
      OBVIOUS
<1>2. PICK k : k = Len(q)
      OBVIOUS
<1>3. /\ w \in Seq(Msgs) /\ k \in Nat /\ DOMAIN q = 1 .. k /\ DOMAIN w = 1 .. k + 1 /\ w[k + 1] = m
      /\ \A i \in 1 .. k : w[i] = q[i]
      BY <1>1, <1>2
<1>4. q \o <<m>> = w
      BY <1>1
<1>5. \A i \in DOMAIN w : i = k + 1 \/ (i \in DOMAIN q /\ w[i] = q[i] /\ i < k + 1)
      BY <1>3
<1>6. k + 1 \in DOMAIN w /\ \A i \in DOMAIN q : i \in DOMAIN w /\ w[i] = q[i]
      BY <1>3
<1>7. Types(w) \subseteq Types(q) \cup {m.type}
      BY <1>3, <1>5 DEF Types
<1>8. Nums(w) \subseteq Nums(q) \cup {m.n} /\ (m.type # "data" => Nums(w) \subseteq Nums(q))
      BY <1>3, <1>5 DEF Nums
<1>9. Nums(q) \subseteq Nums(w) /\ (m.type = "data" => m.n \in Nums(w))
      BY <1>3, <1>6 DEF Nums
<1>10. ASSUME Rising(q), m.type = "data" => Before(Nums(q), {m.n}) PROVE Rising(w)
      <2> SUFFICES ASSUME NEW i \in DOMAIN w, NEW j \in DOMAIN w, i < j, w[i].type = "data", w[j].type = "data"
                   PROVE  w[i].n < w[j].n
          BY DEF Rising
      <2>1. i \in DOMAIN q /\ w[i] = q[i]
            BY <1>3
      <2>2. CASE j = k + 1
            <3>1. q[i].n \in Nums(q) /\ m.type = "data" /\ w[j] = m
                  BY <1>3, <2>1, <2>2 DEF Nums
            <3> QED BY <1>10, <2>1, <3>1 DEF Before
      <2>3. CASE j # k + 1
            <3>1. j \in DOMAIN q /\ w[j] = q[j]
                  BY <1>5, <2>3
            <3> QED BY <1>10, <2>1, <3>1 DEF Rising
      <2> QED BY <2>2, <2>3
<1> QED BY <1>1, <1>3, <1>4, <1>7, <1>8, <1>9, <1>10

LEMMA QAppendTotals ==
    ASSUME NEW q \in Seq(Msgs), NEW m \in Msgs, NEW t \in Nat
    PROVE  /\ CreditTotal(q, t) => CreditTotal(Append(q, m), t + CreditOf(m))
           /\ FrameTotal(q, t) => FrameTotal(Append(q, m), t + FrameOf(m))
<1>1. PICK v : v = [i \in DOMAIN q |-> CreditOf(q[i])]
      OBVIOUS
<1>2. PICK f : f = [i \in DOMAIN q |-> FrameOf(q[i])]
      OBVIOUS
<1>3. /\ \A i \in DOMAIN q : CreditOf(q[i]) \in Nat /\ FrameOf(q[i]) \in Nat
      /\ CreditOf(m) \in Nat /\ FrameOf(m) \in Nat
      BY Weights
<1>4. v \in Seq(Nat) /\ f \in Seq(Nat)
      BY <1>1, <1>2, Weights
<1>5. Append(v, CreditOf(m)) = [i \in DOMAIN Append(q, m) |-> CreditOf(Append(q, m)[i])]
      BY <1>1, <1>3
<1>6. Append(f, FrameOf(m)) = [i \in DOMAIN Append(q, m) |-> FrameOf(Append(q, m)[i])]
      BY <1>2, <1>3
<1>7. CreditTotal(q, t) => CreditTotal(Append(q, m), t + CreditOf(m))
      BY <1>1, <1>3, <1>4, <1>5, TotalAppend DEF CreditTotal
<1>8. FrameTotal(q, t) => FrameTotal(Append(q, m), t + FrameOf(m))
      BY <1>2, <1>3, <1>4, <1>6, TotalAppend DEF FrameTotal
<1> QED BY <1>7, <1>8

\* Queues of frame numbers.

Inc(q) == \A i, j \in DOMAIN q : i < j => q[i] < q[j]

LEMMA NEmpty == <<>> \in Seq(Nat) /\ ToSet(<<>>) = {} /\ Inc(<<>>) /\ Len(<<>>) = 0
BY DEF ToSet, Inc

LEMMA NTail ==
    ASSUME NEW q \in Seq(Nat), q # <<>>
    PROVE  /\ Tail(q) \in Seq(Nat) /\ Head(q) \in Nat /\ Head(q) = q[1]
           /\ ToSet(q) = ToSet(Tail(q)) \cup {Head(q)}
           /\ Inc(q) => Inc(Tail(q)) /\ Before({Head(q)}, ToSet(Tail(q)))
<1>1. PICK w : w = Tail(q)
      OBVIOUS
<1>2. PICK k : k = Len(q)
      OBVIOUS
<1>3. /\ w \in Seq(Nat) /\ k \in Nat /\ k >= 1 /\ DOMAIN q = 1 .. k /\ DOMAIN w = 1 .. k - 1 /\ Head(q) = q[1]
      /\ \A i \in 1 .. k - 1 : w[i] = q[i + 1]
      BY <1>1, <1>2
<1>4. \A j \in DOMAIN w : j + 1 \in DOMAIN q /\ w[j] = q[j + 1] /\ 1 < j + 1
      BY <1>3
<1>5. \A i \in DOMAIN q : i = 1 \/ (i - 1 \in DOMAIN w /\ q[i] = w[i - 1])
      <2> TAKE i \in DOMAIN q
      <2>1. CASE i # 1
            <3>1. i - 1 \in 1 .. k - 1 /\ (i - 1) + 1 = i
                  BY <1>3, <2>1
            <3> QED BY <1>3, <3>1
      <2> QED BY <2>1
<1>6. q[1] \in Nat /\ 1 \in DOMAIN q
      BY <1>3
<1>7. ToSet(q) = ToSet(w) \cup {q[1]}
      BY <1>4, <1>5, <1>6 DEF ToSet
<1>8. ASSUME Inc(q) PROVE Inc(w)
      <2>1. \A i, j \in DOMAIN w : i < j => i + 1 < j + 1
            BY <1>3
      <2> QED BY <1>4, <1>8, <2>1 DEF Inc
<1>9. ASSUME Inc(q) PROVE Before({q[1]}, ToSet(w))
      BY <1>4, <1>6, <1>9 DEF Inc, Before, ToSet
<1> QED BY <1>1, <1>3, <1>6, <1>7, <1>8, <1>9

LEMMA NAppend ==
    ASSUME NEW q \in Seq(Nat), NEW x \in Nat
    PROVE  /\ Append(q, x) \in Seq(Nat) /\ ToSet(Append(q, x)) = ToSet(q) \cup {x}
           /\ Len(Append(q, x)) = Len(q) + 1 /\ Len(q) \in Nat
           /\ (Inc(q) /\ Before(ToSet(q), {x})) => Inc(Append(q, x))
<1>1. PICK w : w = Append(q, x)
      OBVIOUS
<1>2. PICK k : k = Len(q)
      OBVIOUS
<1>3. /\ w \in Seq(Nat) /\ k \in Nat /\ DOMAIN q = 1 .. k /\ DOMAIN w = 1 .. k + 1 /\ w[k + 1] = x
      /\ Len(w) = k + 1 /\ \A i \in 1 .. k : w[i] = q[i]
      BY <1>1, <1>2
<1>4. \A i \in DOMAIN w : i = k + 1 \/ (i \in DOMAIN q /\ w[i] = q[i] /\ i < k + 1)
      BY <1>3
<1>5. k + 1 \in DOMAIN w /\ \A i \in DOMAIN q : i \in DOMAIN w /\ w[i] = q[i]
      BY <1>3
<1>6. ToSet(w) = ToSet(q) \cup {x}
      BY <1>3, <1>4, <1>5 DEF ToSet
<1>7. ASSUME Inc(q), Before(ToSet(q), {x}) PROVE Inc(w)
      <2> SUFFICES ASSUME NEW i \in DOMAIN w, NEW j \in DOMAIN w, i < j PROVE w[i] < w[j]
          BY DEF Inc
      <2>1. i \in DOMAIN q /\ w[i] = q[i] /\ q[i] \in ToSet(q)
            BY <1>3 DEF ToSet
      <2>2. CASE j = k + 1
            BY <1>3, <1>7, <2>1, <2>2 DEF Before
      <2>3. CASE j # k + 1
            <3>1. j \in DOMAIN q /\ w[j] = q[j]
                  BY <1>4, <2>3
            <3> QED BY <1>7, <2>1, <3>1 DEF Inc
      <2> QED BY <2>2, <2>3
<1> QED BY <1>1, <1>2, <1>3, <1>6, <1>7

-----------------------------------------------------------------------------
(***************************************************************************)
(* The frames: us and dr are the queues of the two sockets they travel on, *)
(* pd the early frames, dn those OnData is draining, g the ones handed     *)
(* over, k the number sent.                                                *)
(***************************************************************************)
Flight(us, dr, pd, dn, g, k) ==
    /\ Rising(us) /\ Rising(dr) /\ Inc(pd) /\ Inc(dn) /\ (pd = <<>> \/ dn = <<>>)
    /\ Before(Nums(dr), Nums(us))
    /\ Before(ToSet(pd) \cup ToSet(dn), Nums(us) \cup Nums(dr))
    /\ Nums(us) \cup Nums(dr) \cup ToSet(pd) \cup ToSet(dn) \subseteq (1 .. k) \ ToSet(g)
    /\ ToSet(g) \subseteq 1 .. k /\ IsFiniteSet(ToSet(g)) /\ Cardinality(ToSet(g)) = Len(g)

FlightOK ==
    /\ Flight(up["sender"], down["receiver"], cli["receiver"].pending, cli["receiver"].drain, got, sent)
    /\ Nums(up["receiver"]) = {} /\ Nums(down["sender"]) = {}
    /\ ~cli["receiver"].handler => cli["receiver"].drain = <<>> /\ got = <<>>
    /\ cli["receiver"].handler => cli["receiver"].pending = <<>>

\* Frames that are lost.
LEMMA FlightLess ==
    ASSUME NEW us, NEW dr, NEW us2, NEW dr2, NEW pd, NEW dn, NEW g, NEW k,
           Flight(us, dr, pd, dn, g, k), Rising(us2), Rising(dr2), Nums(us2) \subseteq Nums(us),
           Nums(dr2) \subseteq Nums(dr)
    PROVE  Flight(us2, dr2, pd, dn, g, k)
<1>1. Before(Nums(dr2), Nums(us2))
      BY DEF Flight, Before
<1>2. Before(ToSet(pd) \cup ToSet(dn), Nums(us2) \cup Nums(dr2))
      BY DEF Flight, Before
<1> QED BY <1>1, <1>2 DEF Flight

\* A frame goes from the sender's socket to the receiver's.
LEMMA FlightForward ==
    ASSUME NEW us \in Seq(Msgs), NEW dr \in Seq(Msgs), NEW pd, NEW dn, NEW g, NEW k,
           Flight(us, dr, pd, dn, g, k), us # <<>>, Head(us).type = "data"
    PROVE  Flight(Tail(us), Append(dr, Head(us)), pd, dn, g, k)
<1>1. PICK m : m = Head(us)
      OBVIOUS
<1>2. PICK w : w = Tail(us)
      OBVIOUS
<1>3. m \in Msgs /\ m.type = "data" /\ m.n \in Nums(us)
      BY <1>1, QHead
<1>4. Nums(us) = Nums(w) \cup {m.n} /\ Rising(w) /\ Before({m.n}, Nums(w))
      BY <1>1, <1>2, <1>3, QTail DEF Flight
<1>5. Before(Nums(dr), {m.n})
      BY <1>3 DEF Flight, Before
<1>6. PICK d : d = Append(dr, m)
      OBVIOUS
<1>7. Nums(d) = Nums(dr) \cup {m.n} /\ Rising(d)
      BY <1>3, <1>5, <1>6, QAppend DEF Flight
<1>8. Before(Nums(d), Nums(w))
      BY <1>4, <1>7 DEF Flight, Before
<1>9. Nums(w) \cup Nums(d) = Nums(us) \cup Nums(dr)
      BY <1>4, <1>7
<1>10. Before(ToSet(pd) \cup ToSet(dn), Nums(w) \cup Nums(d))
      BY <1>9 DEF Flight
<1>11. Nums(w) \cup Nums(d) \cup ToSet(pd) \cup ToSet(dn) \subseteq (1 .. k) \ ToSet(g)
      BY <1>9 DEF Flight
<1> QED BY <1>1, <1>2, <1>4, <1>6, <1>7, <1>8, <1>10, <1>11 DEF Flight

\* A new frame.
LEMMA FlightSend ==
    ASSUME NEW us \in Seq(Msgs), NEW dr, NEW pd, NEW dn, NEW g, NEW k \in Nat, NEW m \in Msgs,
           Flight(us, dr, pd, dn, g, k), m.type = "data", m.n = k + 1
    PROVE  Flight(Append(us, m), dr, pd, dn, g, k + 1)
<1>1. PICK w : w = Append(us, m)
      OBVIOUS
<1>2. Nums(us) \cup Nums(dr) \cup ToSet(pd) \cup ToSet(dn) \subseteq 1 .. k /\ ToSet(g) \subseteq 1 .. k
      BY DEF Flight
<1>3. Before(1 .. k, {k + 1})
      BY DEF Before
<1>4. Before(Nums(us), {m.n})
      BY <1>2, <1>3 DEF Before
<1>5. Nums(w) = Nums(us) \cup {k + 1} /\ Rising(w)
      BY <1>1, <1>4, QAppend DEF Flight
<1>6. Before(Nums(dr), Nums(w))
      BY <1>2, <1>3, <1>5 DEF Flight, Before
<1>7. Before(ToSet(pd) \cup ToSet(dn), Nums(w) \cup Nums(dr))
      BY <1>2, <1>3, <1>5 DEF Flight, Before
<1>8. 1 .. k \subseteq 1 .. k + 1 /\ k + 1 \in 1 .. k + 1 /\ k + 1 \notin 1 .. k
      OBVIOUS
<1>9. Nums(w) \cup Nums(dr) \cup ToSet(pd) \cup ToSet(dn) \subseteq (1 .. k + 1) \ ToSet(g)
      BY <1>2, <1>5, <1>8 DEF Flight
<1> QED BY <1>1, <1>2, <1>5, <1>6, <1>7, <1>8, <1>9 DEF Flight

\* A frame that arrives before OnData is kept.
LEMMA FlightEarly ==
    ASSUME NEW us, NEW dr \in Seq(Msgs), NEW pd \in Seq(Nat), NEW g, NEW k,
           Flight(us, dr, pd, <<>>, g, k), dr # <<>>, Head(dr).type = "data"
    PROVE  Flight(us, Tail(dr), Append(pd, Head(dr).n), <<>>, g, k)
<1>1. PICK m : m = Head(dr)
      OBVIOUS
<1>2. PICK w : w = Tail(dr)
      OBVIOUS
<1>3. m \in Msgs /\ m.type = "data" /\ m.n \in Nums(dr) /\ m.n \in Nat
      BY <1>1, QHead
<1>4. Nums(dr) = Nums(w) \cup {m.n} /\ Rising(w) /\ Before({m.n}, Nums(w))
      BY <1>1, <1>2, <1>3, QTail DEF Flight
<1>5. PICK p : p = Append(pd, m.n)
      OBVIOUS
<1>6. Before(ToSet(pd), {m.n}) /\ Before({m.n}, Nums(us))
      BY <1>3 DEF Flight, Before
<1>7. Inc(p) /\ ToSet(p) = ToSet(pd) \cup {m.n}
      BY <1>3, <1>5, <1>6, NAppend DEF Flight
<1>8. Before(ToSet(p) \cup ToSet(<<>>), Nums(us) \cup Nums(w))
      BY <1>4, <1>6, <1>7, NEmpty DEF Flight, Before
<1>9. Before(Nums(w), Nums(us))
      BY <1>4 DEF Flight, Before
<1>10. Nums(us) \cup Nums(w) \cup ToSet(p) \cup ToSet(<<>>) \subseteq (1 .. k) \ ToSet(g)
      BY <1>4, <1>7 DEF Flight
<1> QED BY <1>1, <1>2, <1>4, <1>5, <1>7, <1>8, <1>9, <1>10 DEF Flight

\* OnData takes over the early frames.
LEMMA FlightOnData ==
    ASSUME NEW us, NEW dr, NEW pd, NEW g, NEW k, Flight(us, dr, pd, <<>>, g, k)
    PROVE  Flight(us, dr, <<>>, pd, g, k)
<1>1. ToSet(pd) \cup ToSet(<<>>) = ToSet(<<>>) \cup ToSet(pd)
      OBVIOUS
<1> QED BY <1>1 DEF Flight

\* One more frame is handed over.
LEMMA GotOne ==
    ASSUME NEW g \in Seq(Nat), NEW k \in Nat, NEW x \in (1 .. k) \ ToSet(g),
           ToSet(g) \subseteq 1 .. k, IsFiniteSet(ToSet(g)), Cardinality(ToSet(g)) = Len(g)
    PROVE  LET h == Append(g, x)
           IN  /\ h \in Seq(Nat) /\ ToSet(h) = ToSet(g) \cup {x} /\ Len(h) = Len(g) + 1 /\ Len(g) \in Nat
               /\ ToSet(h) \subseteq 1 .. k /\ IsFiniteSet(ToSet(h)) /\ Cardinality(ToSet(h)) = Len(h)
<1>1. x \in Nat
      OBVIOUS
<1>2. PICK h : h = Append(g, x)
      OBVIOUS
<1>3. h \in Seq(Nat) /\ ToSet(h) = ToSet(g) \cup {x} /\ Len(h) = Len(g) + 1 /\ Len(g) \in Nat
      BY <1>1, <1>2, NAppend
<1>4. IsFiniteSet(ToSet(g) \cup {x}) /\ Cardinality(ToSet(g) \cup {x}) = Cardinality(ToSet(g)) + 1
      BY FS_AddElement
<1> QED BY <1>2, <1>3, <1>4

LEMMA FlightHandle ==
    ASSUME NEW us, NEW dr \in Seq(Msgs), NEW dn, NEW g \in Seq(Nat), NEW k \in Nat,
           Flight(us, dr, <<>>, dn, g, k), dr # <<>>, Head(dr).type = "data"
    PROVE  Head(dr).n \in (1 .. k) \ ToSet(g) /\ Flight(us, Tail(dr), <<>>, dn, Append(g, Head(dr).n), k)
<1>1. PICK m : m = Head(dr)
      OBVIOUS
<1>2. PICK w : w = Tail(dr)
      OBVIOUS
<1>3. m \in Msgs /\ m.type = "data" /\ m.n \in Nums(dr) /\ m.n \in Nat
      BY <1>1, QHead
<1>4. Nums(dr) = Nums(w) \cup {m.n} /\ Rising(w) /\ Before({m.n}, Nums(w))
      BY <1>1, <1>2, <1>3, QTail DEF Flight
<1>5. m.n \in (1 .. k) \ ToSet(g)
      BY <1>3 DEF Flight
<1>6. PICK h : h = Append(g, m.n)
      OBVIOUS
<1>7. ToSet(h) = ToSet(g) \cup {m.n} /\ ToSet(h) \subseteq 1 .. k /\ IsFiniteSet(ToSet(h))
      /\ Cardinality(ToSet(h)) = Len(h)
      BY <1>5, <1>6, GotOne DEF Flight
<1>8. Flight(us, w, <<>>, dn, g, k)
      BY <1>4, FlightLess DEF Flight
<1>9. m.n \notin Nums(w) /\ m.n \notin Nums(us) /\ m.n \notin ToSet(dn) /\ m.n \notin ToSet(<<>>)
      <2>1. Before({m.n}, Nums(us)) /\ Before(ToSet(dn), {m.n})
            BY <1>3 DEF Flight, Before
      <2>2. ~(m.n < m.n)
            BY <1>3
      <2> QED BY <1>4, <2>1, <2>2, NEmpty DEF Before
<1>10. Nums(us) \cup Nums(w) \cup ToSet(<<>>) \cup ToSet(dn) \subseteq (1 .. k) \ ToSet(h)
      BY <1>7, <1>8, <1>9 DEF Flight
<1> QED BY <1>1, <1>2, <1>5, <1>6, <1>7, <1>8, <1>10 DEF Flight

LEMMA FlightDrain ==
    ASSUME NEW us, NEW dr, NEW dn \in Seq(Nat), NEW g \in Seq(Nat), NEW k \in Nat,
           Flight(us, dr, <<>>, dn, g, k), dn # <<>>
    PROVE  Head(dn) \in (1 .. k) \ ToSet(g) /\ Flight(us, dr, <<>>, Tail(dn), Append(g, Head(dn)), k)
<1>1. PICK x : x = Head(dn)
      OBVIOUS
<1>2. PICK w : w = Tail(dn)
      OBVIOUS
<1>3. x \in Nat /\ ToSet(dn) = ToSet(w) \cup {x} /\ Inc(w) /\ Before({x}, ToSet(w))
      BY <1>1, <1>2, NTail DEF Flight
<1>4. x \in (1 .. k) \ ToSet(g)
      BY <1>3 DEF Flight
<1>5. PICK h : h = Append(g, x)
      OBVIOUS
<1>6. ToSet(h) = ToSet(g) \cup {x} /\ ToSet(h) \subseteq 1 .. k /\ IsFiniteSet(ToSet(h))
      /\ Cardinality(ToSet(h)) = Len(h)
      BY <1>4, <1>5, GotOne DEF Flight
<1>7. x \notin Nums(dr) /\ x \notin Nums(us) /\ x \notin ToSet(w) /\ x \notin ToSet(<<>>)
      <2>1. Before({x}, Nums(us) \cup Nums(dr))
            BY <1>3 DEF Flight, Before
      <2>2. ~(x < x)
            BY <1>3
      <2> QED BY <1>3, <2>1, <2>2, NEmpty DEF Before
<1>8. Before(ToSet(<<>>) \cup ToSet(w), Nums(us) \cup Nums(dr))
      BY <1>3 DEF Flight, Before
<1>9. Nums(us) \cup Nums(dr) \cup ToSet(<<>>) \cup ToSet(w) \subseteq (1 .. k) \ ToSet(h)
      BY <1>3, <1>6, <1>7 DEF Flight
<1> QED BY <1>1, <1>2, <1>3, <1>4, <1>5, <1>6, <1>8, <1>9 DEF Flight

-----------------------------------------------------------------------------
(***************************************************************************)
(* Credit: c is the sender's, ds and ur the queues that carry it, k what   *)
(* the receiver has not returned yet, rd whether it has made its first     *)
(* grant, s the frames sent and l those handed over.                       *)
(***************************************************************************)
Money(c, ds, ur, k, rd, s, l) ==
    \E a, b \in Nat : /\ CreditTotal(ds, a) /\ CreditTotal(ur, b)
                      /\ c + a + b + k + (IF rd THEN 0 ELSE ClientWindow) + s <= ClientWindow + l

\* Credit and the frames that are out never exceed one window.
Budget == Money(cli["sender"].credit, down["sender"], up["receiver"], cli["receiver"].consumed,
                cli["receiver"].ready, sent, Len(got))

FewFrames(q2, q) == Nums(q2) \subseteq Nums(q) /\ (Rising(q) => Rising(q2))

LessCredit(q2, q) == \A a \in Nat : CreditTotal(q, a) => \E b \in 0 .. a : CreditTotal(q2, b)

Fewer(q2, q) == FewFrames(q2, q) /\ LessCredit(q2, q)

LEMMA LessFew ==
    ASSUME NEW q \in Seq(Msgs)
    PROVE  /\ Fewer(q, q) /\ Fewer(<<>>, q)
           /\ q # <<>> => Fewer(Tail(q), q)
           /\ \A m \in Msgs : m.type # "data" => FewFrames(Append(q, m), q)
           /\ \A m \in Msgs : m.type # "credit" => LessCredit(Append(q, m), q)
<1>1. Fewer(q, q)
      BY DEF Fewer, FewFrames, LessCredit
<1>2. Fewer(<<>>, q)
      <2>1. \A a \in Nat : 0 \in 0 .. a
            OBVIOUS
      <2> QED BY <2>1, QEmpty DEF Fewer, FewFrames, LessCredit
<1>3. ASSUME q # <<>> PROVE Fewer(Tail(q), q)
      <2>1. FewFrames(Tail(q), q)
            BY <1>3, QTail DEF FewFrames
      <2>2. Head(q) \in Msgs
            BY <1>3, QHead
      <2>3. CreditOf(Head(q)) \in Nat
            BY <2>2, Weights
      <2>4. ASSUME NEW a \in Nat, CreditTotal(q, a) PROVE \E b \in 0 .. a : CreditTotal(Tail(q), b)
            <3>1. CreditOf(Head(q)) <= a /\ CreditTotal(Tail(q), a - CreditOf(Head(q)))
                  BY <1>3, <2>4, QTailTotals
            <3>2. a - CreditOf(Head(q)) \in 0 .. a
                  BY <2>3, <3>1
            <3> QED BY <3>1, <3>2
      <2> QED BY <2>1, <2>4 DEF Fewer, LessCredit
<1>4. ASSUME NEW m \in Msgs, m.type # "data" PROVE FewFrames(Append(q, m), q)
      BY <1>4, QAppend DEF FewFrames
<1>5. ASSUME NEW m \in Msgs, m.type # "credit", NEW a \in Nat, CreditTotal(q, a)
      PROVE  \E b \in 0 .. a : CreditTotal(Append(q, m), b)
      <2>1. CreditOf(m) = 0
            BY <1>5 DEF CreditOf
      <2>2. CreditTotal(Append(q, m), a + 0) /\ a + 0 = a /\ a \in 0 .. a
            BY <1>5, <2>1, QAppendTotals
      <2> QED BY <2>2
<1> QED BY <1>1, <1>2, <1>3, <1>4, <1>5 DEF LessCredit

LEMMA MoneyLess ==
    ASSUME NEW c \in Nat, NEW ds, NEW ur, NEW k \in Nat, NEW rd \in BOOLEAN, NEW s \in Nat, NEW l \in Nat,
           NEW ds2, NEW ur2, Money(c, ds, ur, k, rd, s, l), LessCredit(ds2, ds), LessCredit(ur2, ur)
    PROVE  Money(c, ds2, ur2, k, rd, s, l)
<1>1. PICK e : e = IF rd THEN 0 ELSE ClientWindow
      OBVIOUS
<1>2. e \in Nat /\ ClientWindow \in Nat
      BY <1>1, RelayAssumption
<1>3. PICK a \in Nat, b \in Nat : CreditTotal(ds, a) /\ CreditTotal(ur, b) /\ c + a + b + k + e + s <= ClientWindow + l
      BY <1>1 DEF Money
<1>4. PICK a2 \in 0 .. a : CreditTotal(ds2, a2)
      BY <1>3 DEF LessCredit
<1>5. PICK b2 \in 0 .. b : CreditTotal(ur2, b2)
      BY <1>3 DEF LessCredit
<1>6. a2 \in Nat /\ b2 \in Nat /\ c + a2 + b2 + k + e + s <= ClientWindow + l
      BY <1>2, <1>3
<1> QED BY <1>1, <1>4, <1>5, <1>6 DEF Money

\* HandleCredit of the sender.
LEMMA MoneyArrives ==
    ASSUME NEW c \in Nat, NEW ds \in Seq(Msgs), NEW ur, NEW k \in Nat, NEW rd \in BOOLEAN, NEW s \in Nat,
           NEW l \in Nat, Money(c, ds, ur, k, rd, s, l), ds # <<>>, Head(ds).type = "credit"
    PROVE  Money(c + Head(ds).n, Tail(ds), ur, k, rd, s, l)
<1>1. PICK e : e = IF rd THEN 0 ELSE ClientWindow
      OBVIOUS
<1>2. e \in Nat /\ ClientWindow \in Nat
      BY <1>1, RelayAssumption
<1>3. PICK a \in Nat, b \in Nat : CreditTotal(ds, a) /\ CreditTotal(ur, b) /\ c + a + b + k + e + s <= ClientWindow + l
      BY <1>1 DEF Money
<1>4. Head(ds).n \in Nat /\ CreditOf(Head(ds)) = Head(ds).n
      <2>1. Head(ds).n \in Nat
            BY QHead
      <2> QED BY <2>1 DEF CreditOf
<1>5. Head(ds).n <= a /\ CreditTotal(Tail(ds), a - Head(ds).n)
      BY <1>3, <1>4, QTailTotals
<1>6. PICK n \in Nat : n = Head(ds).n
      BY <1>4
<1>7. a - n \in Nat /\ (c + n) + (a - n) + b + k + e + s <= ClientWindow + l
      <2>1. n <= a /\ c + a + b + k + e + s <= ClientWindow + l
            BY <1>3, <1>5, <1>6
      <2> QED BY <1>2, <2>1
<1> QED BY <1>1, <1>3, <1>5, <1>6, <1>7 DEF Money

\* The credit in two queues has not grown.
NoMore(ds2, ur2, ds, ur) ==
    \A a, b \in Nat : (CreditTotal(ds, a) /\ CreditTotal(ur, b))
                        => \E a2, b2 \in Nat : CreditTotal(ds2, a2) /\ CreditTotal(ur2, b2) /\ a2 + b2 <= a + b

LEMMA MoneyMoved ==
    ASSUME NEW c \in Nat, NEW ds, NEW ur, NEW k \in Nat, NEW rd \in BOOLEAN, NEW s \in Nat, NEW l \in Nat,
           NEW ds2, NEW ur2, Money(c, ds, ur, k, rd, s, l), NoMore(ds2, ur2, ds, ur)
    PROVE  Money(c, ds2, ur2, k, rd, s, l)
<1>1. PICK e : e = IF rd THEN 0 ELSE ClientWindow
      OBVIOUS
<1>2. e \in Nat /\ ClientWindow \in Nat
      BY <1>1, RelayAssumption
<1>3. PICK a \in Nat, b \in Nat : CreditTotal(ds, a) /\ CreditTotal(ur, b) /\ c + a + b + k + e + s <= ClientWindow + l
      BY <1>1 DEF Money
<1>4. PICK a2 \in Nat, b2 \in Nat : CreditTotal(ds2, a2) /\ CreditTotal(ur2, b2) /\ a2 + b2 <= a + b
      BY <1>3 DEF NoMore
<1>5. c + a2 + b2 + k + e + s <= ClientWindow + l
      BY <1>2, <1>3, <1>4
<1> QED BY <1>1, <1>4, <1>5 DEF Money

\* grantRelayCredit: the receiver's grant goes on, or a part of it.
LEMMA Granting ==
    ASSUME NEW ds \in Seq(Msgs), NEW ur \in Seq(Msgs), NEW n \in Nat, ur # <<>>, Head(ur).type = "credit",
           n <= Head(ur).n
    PROVE  NoMore(Append(ds, Msg("credit", n)), Tail(ur), ds, ur)
<1> SUFFICES ASSUME NEW a \in Nat, NEW b \in Nat, CreditTotal(ds, a), CreditTotal(ur, b)
             PROVE  \E a2, b2 \in Nat : /\ CreditTotal(Append(ds, Msg("credit", n)), a2) /\ CreditTotal(Tail(ur), b2)
                                        /\ a2 + b2 <= a + b
    BY DEF NoMore
<1>1. Head(ur).n \in Nat
      BY QHead
<1>2. CreditOf(Head(ur)) = Head(ur).n
      BY DEF CreditOf
<1>3. Head(ur).n <= b /\ CreditTotal(Tail(ur), b - Head(ur).n)
      BY <1>2, QTailTotals
<1>4. Msg("credit", n) \in Msgs /\ CreditOf(Msg("credit", n)) = n
      BY DEF Msg, Msgs, MsgTypes, CreditOf
<1>5. CreditTotal(Append(ds, Msg("credit", n)), a + n)
      BY <1>4, QAppendTotals
<1>6. PICK h \in Nat : h = Head(ur).n
      BY <1>1
<1>7. b - h \in Nat /\ a + n \in Nat /\ (a + n) + (b - h) <= a + b
      <2>1. h <= b /\ n <= h
            BY <1>3, <1>6
      <2> QED BY <2>1
<1> QED BY <1>3, <1>5, <1>6, <1>7

\* The receiver's side: a queue with a grant of n more, or none if the socket is closed.
MoreBy(ur2, ur, n) ==
    \A b \in Nat : CreditTotal(ur, b) => \E b2 \in Nat : CreditTotal(ur2, b2) /\ b2 <= b + n

LEMMA MoreSaid ==
    ASSUME NEW ur \in Seq(Msgs), NEW n \in Nat
    PROVE  MoreBy(ur, ur, n) /\ MoreBy(Append(ur, Msg("credit", n)), ur, n)
<1>1. MoreBy(ur, ur, n)
      <2>1. \A b \in Nat : b <= b + n
            OBVIOUS
      <2> QED BY <2>1 DEF MoreBy
<1>2. Msg("credit", n) \in Msgs /\ CreditOf(Msg("credit", n)) = n
      BY DEF Msg, Msgs, MsgTypes, CreditOf
<1>3. ASSUME NEW b \in Nat, CreditTotal(ur, b)
      PROVE  \E b2 \in Nat : CreditTotal(Append(ur, Msg("credit", n)), b2) /\ b2 <= b + n
      <2>1. CreditTotal(Append(ur, Msg("credit", n)), b + n)
            BY <1>2, <1>3, QAppendTotals
      <2>2. b + n \in Nat /\ b + n <= b + n
            OBVIOUS
      <2> QED BY <2>1, <2>2
<1> QED BY <1>1, <1>3 DEF MoreBy

\* The first grant of the receiver.
LEMMA MoneyReady ==
    ASSUME NEW c \in Nat, NEW ds, NEW ur, NEW k \in Nat, NEW s \in Nat, NEW l \in Nat, NEW ur2,
           Money(c, ds, ur, k, FALSE, s, l), MoreBy(ur2, ur, ClientWindow)
    PROVE  Money(c, ds, ur2, k, TRUE, s, l)
<1>1. ClientWindow \in Nat
      BY RelayAssumption
<1>2. PICK a \in Nat, b \in Nat : /\ CreditTotal(ds, a) /\ CreditTotal(ur, b)
                                  /\ c + a + b + k + ClientWindow + s <= ClientWindow + l
      BY DEF Money
<1>3. PICK b2 \in Nat : CreditTotal(ur2, b2) /\ b2 <= b + ClientWindow
      BY <1>2 DEF MoreBy
<1>4. c + a + b2 + k + 0 + s <= ClientWindow + l
      BY <1>1, <1>2, <1>3
<1> QED BY <1>2, <1>3, <1>4 DEF Money

\* consume: a frame is handed over, and what it used is kept or returned.
HandsOver(ur2, ur, k2, k, l2, l) == k2 = Consume(k).left /\ MoreBy(ur2, ur, Consume(k).grant) /\ l2 = l + 1

LEMMA MoneyConsumed ==
    ASSUME NEW c \in Nat, NEW ds, NEW ur, NEW k \in Nat, NEW rd \in BOOLEAN, NEW s \in Nat, NEW l \in Nat, NEW ur2,
           NEW k2, NEW l2, Money(c, ds, ur, k, rd, s, l), HandsOver(ur2, ur, k2, k, l2, l)
    PROVE  Money(c, ds, ur2, k2, rd, s, l2)
<1>1. PICK e : e = IF rd THEN 0 ELSE ClientWindow
      OBVIOUS
<1>2. e \in Nat /\ ClientWindow \in Nat
      BY <1>1, RelayAssumption
<1>3. PICK a \in Nat, b \in Nat : CreditTotal(ds, a) /\ CreditTotal(ur, b) /\ c + a + b + k + e + s <= ClientWindow + l
      BY <1>1 DEF Money
<1>4. PICK n : n = Consume(k).grant
      OBVIOUS
<1>5. n \in Nat /\ k2 \in Nat /\ k2 + n = k + 1 /\ l2 = l + 1
      BY <1>4 DEF Consume, HandsOver
<1>6. PICK b2 \in Nat : CreditTotal(ur2, b2) /\ b2 <= b + n
      BY <1>3, <1>4 DEF MoreBy, HandsOver
<1>7. c + a + b2 + k2 + e + s <= ClientWindow + l2
      BY <1>2, <1>3, <1>5, <1>6
<1> QED BY <1>1, <1>3, <1>6, <1>7 DEF Money

\* Send.
LEMMA MoneySpent ==
    ASSUME NEW c \in Nat, NEW ds, NEW ur, NEW k \in Nat, NEW rd \in BOOLEAN, NEW s \in Nat, NEW l \in Nat,
           Money(c, ds, ur, k, rd, s, l), c >= 1
    PROVE  s < ClientWindow + l /\ Money(c - 1, ds, ur, k, rd, s + 1, l)
<1>1. PICK e : e = IF rd THEN 0 ELSE ClientWindow
      OBVIOUS
<1>2. e \in Nat /\ ClientWindow \in Nat
      BY <1>1, RelayAssumption
<1>3. PICK a \in Nat, b \in Nat : CreditTotal(ds, a) /\ CreditTotal(ur, b) /\ c + a + b + k + e + s <= ClientWindow + l
      BY <1>1 DEF Money
<1>4. s < ClientWindow + l /\ (c - 1) + a + b + k + e + (s + 1) <= ClientWindow + l
      BY <1>2, <1>3
<1> QED BY <1>1, <1>3, <1>4 DEF Money

-----------------------------------------------------------------------------
(***************************************************************************)
(* Order, while nothing is lost: ns are the numbers of the frames under    *)
(* way.                                                                    *)
(***************************************************************************)
InOrder(ns, pd, dn, g, k) ==
    /\ ToSet(g) = 1 .. Len(g)
    /\ \A i \in DOMAIN dn : dn[i] = Len(g) + i
    /\ \A i \in DOMAIN pd : pd[i] = Len(g) + i
    /\ ns = Len(g) + Len(dn) + Len(pd) + 1 .. k
    /\ Len(g) + Len(dn) + Len(pd) <= k

LEMMA FirstOf ==
    ASSUME NEW j \in Nat, NEW k \in Nat, NEW ns, NEW n, n \notin ns, Before({n}, ns), ns \cup {n} = j .. k
    PROVE  n = j /\ ns = j + 1 .. k /\ j <= k
<1>1. n \in j .. k
      OBVIOUS
<1>2. j \in j .. k
      BY <1>1
<1>3. n = j
      <2>1. SUFFICES ASSUME n # j PROVE FALSE
            OBVIOUS
      <2>2. n < j
            BY <1>2, <2>1 DEF Before
      <2> QED BY <1>1, <2>2
<1>4. ns = (j .. k) \ {n}
      OBVIOUS
<1> QED BY <1>1, <1>3, <1>4

LEMMA OrderSend ==
    ASSUME NEW ns, NEW pd \in Seq(Nat), NEW dn \in Seq(Nat), NEW g \in Seq(Nat), NEW k \in Nat,
           InOrder(ns, pd, dn, g, k)
    PROVE  InOrder(ns \cup {k + 1}, pd, dn, g, k + 1)
<1>1. PICK l : l = Len(g) + Len(dn) + Len(pd)
      OBVIOUS
<1>2. l \in Nat
      BY <1>1
<1>3. l <= k /\ ns = l + 1 .. k
      BY <1>1 DEF InOrder
<1>4. l <= k + 1 /\ ns \cup {k + 1} = l + 1 .. k + 1
      BY <1>2, <1>3
<1> QED BY <1>1, <1>4 DEF InOrder

LEMMA OrderEarly ==
    ASSUME NEW ns, NEW n, NEW pd \in Seq(Nat), NEW g \in Seq(Nat), NEW k \in Nat,
           n \notin ns, Before({n}, ns), InOrder(ns \cup {n}, pd, <<>>, g, k)
    PROVE  Len(pd) + 1 + Len(g) <= k /\ InOrder(ns, Append(pd, n), <<>>, g, k)
<1>1. PICK p : p = Append(pd, n)
      OBVIOUS
<1>2. PICK l : l = Len(g)
      OBVIOUS
<1>3. PICK e : e = Len(pd)
      OBVIOUS
<1>4. l \in Nat /\ e \in Nat /\ l + e + 1 \in Nat
      BY <1>2, <1>3
<1>5. ns \cup {n} = l + e + 1 .. k
      <2>1. ns \cup {n} = l + 0 + e + 1 .. k
            BY <1>2, <1>3 DEF InOrder
      <2> QED BY <1>4, <2>1
<1>6. n = l + e + 1 /\ ns = l + e + 1 + 1 .. k /\ l + e + 1 <= k
      BY <1>4, <1>5, FirstOf
<1>7. Len(p) = e + 1 /\ DOMAIN p = 1 .. e + 1 /\ p[e + 1] = n /\ \A i \in 1 .. e : p[i] = pd[i]
      BY <1>1, <1>3
<1>8. \A i \in DOMAIN p : p[i] = l + i
      <2>1. \A i \in 1 .. e : pd[i] = l + i
            <3>1. DOMAIN pd = 1 .. e
                  BY <1>3
            <3> QED BY <1>2, <3>1 DEF InOrder
      <2>2. p[e + 1] = l + (e + 1)
            BY <1>4, <1>6, <1>7
      <2>3. \A i \in 1 .. e + 1 : i \in 1 .. e \/ i = e + 1
            BY <1>4
      <2> QED BY <1>7, <2>1, <2>2, <2>3
<1>9. l + 0 + (e + 1) <= k /\ ns = l + 0 + (e + 1) + 1 .. k /\ e + 1 + l <= k
      BY <1>4, <1>6
<1>10. Len(<<>>) = 0 /\ \A i \in DOMAIN <<>> : <<>>[i] = l + i
      OBVIOUS
<1>11. ToSet(g) = 1 .. Len(g)
      BY DEF InOrder
<1> QED BY <1>1, <1>2, <1>3, <1>7, <1>8, <1>9, <1>10, <1>11 DEF InOrder

LEMMA OrderOnData ==
    ASSUME NEW ns, NEW pd \in Seq(Nat), NEW g \in Seq(Nat), NEW k \in Nat, InOrder(ns, pd, <<>>, g, k)
    PROVE  InOrder(ns, <<>>, pd, g, k)
<1>1. Len(g) + Len(<<>>) + Len(pd) = Len(g) + Len(pd) + Len(<<>>)
      OBVIOUS
<1> QED BY <1>1 DEF InOrder

LEMMA OrderHandle ==
    ASSUME NEW ns, NEW n \in Nat, NEW g \in Seq(Nat), NEW k \in Nat,
           n \notin ns, Before({n}, ns), InOrder(ns \cup {n}, <<>>, <<>>, g, k)
    PROVE  n = Len(g) + 1 /\ InOrder(ns, <<>>, <<>>, Append(g, n), k)
<1>1. PICK h : h = Append(g, n)
      OBVIOUS
<1>2. PICK l : l = Len(g)
      OBVIOUS
<1>3. l \in Nat /\ l + 1 \in Nat
      BY <1>2
<1>4. ns \cup {n} = l + 1 .. k
      <2>1. ns \cup {n} = l + 0 + 0 + 1 .. k
            BY <1>2 DEF InOrder
      <2> QED BY <1>3, <2>1
<1>5. n = l + 1 /\ ns = l + 1 + 1 .. k /\ l + 1 <= k
      BY <1>3, <1>4, FirstOf
<1>6. Len(h) = l + 1 /\ ToSet(h) = ToSet(g) \cup {n}
      BY <1>1, <1>2, NAppend
<1>7. ToSet(h) = 1 .. l + 1
      <2>1. ToSet(g) = 1 .. l
            BY <1>2 DEF InOrder
      <2> QED BY <1>3, <1>5, <1>6, <2>1
<1>8. (l + 1) + 0 + 0 <= k /\ ns = (l + 1) + 0 + 0 + 1 .. k
      BY <1>3, <1>5
<1>9. Len(<<>>) = 0 /\ \A i \in DOMAIN <<>> : <<>>[i] = Len(h) + i
      OBVIOUS
<1> QED BY <1>1, <1>2, <1>5, <1>6, <1>7, <1>8, <1>9 DEF InOrder

LEMMA OrderDrain ==
    ASSUME NEW ns, NEW dn \in Seq(Nat), NEW g \in Seq(Nat), NEW k \in Nat,
           dn # <<>>, InOrder(ns, <<>>, dn, g, k)
    PROVE  Head(dn) = Len(g) + 1 /\ InOrder(ns, <<>>, Tail(dn), Append(g, Head(dn)), k)
<1>1. PICK n : n = Head(dn)
      OBVIOUS
<1>2. PICK h : h = Append(g, n)
      OBVIOUS
<1>3. PICK w : w = Tail(dn)
      OBVIOUS
<1>4. PICK l : l = Len(g)
      OBVIOUS
<1>5. PICK e : e = Len(dn)
      OBVIOUS
<1>6. l \in Nat /\ e \in Nat /\ e >= 1
      BY <1>4, <1>5
<1>7. n = l + 1 /\ n \in Nat
      <2>1. n = dn[1] /\ 1 \in DOMAIN dn
            BY <1>1
      <2>2. dn[1] = l + 1
            BY <1>4, <2>1 DEF InOrder
      <2> QED BY <1>6, <2>1, <2>2
<1>8. Len(h) = l + 1 /\ ToSet(h) = ToSet(g) \cup {n}
      BY <1>2, <1>4, <1>7, NAppend
<1>9. ToSet(h) = 1 .. l + 1
      <2>1. ToSet(g) = 1 .. l
            BY <1>4 DEF InOrder
      <2> QED BY <1>6, <1>7, <1>8, <2>1
<1>10. Len(w) = e - 1 /\ DOMAIN w = 1 .. e - 1 /\ \A i \in 1 .. e - 1 : w[i] = dn[i + 1]
      BY <1>3, <1>5
<1>11. \A i \in DOMAIN w : w[i] = (l + 1) + i
      <2>1. \A i \in 1 .. e - 1 : i + 1 \in DOMAIN dn /\ l + (i + 1) = (l + 1) + i
            BY <1>5, <1>6
      <2>2. \A i \in DOMAIN dn : dn[i] = l + i
            BY <1>4 DEF InOrder
      <2> QED BY <1>10, <2>1, <2>2
<1>12. l + e + 0 <= k /\ ns = l + e + 0 + 1 .. k
      BY <1>4, <1>5 DEF InOrder
<1>13. (l + 1) + (e - 1) + 0 = l + e + 0
      BY <1>6
<1>14. Len(<<>>) = 0 /\ \A i \in DOMAIN <<>> : <<>>[i] = Len(h) + i
      OBVIOUS
<1> QED BY <1>1, <1>2, <1>3, <1>4, <1>7, <1>8, <1>9, <1>10, <1>11, <1>12, <1>13, <1>14 DEF InOrder

-----------------------------------------------------------------------------
(***************************************************************************)
(* The server's account of the sender, while nothing is lost: sc is its    *)
(* credit, and ow whether a forwarded frame is still to be charged.        *)
(***************************************************************************)
Account(c, ds, us, sc, ow) ==
    \E a, d \in Nat : /\ CreditTotal(ds, a) /\ FrameTotal(us, d)
                      /\ sc = c + a + d + (IF ow = "yes" THEN 1 ELSE 0)

\* Messages that carry no credit, or no frame.
SameFrames(q2, q) ==
    /\ Nums(q2) = Nums(q) /\ (Rising(q) => Rising(q2))
    /\ \A d \in Nat : FrameTotal(q, d) => FrameTotal(q2, d)

SameCredit(q2, q) == \A a \in Nat : CreditTotal(q, a) => CreditTotal(q2, a)

LEMMA SameQ ==
    ASSUME NEW q \in Seq(Msgs), NEW m \in Msgs
    PROVE  /\ SameFrames(q, q) /\ SameCredit(q, q)
           /\ m.type # "data" => SameFrames(Append(q, m), q)
           /\ m.type # "credit" => SameCredit(Append(q, m), q)
           /\ (q # <<>> /\ Head(q).type # "data") => SameFrames(Tail(q), q)
           /\ (q # <<>> /\ Head(q).type # "credit") => SameCredit(Tail(q), q)
<1>1. SameFrames(q, q) /\ SameCredit(q, q)
      BY DEF SameFrames, SameCredit
<1>2. \A a \in Nat : a + 0 = a /\ a - 0 = a
      OBVIOUS
<1>3. ASSUME m.type # "credit", NEW a \in Nat, CreditTotal(q, a) PROVE CreditTotal(Append(q, m), a)
      <2>1. CreditOf(m) = 0
            BY <1>3 DEF CreditOf
      <2> QED BY <1>2, <1>3, <2>1, QAppendTotals
<1>4. ASSUME m.type # "data", NEW d \in Nat, FrameTotal(q, d) PROVE FrameTotal(Append(q, m), d)
      <2>1. FrameOf(m) = 0
            BY <1>4 DEF FrameOf
      <2> QED BY <1>2, <1>4, <2>1, QAppendTotals
<1>5. ASSUME q # <<>>, Head(q).type # "credit", NEW a \in Nat, CreditTotal(q, a) PROVE CreditTotal(Tail(q), a)
      <2>1. CreditOf(Head(q)) = 0
            BY <1>5 DEF CreditOf
      <2> QED BY <1>2, <1>5, <2>1, QTailTotals
<1>6. ASSUME q # <<>>, Head(q).type # "data", NEW d \in Nat, FrameTotal(q, d) PROVE FrameTotal(Tail(q), d)
      <2>1. FrameOf(Head(q)) = 0
            BY <1>6 DEF FrameOf
      <2> QED BY <1>2, <1>6, <2>1, QTailTotals
<1>7. ASSUME m.type # "data" PROVE SameFrames(Append(q, m), q)
      BY <1>4, <1>7, QAppend DEF SameFrames
<1>8. ASSUME q # <<>>, Head(q).type # "data" PROVE SameFrames(Tail(q), q)
      BY <1>6, <1>8, QTail DEF SameFrames
<1> QED BY <1>1, <1>3, <1>5, <1>7, <1>8 DEF SameCredit

LEMMA SameIsLess ==
    ASSUME NEW q, NEW q2
    PROVE  (SameFrames(q2, q) => FewFrames(q2, q)) /\ (SameCredit(q2, q) => LessCredit(q2, q))
<1>1. \A a \in Nat : a \in 0 .. a
      OBVIOUS
<1> QED BY <1>1 DEF SameFrames, FewFrames, SameCredit, LessCredit

LEMMA AccountSame ==
    ASSUME NEW c, NEW ds, NEW us, NEW sc, NEW ow, NEW ds2, NEW us2,
           Account(c, ds, us, sc, ow), SameCredit(ds2, ds), SameFrames(us2, us)
    PROVE  Account(c, ds2, us2, sc, ow)
BY DEF Account, SameCredit, SameFrames

\* HandleCredit of the sender.
LEMMA AccountArrives ==
    ASSUME NEW c \in Nat, NEW ds \in Seq(Msgs), NEW us, NEW sc \in Nat, NEW ow,
           Account(c, ds, us, sc, ow), ds # <<>>, Head(ds).type = "credit"
    PROVE  Account(c + Head(ds).n, Tail(ds), us, sc, ow)
<1>1. PICK o : o = IF ow = "yes" THEN 1 ELSE 0
      OBVIOUS
<1>2. o \in Nat
      BY <1>1
<1>3. PICK a \in Nat, d \in Nat : CreditTotal(ds, a) /\ FrameTotal(us, d) /\ sc = c + a + d + o
      BY <1>1 DEF Account
<1>4. Head(ds).n \in Nat
      BY QHead
<1>5. CreditOf(Head(ds)) = Head(ds).n
      BY DEF CreditOf
<1>6. Head(ds).n <= a /\ CreditTotal(Tail(ds), a - Head(ds).n)
      BY <1>3, <1>5, QTailTotals
<1>7. PICK n \in Nat : n = Head(ds).n
      BY <1>4
<1>8. a - n \in Nat /\ sc = (c + n) + (a - n) + d + o
      <2>1. n <= a
            BY <1>6, <1>7
      <2> QED BY <1>2, <1>3, <2>1
<1> QED BY <1>1, <1>3, <1>6, <1>7, <1>8 DEF Account

\* grantRelayCredit for the sender.
LEMMA AccountGranted ==
    ASSUME NEW c \in Nat, NEW ds \in Seq(Msgs), NEW us, NEW sc \in Nat, NEW ow, NEW n \in Nat,
           Account(c, ds, us, sc, ow)
    PROVE  Account(c, Append(ds, Msg("credit", n)), us, sc + n, ow)
<1>1. PICK o : o = IF ow = "yes" THEN 1 ELSE 0
      OBVIOUS
<1>2. o \in Nat
      BY <1>1
<1>3. PICK a \in Nat, d \in Nat : CreditTotal(ds, a) /\ FrameTotal(us, d) /\ sc = c + a + d + o
      BY <1>1 DEF Account
<1>4. Msg("credit", n) \in Msgs /\ CreditOf(Msg("credit", n)) = n
      BY DEF Msg, Msgs, MsgTypes, CreditOf
<1>5. CreditTotal(Append(ds, Msg("credit", n)), a + n)
      BY <1>3, <1>4, QAppendTotals
<1>6. a + n \in Nat /\ sc + n = c + (a + n) + d + o
      BY <1>2, <1>3
<1> QED BY <1>1, <1>3, <1>5, <1>6 DEF Account

\* Send.
LEMMA AccountSend ==
    ASSUME NEW c \in Nat, NEW ds, NEW us \in Seq(Msgs), NEW sc \in Nat, NEW ow, NEW m \in Msgs,
           Account(c, ds, us, sc, ow), c >= 1, m.type = "data"
    PROVE  Account(c - 1, ds, Append(us, m), sc, ow)
<1>1. PICK o : o = IF ow = "yes" THEN 1 ELSE 0
      OBVIOUS
<1>2. o \in Nat
      BY <1>1
<1>3. PICK a \in Nat, d \in Nat : CreditTotal(ds, a) /\ FrameTotal(us, d) /\ sc = c + a + d + o
      BY <1>1 DEF Account
<1>4. FrameOf(m) = 1
      BY DEF FrameOf
<1>5. FrameTotal(Append(us, m), d + 1)
      BY <1>3, <1>4, QAppendTotals
<1>6. d + 1 \in Nat /\ sc = (c - 1) + a + (d + 1) + o
      BY <1>2, <1>3
<1> QED BY <1>1, <1>3, <1>5, <1>6 DEF Account

\* forwardRelay finds the credit of the frame it reads; it is charged later.
LEMMA AccountForward ==
    ASSUME NEW c \in Nat, NEW ds, NEW us \in Seq(Msgs), NEW sc \in Nat,
           Account(c, ds, us, sc, "no"), us # <<>>, Head(us).type = "data"
    PROVE  sc >= 1 /\ Account(c, ds, Tail(us), sc, "yes")
<1>1. PICK a \in Nat, d \in Nat : CreditTotal(ds, a) /\ FrameTotal(us, d) /\ sc = c + a + d + 0
      BY DEF Account
<1>2. FrameOf(Head(us)) = 1
      BY DEF FrameOf
<1>3. 1 <= d /\ FrameTotal(Tail(us), d - 1)
      BY <1>1, <1>2, QTailTotals
<1>4. d - 1 \in Nat /\ sc = c + a + (d - 1) + 1 /\ sc >= 1
      BY <1>1, <1>3
<1> QED BY <1>1, <1>3, <1>4 DEF Account

LEMMA AccountCharge ==
    ASSUME NEW c \in Nat, NEW ds, NEW us, NEW sc \in Nat, Account(c, ds, us, sc, "yes")
    PROVE  sc >= 1 /\ Account(c, ds, us, sc - 1, "no")
<1>1. PICK a \in Nat, d \in Nat : CreditTotal(ds, a) /\ FrameTotal(us, d) /\ sc = c + a + d + 1
      BY DEF Account
<1>2. sc >= 1 /\ sc - 1 = c + a + d + 0
      BY <1>1
<1> QED BY <1>1, <1>2 DEF Account

-----------------------------------------------------------------------------
(***************************************************************************)
(* The inductive invariant.  Until a socket is lost or closed both sides   *)
(* are seated, nothing but openings is under way before both have opened,  *)
(* the server's account of the sender agrees with the sender's own, and    *)
(* nothing has been refused; and unless a frame has overtaken the early    *)
(* ones no number is missing.                                              *)
(***************************************************************************)
Joined(x) ==
    /\ sig[x].run = "reading" /\ sig[x].sock = "seated" /\ ~sig[x].closed
    /\ seat[x].who = "live" /\ seat[x].owe # "void"
    /\ ~cli[x].closed /\ "resume" \notin Types(up[x])

Cold(u, d, c) ==
    /\ "credit" \notin Types(u) /\ "data" \notin Types(u)
    /\ "ready" \notin Types(d) /\ "credit" \notin Types(d) /\ "data" \notin Types(d)
    /\ ~c.ready /\ c.pending = <<>> /\ c.drain = <<>>

OpenedOK == (\A x \in Sides : seat[x].open) \/ (\A x \in Sides : Cold(up[x], down[x], cli[x]))

AccountOK == Account(cli["sender"].credit, down["sender"], up["sender"], seat["sender"].credit, seat["sender"].owe)

OrderOK == ~hist.overtaken => InOrder(Nums(down["receiver"]) \cup Nums(up["sender"]), cli["receiver"].pending,
                                      cli["receiver"].drain, got, sent)

WholeOK == ~Closed => /\ \A x \in Sides : Joined(x)
                      /\ OpenedOK /\ AccountOK /\ ~hist.refused /\ OrderOK

IInv == TypeInv /\ SeatsOK /\ FlightOK /\ Budget /\ WholeOK

LEMMA SidesAre == "sender" \in Sides /\ "receiver" \in Sides /\ \A x \in Sides : Other(x) \in Sides /\ Other(x) # x
BY DEF Sides, Other

LEMMA SaysIs ==
    ASSUME up \in [Sides -> Seq(Msgs)], NEW x \in Sides, NEW m \in Msgs
    PROVE  /\ Says(x, <<m>>) \in [Sides -> Seq(Msgs)]
           /\ \A y \in Sides : y # x => Says(x, <<m>>)[y] = up[y]
           /\ Says(x, <<m>>)[x] = up[x] \/ Says(x, <<m>>)[x] = Append(up[x], m)
           /\ sig[x].sock # "closed" => Says(x, <<m>>)[x] = Append(up[x], m)
<1>1. up[x] \o <<m>> = Append(up[x], m) /\ Append(up[x], m) \in Seq(Msgs)
      BY QAppend
<1>2. PICK u : u = [up EXCEPT ![x] = Append(up[x], m)]
      OBVIOUS
<1>3. u \in [Sides -> Seq(Msgs)] /\ u[x] = Append(up[x], m) /\ \A y \in Sides : y # x => u[y] = up[y]
      BY <1>1, <1>2
<1>4. Says(x, <<m>>) = IF sig[x].sock = "closed" THEN up ELSE u
      BY <1>1, <1>2 DEF Says
<1> QED BY <1>3, <1>4

LEMMA TellIs ==
    ASSUME NEW q \in [Sides -> Seq(Msgs)], NEW x \in Sides, NEW m \in Msgs
    PROVE  /\ Tell(q, x, m) \in [Sides -> Seq(Msgs)]
           /\ \A y \in Sides : y # x => Tell(q, x, m)[y] = q[y]
           /\ Tell(q, x, m)[x] = q[x] \/ Tell(q, x, m)[x] = Append(q[x], m)
           /\ seat[x].who = "live" => Tell(q, x, m)[x] = Append(q[x], m)
<1>1. Append(q[x], m) \in Seq(Msgs)
      BY QAppend
<1>2. PICK u : u = [q EXCEPT ![x] = Append(@, m)]
      OBVIOUS
<1>3. u \in [Sides -> Seq(Msgs)] /\ u[x] = Append(q[x], m) /\ \A y \in Sides : y # x => u[y] = q[y]
      BY <1>1, <1>2
<1>4. Tell(q, x, m) = IF seat[x].who = "live" THEN u ELSE q
      BY <1>2 DEF Tell
<1> QED BY <1>3, <1>4

LEMMA MsgIs ==
    /\ \A n \in Nat : \A t \in MsgTypes : Msg(t, n) \in Msgs /\ Msg(t, n).type = t /\ Msg(t, n).n = n
    /\ Msg("resume", 0) \in Msgs /\ Msg("open", 0) \in Msgs /\ Msg("ready", 0) \in Msgs /\ Msg("required", 0) \in Msgs
    /\ Msg("resume", 0).type = "resume" /\ Msg("open", 0).type = "open" /\ Msg("ready", 0).type = "ready"
    /\ Msg("required", 0).type = "required"
BY DEF Msg, Msgs, MsgTypes

\* What a message read from a queue leaves.
LEMMA PopIs ==
    ASSUME NEW q \in [Sides -> Seq(Msgs)], NEW x \in Sides, q[x] # <<>>
    PROVE  LET w == [q EXCEPT ![x] = Tail(@)]
           IN  w \in [Sides -> Seq(Msgs)] /\ w[x] = Tail(q[x]) /\ \A y \in Sides : y # x => w[y] = q[y]
<1>1. Tail(q[x]) \in Seq(Msgs)
      BY QTail
<1> QED BY <1>1

\* A step that moves no frame, or loses some.
LEMMA QuietFlight ==
    ASSUME FlightOK, sent' = sent, got' = got,
           \A x \in Sides : FewFrames(up'[x], up[x]) /\ FewFrames(down'[x], down[x]),
           cli'["receiver"].handler = cli["receiver"].handler,
           cli'["receiver"].pending = cli["receiver"].pending, cli'["receiver"].drain = cli["receiver"].drain
    PROVE  FlightOK'
<1>1. Flight(up["sender"], down["receiver"], cli["receiver"].pending, cli["receiver"].drain, got, sent)
      BY DEF FlightOK
<1>2. Rising(up["sender"]) /\ Rising(down["receiver"])
      BY <1>1 DEF Flight
<1>3. Rising(up'["sender"]) /\ Rising(down'["receiver"]) /\ Nums(up'["sender"]) \subseteq Nums(up["sender"])
      /\ Nums(down'["receiver"]) \subseteq Nums(down["receiver"])
      BY <1>2, SidesAre DEF FewFrames
<1>4. Flight(up'["sender"], down'["receiver"], cli["receiver"].pending, cli["receiver"].drain, got, sent)
      BY <1>1, <1>3, FlightLess
<1>5. Nums(up'["receiver"]) = {} /\ Nums(down'["sender"]) = {}
      BY SidesAre DEF FewFrames, FlightOK
<1> QED BY <1>4, <1>5 DEF FlightOK

\* Nor any credit of the sender.
LEMMA Quiet ==
    ASSUME TypeInv, FlightOK, Budget, sent' = sent, got' = got,
           \A x \in Sides : FewFrames(up'[x], up[x]) /\ FewFrames(down'[x], down[x]),
           LessCredit(down'["sender"], down["sender"]), LessCredit(up'["receiver"], up["receiver"]),
           cli'["sender"].credit = cli["sender"].credit, cli'["receiver"].consumed = cli["receiver"].consumed,
           cli'["receiver"].ready = cli["receiver"].ready, cli'["receiver"].handler = cli["receiver"].handler,
           cli'["receiver"].pending = cli["receiver"].pending, cli'["receiver"].drain = cli["receiver"].drain
    PROVE  FlightOK' /\ Budget'
<1>1. cli["sender"].credit \in Nat /\ cli["receiver"].consumed \in Nat /\ cli["receiver"].ready \in BOOLEAN
      /\ sent \in Nat /\ Len(got) \in Nat
      BY DEF TypeInv, CliType, Sides
<1>2. Money(cli["sender"].credit, down'["sender"], up'["receiver"], cli["receiver"].consumed,
            cli["receiver"].ready, sent, Len(got))
      BY <1>1, MoneyLess DEF Budget
<1>3. Budget'
      BY <1>2 DEF Budget
<1> QED BY <1>3, QuietFlight

-----------------------------------------------------------------------------
\* The steps that lose or close a socket, and those that only follow such a loss.

NetType == sig \in [Sides -> SigType] /\ seat \in [Sides -> SeatType]
           /\ up \in [Sides -> Seq(Msgs)] /\ down \in [Sides -> Seq(Msgs)]

LEMMA DroppedKeeps ==
    ASSUME IInv, NEW x \in Sides, Dropped(x), UNCHANGED <<cli, sent, got>>
    PROVE  NetType' /\ SeatsOK' /\ FlightOK' /\ Budget'
           /\ \A y \in Sides : sig'[y].closed = sig[y].closed
<1>1. up \in [Sides -> Seq(Msgs)] /\ down \in [Sides -> Seq(Msgs)] /\ seat \in [Sides -> SeatType]
      /\ sig \in [Sides -> SigType]
      BY DEF IInv, TypeInv
<1>2. up' \in [Sides -> Seq(Msgs)] /\ down' \in [Sides -> Seq(Msgs)]
      /\ \A y \in Sides : up'[y] \in {up[y], <<>>} /\ down'[y] \in {down[y], <<>>}
      BY <1>1 DEF Dropped
<1>3. seat' \in [Sides -> SeatType] /\ \A y \in Sides : seat'[y].owe = seat[y].owe /\ seat'[y].credit = seat[y].credit
      BY <1>1 DEF Dropped, SeatType
<1>4. sig' \in [Sides -> SigType] /\ \A y \in Sides : sig'[y].closed = sig[y].closed
      BY <1>1 DEF Dropped, SigType
<1>5. SeatsOK'
      BY <1>3 DEF IInv, SeatsOK
<1>6. \A y \in Sides : Fewer(up'[y], up[y]) /\ Fewer(down'[y], down[y])
      BY <1>1, <1>2, LessFew
<1>7. FlightOK' /\ Budget'
      BY <1>6, SidesAre, Quiet DEF Fewer, IInv
<1> QED BY <1>2, <1>3, <1>4, <1>5, <1>7 DEF NetType

\* Once closed the session stays so, and then WholeOK says nothing.
LEMMA OnceClosed == Closed' => WholeOK'
BY DEF WholeOK

LEMMA DropStep ==
    ASSUME IInv, NEW x \in Sides, Drop(x) PROVE IInv' /\ Closed'
<1>1. NetType' /\ SeatsOK' /\ FlightOK' /\ Budget'
      BY DroppedKeeps DEF Drop
<1>2. hist' \in HistType /\ hist'.blips > 0
      <2>1. hist \in HistType /\ hist.blips \in Nat
            BY DEF IInv, TypeInv, HistType
      <2>2. PICK b \in Nat : b = hist.blips + 1 /\ b > 0
            BY <2>1
      <2>3. hist' = [hist EXCEPT !.blips = b]
            BY <2>2 DEF Drop
      <2> QED BY <2>1, <2>2, <2>3 DEF HistType
<1>3. Closed'
      BY <1>2 DEF Closed
<1> QED BY <1>1, <1>2, <1>3, OnceClosed DEF Drop, IInv, TypeInv, NetType

LEMMA IdleTimeoutStep ==
    ASSUME IInv, NEW x \in Sides, IdleTimeout(x) PROVE IInv' /\ Closed'
<1>1. NetType' /\ SeatsOK' /\ FlightOK' /\ Budget' /\ sig'[x].closed = sig[x].closed
      BY DroppedKeeps DEF IdleTimeout
<1>2. Closed'
      BY <1>1 DEF Closed, IdleTimeout
<1> QED BY <1>1, <1>2, OnceClosed DEF IdleTimeout, IInv, TypeInv, NetType

LEMMA CloseStep ==
    ASSUME IInv, NEW x \in Sides, Close(x) PROVE IInv' /\ Closed'
<1>1. up \in [Sides -> Seq(Msgs)] /\ down \in [Sides -> Seq(Msgs)] /\ seat \in [Sides -> SeatType]
      /\ sig \in [Sides -> SigType] /\ cli \in [Sides -> CliType]
      BY DEF IInv, TypeInv
<1>2. up' \in [Sides -> Seq(Msgs)] /\ down' \in [Sides -> Seq(Msgs)]
      /\ \A y \in Sides : up'[y] \in {up[y], <<>>} /\ down'[y] \in {down[y], <<>>}
      BY <1>1 DEF Close
<1>3. seat' \in [Sides -> SeatType] /\ \A y \in Sides : seat'[y].owe = seat[y].owe /\ seat'[y].credit = seat[y].credit
      BY <1>1 DEF Close, SeatType
<1>4. sig' \in [Sides -> SigType] /\ sig'[x].closed
      BY <1>1 DEF Close, SigType
<1>5. cli' \in [Sides -> CliType] /\ cli'["sender"].credit = cli["sender"].credit
      BY <1>1 DEF Close, CliType, Sides
<1>6. /\ cli'["receiver"].consumed = cli["receiver"].consumed
      /\ cli'["receiver"].ready = cli["receiver"].ready /\ cli'["receiver"].handler = cli["receiver"].handler
      /\ cli'["receiver"].pending = cli["receiver"].pending /\ cli'["receiver"].drain = cli["receiver"].drain
      BY <1>1 DEF Close, CliType, Sides
<1>7. SeatsOK'
      BY <1>3 DEF IInv, SeatsOK
<1>8. \A y \in Sides : Fewer(up'[y], up[y]) /\ Fewer(down'[y], down[y])
      BY <1>1, <1>2, LessFew
<1>9. FlightOK' /\ Budget'
      BY <1>5, <1>6, <1>8, SidesAre, Quiet DEF Fewer, IInv, Close
<1>10. Closed'
      BY <1>4 DEF Closed
<1> QED BY <1>2, <1>3, <1>4, <1>5, <1>7, <1>9, <1>10, OnceClosed DEF Close, IInv, TypeInv

\* The queues as they were.
LEMMA Unmoved ==
    ASSUME IInv, UNCHANGED <<up, down, sent, got>>,
           cli'["sender"].credit = cli["sender"].credit, cli'["receiver"].consumed = cli["receiver"].consumed,
           cli'["receiver"].ready = cli["receiver"].ready, cli'["receiver"].handler = cli["receiver"].handler,
           cli'["receiver"].pending = cli["receiver"].pending, cli'["receiver"].drain = cli["receiver"].drain
    PROVE  FlightOK' /\ Budget'
BY DEF IInv, FlightOK, Budget

LEMMA VacateStep ==
    ASSUME IInv, NEW x \in Sides, Vacate(x) PROVE IInv' /\ Closed'
<1>1. seat \in [Sides -> SeatType] /\ Other(x) \in Sides /\ Other(x) # x
      BY SidesAre DEF IInv, TypeInv
<1>2. Empty \in SeatType /\ Empty.owe = "no"
      BY RelayAssumption DEF Empty, SeatType
<1>3. /\ seat' \in [Sides -> SeatType] /\ seat'[x] = Empty
      /\ \A y \in Sides : y # x => seat'[y].credit = seat[y].credit /\ (seat'[y].owe = "yes" => seat[y].owe = "yes")
      BY <1>1, <1>2 DEF Vacate, SeatType
<1>4. SeatsOK'
      BY <1>2, <1>3 DEF SeatsOK, IInv
<1>5. FlightOK' /\ Budget'
      BY Unmoved DEF Vacate
<1>6. Closed
      BY DEF Vacate, IInv, WholeOK, Joined
<1>7. Closed'
      BY <1>6 DEF Closed, Vacate
<1> QED BY <1>3, <1>4, <1>5, <1>7, OnceClosed DEF Vacate, IInv, TypeInv

LEMMA RedialStep ==
    ASSUME IInv, NEW x \in Sides, ReadEnds(x) \/ Swap(x) \/ GiveUp(x) \/ SendFails PROVE IInv' /\ Closed'
<1>1. sig \in [Sides -> SigType] /\ cli \in [Sides -> CliType]
      BY DEF IInv, TypeInv
<1>2. cli' \in [Sides -> CliType] /\ cli'["sender"].credit = cli["sender"].credit
      /\ cli'["receiver"].consumed = cli["receiver"].consumed
      /\ cli'["receiver"].ready = cli["receiver"].ready /\ cli'["receiver"].handler = cli["receiver"].handler
      /\ cli'["receiver"].pending = cli["receiver"].pending /\ cli'["receiver"].drain = cli["receiver"].drain
      <2>1. CASE GiveUp(x)
            BY <1>1, <2>1 DEF GiveUp, CliType, Sides
      <2>2. CASE SendFails
            BY <1>1, <2>2 DEF SendFails, CliType, Sides
      <2>3. CASE ReadEnds(x) \/ Swap(x)
            BY <1>1, <2>3 DEF ReadEnds, Swap
      <2> QED BY <2>1, <2>2, <2>3
<1>3. sig' \in [Sides -> SigType] /\ \A y \in Sides : sig[y].closed => sig'[y].closed
      <2>1. CASE ReadEnds(x)
            BY <1>1, <2>1 DEF ReadEnds, SigType
      <2>2. CASE Swap(x)
            BY <1>1, <2>2 DEF Swap, SigType
      <2>3. CASE GiveUp(x)
            BY <1>1, <2>3 DEF GiveUp, SigType
      <2>4. CASE SendFails
            BY <1>1, <2>4, SidesAre DEF SendFails, SigType
      <2> QED BY <2>1, <2>2, <2>3, <2>4
<1>4. UNCHANGED <<seat, up, down, sent, got, hist>>
      BY DEF ReadEnds, Swap, GiveUp, SendFails
<1>5. FlightOK' /\ Budget'
      BY <1>2, <1>4, Unmoved
<1>6. SeatsOK'
      BY <1>4 DEF IInv, SeatsOK
<1>7. Closed
      <2>1. \A y \in Sides : ~Closed => sig[y].run = "reading" /\ sig[y].sock = "seated"
            BY DEF IInv, WholeOK, Joined
      <2> QED BY <2>1, SidesAre DEF ReadEnds, Swap, GiveUp, SendFails
<1>8. Closed'
      BY <1>3, <1>4, <1>7 DEF Closed
<1> QED BY <1>2, <1>3, <1>4, <1>5, <1>6, <1>8, OnceClosed DEF IInv, TypeInv

LEMMA SendResumeStep ==
    ASSUME IInv, NEW x \in Sides, SendResume(x) PROVE IInv' /\ Closed'
<1>1. sig \in [Sides -> SigType] /\ up \in [Sides -> Seq(Msgs)] /\ down \in [Sides -> Seq(Msgs)]
      BY DEF IInv, TypeInv
<1>2. sig' \in [Sides -> SigType] /\ \A y \in Sides : sig'[y].closed = sig[y].closed
      <2>1. PICK r : r \in {"reading", "dialing", "ended"} /\ sig' = [sig EXCEPT ![x].run = r]
            BY DEF SendResume
      <2> QED BY <1>1, <2>1 DEF SigType
<1>3. up' \in [Sides -> Seq(Msgs)] /\ \A y \in Sides : up'[y] \in {up[y], Append(up[y], Msg("resume", 0))}
      <2>1. up' = Says(x, <<Msg("resume", 0)>>) /\ Msg("resume", 0) \in Msgs
            BY MsgIs DEF SendResume
      <2> QED BY <1>1, <2>1, SaysIs
<1>4. \A y \in Sides : Fewer(up'[y], up[y]) /\ Fewer(down'[y], down[y])
      <2>1. down' = down
            BY DEF SendResume
      <2>2. ASSUME NEW y \in Sides PROVE Fewer(up'[y], up[y]) /\ Fewer(down'[y], down[y])
            <3>1. Fewer(down'[y], down[y]) /\ Fewer(up[y], up[y])
                  BY <1>1, <2>1, LessFew
            <3>2. Fewer(Append(up[y], Msg("resume", 0)), up[y])
                  BY <1>1, LessFew, MsgIs DEF Fewer
            <3> QED BY <1>3, <3>1, <3>2
      <2> QED BY <2>2
<1>5. FlightOK' /\ Budget'
      BY <1>4, SidesAre, Quiet DEF Fewer, IInv, SendResume
<1>6. SeatsOK'
      BY DEF IInv, SeatsOK, SendResume
<1>7. Closed
      BY DEF IInv, WholeOK, Joined, SendResume
<1>8. Closed'
      BY <1>2, <1>7 DEF Closed, SendResume
<1> QED BY <1>2, <1>3, <1>5, <1>6, <1>8, OnceClosed DEF IInv, TypeInv, SendResume

-----------------------------------------------------------------------------
\* The steps of a session, while it is whole.

\* A refusal needs a session that is closed.
LEMMA RefuseStep ==
    ASSUME IInv, NEW x \in Sides, Refuse(x), Closed PROVE IInv' /\ Closed'
<1>1. NetType' /\ SeatsOK' /\ FlightOK' /\ Budget' /\ \A y \in Sides : sig'[y].closed = sig[y].closed
      BY DroppedKeeps DEF Refuse
<1>2. hist' \in HistType /\ hist'.blips = hist.blips
      BY DEF Refuse, IInv, TypeInv, HistType
<1>3. Closed'
      BY <1>1, <1>2 DEF Closed
<1> QED BY <1>1, <1>2, <1>3, OnceClosed DEF Refuse, IInv, TypeInv, NetType

LEMMA WholeKept ==
    ASSUME IInv, sig' = sig, hist'.blips = hist.blips, hist'.refused = hist.refused,
           \A x \in Sides : /\ cli'[x].closed = cli[x].closed /\ seat'[x].who = seat[x].who
                            /\ seat'[x].owe = "void" => seat[x].owe = "void"
                            /\ "resume" \in Types(up'[x]) => "resume" \in Types(up[x]),
           ~Closed => OpenedOK' /\ AccountOK' /\ OrderOK'
    PROVE  WholeOK' /\ Closed' = Closed
<1>1. Closed' = Closed
      BY DEF Closed
<1>2. ASSUME NEW x \in Sides, Joined(x) PROVE Joined(x)'
      BY <1>2 DEF Joined
<1> QED BY <1>1, <1>2 DEF WholeOK, IInv

\* A step that moves messages which are neither frames nor credit of the sender.
LEMMA LiveQuiet ==
    ASSUME IInv, TypeInv', SeatsOK', sig' = sig, sent' = sent, got' = got,
           hist'.blips = hist.blips, hist'.refused = hist.refused, hist'.overtaken = hist.overtaken,
           \A x \in Sides : SameFrames(up'[x], up[x]) /\ SameFrames(down'[x], down[x]),
           SameCredit(down'["sender"], down["sender"]), SameCredit(up'["receiver"], up["receiver"]),
           cli'["sender"].credit = cli["sender"].credit, cli'["receiver"].consumed = cli["receiver"].consumed,
           cli'["receiver"].ready = cli["receiver"].ready, cli'["receiver"].handler = cli["receiver"].handler,
           cli'["receiver"].pending = cli["receiver"].pending, cli'["receiver"].drain = cli["receiver"].drain,
           seat'["sender"].credit = seat["sender"].credit, seat'["sender"].owe = seat["sender"].owe,
           \A x \in Sides : /\ cli'[x].closed = cli[x].closed /\ seat'[x].who = seat[x].who
                            /\ seat'[x].owe = "void" => seat[x].owe = "void"
                            /\ "resume" \in Types(up'[x]) => "resume" \in Types(up[x]),
           ~Closed => OpenedOK'
    PROVE  IInv' /\ Closed' = Closed
<1>1. FlightOK' /\ Budget'
      BY SameIsLess, Quiet, SidesAre DEF IInv
<1>2. AccountOK => AccountOK'
      BY AccountSame, SidesAre DEF AccountOK
<1>3. OrderOK => OrderOK'
      <2>1. Nums(up'["sender"]) = Nums(up["sender"]) /\ Nums(down'["receiver"]) = Nums(down["receiver"])
            BY SidesAre DEF SameFrames
      <2> QED BY <2>1 DEF OrderOK
<1>4. ~Closed => AccountOK /\ OrderOK
      BY DEF IInv, WholeOK
<1>5. WholeOK' /\ Closed' = Closed
      BY <1>2, <1>3, <1>4, WholeKept
<1> QED BY <1>1, <1>5 DEF IInv

LEMMA ColdKept ==
    ASSUME NEW u, NEW d, NEW c, NEW u2, NEW d2, NEW c2, Cold(u, d, c),
           Types(u2) \subseteq Types(u) \cup {"open"}, Types(d2) \subseteq Types(d) \cup {"required"},
           c2.ready = c.ready, c2.pending = c.pending, c2.drain = c.drain
    PROVE  Cold(u2, d2, c2)
BY DEF Cold

\* Open, and HandleMessage of relay_required.
LEMMA OpeningStep ==
    ASSUME IInv, NEW x \in Sides, UNCHANGED <<sig, seat, sent, got, hist>>,
           (cli' = cli /\ up' = up) \/ (cli' = [cli EXCEPT ![x].opened = TRUE] /\ up' = Says(x, <<Msg("open", 0)>>)),
           down' = down \/ (Arrives(x, "required") /\ down' = Popped(x))
    PROVE  IInv' /\ Closed' = Closed
<1>1. up \in [Sides -> Seq(Msgs)] /\ down \in [Sides -> Seq(Msgs)] /\ cli \in [Sides -> CliType]
      BY DEF IInv, TypeInv
<1>2. PICK m : m = Msg("open", 0)
      OBVIOUS
<1>3. m \in Msgs /\ m.type = "open"
      BY <1>2, MsgIs
<1>4. up' \in [Sides -> Seq(Msgs)] /\ \A y \in Sides : up'[y] \in {up[y], Append(up[y], m)}
      <2>1. PICK s : s = Says(x, <<m>>)
            OBVIOUS
      <2>2. s \in [Sides -> Seq(Msgs)] /\ \A y \in Sides : s[y] \in {up[y], Append(up[y], m)}
            <3>1. s \in [Sides -> Seq(Msgs)] /\ s[x] \in {up[x], Append(up[x], m)}
                  BY <1>1, <1>3, <2>1, SaysIs
            <3>2. \A y \in Sides : y # x => s[y] = up[y]
                  BY <1>1, <1>3, <2>1, SaysIs
            <3> QED BY <3>1, <3>2
      <2>3. up' = up \/ up' = s
            BY <1>2, <2>1
      <2> QED BY <1>1, <2>2, <2>3
<1>5. /\ down' \in [Sides -> Seq(Msgs)]
      /\ \A y \in Sides : \/ down'[y] = down[y]
                          \/ down[y] # <<>> /\ Head(down[y]).type = "required" /\ down'[y] = Tail(down[y])
      <2>1. CASE down' = down
            BY <1>1, <2>1
      <2>2. CASE Arrives(x, "required") /\ down' = Popped(x)
            <3>1. down' \in [Sides -> Seq(Msgs)] /\ down'[x] = Tail(down[x]) /\ \A y \in Sides : y # x => down'[y] = down[y]
                  BY <1>1, <2>2, PopIs DEF Popped, Arrives
            <3> QED BY <2>2, <3>1 DEF Arrives
      <2> QED BY <2>1, <2>2
<1>6. cli' \in [Sides -> CliType]
      /\ \A y \in Sides : /\ cli'[y].credit = cli[y].credit /\ cli'[y].consumed = cli[y].consumed
                          /\ cli'[y].ready = cli[y].ready /\ cli'[y].handler = cli[y].handler
                          /\ cli'[y].pending = cli[y].pending /\ cli'[y].drain = cli[y].drain
                          /\ cli'[y].closed = cli[y].closed
      <2>1. CASE cli' = cli
            BY <1>1, <2>1
      <2>2. CASE cli' = [cli EXCEPT ![x].opened = TRUE]
            BY <1>1, <2>2 DEF CliType
      <2> QED BY <2>1, <2>2
<1>7. ASSUME NEW y \in Sides
      PROVE  /\ SameFrames(up'[y], up[y]) /\ SameCredit(up'[y], up[y])
             /\ SameFrames(down'[y], down[y]) /\ SameCredit(down'[y], down[y])
             /\ Types(up'[y]) \subseteq Types(up[y]) \cup {"open"} /\ Types(down'[y]) \subseteq Types(down[y])
      <2>1. up[y] \in Seq(Msgs) /\ down[y] \in Seq(Msgs)
            BY <1>1
      <2>2. SameFrames(up'[y], up[y]) /\ SameCredit(up'[y], up[y]) /\ Types(up'[y]) \subseteq Types(up[y]) \cup {"open"}
            BY <1>3, <1>4, <2>1, SameQ, QAppend
      <2>3. SameFrames(down'[y], down[y]) /\ SameCredit(down'[y], down[y]) /\ Types(down'[y]) \subseteq Types(down[y])
            BY <1>3, <1>5, <2>1, SameQ, QTail
      <2> QED BY <2>2, <2>3
<1>8. TypeInv' /\ SeatsOK'
      BY <1>4, <1>5, <1>6 DEF IInv, TypeInv, SeatsOK
<1>9. OpenedOK => OpenedOK'
      <2>1. ASSUME NEW y \in Sides, Cold(up[y], down[y], cli[y]) PROVE Cold(up'[y], down'[y], cli'[y])
            BY <1>6, <1>7, <2>1 DEF Cold
      <2> QED BY <2>1 DEF OpenedOK
<1>10. ~Closed => OpenedOK'
      BY <1>9 DEF IInv, WholeOK
<1>11. \A y \in Sides : /\ cli'[y].closed = cli[y].closed /\ seat'[y].who = seat[y].who
                        /\ seat'[y].owe = "void" => seat[y].owe = "void"
                        /\ "resume" \in Types(up'[y]) => "resume" \in Types(up[y])
      BY <1>6, <1>7
<1> QED BY <1>6, <1>7, <1>8, <1>10, <1>11, SidesAre, LiveQuiet

LEMMA OpenStep ==
    ASSUME IInv, NEW x \in Sides, Open(x) \/ HandleRequired(x) PROVE IInv' /\ Closed' = Closed
<1>1. CASE Open(x)
      BY <1>1, OpeningStep DEF Open
<1>2. CASE HandleRequired(x)
      BY <1>2, OpeningStep DEF HandleRequired
<1> QED BY <1>1, <1>2

\* What a message to a side that is not cold means: both have opened.
LEMMA HotOpened ==
    ASSUME IInv, NEW x \in Sides, ~Closed, ~Cold(up[x], down[x], cli[x])
    PROVE  (\A y \in Sides : seat[y].open) /\ (seat' = seat => OpenedOK')
BY DEF IInv, WholeOK, OpenedOK

\* HandleMessage of relay_ready and of credit.
LEMMA ReadyOfSender ==
    ASSUME IInv, HandleReady("sender") PROVE IInv' /\ Closed' = Closed
<1>1. up \in [Sides -> Seq(Msgs)] /\ down \in [Sides -> Seq(Msgs)] /\ cli \in [Sides -> CliType] /\ ClientWindow \in Nat
      BY RelayAssumption DEF IInv, TypeInv
<1>2. PICK m : m = Msg("credit", ClientWindow)
      OBVIOUS
<1>3. m \in Msgs /\ m.type = "credit"
      BY <1>1, <1>2, MsgIs DEF MsgTypes
<1>4. /\ up' \in [Sides -> Seq(Msgs)] /\ up'["receiver"] = up["receiver"]
      /\ up'["sender"] \in {up["sender"], Append(up["sender"], m)}
      <2>1. PICK s : s = Says("sender", <<m>>)
            OBVIOUS
      <2>2. s \in [Sides -> Seq(Msgs)] /\ s["sender"] \in {up["sender"], Append(up["sender"], m)}
            /\ s["receiver"] = up["receiver"]
            BY <1>1, <1>3, <2>1, SaysIs, SidesAre
      <2>3. up' = up \/ up' = s
            BY <1>2, <2>1 DEF HandleReady
      <2> QED BY <1>1, <2>2, <2>3
<1>5. down["sender"] # <<>> /\ Head(down["sender"]).type = "ready"
      BY DEF HandleReady, Arrives
<1>6. /\ down' \in [Sides -> Seq(Msgs)] /\ down'["receiver"] = down["receiver"] /\ down'["sender"] = Tail(down["sender"])
      BY <1>1, <1>5, PopIs, SidesAre DEF HandleReady, Popped
<1>7. cli' \in [Sides -> CliType] /\ cli'["receiver"] = cli["receiver"] /\ cli'["sender"].credit = cli["sender"].credit
      /\ cli'["sender"].closed = cli["sender"].closed
      BY <1>1 DEF CliType, HandleReady, Sides
<1>8. /\ SameFrames(up'["sender"], up["sender"]) /\ SameFrames(up'["receiver"], up["receiver"])
      /\ SameCredit(up'["receiver"], up["receiver"])
      /\ "resume" \in Types(up'["sender"]) => "resume" \in Types(up["sender"])
      BY <1>1, <1>3, <1>4, SameQ, QAppend, SidesAre
<1>9. /\ SameFrames(down'["sender"], down["sender"]) /\ SameFrames(down'["receiver"], down["receiver"])
      /\ SameCredit(down'["sender"], down["sender"])
      BY <1>1, <1>3, <1>5, <1>6, SameQ, SidesAre
<1>10. UNCHANGED <<sig, seat, sent, got, hist>>
      BY DEF HandleReady
<1>11. TypeInv' /\ SeatsOK'
      BY <1>4, <1>6, <1>7, <1>10 DEF IInv, TypeInv, SeatsOK
<1>12. ~Closed => OpenedOK'
      <2>1. "ready" \in Types(down["sender"])
            BY <1>1, <1>5, QHead, SidesAre
      <2> QED BY <1>10, <2>1, HotOpened, SidesAre DEF Cold
<1>13. \A x \in Sides : x = "sender" \/ x = "receiver"
      BY DEF Sides
<1> QED BY <1>4, <1>7, <1>8, <1>9, <1>10, <1>11, <1>12, <1>13, LiveQuiet

LEMMA CreditOfReceiver ==
    ASSUME IInv, HandleCredit("receiver") PROVE IInv' /\ Closed' = Closed
<1>1. up \in [Sides -> Seq(Msgs)] /\ down \in [Sides -> Seq(Msgs)] /\ cli \in [Sides -> CliType]
      BY DEF IInv, TypeInv
<1>2. down["receiver"] # <<>> /\ Head(down["receiver"]).type = "credit" /\ Head(down["receiver"]).n \in Nat
      /\ "credit" \in Types(down["receiver"]) /\ Head(down["receiver"]) \in Msgs
      BY <1>1, QHead, SidesAre DEF HandleCredit, Arrives
<1>3. /\ down' \in [Sides -> Seq(Msgs)] /\ down'["sender"] = down["sender"] /\ down'["receiver"] = Tail(down["receiver"])
      BY <1>1, <1>2, PopIs, SidesAre DEF HandleCredit, Popped
<1>4. /\ cli' \in [Sides -> CliType] /\ cli'["sender"] = cli["sender"]
      /\ cli'["receiver"].consumed = cli["receiver"].consumed /\ cli'["receiver"].closed = cli["receiver"].closed
      /\ cli'["receiver"].ready = cli["receiver"].ready /\ cli'["receiver"].handler = cli["receiver"].handler
      /\ cli'["receiver"].pending = cli["receiver"].pending /\ cli'["receiver"].drain = cli["receiver"].drain
      <2>1. cli["receiver"] \in CliType /\ cli["receiver"].credit \in Nat
            BY <1>1, SidesAre DEF CliType
      <2>2. PICK n \in Nat : n = cli["receiver"].credit + Head(down["receiver"]).n
            BY <1>2, <2>1
      <2>3. cli' = [cli EXCEPT !["receiver"].credit = n]
            BY <1>1, <2>2, SidesAre DEF HandleCredit
      <2> QED BY <1>1, <2>3 DEF CliType, Sides
<1>5. UNCHANGED <<sig, seat, up, sent, got, hist>>
      BY DEF HandleCredit
<1>6. \A x \in Sides : SameFrames(up'[x], up[x]) /\ SameCredit(up'[x], up[x])
      BY <1>1, <1>2, <1>5, SameQ
<1>7. /\ SameFrames(down'["sender"], down["sender"]) /\ SameFrames(down'["receiver"], down["receiver"])
      /\ SameCredit(down'["sender"], down["sender"])
      BY <1>1, <1>2, <1>3, SameQ, SidesAre
<1>8. TypeInv' /\ SeatsOK'
      BY <1>3, <1>4, <1>5 DEF IInv, TypeInv, SeatsOK
<1>9. ~Closed => OpenedOK'
      BY <1>2, <1>5, HotOpened, SidesAre DEF Cold
<1>10. \A x \in Sides : /\ SameFrames(up'[x], up[x]) /\ SameFrames(down'[x], down[x])
                        /\ cli'[x].closed = cli[x].closed /\ seat'[x].who = seat[x].who
                        /\ seat'[x].owe = "void" => seat[x].owe = "void"
                        /\ "resume" \in Types(up'[x]) => "resume" \in Types(up[x])
      BY <1>4, <1>5, <1>6, <1>7 DEF Sides
<1> QED BY <1>4, <1>5, <1>6, <1>7, <1>8, <1>9, <1>10, SidesAre, LiveQuiet

\* The server reads a message of x.
LEMMA ReadIs ==
    ASSUME IInv, NEW x \in Sides, NEW t, Reads(x, t)
    PROVE  /\ up[x] # <<>> /\ up[x] \in Seq(Msgs) /\ Head(up[x]) \in Msgs /\ Head(up[x]).type = t
           /\ Head(up[x]).n \in Nat /\ t \in Types(up[x]) /\ seat[x].owe = "no"
           /\ Read(x) \in [Sides -> Seq(Msgs)] /\ Read(x)[x] = Tail(up[x])
           /\ \A y \in Sides : y # x => Read(x)[y] = up[y]
           /\ \A y \in Sides : Fewer(Read(x)[y], up[y]) /\ Types(Read(x)[y]) \subseteq Types(up[y])
<1>1. up \in [Sides -> Seq(Msgs)]
      BY DEF IInv, TypeInv
<1>2. up[x] # <<>> /\ up[x] \in Seq(Msgs) /\ Head(up[x]).type = t /\ seat[x].owe = "no"
      BY <1>1 DEF Reads
<1>3. Head(up[x]) \in Msgs /\ Head(up[x]).n \in Nat /\ t \in Types(up[x])
      BY <1>2, QHead
<1>4. PICK r : r = Read(x)
      OBVIOUS
<1>5. r \in [Sides -> Seq(Msgs)] /\ r[x] = Tail(up[x]) /\ \A y \in Sides : y # x => r[y] = up[y]
      BY <1>1, <1>2, <1>4, PopIs DEF Read
<1>6. Fewer(r[x], up[x]) /\ Types(r[x]) \subseteq Types(up[x])
      BY <1>2, <1>5, LessFew, QTail
<1>7. \A y \in Sides : y # x => Fewer(r[y], up[y]) /\ Types(r[y]) \subseteq Types(up[y])
      BY <1>1, <1>5, LessFew
<1> QED BY <1>2, <1>3, <1>4, <1>5, <1>6, <1>7

LEMMA ResumeStep ==
    ASSUME IInv, NEW x \in Sides, Resume(x) PROVE IInv' /\ Closed' /\ sent' = sent /\ got' = got
<1>1. Reads(x, "resume")
      BY DEF Resume
<1>2. "resume" \in Types(up[x])
      BY <1>1, ReadIs
<1>3. Closed
      BY <1>2 DEF IInv, WholeOK, Joined
<1>4. CASE Refuse(x)
      BY <1>3, <1>4, RefuseStep DEF Refuse
<1>5. CASE /\ seat' = [seat EXCEPT ![x] = [Empty EXCEPT !.who = "live"]]
           /\ sig' = [sig EXCEPT ![x].sock = "seated"]
           /\ up' = Read(x)
           /\ UNCHANGED <<cli, down, sent, got, hist>>
      <2>1. sig \in [Sides -> SigType] /\ seat \in [Sides -> SeatType] /\ down \in [Sides -> Seq(Msgs)]
            BY DEF IInv, TypeInv
      <2>2. [Empty EXCEPT !.who = "live"] \in SeatType /\ [Empty EXCEPT !.who = "live"].owe = "no"
            <3>1. Empty \in SeatType /\ Empty.owe = "no"
                  BY RelayAssumption DEF Empty, SeatType
            <3>2. PICK s : s = Empty
                  OBVIOUS
            <3>3. [s EXCEPT !.who = "live"] \in SeatType /\ [s EXCEPT !.who = "live"].owe = s.owe
                  BY <3>1, <3>2 DEF SeatType
            <3> QED BY <3>1, <3>2, <3>3
      <2>3. seat' \in [Sides -> SeatType] /\ SeatsOK'
            <3>1. PICK e : e = [Empty EXCEPT !.who = "live"]
                  OBVIOUS
            <3>2. seat' = [seat EXCEPT ![x] = e] /\ e \in SeatType /\ e.owe = "no"
                  BY <1>5, <2>2, <3>1
            <3>3. seat' \in [Sides -> SeatType] /\ seat'[x] = e /\ \A y \in Sides : y # x => seat'[y] = seat[y]
                  BY <2>1, <3>2
            <3> QED BY <3>2, <3>3 DEF IInv, SeatsOK
      <2>4. sig' \in [Sides -> SigType] /\ \A y \in Sides : sig'[y].closed = sig[y].closed
            BY <1>5, <2>1 DEF SigType
      <2>5. up' \in [Sides -> Seq(Msgs)] /\ \A y \in Sides : Fewer(up'[y], up[y]) /\ Fewer(down'[y], down[y])
            <3>1. \A y \in Sides : Fewer(down'[y], down[y])
                  BY <1>5, <2>1, LessFew
            <3> QED BY <1>1, <1>5, <3>1, ReadIs
      <2>6. FlightOK' /\ Budget'
            BY <1>5, <2>5, SidesAre, Quiet DEF Fewer, IInv
      <2>7. Closed'
            BY <1>3, <1>5, <2>4 DEF Closed
      <2> QED BY <1>5, <2>3, <2>4, <2>5, <2>6, <2>7, OnceClosed DEF IInv, TypeInv
<1> QED BY <1>4, <1>5 DEF Resume

LEMMA OpenRelayStep ==
    ASSUME IInv, NEW x \in Sides, OpenRelay(x)
    PROVE  IInv' /\ (Closed' \/ Closed' = Closed) /\ sent' = sent /\ got' = got /\ hist'.overtaken = hist.overtaken
<1>1. Reads(x, "open") /\ Other(x) \in Sides /\ Other(x) # x
      BY SidesAre DEF OpenRelay
<1>2. up \in [Sides -> Seq(Msgs)] /\ down \in [Sides -> Seq(Msgs)] /\ seat \in [Sides -> SeatType] /\ hist \in HistType
      BY DEF IInv, TypeInv
<1>3. CASE ~Partnered(x)
      <2>1. Closed
            BY <1>1, <1>3 DEF Partnered, Seated, IInv, WholeOK, Joined
      <2>2. Refuse(x)
            BY <1>3 DEF OpenRelay
      <2> QED BY <1>2, <2>1, <2>2, RefuseStep DEF Refuse, HistType
<1>4. CASE Partnered(x)
      <2>1. UNCHANGED <<cli, sig, sent, got, hist>> /\ up' = Read(x) /\ seat' = [seat EXCEPT ![x].open = TRUE]
            BY <1>4 DEF OpenRelay
      <2>2. seat' \in [Sides -> SeatType] /\ seat'[x].open
            /\ \A y \in Sides : /\ seat'[y].owe = seat[y].owe /\ seat'[y].credit = seat[y].credit
                                /\ seat'[y].who = seat[y].who /\ (y # x => seat'[y].open = seat[y].open)
            BY <1>2, <2>1 DEF SeatType
      <2>3. PICK m : m = Msg("ready", 0)
            OBVIOUS
      <2>4. PICK r : r = Msg("required", 0)
            OBVIOUS
      <2>5. m \in Msgs /\ m.type = "ready" /\ r \in Msgs /\ r.type = "required"
            BY <2>3, <2>4, MsgIs
      <2>6. /\ down' \in [Sides -> Seq(Msgs)]
            /\ \A y \in Sides : down'[y] \in {down[y], Append(down[y], IF seat[Other(x)].open THEN m ELSE r)}
            <3>1. CASE seat[Other(x)].open
                  <4>1. PICK d : d = Tell(down, x, m)
                        OBVIOUS
                  <4>2. d \in [Sides -> Seq(Msgs)] /\ d[x] \in {down[x], Append(down[x], m)}
                        /\ d[Other(x)] = down[Other(x)]
                        BY <1>1, <1>2, <2>5, <4>1, TellIs
                  <4>3. PICK e : e = Tell(d, Other(x), m)
                        OBVIOUS
                  <4>4. e \in [Sides -> Seq(Msgs)] /\ e[Other(x)] \in {d[Other(x)], Append(d[Other(x)], m)} /\ e[x] = d[x]
                        BY <1>1, <2>5, <4>2, <4>3, TellIs
                  <4>5. down' = e
                        BY <1>4, <2>3, <3>1, <4>1, <4>3 DEF OpenRelay
                  <4>6. \A y \in Sides : y = x \/ y = Other(x)
                        BY DEF Sides, Other
                  <4> QED BY <3>1, <4>2, <4>4, <4>5, <4>6
            <3>2. CASE ~seat[Other(x)].open
                  <4>1. PICK d : d = Tell(down, Other(x), r)
                        OBVIOUS
                  <4>2. d \in [Sides -> Seq(Msgs)] /\ d[Other(x)] \in {down[Other(x)], Append(down[Other(x)], r)}
                        /\ d[x] = down[x]
                        BY <1>1, <1>2, <2>5, <4>1, TellIs
                  <4>3. down' = d
                        BY <1>4, <2>4, <3>2, <4>1 DEF OpenRelay
                  <4>4. \A y \in Sides : y = x \/ y = Other(x)
                        BY DEF Sides, Other
                  <4> QED BY <3>2, <4>2, <4>3, <4>4
            <3> QED BY <3>1, <3>2
      <2>7. \A y \in Sides : /\ SameFrames(down'[y], down[y]) /\ SameCredit(down'[y], down[y])
                             /\ ~seat[Other(x)].open => Types(down'[y]) \subseteq Types(down[y]) \cup {"required"}
            <3> TAKE y \in Sides
            <3>1. down[y] \in Seq(Msgs)
                  BY <1>2
            <3>2. SameFrames(down[y], down[y]) /\ SameCredit(down[y], down[y])
                  /\ SameFrames(Append(down[y], m), down[y]) /\ SameCredit(Append(down[y], m), down[y])
                  BY <2>5, <3>1, SameQ
            <3>3. SameFrames(Append(down[y], r), down[y]) /\ SameCredit(Append(down[y], r), down[y])
                  /\ Types(Append(down[y], r)) \subseteq Types(down[y]) \cup {"required"}
                  BY <2>5, <3>1, SameQ, QAppend
            <3> QED BY <2>6, <3>2, <3>3
      <2>8. up' \in [Sides -> Seq(Msgs)]
            /\ \A y \in Sides : /\ SameFrames(up'[y], up[y]) /\ SameCredit(up'[y], up[y])
                                /\ Types(up'[y]) \subseteq Types(up[y])
            <3>1. up' \in [Sides -> Seq(Msgs)] /\ up'[x] = Tail(up[x]) /\ Head(up[x]).type = "open" /\ up[x] # <<>>
                  /\ (\A y \in Sides : y # x => up'[y] = up[y]) /\ \A y \in Sides : Types(up'[y]) \subseteq Types(up[y])
                  BY <1>1, <2>1, ReadIs
            <3>2. \A y \in Sides : up[y] \in Seq(Msgs)
                  BY <1>2
            <3>3. SameFrames(up'[x], up[x]) /\ SameCredit(up'[x], up[x])
                  BY <2>5, <3>1, <3>2, SameQ
            <3>4. \A y \in Sides : y # x => SameFrames(up'[y], up[y]) /\ SameCredit(up'[y], up[y])
                  BY <2>5, <3>1, <3>2, SameQ
            <3> QED BY <3>1, <3>3, <3>4
      <2>9. TypeInv' /\ SeatsOK'
            BY <2>1, <2>2, <2>6, <2>8 DEF IInv, TypeInv, SeatsOK
      <2>10. ~Closed => OpenedOK'
            <3>1. CASE seat[Other(x)].open
                  <4>1. \A y \in Sides : y = x \/ y = Other(x)
                        BY DEF Sides, Other
                  <4>2. \A y \in Sides : seat'[y].open
                        BY <1>1, <2>2, <3>1, <4>1
                  <4> QED BY <4>2 DEF OpenedOK
            <3>2. CASE ~seat[Other(x)].open
                  <4>1. ~Closed => \A y \in Sides : Cold(up[y], down[y], cli[y])
                        BY <1>1, <3>2 DEF IInv, WholeOK, OpenedOK
                  <4>2. ASSUME NEW y \in Sides, Cold(up[y], down[y], cli[y]) PROVE Cold(up'[y], down'[y], cli'[y])
                        <5>1. Types(up'[y]) \subseteq Types(up[y]) \cup {"open"} /\ cli' = cli
                              /\ Types(down'[y]) \subseteq Types(down[y]) \cup {"required"}
                              BY <2>1, <2>7, <2>8, <3>2
                        <5> QED BY <4>2, <5>1, ColdKept
                  <4> QED BY <4>1, <4>2 DEF OpenedOK
            <3> QED BY <3>1, <3>2
      <2>11. \A y \in Sides : /\ SameFrames(up'[y], up[y]) /\ SameFrames(down'[y], down[y])
                              /\ cli'[y].closed = cli[y].closed /\ seat'[y].who = seat[y].who
                              /\ seat'[y].owe = "void" => seat[y].owe = "void"
                              /\ "resume" \in Types(up'[y]) => "resume" \in Types(up[y])
            BY <2>1, <2>2, <2>7, <2>8
      <2>12. IInv' /\ Closed' = Closed
            BY <2>1, <2>2, <2>7, <2>8, <2>9, <2>10, <2>11, SidesAre, LiveQuiet
      <2> QED BY <2>1, <2>12
<1> QED BY <1>3, <1>4

\* What a grant that is not refused does.
LEMMA GrantIs ==
    ASSUME IInv, NEW x \in Sides, GrantRelayCredit(x), BothOpen(x)
    PROVE  /\ TypeInv' /\ SeatsOK' /\ UNCHANGED <<cli, sig, sent, got>> /\ up' = Read(x)
           /\ hist'.blips = hist.blips /\ hist'.refused = hist.refused /\ hist'.overtaken = hist.overtaken
           /\ seat'[x] = seat[x]
           /\ \A y \in Sides : /\ seat'[y].who = seat[y].who /\ seat'[y].open = seat[y].open
                               /\ seat'[y].owe = seat[y].owe
           /\ down'[x] = down[x]
           /\ \E n \in Nat : /\ n <= Head(up[x]).n
                             /\ seat'[Other(x)].credit = seat[Other(x)].credit + n
                             /\ n = 0 => down' = down
                             /\ down'[Other(x)] \in {down[Other(x)], Append(down[Other(x)], Msg("credit", n))}
                             /\ (seat[Other(x)].who = "live" /\ n # 0)
                                  => down'[Other(x)] = Append(down[Other(x)], Msg("credit", n))
<1>1. Reads(x, "credit") /\ Other(x) \in Sides /\ Other(x) # x
      BY SidesAre DEF GrantRelayCredit
<1>2. /\ up \in [Sides -> Seq(Msgs)] /\ down \in [Sides -> Seq(Msgs)] /\ seat \in [Sides -> SeatType]
      /\ hist \in HistType /\ Window \in Nat
      BY RelayAssumption DEF IInv, TypeInv
<1>3. Head(up[x]).n \in Nat /\ Read(x) \in [Sides -> Seq(Msgs)]
      BY <1>1, ReadIs
<1>4. PICK s : s = seat[Other(x)].credit
      OBVIOUS
<1>5. s \in 0 .. Window
      BY <1>1, <1>2, <1>4 DEF SeatType
<1>6. PICK h \in Nat : h = Head(up[x]).n
      BY <1>3
<1>7. PICK n : n = Least(Head(up[x]).n, Grantable(Other(x)))
      OBVIOUS
<1>8. n = Least(h, Window - s)
      BY <1>4, <1>6, <1>7 DEF Grantable
<1>9. n \in Nat /\ n <= h /\ s + n \in 0 .. Window /\ s <= s + n
      BY <1>2, <1>5, <1>8 DEF Least
<1>10. /\ seat' = [seat EXCEPT ![Other(x)].credit = @ + n]
       /\ down' = IF n > 0 THEN Tell(down, Other(x), Msg("credit", n)) ELSE down
       /\ up' = Read(x)
       /\ hist' = [hist EXCEPT !.cut = @ \/ (n < Head(up[x]).n /\ n < Window)]
       /\ UNCHANGED <<cli, sig, sent, got>>
      BY <1>7 DEF GrantRelayCredit
<1>11. seat' \in [Sides -> SeatType] /\ seat'[x] = seat[x] /\ seat'[Other(x)].credit = s + n
       /\ \A y \in Sides : /\ seat'[y].who = seat[y].who /\ seat'[y].open = seat[y].open
                           /\ seat'[y].owe = seat[y].owe /\ seat[y].credit <= seat'[y].credit
      <2>1. PICK w : w = s + n
            OBVIOUS
      <2>2. seat' = [seat EXCEPT ![Other(x)].credit = w] /\ w \in 0 .. Window /\ s <= w
            BY <1>1, <1>2, <1>4, <1>9, <1>10, <2>1
      <2>3. seat' \in [Sides -> SeatType] /\ seat'[x] = seat[x] /\ seat'[Other(x)].credit = w
            /\ \A y \in Sides : /\ seat'[y].who = seat[y].who /\ seat'[y].open = seat[y].open /\ seat'[y].owe = seat[y].owe
            BY <1>1, <1>2, <2>2 DEF SeatType
      <2>4. \A y \in Sides : y = x \/ y = Other(x)
            BY DEF Sides, Other
      <2>5. seat[x].credit <= seat[x].credit
            BY <1>2 DEF SeatType
      <2> QED BY <1>4, <2>1, <2>2, <2>3, <2>4, <2>5
<1>12. SeatsOK'
      <2>1. \A y \in Sides : seat[y].credit \in Nat /\ seat'[y].credit \in Nat
            BY <1>2, <1>11 DEF SeatType
      <2> QED BY <1>11, <2>1 DEF IInv, SeatsOK
<1>13. PICK m : m = Msg("credit", n)
      OBVIOUS
<1>14. m \in Msgs
      BY <1>9, <1>13, MsgIs DEF MsgTypes
<1>15. /\ down' \in [Sides -> Seq(Msgs)] /\ down'[x] = down[x] /\ (n = 0 => down' = down)
       /\ down'[Other(x)] \in {down[Other(x)], Append(down[Other(x)], m)}
       /\ (seat[Other(x)].who = "live" /\ n # 0) => down'[Other(x)] = Append(down[Other(x)], m)
      <2>1. PICK d : d = Tell(down, Other(x), m)
            OBVIOUS
      <2>2. /\ d \in [Sides -> Seq(Msgs)] /\ d[x] = down[x] /\ d[Other(x)] \in {down[Other(x)], Append(down[Other(x)], m)}
            /\ seat[Other(x)].who = "live" => d[Other(x)] = Append(down[Other(x)], m)
            BY <1>1, <1>2, <1>14, <2>1, TellIs
      <2>3. down' = IF n > 0 THEN d ELSE down
            BY <1>10, <1>13, <2>1
      <2>4. n = 0 \/ n > 0
            BY <1>9
      <2> QED BY <1>2, <1>9, <2>2, <2>3, <2>4
<1>16. hist' \in HistType /\ hist'.blips = hist.blips /\ hist'.refused = hist.refused /\ hist'.overtaken = hist.overtaken
      <2>1. PICK b \in BOOLEAN : b = (hist.cut \/ (n < Head(up[x]).n /\ n < Window))
            OBVIOUS
      <2>2. hist' = [hist EXCEPT !.cut = b]
            BY <1>10, <2>1
      <2> QED BY <1>2, <2>2 DEF HistType
<1>17. TypeInv'
      BY <1>3, <1>10, <1>11, <1>15, <1>16 DEF IInv, TypeInv
<1> QED BY <1>4, <1>6, <1>9, <1>10, <1>11, <1>12, <1>13, <1>15, <1>16, <1>17

LEMMA GrantRefused ==
    ASSUME IInv, NEW x \in Sides, Reads(x, "credit") \/ Reads(x, "data"), ~BothOpen(x) PROVE Closed
<1>1. "credit" \in Types(up[x]) \/ "data" \in Types(up[x])
      BY ReadIs
<1>2. ~Closed => seat[x].open /\ seat[Other(x)].open /\ sig[x].sock = "seated" /\ seat[Other(x)].who = "live"
      BY <1>1, HotOpened, SidesAre DEF Cold, IInv, WholeOK, Joined
<1> QED BY <1>2 DEF BothOpen, Partnered, Seated

LEMMA GrantOfSender ==
    ASSUME IInv, GrantRelayCredit("sender"), BothOpen("sender") PROVE IInv' /\ Closed' = Closed
<1>1. Reads("sender", "credit") /\ Other("sender") = "receiver"
      BY DEF GrantRelayCredit, Other
<1>2. up \in [Sides -> Seq(Msgs)] /\ down \in [Sides -> Seq(Msgs)]
      BY DEF IInv, TypeInv
<1>3. /\ TypeInv' /\ SeatsOK' /\ UNCHANGED <<cli, sig, sent, got>> /\ up' = Read("sender")
      /\ hist'.blips = hist.blips /\ hist'.refused = hist.refused /\ hist'.overtaken = hist.overtaken
      /\ seat'["sender"] = seat["sender"] /\ down'["sender"] = down["sender"]
      /\ \A y \in Sides : seat'[y].who = seat[y].who /\ seat'[y].open = seat[y].open /\ seat'[y].owe = seat[y].owe
      BY SidesAre, GrantIs
<1>4. PICK n \in Nat : down'["receiver"] \in {down["receiver"], Append(down["receiver"], Msg("credit", n))}
      BY <1>1, SidesAre, GrantIs
<1>5. PICK m : m = Msg("credit", n)
      OBVIOUS
<1>6. m \in Msgs /\ m.type = "credit"
      BY <1>5, MsgIs DEF MsgTypes
<1>7. /\ up'["sender"] = Tail(up["sender"]) /\ up["sender"] # <<>> /\ Head(up["sender"]).type = "credit"
      /\ up'["receiver"] = up["receiver"] /\ "credit" \in Types(up["sender"])
      /\ \A y \in Sides : Types(up'[y]) \subseteq Types(up[y])
      BY <1>1, <1>3, SidesAre, ReadIs
<1>8. SameFrames(up'["sender"], up["sender"]) /\ SameFrames(up'["receiver"], up["receiver"])
      /\ SameCredit(up'["receiver"], up["receiver"])
      BY <1>2, <1>6, <1>7, SameQ, SidesAre
<1>9. SameFrames(down'["sender"], down["sender"]) /\ SameCredit(down'["sender"], down["sender"])
      BY <1>2, <1>3, <1>6, SameQ, SidesAre
<1>10. SameFrames(down'["receiver"], down["receiver"])
      <2>1. SameFrames(Append(down["receiver"], m), down["receiver"]) /\ SameFrames(down["receiver"], down["receiver"])
            BY <1>2, <1>6, SameQ, SidesAre
      <2> QED BY <1>4, <1>5, <2>1
<1>11. ~Closed => OpenedOK'
      <2>1. ~Closed => \A y \in Sides : seat[y].open
            BY <1>7, HotOpened, SidesAre DEF Cold
      <2> QED BY <1>3, <2>1 DEF OpenedOK
<1>12. \A y \in Sides : /\ SameFrames(up'[y], up[y]) /\ SameFrames(down'[y], down[y])
                        /\ cli'[y].closed = cli[y].closed /\ seat'[y].who = seat[y].who
                        /\ seat'[y].owe = "void" => seat[y].owe = "void"
                        /\ "resume" \in Types(up'[y]) => "resume" \in Types(up[y])
      <2>1. \A y \in Sides : y = "sender" \/ y = "receiver"
            BY DEF Sides
      <2> QED BY <1>3, <1>7, <1>8, <1>9, <1>10, <2>1
<1> QED BY <1>3, <1>8, <1>9, <1>11, <1>12, SidesAre, LiveQuiet

LEMMA GrantOfReceiver ==
    ASSUME IInv, GrantRelayCredit("receiver"), BothOpen("receiver") PROVE IInv' /\ Closed' = Closed
<1>1. Reads("receiver", "credit") /\ Other("receiver") = "sender"
      BY DEF GrantRelayCredit, Other
<1>2. /\ up \in [Sides -> Seq(Msgs)] /\ down \in [Sides -> Seq(Msgs)]
      /\ cli["sender"].credit \in Nat /\ cli["receiver"].consumed \in Nat /\ cli["receiver"].ready \in BOOLEAN
      /\ sent \in Nat /\ Len(got) \in Nat /\ seat["sender"].credit \in Nat
      BY SidesAre DEF IInv, TypeInv, CliType, SeatType
<1>3. /\ TypeInv' /\ SeatsOK' /\ UNCHANGED <<cli, sig, sent, got>> /\ up' = Read("receiver")
      /\ hist'.blips = hist.blips /\ hist'.refused = hist.refused /\ hist'.overtaken = hist.overtaken
      /\ seat'["receiver"] = seat["receiver"] /\ down'["receiver"] = down["receiver"]
      /\ \A y \in Sides : seat'[y].who = seat[y].who /\ seat'[y].open = seat[y].open /\ seat'[y].owe = seat[y].owe
      BY SidesAre, GrantIs
<1>4. PICK n \in Nat : /\ n <= Head(up["receiver"]).n
                       /\ seat'["sender"].credit = seat["sender"].credit + n
                       /\ n = 0 => down' = down
                       /\ down'["sender"] \in {down["sender"], Append(down["sender"], Msg("credit", n))}
                       /\ (seat["sender"].who = "live" /\ n # 0)
                            => down'["sender"] = Append(down["sender"], Msg("credit", n))
      <2>1. \E n \in Nat : /\ n <= Head(up["receiver"]).n
                           /\ seat'[Other("receiver")].credit = seat[Other("receiver")].credit + n
                           /\ n = 0 => down' = down
                           /\ down'[Other("receiver")] \in {down[Other("receiver")],
                                                            Append(down[Other("receiver")], Msg("credit", n))}
                           /\ (seat[Other("receiver")].who = "live" /\ n # 0)
                                => down'[Other("receiver")] = Append(down[Other("receiver")], Msg("credit", n))
            BY SidesAre, GrantIs
      <2> QED BY <1>1, <2>1
<1>5. PICK m : m = Msg("credit", n)
      OBVIOUS
<1>6. m \in Msgs /\ m.type = "credit"
      BY <1>5, MsgIs DEF MsgTypes
<1>7. /\ up'["receiver"] = Tail(up["receiver"]) /\ up["receiver"] # <<>> /\ Head(up["receiver"]).type = "credit"
      /\ up'["sender"] = up["sender"] /\ "credit" \in Types(up["receiver"])
      /\ \A y \in Sides : Types(up'[y]) \subseteq Types(up[y])
      BY <1>1, <1>3, SidesAre, ReadIs
<1>8. SameFrames(up'["sender"], up["sender"]) /\ SameFrames(up'["receiver"], up["receiver"])
      BY <1>2, <1>6, <1>7, SameQ, SidesAre
<1>9. SameFrames(down'["sender"], down["sender"]) /\ SameFrames(down'["receiver"], down["receiver"])
      <2>1. SameFrames(Append(down["sender"], m), down["sender"]) /\ SameFrames(down["sender"], down["sender"])
            /\ SameFrames(down["receiver"], down["receiver"])
            BY <1>2, <1>6, SameQ, SidesAre
      <2> QED BY <1>3, <1>4, <1>5, <2>1
<1>10. \A y \in Sides : SameFrames(up'[y], up[y]) /\ SameFrames(down'[y], down[y])
      BY <1>8, <1>9 DEF Sides
<1>11. FlightOK'
      BY <1>3, <1>10, SameIsLess, QuietFlight DEF IInv
<1>12. Budget'
      <2> DEFINE M(ds, ur) == Money(cli["sender"].credit, ds, ur, cli["receiver"].consumed, cli["receiver"].ready, sent, Len(got))
      <2>1. M(down["sender"], up["receiver"])
            BY DEF IInv, Budget
      <2>2. M(Append(down["sender"], Msg("credit", n)), Tail(up["receiver"]))
            <3>1. down["sender"] \in Seq(Msgs) /\ up["receiver"] \in Seq(Msgs)
                  BY <1>2, SidesAre
            <3>2. NoMore(Append(down["sender"], Msg("credit", n)), Tail(up["receiver"]), down["sender"], up["receiver"])
                  BY <1>4, <1>7, <3>1, Granting
            <3> QED BY <1>2, <2>1, <3>2, MoneyMoved
      <2>3. M(down["sender"], Tail(up["receiver"]))
            <3>1. LessCredit(down["sender"], down["sender"]) /\ LessCredit(Tail(up["receiver"]), up["receiver"])
                  BY <1>2, <1>7, SidesAre, LessFew DEF Fewer
            <3> QED BY <1>2, <2>1, <3>1, MoneyLess
      <2>4. M(down'["sender"], up'["receiver"])
            BY <1>4, <1>7, <2>2, <2>3
      <2> QED BY <1>3, <2>4 DEF Budget
<1>13. ~Closed => OpenedOK'
      <2>1. ~Closed => \A y \in Sides : seat[y].open
            BY <1>7, HotOpened, SidesAre DEF Cold
      <2> QED BY <1>3, <2>1 DEF OpenedOK
<1>14. ~Closed => AccountOK'
      <2> SUFFICES ASSUME ~Closed PROVE AccountOK'
          OBVIOUS
      <2>1. AccountOK /\ seat["sender"].who = "live"
            BY SidesAre DEF IInv, WholeOK, Joined
      <2>2. seat'["sender"].owe = seat["sender"].owe
            BY <1>3, SidesAre
      <2>3. CASE n = 0
            <3>1. seat["sender"].credit + 0 = seat["sender"].credit /\ down' = down
                  BY <1>2, <1>4, <2>3
            <3> QED BY <1>3, <1>4, <1>7, <2>1, <2>2, <2>3, <3>1 DEF AccountOK
      <2>4. CASE n # 0
            <3>1. down'["sender"] = Append(down["sender"], Msg("credit", n))
                  BY <1>4, <2>1, <2>4
            <3>2. Account(cli["sender"].credit, Append(down["sender"], Msg("credit", n)), up["sender"],
                          seat["sender"].credit + n, seat["sender"].owe)
                  BY <1>2, <2>1, SidesAre, AccountGranted DEF AccountOK
            <3> QED BY <1>3, <1>4, <1>7, <2>2, <3>1, <3>2 DEF AccountOK
      <2> QED BY <2>3, <2>4
<1>15. ~Closed => OrderOK'
      <2>1. Nums(up'["sender"]) = Nums(up["sender"]) /\ Nums(down'["receiver"]) = Nums(down["receiver"])
            BY <1>8, <1>9 DEF SameFrames
      <2>2. OrderOK => OrderOK'
            BY <1>3, <2>1 DEF OrderOK
      <2> QED BY <2>2 DEF IInv, WholeOK
<1>16. \A y \in Sides : /\ cli'[y].closed = cli[y].closed /\ seat'[y].who = seat[y].who
                        /\ seat'[y].owe = "void" => seat[y].owe = "void"
                        /\ "resume" \in Types(up'[y]) => "resume" \in Types(up[y])
      BY <1>3, <1>7
<1>17. WholeOK' /\ Closed' = Closed
      BY <1>3, <1>13, <1>14, <1>15, <1>16, WholeKept
<1> QED BY <1>3, <1>11, <1>12, <1>17 DEF IInv

LEMMA ForwardOfReceiver ==
    ASSUME IInv, ForwardRelay("receiver") PROVE FALSE
<1>1. Reads("receiver", "data")
      BY DEF ForwardRelay
<1>2. up["receiver"] # <<>> /\ up["receiver"] \in Seq(Msgs) /\ Head(up["receiver"]).type = "data"
      BY <1>1, ReadIs, SidesAre
<1>3. Head(up["receiver"]).n \in Nums(up["receiver"])
      BY <1>2, QHead
<1> QED BY <1>3 DEF IInv, FlightOK

LEMMA ForwardRefused ==
    ASSUME IInv, Reads("sender", "data"),
           ~BothOpen("sender") \/ seat["sender"].credit < 1 \/ seat["receiver"].who # "live"
    PROVE  Closed
<1> SUFFICES ASSUME ~Closed PROVE FALSE
    OBVIOUS
<1>1. BothOpen("sender") /\ seat["receiver"].who = "live" /\ AccountOK
      BY GrantRefused, SidesAre DEF IInv, WholeOK, Joined
<1>2. up["sender"] # <<>> /\ up["sender"] \in Seq(Msgs) /\ Head(up["sender"]).type = "data" /\ seat["sender"].owe = "no"
      BY ReadIs, SidesAre
<1>3. cli["sender"].credit \in Nat /\ seat["sender"].credit \in Nat
      BY SidesAre DEF IInv, TypeInv, CliType, SeatType
<1>4. Account(cli["sender"].credit, down["sender"], up["sender"], seat["sender"].credit, "no")
      BY <1>1, <1>2 DEF AccountOK
<1>5. seat["sender"].credit >= 1
      BY <1>2, <1>3, <1>4, AccountForward
<1> QED BY <1>1, <1>3, <1>5

LEMMA ForwardOfSender ==
    ASSUME IInv, ForwardRelay("sender"), BothOpen("sender"), ~(seat["sender"].credit < 1), seat["receiver"].who = "live"
    PROVE  IInv' /\ Closed' = Closed /\ UNCHANGED <<cli, sig, sent, got, hist>>
<1>1. Reads("sender", "data") /\ Other("sender") = "receiver"
      BY DEF ForwardRelay, Other
<1>2. /\ up \in [Sides -> Seq(Msgs)] /\ down \in [Sides -> Seq(Msgs)] /\ seat \in [Sides -> SeatType]
      /\ cli["sender"].credit \in Nat /\ seat["sender"].credit \in Nat /\ down["receiver"] \in Seq(Msgs)
      BY SidesAre DEF IInv, TypeInv, CliType, SeatType
<1>3. /\ up["sender"] # <<>> /\ up["sender"] \in Seq(Msgs) /\ Head(up["sender"]) \in Msgs
      /\ Head(up["sender"]).type = "data" /\ "data" \in Types(up["sender"]) /\ seat["sender"].owe = "no"
      BY <1>1, ReadIs, SidesAre
<1>4. /\ seat' = [seat EXCEPT !["sender"].owe = "yes"]
      /\ down' = Tell(down, "receiver", Head(up["sender"]))
      /\ up' = Read("sender")
      /\ UNCHANGED <<cli, sig, sent, got, hist>>
      BY <1>1 DEF ForwardRelay
<1>5. /\ up' \in [Sides -> Seq(Msgs)] /\ up'["sender"] = Tail(up["sender"]) /\ up'["receiver"] = up["receiver"]
      /\ \A y \in Sides : Types(up'[y]) \subseteq Types(up[y])
      BY <1>1, <1>4, ReadIs, SidesAre
<1>6. /\ down' \in [Sides -> Seq(Msgs)] /\ down'["sender"] = down["sender"]
      /\ down'["receiver"] = Append(down["receiver"], Head(up["sender"]))
      BY <1>2, <1>3, <1>4, TellIs, SidesAre
<1>7. /\ seat' \in [Sides -> SeatType] /\ seat'["sender"].owe = "yes" /\ seat'["sender"].credit = seat["sender"].credit
      /\ seat'["receiver"] = seat["receiver"]
      /\ \A y \in Sides : seat'[y].who = seat[y].who /\ seat'[y].open = seat[y].open
      BY <1>2, <1>4 DEF SeatType, Sides
<1>8. TypeInv' /\ SeatsOK'
      <2>1. SeatsOK'
            BY <1>2, <1>7 DEF IInv, SeatsOK, Sides
      <2> QED BY <1>4, <1>5, <1>6, <1>7, <2>1 DEF IInv, TypeInv
<1>9. Flight(Tail(up["sender"]), Append(down["receiver"], Head(up["sender"])), cli["receiver"].pending,
             cli["receiver"].drain, got, sent)
      BY <1>2, <1>3, FlightForward DEF IInv, FlightOK
<1>10. FlightOK'
      BY <1>4, <1>5, <1>6, <1>9 DEF IInv, FlightOK
<1>11. Budget'
      BY <1>4, <1>5, <1>6 DEF IInv, Budget
<1>12. ~Closed => OpenedOK'
      <2>1. ~Closed => \A y \in Sides : seat[y].open
            BY <1>3, HotOpened, SidesAre DEF Cold
      <2> QED BY <1>7, <2>1 DEF OpenedOK
<1>13. ~Closed => AccountOK'
      <2>1. ~Closed => Account(cli["sender"].credit, down["sender"], up["sender"], seat["sender"].credit, "no")
            BY <1>3 DEF IInv, WholeOK, AccountOK
      <2>2. ~Closed => Account(cli["sender"].credit, down["sender"], Tail(up["sender"]), seat["sender"].credit, "yes")
            BY <1>2, <1>3, <2>1, AccountForward
      <2> QED BY <1>4, <1>5, <1>6, <1>7, <2>2 DEF AccountOK
<1>14. ~Closed => OrderOK'
      <2>1. Nums(up["sender"]) = Nums(Tail(up["sender"])) \cup {Head(up["sender"]).n}
            BY <1>3, QTail
      <2>2. Nums(down'["receiver"]) = Nums(down["receiver"]) \cup {Head(up["sender"]).n}
            BY <1>2, <1>3, <1>6, QAppend
      <2>3. Nums(down'["receiver"]) \cup Nums(up'["sender"]) = Nums(down["receiver"]) \cup Nums(up["sender"])
            BY <1>5, <2>1, <2>2
      <2>4. OrderOK => OrderOK'
            BY <1>4, <2>3 DEF OrderOK
      <2> QED BY <2>4 DEF IInv, WholeOK
<1>15. \A y \in Sides : /\ cli'[y].closed = cli[y].closed /\ seat'[y].who = seat[y].who
                        /\ seat'[y].owe = "void" => seat[y].owe = "void"
                        /\ "resume" \in Types(up'[y]) => "resume" \in Types(up[y])
      BY <1>4, <1>5, <1>7 DEF Sides
<1>16. WholeOK' /\ Closed' = Closed
      BY <1>4, <1>12, <1>13, <1>14, <1>15, WholeKept
<1> QED BY <1>4, <1>8, <1>10, <1>11, <1>16 DEF IInv

LEMMA RelayChargeStep ==
    ASSUME IInv, NEW x \in Sides, RelayCharge(x)
    PROVE  IInv' /\ Closed' = Closed
<1>1. /\ seat \in [Sides -> SeatType] /\ seat[x].owe # "no" /\ seat[x].owe \in {"no", "yes", "void"}
      /\ UNCHANGED <<cli, sig, up, down, sent, got, hist>> /\ Window \in Nat
      /\ cli["sender"].credit \in Nat /\ seat["sender"].credit \in Nat
      <2>1. seat \in [Sides -> SeatType] /\ cli \in [Sides -> CliType] /\ seat[x].owe # "no"
            /\ UNCHANGED <<cli, sig, up, down, sent, got, hist>>
            BY DEF RelayCharge, IInv, TypeInv
      <2>2. seat[x] \in SeatType /\ cli["sender"] \in CliType /\ seat["sender"] \in SeatType
            BY <2>1, SidesAre
      <2> QED BY RelayAssumption, <2>1, <2>2 DEF SeatType, CliType
<1>2. PICK c : c = Charged(x)
      OBVIOUS
<1>3. c \in 0 .. Window
      <2>1. seat[x].credit \in 0 .. Window /\ (seat[x].owe = "yes" => seat[x].credit >= 1)
            BY <1>1 DEF SeatType, IInv, SeatsOK
      <2> QED BY <1>1, <1>2, <2>1 DEF Charged
<1>4. seat' = [seat EXCEPT ![x].credit = c, ![x].owe = "no"]
      BY <1>2 DEF RelayCharge
<1>5. /\ seat' \in [Sides -> SeatType] /\ seat'[x].owe = "no" /\ seat'[x].credit = c
      /\ \A y \in Sides : y # x => seat'[y] = seat[y]
      /\ \A y \in Sides : seat'[y].who = seat[y].who /\ seat'[y].open = seat[y].open
      BY <1>1, <1>3, <1>4 DEF SeatType
<1>6. TypeInv' /\ SeatsOK'
      <2>1. SeatsOK'
            BY <1>5 DEF IInv, SeatsOK
      <2> QED BY <1>1, <1>5, <2>1 DEF IInv, TypeInv
<1>7. FlightOK' /\ Budget'
      BY <1>1, Unmoved
<1>8. ~Closed => OpenedOK'
      <2>1. OpenedOK => OpenedOK'
            BY <1>1, <1>5 DEF OpenedOK
      <2> QED BY <2>1 DEF IInv, WholeOK
<1>9. ~Closed => AccountOK'
      <2> SUFFICES ASSUME ~Closed PROVE AccountOK'
          OBVIOUS
      <2>1. AccountOK /\ seat[x].owe = "yes"
            BY <1>1 DEF IInv, WholeOK, Joined
      <2>2. CASE x = "sender"
            <3>1. Account(cli["sender"].credit, down["sender"], up["sender"], seat["sender"].credit, "yes")
                  BY <2>1, <2>2 DEF AccountOK
            <3>2. Account(cli["sender"].credit, down["sender"], up["sender"], seat["sender"].credit - 1, "no")
                  BY <1>1, <3>1, AccountCharge
            <3>3. seat'["sender"].credit = seat["sender"].credit - 1 /\ seat'["sender"].owe = "no"
                  BY <1>2, <1>5, <2>1, <2>2 DEF Charged
            <3> QED BY <1>1, <3>2, <3>3 DEF AccountOK
      <2>3. CASE x # "sender"
            <3>1. seat'["sender"] = seat["sender"]
                  BY <1>5, <2>3, SidesAre
            <3> QED BY <1>1, <2>1, <3>1 DEF AccountOK
      <2> QED BY <2>2, <2>3
<1>10. ~Closed => OrderOK'
      <2>1. OrderOK => OrderOK'
            BY <1>1 DEF OrderOK
      <2> QED BY <2>1 DEF IInv, WholeOK
<1>11. \A y \in Sides : /\ cli'[y].closed = cli[y].closed /\ seat'[y].who = seat[y].who
                        /\ seat'[y].owe = "void" => seat[y].owe = "void"
                        /\ "resume" \in Types(up'[y]) => "resume" \in Types(up[y])
      BY <1>1, <1>5
<1>12. WholeOK' /\ Closed' = Closed
      BY <1>1, <1>8, <1>9, <1>10, <1>11, WholeKept
<1> QED BY <1>6, <1>7, <1>12 DEF IInv

LEMMA ReadyOfReceiver ==
    ASSUME IInv, HandleReady("receiver") PROVE IInv' /\ Closed' = Closed
<1>1. /\ up \in [Sides -> Seq(Msgs)] /\ down \in [Sides -> Seq(Msgs)] /\ cli \in [Sides -> CliType] /\ ClientWindow \in Nat
      /\ up["receiver"] \in Seq(Msgs) /\ up["sender"] \in Seq(Msgs)
      /\ down["receiver"] \in Seq(Msgs) /\ down["sender"] \in Seq(Msgs)
      BY RelayAssumption, SidesAre DEF IInv, TypeInv
<1>2. /\ cli["sender"].credit \in Nat /\ cli["receiver"].consumed \in Nat /\ cli["receiver"].ready \in BOOLEAN
      /\ sent \in Nat /\ Len(got) \in Nat
      BY SidesAre DEF IInv, TypeInv, CliType
<1>3. PICK m : m = Msg("credit", ClientWindow)
      OBVIOUS
<1>4. m \in Msgs /\ m.type = "credit"
      BY <1>1, <1>3, MsgIs DEF MsgTypes
<1>5. /\ up' \in [Sides -> Seq(Msgs)] /\ up'["sender"] = up["sender"]
      /\ up'["receiver"] \in {up["receiver"], Append(up["receiver"], m)}
      /\ cli["receiver"].ready => up' = up
      <2>1. PICK s : s = Says("receiver", <<m>>)
            OBVIOUS
      <2>2. s \in [Sides -> Seq(Msgs)] /\ s["receiver"] \in {up["receiver"], Append(up["receiver"], m)}
            /\ s["sender"] = up["sender"]
            BY <1>1, <1>4, <2>1, SaysIs, SidesAre
      <2>3. up' = IF cli["receiver"].ready THEN up ELSE s
            BY <1>3, <2>1 DEF HandleReady, FirstReady
      <2> QED BY <1>1, <2>2, <2>3
<1>6. down["receiver"] # <<>> /\ Head(down["receiver"]).type = "ready"
      BY DEF HandleReady, Arrives
<1>7. /\ down' \in [Sides -> Seq(Msgs)] /\ down'["sender"] = down["sender"] /\ down'["receiver"] = Tail(down["receiver"])
      BY <1>1, <1>6, PopIs, SidesAre DEF HandleReady, Popped
<1>8. /\ cli' \in [Sides -> CliType] /\ cli'["sender"] = cli["sender"] /\ cli'["receiver"].ready = TRUE
      /\ cli'["receiver"].closed = cli["receiver"].closed /\ cli'["receiver"].consumed = cli["receiver"].consumed
      /\ cli'["receiver"].handler = cli["receiver"].handler /\ cli'["receiver"].pending = cli["receiver"].pending
      /\ cli'["receiver"].drain = cli["receiver"].drain
      BY <1>1 DEF CliType, HandleReady, Sides
<1>9. UNCHANGED <<sig, seat, sent, got, hist>>
      BY DEF HandleReady
<1>10. TypeInv' /\ SeatsOK'
      BY <1>5, <1>7, <1>8, <1>9 DEF IInv, TypeInv, SeatsOK
<1>11. /\ SameFrames(up'["sender"], up["sender"]) /\ SameFrames(up'["receiver"], up["receiver"])
       /\ "resume" \in Types(up'["receiver"]) => "resume" \in Types(up["receiver"])
      <2>1. /\ SameFrames(up["sender"], up["sender"]) /\ SameFrames(up["receiver"], up["receiver"])
            /\ SameFrames(Append(up["receiver"], m), up["receiver"])
            BY <1>1, <1>4, SameQ
      <2>2. "resume" \in Types(Append(up["receiver"], m)) => "resume" \in Types(up["receiver"])
            BY <1>1, <1>4, QAppend
      <2>3. CASE up'["receiver"] = up["receiver"]
            BY <1>5, <2>1, <2>3
      <2>4. CASE up'["receiver"] = Append(up["receiver"], m)
            BY <1>5, <2>1, <2>2, <2>4
      <2> QED BY <1>5, <2>3, <2>4
<1>12. SameFrames(down'["sender"], down["sender"]) /\ SameFrames(down'["receiver"], down["receiver"])
      BY <1>1, <1>4, <1>6, <1>7, SameQ
<1>13. \A y \in Sides : SameFrames(up'[y], up[y]) /\ SameFrames(down'[y], down[y])
      BY <1>11, <1>12 DEF Sides
<1>14. FlightOK'
      BY <1>8, <1>9, <1>13, SameIsLess, QuietFlight DEF IInv
<1>15. Budget'
      <2>1. CASE cli["receiver"].ready
            <3>1. cli["receiver"].ready = TRUE /\ up' = up /\ down'["sender"] = down["sender"] /\ sent' = sent /\ got' = got
                  BY <1>2, <1>5, <1>7, <1>9, <2>1
            <3>2. Money(cli["sender"].credit, down["sender"], up["receiver"], cli["receiver"].consumed, TRUE, sent, Len(got))
                  BY <3>1 DEF IInv, Budget
            <3> QED BY <1>8, <3>1, <3>2 DEF Budget
      <2>2. CASE ~cli["receiver"].ready
            <3>1. Money(cli["sender"].credit, down["sender"], up["receiver"], cli["receiver"].consumed, FALSE, sent, Len(got))
                  BY <1>2, <2>2 DEF IInv, Budget
            <3>2. MoreBy(up'["receiver"], up["receiver"], ClientWindow)
                  <4>1. MoreBy(up["receiver"], up["receiver"], ClientWindow)
                        /\ MoreBy(Append(up["receiver"], m), up["receiver"], ClientWindow)
                        BY <1>1, <1>3, MoreSaid
                  <4> QED BY <1>5, <4>1
            <3>3. Money(cli["sender"].credit, down["sender"], up'["receiver"], cli["receiver"].consumed, TRUE, sent, Len(got))
                  BY <1>2, <3>1, <3>2, MoneyReady
            <3> QED BY <1>7, <1>8, <1>9, <3>3 DEF Budget
      <2> QED BY <2>1, <2>2
<1>16. ~Closed => OpenedOK'
      <2>1. "ready" \in Types(down["receiver"])
            BY <1>1, <1>6, QHead
      <2> QED BY <1>9, <2>1, HotOpened, SidesAre DEF Cold
<1>17. ~Closed => AccountOK'
      <2>1. AccountOK => AccountOK'
            BY <1>5, <1>7, <1>8, <1>9 DEF AccountOK
      <2> QED BY <2>1 DEF IInv, WholeOK
<1>18. ~Closed => OrderOK'
      <2>1. Nums(up'["sender"]) = Nums(up["sender"]) /\ Nums(down'["receiver"]) = Nums(down["receiver"])
            BY <1>11, <1>12 DEF SameFrames
      <2>2. OrderOK => OrderOK'
            BY <1>8, <1>9, <2>1 DEF OrderOK
      <2> QED BY <2>2 DEF IInv, WholeOK
<1>19. \A y \in Sides : /\ cli'[y].closed = cli[y].closed /\ seat'[y].who = seat[y].who
                        /\ seat'[y].owe = "void" => seat[y].owe = "void"
                        /\ "resume" \in Types(up'[y]) => "resume" \in Types(up[y])
      BY <1>5, <1>8, <1>9, <1>11 DEF Sides
<1>20. WholeOK' /\ Closed' = Closed
      BY <1>9, <1>16, <1>17, <1>18, <1>19, WholeKept
<1> QED BY <1>10, <1>14, <1>15, <1>20 DEF IInv

LEMMA CreditOfSender ==
    ASSUME IInv, HandleCredit("sender") PROVE IInv' /\ Closed' = Closed
<1>1. /\ up \in [Sides -> Seq(Msgs)] /\ down \in [Sides -> Seq(Msgs)] /\ cli \in [Sides -> CliType]
      /\ up["receiver"] \in Seq(Msgs) /\ up["sender"] \in Seq(Msgs)
      /\ down["receiver"] \in Seq(Msgs) /\ down["sender"] \in Seq(Msgs)
      BY SidesAre DEF IInv, TypeInv
<1>2. /\ cli["sender"].credit \in Nat /\ cli["receiver"].consumed \in Nat /\ cli["receiver"].ready \in BOOLEAN
      /\ sent \in Nat /\ Len(got) \in Nat
      BY SidesAre DEF IInv, TypeInv, CliType
<1>3. down["sender"] # <<>> /\ Head(down["sender"]).type = "credit" /\ Head(down["sender"]).n \in Nat
      /\ "credit" \in Types(down["sender"]) /\ Head(down["sender"]) \in Msgs
      BY <1>1, QHead DEF HandleCredit, Arrives
<1>4. /\ down' \in [Sides -> Seq(Msgs)] /\ down'["receiver"] = down["receiver"] /\ down'["sender"] = Tail(down["sender"])
      BY <1>1, <1>3, PopIs, SidesAre DEF HandleCredit, Popped
<1>5. /\ cli' \in [Sides -> CliType] /\ cli'["receiver"] = cli["receiver"]
      /\ cli'["sender"].credit = cli["sender"].credit + Head(down["sender"]).n
      /\ cli'["sender"].closed = cli["sender"].closed
      <2>1. PICK n \in Nat : n = cli["sender"].credit + Head(down["sender"]).n
            BY <1>2, <1>3
      <2>2. cli' = [cli EXCEPT !["sender"].credit = n]
            BY <1>1, <2>1, SidesAre DEF HandleCredit
      <2> QED BY <1>1, <2>1, <2>2 DEF CliType, Sides
<1>6. UNCHANGED <<sig, seat, up, sent, got, hist>>
      BY DEF HandleCredit
<1>7. TypeInv' /\ SeatsOK'
      BY <1>4, <1>5, <1>6 DEF IInv, TypeInv, SeatsOK
<1>8. \A y \in Sides : SameFrames(up'[y], up[y]) /\ SameFrames(down'[y], down[y])
      <2>1. SameFrames(up["sender"], up["sender"]) /\ SameFrames(up["receiver"], up["receiver"])
            /\ SameFrames(down["receiver"], down["receiver"]) /\ SameFrames(Tail(down["sender"]), down["sender"])
            BY <1>1, <1>3, SameQ
      <2> QED BY <1>4, <1>6, <2>1 DEF Sides
<1>9. FlightOK'
      BY <1>5, <1>6, <1>8, SameIsLess, QuietFlight DEF IInv
<1>10. Budget'
      <2>1. Money(cli["sender"].credit + Head(down["sender"]).n, Tail(down["sender"]), up["receiver"],
                  cli["receiver"].consumed, cli["receiver"].ready, sent, Len(got))
            BY <1>1, <1>2, <1>3, MoneyArrives DEF IInv, Budget
      <2> QED BY <1>4, <1>5, <1>6, <2>1 DEF Budget
<1>11. ~Closed => OpenedOK'
      BY <1>3, <1>6, HotOpened, SidesAre DEF Cold
<1>12. ~Closed => AccountOK'
      <2>1. seat["sender"].credit \in Nat
            BY SidesAre DEF IInv, TypeInv, SeatType
      <2>2. AccountOK => Account(cli["sender"].credit + Head(down["sender"]).n, Tail(down["sender"]), up["sender"],
                                 seat["sender"].credit, seat["sender"].owe)
            BY <1>1, <1>2, <1>3, <2>1, AccountArrives DEF AccountOK
      <2>3. AccountOK => AccountOK'
            BY <1>4, <1>5, <1>6, <2>2 DEF AccountOK
      <2> QED BY <2>3 DEF IInv, WholeOK
<1>13. ~Closed => OrderOK'
      <2>1. OrderOK => OrderOK'
            BY <1>4, <1>5, <1>6 DEF OrderOK
      <2> QED BY <2>1 DEF IInv, WholeOK
<1>14. \A y \in Sides : /\ cli'[y].closed = cli[y].closed /\ seat'[y].who = seat[y].who
                        /\ seat'[y].owe = "void" => seat[y].owe = "void"
                        /\ "resume" \in Types(up'[y]) => "resume" \in Types(up[y])
      BY <1>5, <1>6 DEF Sides
<1>15. WholeOK' /\ Closed' = Closed
      BY <1>6, <1>11, <1>12, <1>13, <1>14, WholeKept
<1> QED BY <1>7, <1>9, <1>10, <1>15 DEF IInv

LEMMA SendStep ==
    ASSUME IInv, Send
    PROVE  IInv' /\ Closed' = Closed /\ sent < ClientWindow + Len(got)
<1>1. /\ up \in [Sides -> Seq(Msgs)] /\ down \in [Sides -> Seq(Msgs)] /\ cli \in [Sides -> CliType]
      /\ up["receiver"] \in Seq(Msgs) /\ up["sender"] \in Seq(Msgs) /\ down["receiver"] \in Seq(Msgs)
      /\ got \in Seq(Nat) /\ sent \in Nat
      BY SidesAre DEF IInv, TypeInv
<1>2. /\ cli["sender"].credit \in Nat /\ cli["receiver"].consumed \in Nat /\ cli["receiver"].ready \in BOOLEAN
      /\ sent \in Nat /\ Len(got) \in Nat /\ cli["sender"].credit >= 1 /\ cli["sender"].ready
      /\ cli["receiver"].pending \in Seq(Nat) /\ cli["receiver"].drain \in Seq(Nat)
      <2>1. cli["sender"] \in CliType /\ cli["receiver"] \in CliType
            BY <1>1, SidesAre
      <2>2. cli["sender"].credit >= 1 /\ cli["sender"].ready
            BY DEF Send, MaySend, MaySendAhead
      <2> QED BY <1>1, <2>1, <2>2 DEF CliType
<1>3. PICK m : m = Msg("data", sent + 1)
      OBVIOUS
<1>4. m \in Msgs /\ m.type = "data" /\ m.n = sent + 1 /\ sent + 1 \in Nat
      BY <1>1, <1>3, MsgIs DEF MsgTypes
<1>5. /\ up' \in [Sides -> Seq(Msgs)] /\ up'["receiver"] = up["receiver"]
      /\ up'["sender"] = Append(up["sender"], m)
      <2>1. up' = Says("sender", <<m>>) /\ sig["sender"].sock # "closed"
            BY <1>3 DEF Send
      <2> QED BY <1>1, <1>4, <2>1, SaysIs, SidesAre
<1>6. /\ cli' \in [Sides -> CliType] /\ cli'["receiver"] = cli["receiver"]
      /\ cli'["sender"].credit = cli["sender"].credit - 1 /\ cli'["sender"].closed = cli["sender"].closed
      <2>1. PICK c : c = cli["sender"].credit - 1
            OBVIOUS
      <2>2. c \in Nat
            BY <1>2, <2>1
      <2>3. cli' = [cli EXCEPT !["sender"].credit = c]
            <3>1. cli["sender"].credit # 0
                  BY <1>2
            <3> QED BY <1>1, <2>1, <3>1, SidesAre DEF Send
      <2> QED BY <1>1, <2>1, <2>2, <2>3 DEF CliType, Sides
<1>7. UNCHANGED <<sig, seat, down, got, hist>> /\ sent' = sent + 1
      BY DEF Send
<1>8. TypeInv' /\ SeatsOK'
      BY <1>4, <1>5, <1>6, <1>7 DEF IInv, TypeInv, SeatsOK
<1>9. FlightOK'
      <2>1. Flight(Append(up["sender"], m), down["receiver"], cli["receiver"].pending, cli["receiver"].drain, got, sent + 1)
            BY <1>1, <1>4, FlightSend DEF IInv, FlightOK
      <2> QED BY <1>5, <1>6, <1>7, <2>1 DEF IInv, FlightOK
<1>10. Budget' /\ sent < ClientWindow + Len(got)
      <2>1. /\ Money(cli["sender"].credit - 1, down["sender"], up["receiver"],
                     cli["receiver"].consumed, cli["receiver"].ready, sent + 1, Len(got))
            /\ sent < ClientWindow + Len(got)
            BY <1>2, MoneySpent DEF IInv, Budget
      <2> QED BY <1>5, <1>6, <1>7, <2>1 DEF Budget
<1>11. ~Closed => OpenedOK'
      BY <1>2, <1>7, HotOpened, SidesAre DEF Cold
<1>12. ~Closed => AccountOK'
      <2>1. seat["sender"].credit \in Nat
            BY SidesAre DEF IInv, TypeInv, SeatType
      <2>2. AccountOK => Account(cli["sender"].credit - 1, down["sender"], Append(up["sender"], m),
                                 seat["sender"].credit, seat["sender"].owe)
            BY <1>1, <1>2, <1>4, <2>1, AccountSend DEF AccountOK
      <2>3. AccountOK => AccountOK'
            BY <1>5, <1>6, <1>7, <2>2 DEF AccountOK
      <2> QED BY <2>3 DEF IInv, WholeOK
<1>13. ~Closed => OrderOK'
      <2>1. PICK ns : ns = Nums(down["receiver"]) \cup Nums(up["sender"])
            OBVIOUS
      <2>2. Nums(down'["receiver"]) \cup Nums(up'["sender"]) = ns \cup {sent + 1}
            <3>1. Nums(Append(up["sender"], m)) = Nums(up["sender"]) \cup {sent + 1}
                  BY <1>1, <1>4, QAppend
            <3> QED BY <1>5, <1>7, <2>1, <3>1
      <2>3. InOrder(ns, cli["receiver"].pending, cli["receiver"].drain, got, sent)
            => InOrder(ns \cup {sent + 1}, cli["receiver"].pending, cli["receiver"].drain, got, sent + 1)
            BY <1>1, <1>2, OrderSend
      <2>4. OrderOK => OrderOK'
            BY <1>6, <1>7, <2>1, <2>2, <2>3 DEF OrderOK
      <2> QED BY <2>4 DEF IInv, WholeOK
<1>14. \A y \in Sides : /\ cli'[y].closed = cli[y].closed /\ seat'[y].who = seat[y].who
                        /\ seat'[y].owe = "void" => seat[y].owe = "void"
                        /\ "resume" \in Types(up'[y]) => "resume" \in Types(up[y])
      <2>1. "resume" \in Types(Append(up["sender"], m)) => "resume" \in Types(up["sender"])
            BY <1>1, <1>4, QAppend
      <2> QED BY <1>5, <1>6, <1>7, <2>1 DEF Sides
<1>15. WholeOK' /\ Closed' = Closed
      BY <1>7, <1>11, <1>12, <1>13, <1>14, WholeKept
<1> QED BY <1>8, <1>9, <1>10, <1>15 DEF IInv

\* A frame reaches the receiver's Conn.
LEMMA DataArrives ==
    ASSUME IInv, Arrives("receiver", "data"), down' = Popped("receiver")
    PROVE  /\ down["receiver"] # <<>> /\ down["receiver"] \in Seq(Msgs) /\ Head(down["receiver"]).type = "data"
           /\ Head(down["receiver"]).n \in Nat
           /\ "data" \in Types(down["receiver"]) /\ down' \in [Sides -> Seq(Msgs)]
           /\ down'["receiver"] = Tail(down["receiver"]) /\ down'["sender"] = down["sender"]
           /\ Nums(down["receiver"]) = Nums(Tail(down["receiver"])) \cup {Head(down["receiver"]).n}
           /\ Head(down["receiver"]).n \notin Nums(Tail(down["receiver"])) \cup Nums(up["sender"])
           /\ Before({Head(down["receiver"]).n}, Nums(Tail(down["receiver"])) \cup Nums(up["sender"]))
           /\ FewFrames(Tail(down["receiver"]), down["receiver"])
<1>1. down["receiver"] # <<>> /\ Head(down["receiver"]).type = "data" /\ down \in [Sides -> Seq(Msgs)]
      BY DEF Arrives, IInv, TypeInv
<1>2. down["receiver"] \in Seq(Msgs)
      BY <1>1, SidesAre
<1>3. Head(down["receiver"]).n \in Nat /\ "data" \in Types(down["receiver"])
      /\ Head(down["receiver"]).n \in Nums(down["receiver"])
      BY <1>1, <1>2, QHead
<1>4. /\ down' \in [Sides -> Seq(Msgs)] /\ down'["receiver"] = Tail(down["receiver"]) /\ down'["sender"] = down["sender"]
      BY <1>1, PopIs, SidesAre DEF Popped
<1>5. Rising(down["receiver"]) /\ Before(Nums(down["receiver"]), Nums(up["sender"]))
      BY DEF IInv, FlightOK, Flight
<1>6. /\ Nums(down["receiver"]) = Nums(Tail(down["receiver"])) \cup {Head(down["receiver"]).n}
      /\ Before({Head(down["receiver"]).n}, Nums(Tail(down["receiver"])))
      /\ FewFrames(Tail(down["receiver"]), down["receiver"])
      BY <1>1, <1>2, <1>5, QTail DEF FewFrames
<1>7. PICK n \in Nat : n = Head(down["receiver"]).n
      BY <1>3
<1>8. Before({n}, Nums(Tail(down["receiver"])) \cup Nums(up["sender"]))
      BY <1>3, <1>5, <1>6, <1>7 DEF Before
<1>9. ~(n < n)
      OBVIOUS
<1>10. n \notin Nums(Tail(down["receiver"])) \cup Nums(up["sender"])
      BY <1>8, <1>9 DEF Before
<1> QED BY <1>1, <1>2, <1>3, <1>4, <1>6, <1>7, <1>8, <1>10

LEMMA MoneyBound ==
    ASSUME NEW c \in Nat, NEW ds, NEW ur, NEW k \in Nat, NEW rd \in BOOLEAN, NEW s \in Nat, NEW l \in Nat,
           Money(c, ds, ur, k, rd, s, l)
    PROVE  s <= ClientWindow + l
<1>1. PICK e : e = IF rd THEN 0 ELSE ClientWindow
      OBVIOUS
<1>2. e \in Nat /\ ClientWindow \in Nat
      BY <1>1, RelayAssumption
<1>3. PICK a \in Nat, b \in Nat : CreditTotal(ds, a) /\ CreditTotal(ur, b) /\ c + a + b + k + e + s <= ClientWindow + l
      BY <1>1 DEF Money
<1> QED BY <1>2, <1>3

\* The facts about the receiver that its steps need.
LEMMA ReceiverIs ==
    ASSUME IInv
    PROVE  /\ cli \in [Sides -> CliType] /\ cli["sender"].credit \in Nat /\ cli["receiver"].consumed \in Nat
           /\ cli["receiver"].ready \in BOOLEAN /\ cli["receiver"].handler \in BOOLEAN
           /\ cli["receiver"].pending \in Seq(Nat) /\ cli["receiver"].drain \in Seq(Nat)
           /\ Len(cli["receiver"].pending) \in Nat /\ Len(cli["receiver"].drain) \in Nat
           /\ sent \in Nat /\ got \in Seq(Nat) /\ Len(got) \in Nat
           /\ up["sender"] \in Seq(Msgs) /\ up["receiver"] \in Seq(Msgs) /\ up \in [Sides -> Seq(Msgs)]
           /\ Flight(up["sender"], down["receiver"], cli["receiver"].pending, cli["receiver"].drain, got, sent)
<1>1. cli \in [Sides -> CliType] /\ up \in [Sides -> Seq(Msgs)] /\ sent \in Nat /\ got \in Seq(Nat)
      BY DEF IInv, TypeInv
<1>2. cli["sender"] \in CliType /\ cli["receiver"] \in CliType /\ up["sender"] \in Seq(Msgs) /\ up["receiver"] \in Seq(Msgs)
      BY <1>1, SidesAre
<1>3. cli["receiver"].pending \in Seq(Nat) /\ cli["receiver"].drain \in Seq(Nat)
      BY <1>2 DEF CliType
<1>4. Len(cli["receiver"].pending) \in Nat /\ Len(cli["receiver"].drain) \in Nat /\ Len(got) \in Nat
      BY <1>1, <1>3
<1> QED BY <1>1, <1>2, <1>3, <1>4 DEF CliType, IInv, FlightOK

LEMMA HandleEarlyStep ==
    ASSUME IInv, HandleEarly PROVE IInv' /\ Closed' = Closed
<1>1. PICK n : n = Head(down["receiver"]).n
      OBVIOUS
<1>2. PICK w : w = Tail(down["receiver"])
      OBVIOUS
<1>3. PICK pd : pd = cli["receiver"].pending
      OBVIOUS
<1>4. /\ down["receiver"] # <<>> /\ down["receiver"] \in Seq(Msgs) /\ Head(down["receiver"]).type = "data"
      /\ "data" \in Types(down["receiver"]) /\ down' \in [Sides -> Seq(Msgs)] /\ n \in Nat
      /\ down'["receiver"] = w /\ down'["sender"] = down["sender"]
      /\ Nums(down["receiver"]) = Nums(w) \cup {n} /\ n \notin Nums(w) \cup Nums(up["sender"])
      /\ Before({n}, Nums(w) \cup Nums(up["sender"])) /\ FewFrames(w, down["receiver"])
      BY <1>1, <1>2, DataArrives DEF HandleEarly
<1>5. UNCHANGED <<sig, seat, up, sent, got, hist>> /\ ~cli["receiver"].handler
      BY DEF HandleEarly
<1>6. cli["receiver"].drain = <<>> /\ got = <<>>
      BY <1>5 DEF IInv, FlightOK
<1>7. /\ pd \in Seq(Nat) /\ Len(pd) \in Nat /\ sent \in Nat /\ got \in Seq(Nat) /\ Len(got) \in Nat /\ cli \in [Sides -> CliType]
      /\ Flight(up["sender"], down["receiver"], pd, <<>>, got, sent) /\ up \in [Sides -> Seq(Msgs)]
      BY <1>3, <1>6, ReceiverIs
<1>8. ~Closed => OpenedOK'
      BY <1>4, <1>5, HotOpened, SidesAre DEF Cold
<1>9. PICK ns : ns = Nums(w) \cup Nums(up["sender"])
      OBVIOUS
<1>10. /\ Nums(down["receiver"]) \cup Nums(up["sender"]) = ns \cup {n} /\ Nums(down'["receiver"]) \cup Nums(up'["sender"]) = ns
       /\ n \notin ns /\ Before({n}, ns)
      BY <1>4, <1>5, <1>9
<1>11. (~Closed /\ ~hist.overtaken) => Len(pd) + 1 + Len(got) <= sent /\ InOrder(ns, Append(pd, n), <<>>, got, sent)
      <2> SUFFICES ASSUME ~Closed, ~hist.overtaken
                   PROVE  Len(pd) + 1 + Len(got) <= sent /\ InOrder(ns, Append(pd, n), <<>>, got, sent)
          OBVIOUS
      <2>1. InOrder(ns \cup {n}, pd, <<>>, got, sent)
            BY <1>3, <1>6, <1>10 DEF IInv, WholeOK, OrderOK
      <2> QED BY <1>7, <1>10, <2>1, OrderEarly
<1>12. CASE Full \/ cli["receiver"].closed
      <2>1. cli' = cli
            BY <1>12 DEF HandleEarly
      <2>2. \A y \in Sides : FewFrames(up'[y], up[y]) /\ FewFrames(down'[y], down[y])
            <3>1. \A y \in Sides : FewFrames(up'[y], up[y])
                  BY <1>5, <1>7, LessFew DEF Fewer
            <3>2. FewFrames(down'["sender"], down["sender"]) /\ FewFrames(down'["receiver"], down["receiver"])
                  BY <1>4 DEF FewFrames
            <3> QED BY <3>1, <3>2 DEF Sides
      <2>3. FlightOK'
            BY <1>5, <2>1, <2>2, QuietFlight DEF IInv
      <2>4. Budget'
            BY <1>4, <1>5, <2>1 DEF IInv, Budget
      <2>5. TypeInv' /\ SeatsOK'
            BY <1>4, <1>5, <2>1 DEF IInv, TypeInv, SeatsOK
      <2>6. ~Closed => AccountOK'
            <3>1. AccountOK => AccountOK'
                  BY <1>4, <1>5, <2>1 DEF AccountOK
            <3> QED BY <3>1 DEF IInv, WholeOK
      <2>7. ~Closed => OrderOK'
            <3>1. SUFFICES ASSUME ~Closed, ~hist.overtaken PROVE FALSE
                  BY <1>5 DEF OrderOK
            <3>2. ~cli["receiver"].closed
                  BY <3>1, SidesAre DEF IInv, WholeOK, Joined
            <3>3. Len(pd) + 1 > ClientWindow
                  BY <1>3, <1>12, <3>2 DEF Full
            <3>4. sent <= ClientWindow + Len(got)
                  BY ReceiverIs, MoneyBound DEF IInv, Budget
            <3>5. Len(pd) + 1 + Len(got) <= sent /\ ClientWindow \in Nat
                  BY <1>11, <3>1, RelayAssumption
            <3> QED BY <1>7, <3>3, <3>4, <3>5
      <2>8. \A y \in Sides : /\ cli'[y].closed = cli[y].closed /\ seat'[y].who = seat[y].who
                             /\ seat'[y].owe = "void" => seat[y].owe = "void"
                             /\ "resume" \in Types(up'[y]) => "resume" \in Types(up[y])
            BY <1>5, <2>1
      <2>9. WholeOK' /\ Closed' = Closed
            BY <1>5, <1>8, <2>6, <2>7, <2>8, WholeKept
      <2> QED BY <2>3, <2>4, <2>5, <2>9 DEF IInv
<1>13. CASE ~(Full \/ cli["receiver"].closed)
      <2>1. cli' = [cli EXCEPT !["receiver"].pending = Append(pd, n)]
            BY <1>1, <1>3, <1>7, <1>13, SidesAre DEF HandleEarly
      <2>2. Append(pd, n) \in Seq(Nat)
            BY <1>4, <1>7
      <2>3. /\ cli' \in [Sides -> CliType] /\ cli'["receiver"].pending = Append(pd, n) /\ cli'["sender"] = cli["sender"]
            /\ cli'["receiver"].drain = cli["receiver"].drain /\ cli'["receiver"].handler = cli["receiver"].handler
            /\ cli'["receiver"].ready = cli["receiver"].ready /\ cli'["receiver"].consumed = cli["receiver"].consumed
            /\ cli'["receiver"].closed = cli["receiver"].closed
            BY <1>7, <2>1, <2>2 DEF CliType, Sides
      <2>4. FlightOK'
            <3>1. Flight(up["sender"], Tail(down["receiver"]), Append(pd, Head(down["receiver"]).n), <<>>, got, sent)
                  BY <1>4, <1>7, FlightEarly
            <3> QED BY <1>1, <1>2, <1>4, <1>5, <1>6, <2>3, <3>1 DEF IInv, FlightOK
      <2>5. Budget'
            BY <1>4, <1>5, <2>3 DEF IInv, Budget
      <2>6. TypeInv' /\ SeatsOK'
            BY <1>4, <1>5, <2>3 DEF IInv, TypeInv, SeatsOK
      <2>7. ~Closed => AccountOK'
            <3>1. AccountOK => AccountOK'
                  BY <1>4, <1>5, <2>3 DEF AccountOK
            <3> QED BY <3>1 DEF IInv, WholeOK
      <2>8. ~Closed => OrderOK'
            BY <1>5, <1>6, <1>10, <1>11, <2>3 DEF OrderOK
      <2>9. \A y \in Sides : /\ cli'[y].closed = cli[y].closed /\ seat'[y].who = seat[y].who
                             /\ seat'[y].owe = "void" => seat[y].owe = "void"
                             /\ "resume" \in Types(up'[y]) => "resume" \in Types(up[y])
            BY <1>5, <2>3 DEF Sides
      <2>10. WholeOK' /\ Closed' = Closed
            BY <1>5, <1>8, <2>7, <2>8, <2>9, WholeKept
      <2> QED BY <2>4, <2>5, <2>6, <2>10 DEF IInv
<1> QED BY <1>12, <1>13

LEMMA OnDataStep ==
    ASSUME IInv, OnData PROVE IInv' /\ Closed' = Closed
<1>1. PICK pd : pd = cli["receiver"].pending
      OBVIOUS
<1>2. UNCHANGED <<sig, seat, up, down, sent, got, hist>> /\ ~cli["receiver"].handler
      BY DEF OnData
<1>3. cli["receiver"].drain = <<>> /\ got = <<>>
      BY <1>2 DEF IInv, FlightOK
<1>4. /\ pd \in Seq(Nat) /\ sent \in Nat /\ got \in Seq(Nat) /\ cli \in [Sides -> CliType]
      /\ Flight(up["sender"], down["receiver"], pd, <<>>, got, sent)
      BY <1>1, <1>3, ReceiverIs
<1>5. cli' = [cli EXCEPT !["receiver"].handler = TRUE, !["receiver"].pending = <<>>, !["receiver"].drain = pd]
      BY <1>1 DEF OnData
<1>6. /\ cli' \in [Sides -> CliType] /\ cli'["receiver"].pending = <<>> /\ cli'["sender"] = cli["sender"]
      /\ cli'["receiver"].drain = pd /\ cli'["receiver"].handler
      /\ cli'["receiver"].ready = cli["receiver"].ready /\ cli'["receiver"].consumed = cli["receiver"].consumed
      /\ cli'["receiver"].closed = cli["receiver"].closed
      <2>1. <<>> \in Seq(Nat)
            OBVIOUS
      <2> QED BY <1>4, <1>5, <2>1 DEF CliType, Sides
<1>7. FlightOK'
      <2>1. Flight(up["sender"], down["receiver"], <<>>, pd, got, sent)
            BY <1>4, FlightOnData
      <2> QED BY <1>2, <1>6, <2>1 DEF IInv, FlightOK
<1>8. Budget'
      BY <1>2, <1>6 DEF IInv, Budget
<1>9. TypeInv' /\ SeatsOK'
      BY <1>2, <1>6 DEF IInv, TypeInv, SeatsOK
<1>10. ~Closed => OpenedOK'
      <2>1. ASSUME Cold(up["receiver"], down["receiver"], cli["receiver"]) PROVE Cold(up'["receiver"], down'["receiver"], cli'["receiver"])
            BY <1>1, <1>2, <1>6, <2>1 DEF Cold
      <2>2. OpenedOK => OpenedOK'
            BY <1>2, <1>6, <2>1 DEF OpenedOK, Sides
      <2> QED BY <2>2 DEF IInv, WholeOK
<1>11. ~Closed => AccountOK'
      <2>1. AccountOK => AccountOK'
            BY <1>2, <1>6 DEF AccountOK
      <2> QED BY <2>1 DEF IInv, WholeOK
<1>12. ~Closed => OrderOK'
      <2>1. PICK ns : ns = Nums(down["receiver"]) \cup Nums(up["sender"])
            OBVIOUS
      <2>2. InOrder(ns, pd, <<>>, got, sent) => InOrder(ns, <<>>, pd, got, sent)
            BY <1>4, OrderOnData
      <2>3. OrderOK => OrderOK'
            BY <1>1, <1>2, <1>3, <1>6, <2>1, <2>2 DEF OrderOK
      <2> QED BY <2>3 DEF IInv, WholeOK
<1>13. \A y \in Sides : /\ cli'[y].closed = cli[y].closed /\ seat'[y].who = seat[y].who
                        /\ seat'[y].owe = "void" => seat[y].owe = "void"
                        /\ "resume" \in Types(up'[y]) => "resume" \in Types(up[y])
      BY <1>2, <1>6 DEF Sides
<1>14. WholeOK' /\ Closed' = Closed
      BY <1>2, <1>10, <1>11, <1>12, <1>13, WholeKept
<1> QED BY <1>7, <1>8, <1>9, <1>14 DEF IInv

\* The grant that follows a frame, if the batch is full.
LEMMA GrantedIs ==
    ASSUME IInv, NEW c, c = Consume(cli["receiver"].consumed), up' = Granted("receiver", c)
    PROVE  /\ c.left \in Nat /\ up' \in [Sides -> Seq(Msgs)] /\ up'["sender"] = up["sender"]
           /\ MoreBy(up'["receiver"], up["receiver"], c.grant)
           /\ Nums(up'["receiver"]) = Nums(up["receiver"])
           /\ \A y \in Sides : "resume" \in Types(up'[y]) => "resume" \in Types(up[y])
<1>1. cli["receiver"].consumed \in Nat /\ up \in [Sides -> Seq(Msgs)] /\ up["receiver"] \in Seq(Msgs)
      BY ReceiverIs
<1>2. c.left \in Nat /\ c.grant \in Nat
      BY <1>1 DEF Consume
<1>3. PICK m : m = Msg("credit", c.grant)
      OBVIOUS
<1>4. m \in Msgs /\ m.type = "credit"
      BY <1>2, <1>3, MsgIs DEF MsgTypes
<1>5. /\ up' \in [Sides -> Seq(Msgs)] /\ up'["sender"] = up["sender"]
      /\ up'["receiver"] = up["receiver"] \/ up'["receiver"] = Append(up["receiver"], m)
      <2>1. PICK s : s = Says("receiver", <<m>>)
            OBVIOUS
      <2>2. s \in [Sides -> Seq(Msgs)] /\ (s["receiver"] = up["receiver"] \/ s["receiver"] = Append(up["receiver"], m))
            /\ s["sender"] = up["sender"]
            BY <1>1, <1>4, <2>1, SaysIs, SidesAre
      <2>3. up' = IF c.grant > 0 THEN s ELSE up
            BY <1>3, <2>1 DEF Granted
      <2> QED BY <1>1, <2>2, <2>3
<1>6. MoreBy(up["receiver"], up["receiver"], c.grant) /\ MoreBy(Append(up["receiver"], m), up["receiver"], c.grant)
      BY <1>1, <1>2, <1>3, MoreSaid
<1>7. Nums(Append(up["receiver"], m)) = Nums(up["receiver"])
      /\ ("resume" \in Types(Append(up["receiver"], m)) => "resume" \in Types(up["receiver"]))
      BY <1>1, <1>4, QAppend
<1>8. \A y \in Sides : "resume" \in Types(up'[y]) => "resume" \in Types(up[y])
      BY <1>5, <1>7 DEF Sides
<1> QED BY <1>2, <1>5, <1>6, <1>7, <1>8

\* What is left to show once the frame n has been handed over.
LEMMA HandedOver ==
    ASSUME IInv, NEW c, c = Consume(cli["receiver"].consumed), up' = Granted("receiver", c), NEW n \in Nat,
           got' = Append(got, n), UNCHANGED <<sig, seat, sent>>, down' \in [Sides -> Seq(Msgs)],
           down'["sender"] = down["sender"], cli' \in [Sides -> CliType], cli'["sender"] = cli["sender"],
           cli'["receiver"].consumed = c.left, cli'["receiver"].ready = cli["receiver"].ready,
           cli'["receiver"].closed = cli["receiver"].closed, cli'["receiver"].handler = cli["receiver"].handler,
           cli'["receiver"].pending = cli["receiver"].pending, cli["receiver"].handler,
           Flight(up["sender"], down'["receiver"], <<>>, cli'["receiver"].drain, Append(got, n), sent),
           hist' \in HistType, hist'.blips = hist.blips, hist'.refused = hist.refused,
           ~Cold(up["receiver"], down["receiver"], cli["receiver"]),
           ~Closed => OrderOK'
    PROVE  IInv' /\ Closed' = Closed
<1>1. /\ up' \in [Sides -> Seq(Msgs)] /\ up'["sender"] = up["sender"]
      /\ MoreBy(up'["receiver"], up["receiver"], c.grant) /\ Nums(up'["receiver"]) = Nums(up["receiver"])
      /\ \A y \in Sides : "resume" \in Types(up'[y]) => "resume" \in Types(up[y])
      BY GrantedIs
<1>2. got \in Seq(Nat) /\ Len(got) \in Nat /\ got' \in Seq(Nat) /\ Len(got') = Len(got) + 1
      BY ReceiverIs, NAppend
<1>3. TypeInv' /\ SeatsOK'
      BY <1>1, <1>2 DEF IInv, TypeInv, SeatsOK
<1>4. FlightOK'
      <2>1. cli["receiver"].pending = <<>>
            BY DEF IInv, FlightOK
      <2> QED BY <1>1, <2>1 DEF IInv, FlightOK
<1>5. Budget'
      <2>1. Money(cli["sender"].credit, down["sender"], up["receiver"], cli["receiver"].consumed, cli["receiver"].ready,
                  sent, Len(got))
            BY DEF IInv, Budget
      <2>2. HandsOver(up'["receiver"], up["receiver"], c.left, cli["receiver"].consumed, Len(got'), Len(got))
            BY <1>1, <1>2 DEF HandsOver
      <2>3. /\ cli["sender"].credit \in Nat /\ cli["receiver"].consumed \in Nat
            /\ cli["receiver"].ready \in BOOLEAN /\ sent \in Nat /\ Len(got) \in Nat
            BY ReceiverIs
      <2>4. Money(cli["sender"].credit, down["sender"], up'["receiver"], c.left, cli["receiver"].ready, sent, Len(got'))
            BY <2>1, <2>2, <2>3, MoneyConsumed
      <2> QED BY <2>4 DEF Budget
<1>6. ~Closed => OpenedOK'
      BY HotOpened, SidesAre
<1>7. ~Closed => AccountOK'
      <2>1. AccountOK => AccountOK'
            BY <1>1 DEF AccountOK
      <2> QED BY <2>1 DEF IInv, WholeOK
<1>8. \A y \in Sides : /\ cli'[y].closed = cli[y].closed /\ seat'[y].who = seat[y].who
                       /\ seat'[y].owe = "void" => seat[y].owe = "void"
                       /\ "resume" \in Types(up'[y]) => "resume" \in Types(up[y])
      BY <1>1 DEF Sides
<1>9. WholeOK' /\ Closed' = Closed
      BY <1>6, <1>7, <1>8, WholeKept
<1> QED BY <1>3, <1>4, <1>5, <1>9 DEF IInv

\* A frame goes to the handler.
LEMMA HandleBinaryStep ==
    ASSUME IInv, HandleBinary, ~cli["receiver"].closed
    PROVE  /\ IInv' /\ Closed' = Closed /\ sent' = sent /\ (hist.overtaken => hist'.overtaken)
           /\ \E n \in (1 .. sent) \ ToSet(got) : /\ got' = Append(got, n)
                                                  /\ (~Closed /\ ~hist'.overtaken) => n = Len(got) + 1
<1>1. PICK n : n = Head(down["receiver"]).n
      OBVIOUS
<1>2. PICK w : w = Tail(down["receiver"])
      OBVIOUS
<1>3. PICK dn : dn = cli["receiver"].drain
      OBVIOUS
<1>4. /\ down["receiver"] # <<>> /\ down["receiver"] \in Seq(Msgs) /\ Head(down["receiver"]).type = "data"
      /\ "data" \in Types(down["receiver"]) /\ down' \in [Sides -> Seq(Msgs)] /\ n \in Nat
      /\ down'["receiver"] = w /\ down'["sender"] = down["sender"]
      /\ Nums(down["receiver"]) = Nums(w) \cup {n} /\ n \notin Nums(w) \cup Nums(up["sender"])
      /\ Before({n}, Nums(w) \cup Nums(up["sender"]))
      BY <1>1, <1>2, DataArrives DEF HandleBinary
<1>5. PICK c : c = Consume(cli["receiver"].consumed)
      OBVIOUS
<1>6. /\ cli["receiver"].handler /\ UNCHANGED <<sig, seat, sent>>
      /\ got' = Append(got, n) /\ cli' = [cli EXCEPT !["receiver"].consumed = c.left]
      /\ up' = Granted("receiver", c)
      /\ hist' = [hist EXCEPT !.overtaken = @ \/ cli["receiver"].drain # <<>>]
      BY <1>1, <1>5 DEF HandleBinary
<1>7. cli["receiver"].pending = <<>>
      BY <1>6 DEF IInv, FlightOK
<1>8. /\ sent \in Nat /\ got \in Seq(Nat) /\ cli \in [Sides -> CliType] /\ hist \in HistType
      /\ Flight(up["sender"], down["receiver"], <<>>, dn, got, sent)
      BY <1>3, <1>7, ReceiverIs DEF IInv, TypeInv
<1>9. c.left \in Nat /\ up'["sender"] = up["sender"]
      BY <1>5, <1>6, GrantedIs
<1>10. /\ cli' \in [Sides -> CliType] /\ cli'["receiver"].pending = cli["receiver"].pending /\ cli'["sender"] = cli["sender"]
       /\ cli'["receiver"].drain = dn /\ cli'["receiver"].handler = cli["receiver"].handler
       /\ cli'["receiver"].ready = cli["receiver"].ready /\ cli'["receiver"].consumed = c.left
       /\ cli'["receiver"].closed = cli["receiver"].closed
      BY <1>3, <1>6, <1>8, <1>9 DEF CliType, Sides
<1>11. /\ hist' \in HistType /\ hist'.blips = hist.blips /\ hist'.refused = hist.refused
       /\ hist'.overtaken <=> (hist.overtaken \/ dn # <<>>)
      <2>1. PICK o \in BOOLEAN : o <=> (hist.overtaken \/ dn # <<>>)
            OBVIOUS
      <2>2. hist.overtaken \in BOOLEAN
            BY <1>8 DEF HistType
      <2>3. hist' = [hist EXCEPT !.overtaken = o]
            BY <1>3, <1>6, <1>8, <2>1, <2>2 DEF HistType
      <2> QED BY <1>8, <2>1, <2>3 DEF HistType
<1>12. n \in (1 .. sent) \ ToSet(got) /\ Flight(up["sender"], w, <<>>, dn, Append(got, n), sent)
      <2>1. /\ Head(down["receiver"]).n \in (1 .. sent) \ ToSet(got)
            /\ Flight(up["sender"], Tail(down["receiver"]), <<>>, dn, Append(got, Head(down["receiver"]).n), sent)
            BY <1>4, <1>8, FlightHandle
      <2> QED BY <1>1, <1>2, <2>1
<1>13. PICK ns : ns = Nums(w) \cup Nums(up["sender"])
      OBVIOUS
<1>14. /\ Nums(down["receiver"]) \cup Nums(up["sender"]) = ns \cup {n} /\ Nums(down'["receiver"]) \cup Nums(up'["sender"]) = ns
       /\ n \notin ns /\ Before({n}, ns)
      BY <1>4, <1>9, <1>13
<1>15. (~Closed /\ ~hist'.overtaken) => n = Len(got) + 1 /\ InOrder(ns, <<>>, <<>>, Append(got, n), sent) /\ dn = <<>>
      <2> SUFFICES ASSUME ~Closed, ~hist'.overtaken
                   PROVE  n = Len(got) + 1 /\ InOrder(ns, <<>>, <<>>, Append(got, n), sent) /\ dn = <<>>
          OBVIOUS
      <2>1. ~hist.overtaken /\ dn = <<>>
            BY <1>11
      <2>2. InOrder(ns \cup {n}, <<>>, <<>>, got, sent)
            BY <1>3, <1>7, <1>14, <2>1 DEF IInv, WholeOK, OrderOK
      <2> QED BY <1>4, <1>8, <1>14, <2>1, <2>2, OrderHandle
<1>16. ~Closed => OrderOK'
      BY <1>6, <1>7, <1>10, <1>14, <1>15 DEF OrderOK
<1>17. ~Cold(up["receiver"], down["receiver"], cli["receiver"])
      BY <1>4 DEF Cold
<1>18. Flight(up["sender"], down'["receiver"], <<>>, cli'["receiver"].drain, Append(got, n), sent)
      BY <1>4, <1>10, <1>12
<1>19. IInv' /\ Closed' = Closed
      BY <1>4, <1>5, <1>6, <1>10, <1>11, <1>16, <1>17, <1>18, HandedOver
<1> QED BY <1>6, <1>11, <1>12, <1>15, <1>19

\* OnData drains one of the early frames.
LEMMA OnDataDrainsStep ==
    ASSUME IInv, OnDataDrains
    PROVE  /\ IInv' /\ Closed' = Closed /\ sent' = sent /\ hist' = hist
           /\ \E n \in (1 .. sent) \ ToSet(got) : /\ got' = Append(got, n)
                                                  /\ (~Closed /\ ~hist.overtaken) => n = Len(got) + 1
<1>1. PICK dn : dn = cli["receiver"].drain
      OBVIOUS
<1>2. PICK n : n = Head(dn)
      OBVIOUS
<1>3. PICK c : c = Consume(cli["receiver"].consumed)
      OBVIOUS
<1>4. /\ dn # <<>> /\ UNCHANGED <<sig, seat, down, sent, hist>>
      /\ got' = Append(got, n) /\ cli' = [cli EXCEPT !["receiver"].drain = Tail(@), !["receiver"].consumed = c.left]
      /\ up' = Granted("receiver", c)
      BY <1>1, <1>2, <1>3 DEF OnDataDrains
<1>5. cli["receiver"].handler /\ cli["receiver"].pending = <<>>
      BY <1>1, <1>4 DEF IInv, FlightOK
<1>6. /\ sent \in Nat /\ got \in Seq(Nat) /\ cli \in [Sides -> CliType] /\ hist \in HistType /\ dn \in Seq(Nat)
      /\ Flight(up["sender"], down["receiver"], <<>>, dn, got, sent) /\ down \in [Sides -> Seq(Msgs)]
      BY <1>1, <1>5, ReceiverIs DEF IInv, TypeInv
<1>7. c.left \in Nat /\ up'["sender"] = up["sender"]
      BY <1>3, <1>4, GrantedIs
<1>8. Tail(dn) \in Seq(Nat) /\ n \in Nat
      BY <1>2, <1>4, <1>6, NTail
<1>9. /\ cli' \in [Sides -> CliType] /\ cli'["receiver"].pending = cli["receiver"].pending /\ cli'["sender"] = cli["sender"]
      /\ cli'["receiver"].drain = Tail(dn) /\ cli'["receiver"].handler = cli["receiver"].handler
      /\ cli'["receiver"].ready = cli["receiver"].ready /\ cli'["receiver"].consumed = c.left
      /\ cli'["receiver"].closed = cli["receiver"].closed
      <2>1. PICK t \in Seq(Nat) : t = Tail(dn)
            BY <1>8
      <2>2. cli' = [cli EXCEPT !["receiver"].drain = t, !["receiver"].consumed = c.left]
            BY <1>1, <1>4, <1>6, <2>1, SidesAre
      <2> QED BY <1>6, <1>7, <2>1, <2>2 DEF CliType, Sides
<1>10. n \in (1 .. sent) \ ToSet(got) /\ Flight(up["sender"], down["receiver"], <<>>, Tail(dn), Append(got, n), sent)
      BY <1>2, <1>4, <1>6, FlightDrain
<1>11. PICK ns : ns = Nums(down["receiver"]) \cup Nums(up["sender"])
      OBVIOUS
<1>12. (~Closed /\ ~hist.overtaken) => n = Len(got) + 1 /\ InOrder(ns, <<>>, Tail(dn), Append(got, n), sent)
      <2> SUFFICES ASSUME ~Closed, ~hist.overtaken
                   PROVE  n = Len(got) + 1 /\ InOrder(ns, <<>>, Tail(dn), Append(got, n), sent)
          OBVIOUS
      <2>1. InOrder(ns, <<>>, dn, got, sent)
            BY <1>1, <1>5, <1>11 DEF IInv, WholeOK, OrderOK
      <2> QED BY <1>2, <1>4, <1>6, <2>1, OrderDrain
<1>13. ~Closed => OrderOK'
      BY <1>4, <1>5, <1>7, <1>9, <1>11, <1>12 DEF OrderOK
<1>14. ~Cold(up["receiver"], down["receiver"], cli["receiver"])
      BY <1>1, <1>4 DEF Cold
<1>15. /\ Flight(up["sender"], down'["receiver"], <<>>, cli'["receiver"].drain, Append(got, n), sent)
       /\ down' \in [Sides -> Seq(Msgs)] /\ down'["sender"] = down["sender"]
       /\ hist' \in HistType /\ hist'.blips = hist.blips /\ hist'.refused = hist.refused
      BY <1>4, <1>6, <1>9, <1>10
<1>16. IInv' /\ Closed' = Closed
      BY <1>3, <1>4, <1>5, <1>8, <1>9, <1>13, <1>14, <1>15, HandedOver
<1> QED BY <1>4, <1>10, <1>12, <1>16

-----------------------------------------------------------------------------
\* The invariant holds.

LEMMA InitHolds == Init => IInv
<1> SUFFICES ASSUME Init PROVE IInv
    OBVIOUS
<1>1. /\ "sender" \in Sides /\ "receiver" \in Sides /\ Window \in Nat /\ ClientWindow \in Nat
      /\ <<>> \in Seq(Msgs) /\ <<>> \in Seq(Nat) /\ 0 \in 0 .. Window
      BY SidesAre, RelayAssumption
<1>2. PICK c0 : c0 = [opened |-> FALSE, ready |-> FALSE, closed |-> FALSE, credit |-> 0,
                      consumed |-> 0, handler |-> FALSE, pending |-> <<>>, drain |-> <<>>]
      OBVIOUS
<1>3. c0 \in CliType /\ ~c0.ready /\ ~c0.closed /\ ~c0.handler /\ c0.credit = 0 /\ c0.consumed = 0
      /\ c0.pending = <<>> /\ c0.drain = <<>>
      BY <1>1, <1>2 DEF CliType
<1>4. cli = [x \in Sides |-> c0]
      BY <1>2 DEF Init
<1>5. PICK s0 : s0 = [run |-> "reading", sock |-> "seated", closed |-> FALSE]
      OBVIOUS
<1>6. s0 \in SigType /\ s0.run = "reading" /\ s0.sock = "seated" /\ ~s0.closed
      BY <1>5 DEF SigType
<1>7. sig = [x \in Sides |-> s0]
      BY <1>5 DEF Init
<1>8. PICK e0 : e0 = [Empty EXCEPT !.who = "live"]
      OBVIOUS
<1>9. e0 \in SeatType /\ e0.who = "live" /\ e0.owe = "no" /\ e0.credit = 0
      <2>1. Empty \in SeatType /\ Empty.owe = "no" /\ Empty.credit = 0
            BY <1>1 DEF Empty, SeatType
      <2>2. PICK s : s = Empty
            OBVIOUS
      <2>3. [s EXCEPT !.who = "live"] \in SeatType /\ [s EXCEPT !.who = "live"].owe = s.owe
            /\ [s EXCEPT !.who = "live"].credit = s.credit /\ [s EXCEPT !.who = "live"].who = "live"
            BY <2>1, <2>2 DEF SeatType
      <2> QED BY <1>8, <2>1, <2>2, <2>3
<1>10. seat = [x \in Sides |-> e0]
      BY <1>8 DEF Init
<1>11. PICK h0 : h0 = [blips |-> 0, refused |-> FALSE, cut |-> FALSE, overtaken |-> FALSE]
      OBVIOUS
<1>12. h0 \in HistType /\ h0.blips = 0 /\ ~h0.refused /\ hist = h0
      BY <1>11 DEF HistType, Init
<1>13. up = [x \in Sides |-> <<>>] /\ down = [x \in Sides |-> <<>>] /\ sent = 0 /\ got = <<>>
      BY DEF Init
<1>14. /\ cli["sender"] = c0 /\ cli["receiver"] = c0 /\ seat["sender"] = e0 /\ up["sender"] = <<>> /\ up["receiver"] = <<>>
       /\ down["sender"] = <<>> /\ down["receiver"] = <<>>
      BY <1>1, <1>4, <1>10, <1>13
<1>15. TypeInv
      <2>1. cli \in [Sides -> CliType] /\ sig \in [Sides -> SigType] /\ seat \in [Sides -> SeatType]
            BY <1>3, <1>4, <1>6, <1>7, <1>9, <1>10
      <2>2. up \in [Sides -> Seq(Msgs)] /\ down \in [Sides -> Seq(Msgs)] /\ sent \in Nat /\ got \in Seq(Nat)
            BY <1>1, <1>13
      <2> QED BY <1>12, <2>1, <2>2 DEF TypeInv
<1>16. SeatsOK
      BY <1>9, <1>10 DEF SeatsOK
<1>17. FlightOK
      <2>1. IsFiniteSet(ToSet(<<>>)) /\ Cardinality(ToSet(<<>>)) = Len(<<>>)
            BY FS_EmptySet, NEmpty
      <2>2. Flight(<<>>, <<>>, <<>>, <<>>, <<>>, 0)
            BY <2>1, QEmpty, NEmpty DEF Flight, Before
      <2> QED BY <1>3, <1>13, <1>14, <2>2, QEmpty DEF FlightOK
<1>18. Budget
      <2>1. 0 + 0 + 0 + 0 + ClientWindow + 0 <= ClientWindow + 0 /\ 0 \in Nat /\ Len(<<>>) = 0
            BY <1>1
      <2>2. CreditTotal(<<>>, 0)
            BY QEmpty
      <2>3. Money(0, <<>>, <<>>, 0, FALSE, 0, 0)
            BY <2>1, <2>2 DEF Money
      <2>4. cli["receiver"].ready = FALSE
            BY <1>2, <1>14
      <2> QED BY <1>3, <1>13, <1>14, <2>1, <2>3, <2>4 DEF Budget
<1>19. WholeOK
      <2>1. \A x \in Sides : Joined(x)
            BY <1>3, <1>4, <1>6, <1>7, <1>9, <1>10, <1>13, QEmpty DEF Joined
      <2>2. OpenedOK
            BY <1>3, <1>4, <1>13, QEmpty DEF OpenedOK, Cold
      <2>3. AccountOK
            <3>1. 0 = 0 + 0 + 0 + 0 /\ 0 \in Nat
                  OBVIOUS
            <3>2. Account(0, <<>>, <<>>, 0, "no")
                  BY <3>1, QEmpty DEF Account
            <3> QED BY <1>3, <1>9, <1>14, <3>2 DEF AccountOK
      <2>4. OrderOK
            <3>1. InOrder({}, <<>>, <<>>, <<>>, 0)
                  BY NEmpty DEF InOrder
            <3> QED BY <1>3, <1>13, <1>14, <3>1, QEmpty DEF OrderOK
      <2> QED BY <1>12, <2>1, <2>2, <2>3, <2>4 DEF WholeOK
<1> QED BY <1>15, <1>16, <1>17, <1>18, <1>19 DEF IInv

\* What a step does to the frames: nothing, or it sends one, or it hands one over.
Calm == sent' = sent /\ got' = got /\ (Closed' \/ (Closed' = Closed /\ hist'.overtaken = hist.overtaken))

Sends == /\ sent' = sent + 1 /\ got' = got /\ sent < ClientWindow + Len(got)
         /\ Closed' = Closed /\ hist' = hist

Hands ==
    /\ sent' = sent /\ Closed' = Closed /\ (hist.overtaken => hist'.overtaken)
    /\ \E n \in (1 .. sent) \ ToSet(got) : /\ got' = Append(got, n)
                                           /\ (~Closed /\ ~hist'.overtaken) => n = Len(got) + 1

LEMMA SignalStep ==
    ASSUME IInv, NEW x \in Sides, Drop(x) \/ IdleTimeout(x) \/ Signal(x) \/ Close(x) \/ Vacate(x) \/ Resume(x)
    PROVE  IInv' /\ Calm
<1>1. CASE Drop(x)
      BY <1>1, DropStep DEF Calm, Drop
<1>2. CASE IdleTimeout(x)
      BY <1>2, IdleTimeoutStep DEF Calm, IdleTimeout
<1>3. CASE Close(x)
      BY <1>3, CloseStep DEF Calm, Close
<1>4. CASE Vacate(x)
      BY <1>4, VacateStep DEF Calm, Vacate
<1>5. CASE Resume(x)
      BY <1>5, ResumeStep DEF Calm
<1>6. CASE SendResume(x)
      BY <1>6, SendResumeStep DEF Calm, SendResume
<1>7. CASE ReadEnds(x) \/ Swap(x) \/ GiveUp(x)
      BY <1>7, RedialStep DEF Calm, ReadEnds, Swap, GiveUp
<1> QED BY <1>1, <1>2, <1>3, <1>4, <1>5, <1>6, <1>7 DEF Signal

LEMMA HandleStep ==
    ASSUME IInv, NEW x \in Sides, Open(x) \/ Handle(x) PROVE IInv' /\ Calm
<1>1. CASE Open(x) \/ HandleRequired(x)
      BY <1>1, OpenStep DEF Calm, Open, HandleRequired
<1>2. CASE HandleReady(x)
      <2>1. IInv' /\ Closed' = Closed
            BY <1>2, ReadyOfSender, ReadyOfReceiver DEF Sides
      <2> QED BY <1>2, <2>1 DEF Calm, HandleReady
<1>3. CASE HandleCredit(x)
      <2>1. IInv' /\ Closed' = Closed
            BY <1>3, CreditOfSender, CreditOfReceiver DEF Sides
      <2> QED BY <1>3, <2>1 DEF Calm, HandleCredit
<1> QED BY <1>1, <1>2, <1>3 DEF Handle

LEMMA ServerStep ==
    ASSUME IInv, NEW x \in Sides, OpenRelay(x) \/ GrantRelayCredit(x) \/ ForwardRelay(x) \/ RelayCharge(x)
    PROVE  IInv' /\ Calm
<1>1. CASE OpenRelay(x)
      BY <1>1, OpenRelayStep DEF Calm
<1>2. CASE GrantRelayCredit(x)
      <2>1. CASE BothOpen(x)
            <3>1. IInv' /\ Closed' = Closed
                  BY <1>2, <2>1, GrantOfSender, GrantOfReceiver DEF Sides
            <3>2. sent' = sent /\ got' = got /\ hist'.overtaken = hist.overtaken
                  BY <1>2, <2>1, GrantIs
            <3> QED BY <3>1, <3>2 DEF Calm
      <2>2. CASE ~BothOpen(x)
            <3>1. Refuse(x) /\ Reads(x, "credit")
                  BY <1>2, <2>2 DEF GrantRelayCredit
            <3>2. IInv' /\ Closed'
                  BY <2>2, <3>1, GrantRefused, RefuseStep
            <3> QED BY <3>1, <3>2 DEF Calm, Refuse
      <2> QED BY <2>1, <2>2
<1>3. CASE ForwardRelay(x)
      <2>1. x = "sender" /\ Other("sender") = "receiver"
            BY <1>3, ForwardOfReceiver DEF Sides, Other
      <2>2. CASE ~BothOpen("sender") \/ seat["sender"].credit < 1 \/ seat["receiver"].who # "live"
            <3>1. Refuse(x) /\ Reads("sender", "data")
                  BY <1>3, <2>1, <2>2 DEF ForwardRelay
            <3>2. IInv' /\ Closed'
                  BY <2>2, <3>1, ForwardRefused, RefuseStep
            <3> QED BY <3>1, <3>2 DEF Calm, Refuse
      <2>3. CASE ~(~BothOpen("sender") \/ seat["sender"].credit < 1 \/ seat["receiver"].who # "live")
            BY <1>3, <2>1, <2>3, ForwardOfSender DEF Calm
      <2> QED BY <2>2, <2>3
<1>4. CASE RelayCharge(x)
      BY <1>4, RelayChargeStep DEF Calm, RelayCharge
<1> QED BY <1>1, <1>2, <1>3, <1>4

LEMMA ClosedReceiver ==
    ASSUME IInv, HandleBinary, cli["receiver"].closed PROVE IInv' /\ Calm
<1>1. UNCHANGED <<cli, up, got, hist, sig, seat, sent>> /\ down' = Popped("receiver") /\ Arrives("receiver", "data")
      BY DEF HandleBinary
<1>2. Closed
      BY SidesAre DEF IInv, WholeOK, Joined
<1>3. Closed'
      BY <1>1, <1>2 DEF Closed
<1>4. down' \in [Sides -> Seq(Msgs)] /\ down'["receiver"] = Tail(down["receiver"]) /\ down'["sender"] = down["sender"]
      /\ FewFrames(Tail(down["receiver"]), down["receiver"])
      BY <1>1, DataArrives
<1>5. \A y \in Sides : FewFrames(up'[y], up[y]) /\ FewFrames(down'[y], down[y])
      <2>1. \A y \in Sides : FewFrames(up'[y], up[y])
            BY <1>1 DEF FewFrames
      <2>2. FewFrames(down'["sender"], down["sender"]) /\ FewFrames(down'["receiver"], down["receiver"])
            BY <1>4 DEF FewFrames
      <2> QED BY <2>1, <2>2 DEF Sides
<1>6. FlightOK'
      BY <1>1, <1>5, QuietFlight DEF IInv
<1>7. Budget'
      BY <1>1, <1>4 DEF IInv, Budget
<1>8. TypeInv' /\ SeatsOK'
      BY <1>1, <1>4 DEF IInv, TypeInv, SeatsOK
<1> QED BY <1>1, <1>3, <1>6, <1>7, <1>8, OnceClosed DEF IInv, Calm

LEMMA NextStep ==
    ASSUME IInv, Next PROVE IInv' /\ (Calm \/ Sends \/ Hands)
<1>1. ASSUME NEW x \in Sides, Drop(x) \/ IdleTimeout(x) \/ Signal(x) \/ Close(x) \/ Open(x) \/ Handle(x) \/ Server(x)
      PROVE  IInv' /\ Calm
      <2>1. CASE Drop(x) \/ IdleTimeout(x) \/ Signal(x) \/ Close(x) \/ Vacate(x) \/ Resume(x)
            BY <2>1, SignalStep
      <2>2. CASE Open(x) \/ Handle(x)
            BY <2>2, HandleStep
      <2>3. CASE OpenRelay(x) \/ GrantRelayCredit(x) \/ ForwardRelay(x) \/ RelayCharge(x)
            BY <2>3, ServerStep
      <2> QED BY <1>1, <2>1, <2>2, <2>3 DEF Server
<1>2. CASE Send
      BY <1>2, SendStep DEF Sends, Send
<1>3. CASE SendFails
      BY <1>3, SidesAre, RedialStep DEF Calm, SendFails
<1>4. CASE HandleEarly
      BY <1>4, HandleEarlyStep DEF Calm, HandleEarly
<1>5. CASE HandleBinary
      <2>1. CASE cli["receiver"].closed
            BY <1>5, <2>1, ClosedReceiver
      <2>2. CASE ~cli["receiver"].closed
            BY <1>5, <2>2, HandleBinaryStep DEF Hands
      <2> QED BY <2>1, <2>2
<1>6. CASE OnDataDrains
      BY <1>6, OnDataDrainsStep DEF Hands
<1>7. CASE OnData
      BY <1>7, OnDataStep DEF Calm, OnData
<1> QED BY <1>1, <1>2, <1>3, <1>4, <1>5, <1>6, <1>7 DEF Next, Receive

LEMMA StutterHolds == IInv /\ UNCHANGED vars => IInv'
<1> SUFFICES ASSUME IInv, UNCHANGED vars PROVE IInv'
    OBVIOUS
<1>1. UNCHANGED <<cli, sig, seat, up, down, sent, got, hist>>
      BY DEF vars
<1>2. TypeInv' /\ SeatsOK' /\ FlightOK' /\ Budget'
      BY <1>1 DEF IInv, TypeInv, SeatsOK, FlightOK, Budget
<1>3. WholeOK'
      BY <1>1 DEF IInv, WholeOK, Closed, Joined, OpenedOK, AccountOK, OrderOK
<1> QED BY <1>2, <1>3 DEF IInv

\* Whatever relay.Conn, the reconnecting socket and the server do, in whatever
\* order, the credit of the sender is accounted for and no frame is in two
\* places.
THEOREM Inductive == Spec => []IInv
<1>1. Init => IInv
      BY InitHolds
<1>2. IInv /\ [Next]_vars => IInv'
      BY NextStep, StutterHolds
<1> QED BY <1>1, <1>2, PTL DEF Spec

\* The server (grantRelayCredit, forwardRelay, openRelay) refuses nothing
\* until a socket was lost or closed, whatever the windows and the batch: the
\* client never counts credit that the server does not.
THEOREM RefusalsExplained == Spec => []RefusedOnlyAfterLoss
<1>1. IInv => RefusedOnlyAfterLoss
      BY DEF IInv, WholeOK, RefusedOnlyAfterLoss
<1> QED BY <1>1, Inductive, PTL

-----------------------------------------------------------------------------
\* The refinement, step by step.

LEMMA SameCardinality == \A S : Channel!Cardinality(S) = Cardinality(S)
BY DEF Channel!Cardinality, Cardinality

LEMMA CalmMaps ==
    ASSUME Calm PROVE [Channel!Next]_(Channel!chVars)
<1>1. CASE Closed'
      <2>1. (Closed \/ hist.overtaken)' = TRUE
            BY <1>1
      <2> QED BY <2>1 DEF Calm, Channel!Next, Channel!Break
<1>2. CASE Closed' = Closed /\ hist'.overtaken = hist.overtaken
      <2>1. (Closed \/ hist.overtaken)' = (Closed \/ hist.overtaken)
            BY <1>2
      <2> QED BY <2>1 DEF Calm, Channel!chVars
<1> QED BY <1>1, <1>2 DEF Calm

LEMMA SendsMaps ==
    ASSUME IInv, Sends PROVE Channel!Next
<1>1. sent \in Nat /\ Len(got) \in Nat /\ Cardinality(ToSet(got)) = Len(got) /\ ClientWindow \in Nat
      BY ReceiverIs, RelayAssumption DEF Flight
<1>2. sent - Len(got) < ClientWindow
      BY <1>1 DEF Sends
<1>3. sent - Channel!Cardinality(ToSet(got)) < ClientWindow
      BY <1>1, <1>2, SameCardinality
<1>4. (Closed \/ hist.overtaken)' = (Closed \/ hist.overtaken)
      BY DEF Sends
<1>5. Channel!Put
      BY <1>3, <1>4 DEF Sends, Channel!Put
<1> QED BY <1>5 DEF Channel!Next

LEMMA HandsMaps ==
    ASSUME IInv, Hands PROVE Channel!Next
<1>1. got \in Seq(Nat) /\ sent \in Nat /\ Cardinality(ToSet(got)) = Len(got)
      BY ReceiverIs DEF Flight
<1>2. PICK n \in (1 .. sent) \ ToSet(got) : got' = Append(got, n) /\ ((~Closed /\ ~hist'.overtaken) => n = Len(got) + 1)
      BY DEF Hands
<1>3. n \in Nat
      OBVIOUS
<1>4. ToSet(got') = ToSet(got) \cup {n}
      BY <1>1, <1>2, <1>3, NAppend
<1>5. (Closed \/ hist.overtaken)' = (Closed \/ hist'.overtaken)
      BY DEF Hands
<1>6. ~(Closed \/ hist.overtaken)' => n = Channel!Cardinality(ToSet(got)) + 1
      BY <1>1, <1>2, <1>5, SameCardinality
<1>7. (Closed \/ hist.overtaken)' \in {Closed \/ hist.overtaken, TRUE}
      BY <1>5 DEF Hands
<1>8. Channel!Take
      BY <1>2, <1>4, <1>6, <1>7 DEF Hands, Channel!Take
<1> QED BY <1>8 DEF Channel!Next

\* The relayed path implements the bounded channel, for every window, batch,
\* number of frames and pattern of losses: what relay.Conn, wsclient and the
\* server do together is to put a frame in while less than a window is out, to
\* hand one over at most once, in order until the channel breaks, or to break
\* it.
THEOREM ImplementsChannel == Spec => IsChannel
<1>1. Init => Channel!Init
      <2> SUFFICES ASSUME Init PROVE Channel!Init
          OBVIOUS
      <2>1. sent = 0 /\ ToSet(got) = {}
            BY NEmpty DEF Init
      <2>2. ~hist.overtaken /\ ~Closed
            BY DEF Init, Closed, Sides
      <2>3. (Closed \/ hist.overtaken) = FALSE
            BY <2>2
      <2> QED BY <2>1, <2>3 DEF Channel!Init
<1>2. IInv /\ [Next]_vars => [Channel!Next]_(Channel!chVars)
      <2>1. ASSUME IInv, Next PROVE [Channel!Next]_(Channel!chVars)
            BY <2>1, NextStep, CalmMaps, SendsMaps, HandsMaps
      <2>2. ASSUME UNCHANGED vars PROVE UNCHANGED Channel!chVars
            BY <2>2 DEF vars, Channel!chVars, Closed
      <2> QED BY <2>1, <2>2
<1>3. Spec => []IInv
      BY Inductive
<1> QED BY <1>1, <1>2, <1>3, PTL DEF Spec, IsChannel, Channel!Spec

=============================================================================
