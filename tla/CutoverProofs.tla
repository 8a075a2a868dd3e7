---------------------------- MODULE CutoverProofs ----------------------------
(***************************************************************************)
(* Proofs about Cutover, for every choice of engines.                      *)
(*                                                                         *)
(* That the engine is told once depends on two goroutines: Activate and    *)
(* promoteOnData each find the relay ready and each run the hook later.    *)
(* Told counts the runs of the hook that are under way with those that are *)
(* over, and the relay's state in the supervisor bounds the sum.           *)
(***************************************************************************)
EXTENDS Cutover, TLAPS

ConnType == [path : {"direct", "relay"}, done : BOOLEAN, err : BOOLEAN, closed : BOOLEAN]

RelayType == [opened : BOOLEAN, ready : BOOLEAN, closed : BOOLEAN]

SvType == [direct : {"absent", "active", "closed"}, relay : {"absent", "candidate", "ready", "active"},
           active : {"none", "direct", "relay"}, mu : {"free", "act"}]

TypeOK == /\ conn \in ConnType /\ relay \in RelayType /\ sv \in SvType
          /\ hooks \in Nat /\ early \in BOOLEAN

InHook(pc) == IF pc = "hook" THEN 1 ELSE 0

Told == hooks + InHook(act) + InHook(data)

\* Told at most once, and only when the supervisor has moved to the relay.
ToldOnMove == Told <= IF sv.relay = "active" THEN 1 ELSE 0

\* The relay has no state in the supervisor before the driver registers it, so
\* RegisterRelay never takes an active relay back.
Registered == drv \in {"select", "wrapped", "activated"} => sv.relay = "absent"

ActiveRelay == sv.relay = "active" => sv.active = "relay"

\* activateRelay has passed Activate: unless it came early, the relay is active.
Passed == act \in {"hook", "finish", "gone"} /\ ~early => sv.relay = "active"

OnReady == conn.path = "relay" => relay.ready

IInv == TypeOK /\ ToldOnMove /\ Registered /\ ActiveRelay /\ Passed /\ OnReady

-----------------------------------------------------------------------------
LEMMA InitIInv == Init => IInv
<1> SUFFICES ASSUME Init PROVE IInv
    OBVIOUS
<1>1. TypeOK
      BY DEF Init, TypeOK, ConnType, RelayType, SvType
<1>2. ToldOnMove /\ Registered /\ ActiveRelay /\ Passed /\ OnReady
      BY DEF Init, ToldOnMove, Told, InHook, Registered, ActiveRelay, Passed, OnReady
<1> QED BY <1>1, <1>2 DEF IInv

\* Where the driver may go while the supervisor stays as it is.
DriverKept == \/ drv' = drv \/ drv' = "ended"
              \/ drv = "select" /\ drv' = "wrapped"
              \/ drv = "registered" /\ drv' = "wired"

\* A step that leaves the supervisor and the two switching goroutines alone and
\* neither moves the connection nor makes the relay unready.
LEMMA Quiet ==
    ASSUME IInv, UNCHANGED <<sv, act, data, hooks, early>>, DriverKept,
           conn' \in ConnType, conn'.path = conn.path,
           relay' \in RelayType, relay.ready => relay'.ready
    PROVE  IInv'
<1>1. TypeOK'
      BY DEF IInv, TypeOK
<1>2. ToldOnMove' /\ ActiveRelay' /\ Passed'
      BY DEF IInv, ToldOnMove, Told, InHook, ActiveRelay, Passed
<1>3. Registered'
      BY DEF IInv, Registered, DriverKept
<1>4. OnReady'
      BY DEF IInv, OnReady
<1> QED BY <1>1, <1>2, <1>3, <1>4 DEF IInv

\* Opened, Finished and a closed relay change nothing the invariant looks at.
LEMMA HelperTypes ==
    ASSUME TypeOK
    PROVE  /\ Opened \in RelayType /\ Opened.ready = relay.ready
           /\ \A failed \in BOOLEAN : /\ Finished(failed) \in ConnType
                                      /\ Finished(failed).path = conn.path
                                      /\ [Finished(failed) EXCEPT !.closed = TRUE] \in ConnType
                                      /\ [Finished(failed) EXCEPT !.closed = TRUE].path = conn.path
           /\ [relay EXCEPT !.closed = TRUE] \in RelayType
           /\ [relay EXCEPT !.closed = TRUE].ready = relay.ready
           /\ [relay EXCEPT !.ready = TRUE] \in RelayType
<1>1. Opened \in RelayType /\ Opened.ready = relay.ready
      BY DEF TypeOK, RelayType, Opened
<1>2. ASSUME NEW failed \in BOOLEAN
      PROVE  Finished(failed) \in ConnType /\ Finished(failed).path = conn.path
      BY DEF TypeOK, ConnType, Finished
<1>3. ASSUME NEW failed \in BOOLEAN
      PROVE  /\ [Finished(failed) EXCEPT !.closed = TRUE] \in ConnType
             /\ [Finished(failed) EXCEPT !.closed = TRUE].path = conn.path
  <2> DEFINE f == Finished(failed)
  <2>1. f \in ConnType /\ f.path = conn.path
        BY <1>2
  <2> HIDE DEF f
  <2>2. [f EXCEPT !.closed = TRUE] \in ConnType /\ [f EXCEPT !.closed = TRUE].path = conn.path
        BY <2>1 DEF ConnType
  <2> QED BY <2>2 DEF f
<1>4. /\ [relay EXCEPT !.closed = TRUE] \in RelayType
      /\ [relay EXCEPT !.closed = TRUE].ready = relay.ready
      /\ [relay EXCEPT !.ready = TRUE] \in RelayType
      BY DEF TypeOK, RelayType
<1> QED BY <1>1, <1>2, <1>3, <1>4

\* Warming and Ready of the relay: a candidate becomes ready, nothing else.
LEMMA Marked ==
    ASSUME IInv, sv' = MadeReady, UNCHANGED <<data, hooks, early, drv>>,
           act' = act \/ act' = "activate", act' # act => act # "hook",
           conn' = conn, relay' \in RelayType, relay.ready => relay'.ready
    PROVE  IInv'
<1>1. /\ sv' \in SvType /\ sv'.active = sv.active /\ (sv'.relay = "active" <=> sv.relay = "active")
      /\ (sv.relay = "absent" => sv'.relay = "absent")
      BY DEF IInv, TypeOK, SvType, MadeReady
<1>2. TypeOK'
      BY <1>1 DEF IInv, TypeOK
<1>3. ToldOnMove'
  <2>1. Told' <= Told /\ Told \in Nat /\ Told' \in Nat
        BY DEF IInv, TypeOK, Told, InHook
  <2> QED BY <1>1, <2>1 DEF IInv, ToldOnMove
<1>4. Registered' /\ ActiveRelay' /\ Passed' /\ OnReady'
      BY <1>1 DEF IInv, Registered, ActiveRelay, Passed, OnReady
<1> QED BY <1>2, <1>3, <1>4 DEF IInv

LEMMA EnvIInv == ASSUME IInv, Env PROVE IInv'
<1>0. /\ conn \in ConnType /\ relay \in RelayType /\ TypeOK
      BY DEF IInv, TypeOK
<1>1. CASE Gathers \/ DirectOpens \/ DirectFails \/ DirectDies \/ EnterRecover \/ ExitRecover
  <2>1. UNCHANGED <<drv, conn, relay, sv, act, data, hooks, early>>
        BY <1>1 DEF Gathers, DirectOpens, DirectFails, DirectDies, EnterRecover, ExitRecover, threads
  <2> QED BY <1>0, <2>1, Quiet DEF DriverKept
<1>2. CASE PartnerOpens \/ RelayReady
  <2>1. /\ UNCHANGED <<drv, conn, sv, act, data, hooks, early>>
        /\ relay' = Opened \/ relay' = [relay EXCEPT !.ready = TRUE]
        BY <1>2 DEF PartnerOpens, RelayReady, threads
  <2>2. relay' \in RelayType /\ (relay.ready => relay'.ready)
        BY <1>0, <2>1, HelperTypes DEF RelayType
  <2> QED BY <1>0, <2>1, <2>2, Quiet DEF DriverKept
<1>3. CASE SignalingLost \/ Cancel
  <2>1. /\ UNCHANGED <<sv, act, data, hooks, early>> /\ drv' \in {drv, "ended"}
        /\ relay' = [relay EXCEPT !.closed = TRUE]
        /\ conn' = Finished(TRUE) \/ conn' = [Finished(TRUE) EXCEPT !.closed = TRUE]
        BY <1>3 DEF SignalingLost, Cancel, threads
  <2> QED BY <1>0, <2>1, HelperTypes, Quiet DEF DriverKept
<1> QED BY <1>1, <1>2, <1>3 DEF Env

LEMMA DriverIInv == ASSUME IInv, Driver PROVE IInv'
<1>0. /\ conn \in ConnType /\ relay \in RelayType /\ sv \in SvType /\ TypeOK
      BY DEF IInv, TypeOK
<1>1. CASE WarmRelay
  <2>1. /\ UNCHANGED <<conn, sv, act, data, hooks, early>> /\ drv' \in {drv, "ended"}
        /\ relay' \in {relay, Opened}
        BY <1>1 DEF WarmRelay, threads
  <2> QED BY <1>0, <2>1, HelperTypes, Quiet DEF DriverKept
<1>2. CASE SelectDirect \/ Wire
  <2>1. UNCHANGED <<conn, relay, sv, act, data, hooks, early>> /\ DriverKept
        BY <1>2 DEF SelectDirect, Wire, threads, DriverKept
  <2> QED BY <1>0, <2>1, Quiet
<1>3. CASE SelectRelay
  <2>1. /\ conn' \in ConnType /\ sv' \in SvType
        /\ sv'.relay = "active" /\ sv'.active = "relay" /\ relay.ready
        /\ UNCHANGED <<relay, act, data, hooks, early>> /\ drv = "select" /\ drv' = "wired"
        BY <1>0, <1>3 DEF SelectRelay, ConnType, SvType, threads
  <2>2. Told' <= 1
    <3>1. sv.relay = "absent"
          BY <2>1 DEF IInv, Registered
    <3>2. Told <= 0 /\ Told' = Told /\ Told \in Nat
          BY <2>1, <3>1 DEF IInv, ToldOnMove, Told, InHook, TypeOK
    <3> QED BY <3>2
  <2>3. TypeOK'
        BY <2>1 DEF IInv, TypeOK
  <2> QED BY <2>1, <2>2, <2>3 DEF IInv, ToldOnMove, Registered, ActiveRelay, Passed, OnReady
<1>4. CASE ActivateDirect
  <2>1. /\ sv' \in SvType /\ sv'.relay = sv.relay /\ UNCHANGED <<conn, relay, act, data, hooks, early>>
        /\ drv = "wrapped" /\ drv' = "activated"
        BY <1>0, <1>4 DEF ActivateDirect, SvType, threads
  <2>2. sv.relay = "absent"
        BY <2>1 DEF IInv, Registered
  <2>3. TypeOK'
        BY <2>1 DEF IInv, TypeOK
  <2>4. ToldOnMove'
        BY <2>1 DEF IInv, ToldOnMove, Told
  <2> QED BY <2>1, <2>2, <2>3, <2>4 DEF IInv, Registered, ActiveRelay, Passed, OnReady
<1>5. CASE RegisterRelay
  <2>1. /\ sv' \in SvType /\ sv'.relay = "candidate" /\ UNCHANGED <<conn, relay, act, data, hooks, early>>
        /\ drv = "activated" /\ drv' = "registered"
        BY <1>0, <1>5 DEF RegisterRelay, SvType, threads
  <2>2. sv.relay = "absent"
        BY <2>1 DEF IInv, Registered
  <2>3. TypeOK'
        BY <2>1 DEF IInv, TypeOK
  <2>4. ToldOnMove'
        BY <2>1, <2>2 DEF IInv, ToldOnMove, Told
  <2> QED BY <2>1, <2>2, <2>3, <2>4 DEF IInv, Registered, ActiveRelay, Passed, OnReady
<1> QED BY <1>1, <1>2, <1>3, <1>4, <1>5 DEF Driver

LEMMA PromotedType ==
    ASSUME TypeOK, NEW mu \in {"free", "act"}
    PROVE  Promoted(mu) \in SvType /\ Promoted(mu).relay = "active" /\ Promoted(mu).active = "relay"
<1> DEFINE d == IF sv.direct = "absent" THEN sv.direct ELSE "closed"
           r == [sv EXCEPT !.relay = "active", !.active = "relay", !.mu = mu, !.direct = d]
<1>1. d \in {"absent", "active", "closed"} /\ sv \in SvType
      BY DEF TypeOK, SvType
<1>2. Promoted(mu) = r
      BY <1>1 DEF Promoted, SvType
<1> HIDE DEF d
<1>3. r \in SvType /\ r.relay = "active" /\ r.active = "relay"
      BY <1>1 DEF SvType
<1> QED BY <1>2, <1>3

\* A ready relay becomes active and one goroutine goes on to the hook.
LEMMA Moves ==
    ASSUME IInv, sv.relay = "ready", sv' \in SvType, sv'.relay = "active", sv'.active = "relay",
           UNCHANGED <<conn, relay, drv, hooks>>, early' \in BOOLEAN,
           \/ act' \in {"hook", "finish"} /\ act # "hook" /\ data' = data
           \/ data' = "hook" /\ data # "hook" /\ act' = act
    PROVE  IInv'
<1>1. hooks \in Nat /\ Told <= 0
      BY DEF IInv, TypeOK, ToldOnMove
<1>2. Told' <= 1
      BY <1>1 DEF Told, InHook
<1>3. TypeOK'
      BY DEF IInv, TypeOK
<1> QED BY <1>2, <1>3 DEF IInv, ToldOnMove, Registered, ActiveRelay, Passed, OnReady

\* A run of the hook ends.
LEMMA HookEnds ==
    ASSUME IInv, hooks' = hooks + 1, sv' \in SvType, sv'.relay = sv.relay, sv'.active = sv.active,
           UNCHANGED <<conn, relay, drv, early>>,
           \/ act = "hook" /\ act' = "finish" /\ data' = data
           \/ data = "hook" /\ data' = "idle" /\ act' = act
    PROVE  IInv'
<1>1. hooks \in Nat
      BY DEF IInv, TypeOK
<1>2. Told' = Told
      BY <1>1 DEF Told, InHook
<1>3. TypeOK'
      BY <1>1 DEF IInv, TypeOK
<1> QED BY <1>2, <1>3 DEF IInv, ToldOnMove, Registered, ActiveRelay, Passed, OnReady

LEMMA SwitchIInv == ASSUME IInv, Switch PROVE IInv'
<1>0. /\ conn \in ConnType /\ relay \in RelayType /\ sv \in SvType /\ TypeOK /\ early \in BOOLEAN
      BY DEF IInv, TypeOK
<1>1. CASE ActivateRelay
  <2>1. /\ conn' \in ConnType /\ relay.ready /\ act = "watch" /\ act' = "ready"
        /\ UNCHANGED <<drv, relay, sv, data, hooks, early>>
        BY <1>0, <1>1 DEF ActivateRelay, Watching, ConnType
  <2>2. Told' = Told
        BY <2>1 DEF Told, InHook
  <2>3. TypeOK'
        BY <2>1 DEF IInv, TypeOK
  <2> QED BY <2>1, <2>2, <2>3 DEF IInv, ToldOnMove, Registered, ActiveRelay, Passed, OnReady
<1>2. CASE ActReady
      BY <1>0, <1>2, Marked DEF ActReady
<1>3. CASE ActActivate
  <2>0. /\ act = "activate" /\ early' = (early \/ sv.relay \in {"absent", "candidate"})
        /\ UNCHANGED <<drv, conn, relay, data, hooks>> /\ early' \in BOOLEAN
        BY <1>0, <1>3 DEF ActActivate
  <2>1. CASE NeedsActivation
    <3>1. /\ sv' = Promoted("act") \/ sv' = Promoted("free")
          /\ act' \in {"hook", "finish"}
          BY <1>3, <2>1 DEF ActActivate
    <3>2. sv' \in SvType /\ sv'.relay = "active" /\ sv'.active = "relay" /\ sv.relay = "ready"
          BY <1>0, <2>1, <3>1, PromotedType DEF NeedsActivation
    <3> QED BY <2>0, <3>1, <3>2, Moves
  <2>2. CASE ~NeedsActivation
    <3>1. act' = "finish" /\ UNCHANGED sv
          BY <1>3, <2>2 DEF ActActivate
    <3>2. ~early' => sv.relay = "active"
          BY <1>0, <2>0, <2>2 DEF NeedsActivation, SvType
    <3>3. Told' = Told
          BY <2>0, <3>1 DEF Told, InHook
    <3>4. TypeOK'
          BY <2>0, <3>1 DEF IInv, TypeOK
    <3> QED BY <2>0, <3>1, <3>2, <3>3, <3>4 DEF IInv, ToldOnMove, Registered, ActiveRelay, Passed, OnReady
  <2> QED BY <2>1, <2>2
<1>4. CASE ActHook
  <2>1. sv' \in SvType /\ sv'.relay = sv.relay /\ sv'.active = sv.active
        BY <1>0, <1>4 DEF ActHook, SvType
  <2> QED BY <1>4, <2>1, HookEnds DEF ActHook
<1>5. CASE ActFinish
  <2>1. /\ act = "finish" /\ act' = "gone" /\ UNCHANGED <<drv, relay, sv, data, hooks, early>>
        /\ conn' = Finished(FALSE)
        BY <1>5 DEF ActFinish
  <2>2. conn' \in ConnType /\ conn'.path = conn.path
        BY <1>0, <2>1, HelperTypes
  <2>3. Told' = Told
        BY <2>1 DEF Told, InHook
  <2>4. TypeOK'
        BY <2>1, <2>2 DEF IInv, TypeOK
  <2> QED BY <2>1, <2>2, <2>3, <2>4 DEF IInv, ToldOnMove, Registered, ActiveRelay, Passed, OnReady
<1> QED BY <1>1, <1>2, <1>3, <1>4, <1>5 DEF Switch

LEMMA DataIInv == ASSUME IInv, PromoteOnData \/ DataHook PROVE IInv'
<1>0. sv \in SvType /\ TypeOK /\ early \in BOOLEAN
      BY DEF IInv, TypeOK
<1>1. CASE PromoteOnData
  <2>1. sv' \in SvType /\ sv'.relay = "active" /\ sv'.active = "relay"
        BY <1>0, <1>1, PromotedType DEF PromoteOnData
  <2> QED BY <1>0, <1>1, <2>1, Moves DEF PromoteOnData
<1>2. CASE DataHook
      BY <1>0, <1>2, HookEnds DEF DataHook
<1> QED BY <1>1, <1>2

LEMMA RequestIInv ==
    ASSUME IInv, RequestRelay, UNCHANGED <<drv, act, data, hooks, early>>
    PROVE  IInv'
<1>0. conn \in ConnType /\ relay \in RelayType /\ TypeOK
      BY DEF IInv, TypeOK
<1>1. CASE Blocked \/ OpenFails
  <2>1. UNCHANGED <<relay, sv>> /\ conn' \in {conn, Finished(TRUE)}
        BY <1>1 DEF RequestRelay
  <2> QED BY <1>0, <2>1, HelperTypes, Quiet DEF DriverKept
<1>2. CASE ~Blocked /\ ~OpenFails
  <2>1. relay' = Opened /\ sv' = MadeReady /\ UNCHANGED conn
        BY <1>2 DEF RequestRelay
  <2> QED BY <1>0, <2>1, HelperTypes, Marked
<1> QED BY <1>1, <1>2

LEMMA SendingIInv == ASSUME IInv, Sending PROVE IInv'
<1>0. conn \in ConnType /\ relay \in RelayType /\ TypeOK
      BY DEF IInv, TypeOK
<1>1. CASE SendMarks
      BY <1>0, <1>1, Marked DEF SendMarks
<1>2. CASE SendDirect
  <2>1. /\ UNCHANGED <<drv, sv, act, data, hooks, early>>
        /\ relay' \in {relay, Opened} /\ conn' \in {conn, Finished(TRUE)}
        BY <1>2 DEF SendDirect, Returned
  <2> QED BY <1>0, <2>1, HelperTypes, Quiet DEF DriverKept
<1>3. CASE BeginSend \/ SendWaited \/ SendTimeout \/ SendRelay
  <2>1. UNCHANGED <<conn, relay, sv, act, data, hooks, early>> /\ drv' \in {drv, "ended"}
        BY <1>3 DEF BeginSend, SendWaited, SendTimeout, SendRelay, SendFailed, Returned
  <2> QED BY <1>0, <2>1, Quiet DEF DriverKept
<1> QED BY <1>1, <1>2, <1>3 DEF Sending

LEMMA NextIInv == IInv /\ [Next]_vars => IInv'
<1> SUFFICES ASSUME IInv, [Next]_vars PROVE IInv'
    OBVIOUS
<1>1. CASE FailRecover \/ DirectWatcher
      BY <1>1, RequestIInv DEF FailRecover, DirectWatcher, threads
<1>2. CASE UNCHANGED vars
  <2>1. UNCHANGED <<drv, conn, relay, sv, act, data, hooks, early>> /\ conn \in ConnType /\ relay \in RelayType
        BY <1>2 DEF vars, IInv, TypeOK
  <2> QED BY <2>1, Quiet DEF DriverKept
<1> QED BY <1>1, <1>2, EnvIInv, DriverIInv, SwitchIInv, SendingIInv, DataIInv DEF Next

\* IInv holds in every state one end of a transfer reaches.
THEOREM Inductive == Spec => []IInv
BY InitIInv, NextIInv, PTL DEF Spec

\* TransportChanged runs at most once for the relay, in every interleaving of
\* Supervisor.Activate on the switching goroutine with promoteOnData on the
\* read loop.
THEOREM EngineToldOnce == Spec => []ToldOnce
<1>1. ASSUME IInv PROVE ToldOnce
  <2>1. hooks \in Nat
        BY <1>1 DEF IInv, TypeOK
  <2>2. hooks <= IF sv.relay = "active" THEN 1 ELSE 0
        BY <1>1, <2>1 DEF IInv, ToldOnMove, Told, InHook
  <2> QED BY <2>1, <2>2 DEF ToldOnce
<1> QED BY <1>1, Inductive, PTL

\* adaptiveConn moves only to a relay that is ready, and when activateRelay is
\* through the supervisor is on the relay too, unless activateRelay overtook
\* the registration.
THEOREM PathsStayTogether == Spec => []PathsAgree
<1>1. IInv => PathsAgree
      BY DEF IInv, PathsAgree, Passed, ActiveRelay, OnReady
<1> QED BY <1>1, Inductive, PTL
=============================================================================
