------------------------------- MODULE Trust -------------------------------
(***************************************************************************)
(* Paired devices: the pairing ceremony that makes two devices trust each  *)
(* other, the trusted session that authenticates them again without a      *)
(* code, the files that keep records and secrets, and what the user does   *)
(* to them meanwhile from the application and from the command line        *)
(* (engine/trust, wire/pairing.go, wire/trusted_auth.go, trust_config.go,  *)
(* unpair.go, device_service.go).                                          *)
(*                                                                         *)
(* Two devices, each with one long-lived process.  A device's identity is  *)
(* the number of times it rotated: its id and its keys follow from it.  A  *)
(* pairwise credential is the number of the handshake that derived it; the *)
(* master key, the nonces and both public keys are all of that handshake.  *)
(* A signature or a MAC verifies when the verifier holds the same value.   *)
(***************************************************************************)
EXTENDS Naturals, Sequences

CONSTANTS Starters,     \* devices that open a handshake
          Shells,       \* devices on which the unpair command is used too
          MaxPairings,  \* bound: pairing ceremonies
          MaxSessions,  \* bound: trusted sessions
          MaxOps,       \* bound: operations of the user
          MaxRot,       \* bound: rotations of an identity
          MaxFaults     \* bound: failed writes, crashes, lost links, skewed clocks

Devices == {"a", "b"}

ASSUME TrustAssumption ==
    /\ Starters \subseteq Devices /\ Shells \subseteq Devices
    /\ {MaxPairings, MaxSessions, MaxOps, MaxRot, MaxFaults} \subseteq Nat

Peer(d) == CHOOSE e \in Devices : e # d

Gens == 0 .. MaxRot
Creds == 0 .. MaxPairings + MaxSessions   \* 0: no secret

\* TrustRecord: the credential, the label the peer sent or the user's own
\* one, the auto-accept policy, and whether it is revoked.
Record == [cred : Creds, label : {"sent", "own"}, auto : BOOLEAN, revoked : BOOLEAN]
NoRecord == [cred |-> 0, label |-> "sent", auto |-> FALSE, revoked |-> FALSE]

Trusted(r) == r # NoRecord /\ ~r.revoked

VARIABLES up,        \* the long-lived process runs
          ident,     \* the device's identity
          mem,       \* FileTrustStore.devices, by the peer's identity
          disk,      \* trust.json
          sec,       \* the secret resolver's map
          secDisk,   \* secrets.json
          cli,       \* what an unpair command has loaded
          ren,       \* the clone RenameDevice holds
          end,       \* each end of the handshake
          chan,      \* messages under way to a device
          count,     \* what the bounds count
          intent,    \* history: the records as the user and the pairings made them
          excused    \* history: a fault, or two writers of one file, on a device

stores == <<mem, disk, sec, secDisk>>
links == <<end, chan>>
vars == <<up, ident, stores, cli, ren, links, count, intent, excused>>

Bound == [pair |-> MaxPairings, session |-> MaxSessions, op |-> MaxOps,
          fault |-> MaxFaults]

Spend(ks) == /\ \A k \in ks : count[k] < Bound[k]
             /\ count' = [k \in DOMAIN Bound |-> count[k] + IF k \in ks THEN 1 ELSE 0]

Unless(ok) == IF ok THEN {} ELSE {"fault"}

(***************************************************************************)
(* An end: its step, whether it opened the handshake, the handshake's      *)
(* number, its own identity, the peer's, the credential in use and the     *)
(* record it looked up.  The steps are those Over and Waits name and       *)
(*   record, secret   the record and then the secret are to be stored      *)
(*   touch            the time of the session is to be stored              *)
(***************************************************************************)
Idle == [pc |-> "idle", init |-> FALSE, n |-> 0, me |-> 0, peer |-> 0, cred |-> 0, rec |-> NoRecord]

Over(d) == end[d].pc \in {"idle", "failed", "done"}

\* Ends that wait in ReceiveMessage, and ends that hold a clone of a record.
Waits(d) == end[d].pc \in {"pair_req", "pair_resp", "pair_confI", "pair_confR",
                           "sess_init", "sess_resp", "sess_confI", "sess_confR"}
Holds(d, g) == end[d].peer = g
               /\ end[d].pc \in {"sess_resp", "sess_confI", "sess_confR", "touch"}

Init ==
    /\ up = [d \in Devices |-> TRUE]
    /\ ident = [d \in Devices |-> 0]
    /\ mem = [d \in Devices |-> [g \in Gens |-> NoRecord]]
    /\ disk = mem
    /\ sec = [d \in Devices |-> [g \in Gens |-> 0]]
    /\ secDisk = sec
    /\ cli = [d \in Devices |-> <<>>]
    /\ ren = [d \in Devices |-> <<>>]
    /\ end = [d \in Devices |-> Idle]
    /\ chan = [d \in Devices |-> <<>>]
    /\ count = [k \in DOMAIN Bound |-> 0]
    /\ intent = mem
    /\ excused = [d \in Devices |-> FALSE]

-----------------------------------------------------------------------------
(* The file store.                                                         *)

\* saveLocked: the whole of the process's memory replaces the file, or a
\* step of the write fails and the file stays what it was.
SaveLocked(d, devices, ok) ==
    disk' = IF ok THEN [disk EXCEPT ![d] = devices] ELSE disk

\* AddOrUpdateDevice: the record is in memory whatever the save does.
AddOrUpdateDevice(d, g, rec, ok) ==
    /\ mem' = [mem EXCEPT ![d][g] = rec]
    /\ SaveLocked(d, mem'[d], ok)

\* setSecret, deleteSecret: the resolver's map changes, and the whole of it
\* replaces the file unless the write fails.
WriteSecret(d, g, cred, ok) ==
    /\ sec' = [sec EXCEPT ![d][g] = cred]
    /\ secDisk' = IF ok THEN [secDisk EXCEPT ![d] = sec'[d]] ELSE secDisk

DeleteSecret(d, g) == WriteSecret(d, g, 0, TRUE)

\* The map a process starts with: the file's, read once.
LoadedSecrets(d) == secDisk[d]

ResolvePairSecret(d, g) == sec[d][g]

\* Somebody else has a copy of what is about to be written.
Overlap(d, g) == cli[d] # <<>> \/ ren[d] # <<>> \/ Holds(d, g)

\* A write the user or a ceremony asked for.
Intend(d, g, rec, clean) ==
    /\ intent' = [intent EXCEPT ![d][g] = rec]
    /\ excused' = [excused EXCEPT ![d] = @ \/ ~clean]

-----------------------------------------------------------------------------
(* What the user does in the application: DeviceService.                   *)

RevokedForm(rec) == [rec EXCEPT !.revoked = TRUE]

\* UnpairDevice without purge: RevokeDevice changes the stored record.
Revoke(d, g, ok) ==
    /\ up[d] /\ mem[d][g] # NoRecord /\ Spend({"op"} \cup Unless(ok))
    /\ AddOrUpdateDevice(d, g, RevokedForm(mem[d][g]), ok)
    /\ Intend(d, g, RevokedForm(mem[d][g]), ok /\ ~Overlap(d, g))
    /\ UNCHANGED <<up, ident, sec, secDisk, cli, ren, links>>

\* UnpairDevice with purge: the record, then, if that was saved, the secret.
Purge(d, g, ok) ==
    /\ up[d] /\ mem[d][g] # NoRecord /\ Spend({"op"} \cup Unless(ok))
    /\ AddOrUpdateDevice(d, g, NoRecord, ok)
    /\ IF ok THEN DeleteSecret(d, g) ELSE UNCHANGED <<sec, secDisk>>
    /\ Intend(d, g, NoRecord, ok /\ ~Overlap(d, g))
    /\ UNCHANGED <<up, ident, cli, ren, links>>

\* Fault: UpdatePolicy changes the record in memory and saves nothing.
UpdatePolicyUnsaved(d, g, ok) ==
    /\ up[d] /\ mem[d][g] # NoRecord /\ Spend({"op"} \cup Unless(ok))
    /\ mem' = [mem EXCEPT ![d][g].auto = ~@]
    /\ Intend(d, g, mem'[d][g], ok /\ ~Overlap(d, g))
    /\ UNCHANGED <<up, ident, disk, sec, secDisk, cli, ren, links>>

\* UpdateDevicePolicy: UpdatePolicy changes the stored record in place.
UpdatePolicy(d, g, ok) ==
    /\ up[d] /\ mem[d][g] # NoRecord /\ Spend({"op"} \cup Unless(ok))
    /\ LET rec == [mem[d][g] EXCEPT !.auto = ~@]
       IN  AddOrUpdateDevice(d, g, rec, ok) /\ Intend(d, g, rec, ok /\ ~Overlap(d, g))
    /\ UNCHANGED <<up, ident, sec, secDisk, cli, ren, links>>

\* RenameDevice: GetDevice clones the record, AddOrUpdateDevice stores it.
RenameBegins(d, g) ==
    /\ up[d] /\ mem[d][g] # NoRecord /\ ren[d] = <<>> /\ Spend({"op"})
    /\ ren' = [ren EXCEPT ![d] = <<g, mem[d][g]>>]
    /\ UNCHANGED <<up, ident, stores, cli, links, intent, excused>>

RenameEnds(d, ok) ==
    /\ ren[d] # <<>> /\ Spend(Unless(ok))
    /\ LET g == ren[d][1]
           rec == [ren[d][2] EXCEPT !.label = "own"]
       IN  /\ AddOrUpdateDevice(d, g, rec, ok)
           /\ Intend(d, g, rec, ok /\ cli[d] = <<>> /\ ~Holds(d, g))
    /\ ren' = [ren EXCEPT ![d] = <<>>]
    /\ UNCHANGED <<up, ident, sec, secDisk, cli, links>>

\* RotateIdentity: a new key pair, hence a new device id.
RotateIdentity(d) ==
    /\ up[d] /\ ident[d] < MaxRot /\ Spend({"op"})
    /\ ident' = [ident EXCEPT ![d] = @ + 1]
    /\ UNCHANGED <<up, stores, cli, ren, links, intent, excused>>

-----------------------------------------------------------------------------
(* The unpair command: a process of its own that loads both files, asks    *)
(* the user, and writes back what it loaded with one device changed.       *)

\* InitCLIEnvironment and ResolveDevice: without a record the command ends.
UnpairLoads(d) ==
    /\ d \in Shells /\ cli[d] = <<>> /\ Spend({"op"})
    /\ \E g \in Gens : disk[d][g] # NoRecord
    /\ cli' = [cli EXCEPT ![d] = <<disk[d], LoadedSecrets(d)>>]
    /\ UNCHANGED <<up, ident, stores, ren, links, intent, excused>>

\* The user answers no.
UnpairStops(d) ==
    /\ cli[d] # <<>>
    /\ cli' = [cli EXCEPT ![d] = <<>>]
    /\ UNCHANGED <<up, ident, stores, ren, links, count, intent, excused>>

\* FileSecretResolver.DeleteSecret, on the map the command has loaded.
DeleteLoadedSecret(d, g) == secDisk' = [secDisk EXCEPT ![d] = [cli[d][2] EXCEPT ![g] = 0]]

UnpairWrites(d, g, purge) ==
    /\ cli[d] # <<>> /\ cli[d][1][g] # NoRecord
    /\ LET rec == IF purge THEN NoRecord ELSE RevokedForm(cli[d][1][g])
       IN  /\ disk' = [disk EXCEPT ![d] = [cli[d][1] EXCEPT ![g] = rec]]
           /\ Intend(d, g, rec, ~up[d])
    /\ IF purge THEN DeleteLoadedSecret(d, g) ELSE UNCHANGED secDisk
    /\ cli' = [cli EXCEPT ![d] = <<>>]
    /\ UNCHANGED <<up, ident, mem, sec, ren, links, count>>

-----------------------------------------------------------------------------
(* Ends and messages of a handshake.                                       *)

Becomes(d, e) == end' = [end EXCEPT ![d] = e]

At(d, pc) == [end[d] EXCEPT !.pc = pc]

Fails(d) == Becomes(d, At(d, "failed"))

\* The message d takes, and the one it sends: nothing when it fails silently.
Takes(d, t) == up[d] /\ chan[d] # <<>> /\ t = Head(chan[d]).t

Exchange(d, out) ==
    chan' = [chan EXCEPT ![d] = Tail(@), ![Peer(d)] = @ \o out]

Takes1(d) == Exchange(d, <<>>)

local == <<up, ident, stores, cli, ren, intent, excused>>

\* Both ends of a fresh connection.
Connect(d, mine, theirs, out) ==
    /\ up[d] /\ up[Peer(d)] /\ Over(d) /\ Over(Peer(d))
    /\ end' = [e \in Devices |-> IF e = d THEN mine ELSE theirs]
    /\ chan' = [e \in Devices |-> IF e = d THEN <<>> ELSE out]

Number == count.pair + count.session + 1

-----------------------------------------------------------------------------
(* The pairing ceremony, over a session both ends hold the master key of.  *)

\* checkConflict: another device that is trusted under the same label.
CheckConflict(d, g) ==
    \E h \in Gens \ {g} : Trusted(mem[d][h]) /\ mem[d][h].label = "sent"

\* A request and a response are signed over the master key of the session,
\* which is the number of the connection, and over the id their key derives.
NewPairingRequest(d) == <<[t |-> "req", from |-> ident[d], master |-> Number]>>

VerifyPairingRequest(d, m) == m.master = end[d].n

NewPairingResponse(d) == <<[t |-> "resp", from |-> end[d].me, master |-> end[d].n]>>

VerifyPairingResponse(d, m) == m.t = "resp" /\ m.master = end[d].n

\* InitiatePairing: the identity and the signed request.
InitiatePairing(d) ==
    /\ d \in Starters /\ Spend({"pair"})
    /\ LET e(x, pc) == [Idle EXCEPT !.pc = pc, !.n = Number, !.me = ident[x]]
       IN  Connect(d, [e(d, "pair_resp") EXCEPT !.init = TRUE], e(Peer(d), "pair_req"),
                   NewPairingRequest(d))
    /\ UNCHANGED local

Rejection == <<[t |-> "conf", ok |-> FALSE, cred |-> 0, to |-> 0]>>

\* NewPairingConfirm, VerifyPairingConfirm: the tag is over the credential
\* and the receiver's device id.
Confirmation(cred, to) == <<[t |-> "conf", ok |-> TRUE, cred |-> cred, to |-> to]>>

ConfirmVerifies(d, m) == m.ok /\ m.cred = end[d].cred /\ m.to = end[d].me

\* AcceptPairing, the request.
PairingRequest(d) ==
    /\ end[d].pc = "pair_req" /\ Takes(d, "req")
    /\ LET g == Head(chan[d]).from
       IN  IF ~VerifyPairingRequest(d, Head(chan[d])) THEN Fails(d) /\ Takes1(d)
           ELSE IF CheckConflict(d, g) THEN Fails(d) /\ Exchange(d, Rejection)
           ELSE /\ Becomes(d, [At(d, "pair_confR") EXCEPT !.peer = g, !.cred = end[d].n])
                /\ Exchange(d, NewPairingResponse(d))
    /\ UNCHANGED <<local, count>>

\* Fault: the initiator does not wait for the responder's confirmation.
PairingResponseHasty(d) ==
    /\ end[d].pc = "pair_resp" /\ up[d] /\ chan[d] # <<>>
    /\ LET m == Head(chan[d])
       IN  IF ~VerifyPairingResponse(d, m) THEN Fails(d) /\ Takes1(d)
           ELSE IF CheckConflict(d, m.from) THEN Fails(d) /\ Exchange(d, Rejection)
           ELSE /\ Becomes(d, [At(d, "record") EXCEPT !.peer = m.from, !.cred = end[d].n])
                /\ Exchange(d, Confirmation(end[d].n, m.from))
    /\ UNCHANGED <<local, count>>

\* InitiatePairing, the response; a rejection is not the type it expects.
PairingResponse(d) ==
    /\ end[d].pc = "pair_resp" /\ up[d] /\ chan[d] # <<>>
    /\ LET m == Head(chan[d])
       IN  IF ~VerifyPairingResponse(d, m) THEN Fails(d) /\ Takes1(d)
           ELSE IF CheckConflict(d, m.from) THEN Fails(d) /\ Exchange(d, Rejection)
           ELSE /\ Becomes(d, [At(d, "pair_confI") EXCEPT !.peer = m.from,
                                                          !.cred = end[d].n])
                /\ Exchange(d, Confirmation(end[d].n, m.from))
    /\ UNCHANGED <<local, count>>

\* AcceptPairing, the initiator's confirmation: its own goes out before it
\* records anything.
PairingConfirmR(d) ==
    /\ end[d].pc = "pair_confR" /\ Takes(d, "conf")
    /\ IF ConfirmVerifies(d, Head(chan[d]))
       THEN Becomes(d, At(d, "record")) /\ Exchange(d, Confirmation(end[d].cred, end[d].peer))
       ELSE Fails(d) /\ Takes1(d)
    /\ UNCHANGED <<local, count>>

\* InitiatePairing, the responder's confirmation.
PairingConfirmI(d) ==
    /\ end[d].pc = "pair_confI" /\ Takes(d, "conf")
    /\ Becomes(d, At(d, IF ConfirmVerifies(d, Head(chan[d])) THEN "record" ELSE "failed"))
    /\ Takes1(d)
    /\ UNCHANGED <<local, count>>

\* Both roles: a new record, never revoked, with the policy of the ceremony.
RecordPeer(d, ok) ==
    /\ end[d].pc = "record" /\ up[d] /\ Spend(Unless(ok))
    /\ LET rec == [NoRecord EXCEPT !.cred = end[d].cred]
           g == end[d].peer
       IN  /\ AddOrUpdateDevice(d, g, rec, ok)
           /\ Intend(d, g, rec, ok /\ ~Overlap(d, g))
    /\ Becomes(d, At(d, IF ok THEN "secret" ELSE "failed"))
    /\ UNCHANGED <<up, ident, sec, secDisk, cli, ren, chan>>

\* Fault: SetSecret keeps the secret of an earlier pairing.
SetSecretOnce(d, ok) ==
    /\ end[d].pc = "secret" /\ up[d] /\ Spend(Unless(ok))
    /\ LET had == sec[d][end[d].peer]
       IN  WriteSecret(d, end[d].peer, IF had = 0 THEN end[d].cred ELSE had, ok)
    /\ excused' = [excused EXCEPT ![d] = @ \/ ~ok \/ cli[d] # <<>>]
    /\ Becomes(d, At(d, IF ok THEN "done" ELSE "failed"))
    /\ UNCHANGED <<up, ident, mem, disk, cli, ren, chan, intent>>

\* executePair, PairDevice: SetSecret once the coordinator has returned.
SetSecret(d, ok) ==
    /\ end[d].pc = "secret" /\ up[d] /\ Spend(Unless(ok))
    /\ WriteSecret(d, end[d].peer, end[d].cred, ok)
    /\ excused' = [excused EXCEPT ![d] = @ \/ ~ok \/ cli[d] # <<>>]
    /\ Becomes(d, At(d, IF ok THEN "done" ELSE "failed"))
    /\ UNCHANGED <<up, ident, mem, disk, cli, ren, chan, intent>>

-----------------------------------------------------------------------------
(* The trusted session.                                                    *)

\* Who may be dialled or admitted: a record that is not revoked, with a secret.
Admits(d, g) == Trusted(mem[d][g]) /\ ResolvePairSecret(d, g) # 0

\* NewTrustedAuthInit: signed, addressed to the recorded identity, MACed with
\* the secret.
NewTrustedAuthInit(d, g) ==
    <<[t |-> "init", from |-> ident[d], to |-> g, cred |-> ResolvePairSecret(d, g)]>>

\* InitiateTrustedSession: the record is cloned, the secret resolved, the
\* signed init sent.  Without them it returns and nothing changes.
InitiateSession(d, g) ==
    /\ d \in Starters /\ Admits(d, g) /\ Spend({"session"})
    /\ Connect(d, [pc |-> "sess_resp", init |-> TRUE, n |-> Number, me |-> ident[d],
                   peer |-> g, cred |-> ResolvePairSecret(d, g), rec |-> mem[d][g]],
                  [Idle EXCEPT !.pc = "sess_init", !.n = Number, !.me = ident[Peer(d)]],
               NewTrustedAuthInit(d, g))
    /\ UNCHANGED local

\* VerifyTrustedAuthInit: addressed to this identity, signed by the recorded
\* key, MACed with the same secret.
InitVerifies(d, m) == m.to = end[d].me /\ m.cred = ResolvePairSecret(d, m.from)

SessionResponse(d, status, cred) ==
    <<[t |-> "sresp", status |-> status, from |-> end[d].me, cred |-> cred]>>

\* AcceptTrustedSession, the init.  An init older or newer than the skew the
\* check allows is refused however good it is.
AcceptSession(d, fresh) ==
    /\ end[d].pc = "sess_init" /\ Takes(d, "init") /\ Spend(Unless(fresh))
    /\ LET m == Head(chan[d])
       IN  IF Admits(d, m.from) /\ InitVerifies(d, m) /\ fresh
           THEN /\ Becomes(d, [At(d, "sess_confR") EXCEPT !.peer = m.from,
                                 !.cred = sec[d][m.from], !.rec = mem[d][m.from]])
                /\ Exchange(d, SessionResponse(d, "accepted", sec[d][m.from]))
           ELSE /\ Fails(d)
                /\ Exchange(d, SessionResponse(d,
                       IF mem[d][m.from].revoked THEN "revoked" ELSE "rejected", 0))
    /\ UNCHANGED local

\* VerifyTrustedAuthResponse.
ResponseVerifies(d, m) ==
    m.status = "accepted" /\ m.from = end[d].peer /\ m.cred = end[d].cred

\* DeriveTrustedSessionKeys.
SessionKey(d, init, resp) == <<end[d].cred, end[d].n, init, resp>>

\* The tag of a confirmation is over the session master.
NewTrustedAuthConfirm(key) == <<[t |-> "sconf", key |-> key]>>

VerifyTrustedAuthConfirm(d, key) == Head(chan[d]).key = key

\* Fault: the session is taken for established by the response alone.
SessionAnsweredHasty(d) ==
    /\ end[d].pc = "sess_resp" /\ Takes(d, "sresp")
    /\ IF ResponseVerifies(d, Head(chan[d]))
       THEN /\ Becomes(d, At(d, "touch"))
            /\ Exchange(d, NewTrustedAuthConfirm(SessionKey(d, end[d].me, end[d].peer)))
       ELSE Fails(d) /\ Takes1(d)
    /\ UNCHANGED <<local, count>>

\* InitiateTrustedSession, the response.
SessionAnswered(d) ==
    /\ end[d].pc = "sess_resp" /\ Takes(d, "sresp")
    /\ IF ResponseVerifies(d, Head(chan[d]))
       THEN /\ Becomes(d, At(d, "sess_confI"))
            /\ Exchange(d, NewTrustedAuthConfirm(SessionKey(d, end[d].me, end[d].peer)))
       ELSE Fails(d) /\ Takes1(d)
    /\ UNCHANGED <<local, count>>

\* AcceptTrustedSession, the initiator's confirmation.
SessionConfirmR(d) ==
    /\ end[d].pc = "sess_confR" /\ Takes(d, "sconf")
    /\ LET key == SessionKey(d, end[d].peer, end[d].me)
       IN  IF VerifyTrustedAuthConfirm(d, key)
           THEN Becomes(d, At(d, "touch")) /\ Exchange(d, NewTrustedAuthConfirm(key))
           ELSE Fails(d) /\ Takes1(d)
    /\ UNCHANGED <<local, count>>

\* InitiateTrustedSession, the responder's confirmation.
SessionConfirmI(d) ==
    /\ end[d].pc = "sess_confI" /\ Takes(d, "sconf")
    /\ Becomes(d, At(d, IF VerifyTrustedAuthConfirm(d, SessionKey(d, end[d].me, end[d].peer))
                        THEN "touch" ELSE "failed"))
    /\ Takes1(d)
    /\ UNCHANGED <<local, count>>

\* Both roles: the clone taken at the lookup goes back with a new LastSeenAt,
\* and the error of the save is dropped.
TouchLastSeen(d, ok) ==
    /\ end[d].pc = "touch" /\ up[d] /\ Spend(Unless(ok))
    /\ AddOrUpdateDevice(d, end[d].peer, end[d].rec, ok)
    /\ Becomes(d, At(d, "done"))
    /\ UNCHANGED <<up, ident, sec, secDisk, cli, ren, chan, intent, excused>>

-----------------------------------------------------------------------------
(* Faults.                                                                 *)

\* A context that ends: its deadline, the user, or a link that is gone.
GivesUp(d) ==
    /\ Waits(d) /\ Spend({"fault"})
    /\ Fails(d)
    /\ UNCHANGED <<local, chan>>

\* A wait nobody will answer ends with the context.
TimesOut(d) ==
    /\ Waits(d) /\ chan[d] = <<>> /\ Over(Peer(d))
    /\ Fails(d)
    /\ UNCHANGED <<local, chan, count>>

\* The process dies with its memory; between the record and the secret it
\* leaves one without the other.
Crash(d) ==
    /\ up[d] /\ Spend({"fault"})
    /\ up' = [up EXCEPT ![d] = FALSE]
    /\ mem' = [mem EXCEPT ![d] = [g \in Gens |-> NoRecord]]
    /\ sec' = [sec EXCEPT ![d] = [g \in Gens |-> 0]]
    /\ ren' = [ren EXCEPT ![d] = <<>>]
    /\ IF Over(d) THEN UNCHANGED end ELSE Fails(d)
    /\ excused' = [excused EXCEPT ![d] = @ \/ end[d].pc \in {"record", "secret"}]
    /\ UNCHANGED <<ident, disk, secDisk, cli, chan, intent>>

\* NewFileTrustStore, newDesktopSecretResolver: both files are read.
Restart(d) ==
    /\ ~up[d]
    /\ up' = [up EXCEPT ![d] = TRUE]
    /\ mem' = [mem EXCEPT ![d] = disk[d]]
    /\ sec' = [sec EXCEPT ![d] = LoadedSecrets(d)]
    /\ UNCHANGED <<ident, disk, secDisk, cli, ren, links, count, intent, excused>>

-----------------------------------------------------------------------------
Handshake(d) ==
    \/ PairingRequest(d) \/ PairingResponse(d) \/ PairingConfirmR(d) \/ PairingConfirmI(d)
    \/ \E ok \in BOOLEAN : RecordPeer(d, ok) \/ SetSecret(d, ok) \/ TouchLastSeen(d, ok)
    \/ \E fresh \in BOOLEAN : AcceptSession(d, fresh)
    \/ SessionAnswered(d) \/ SessionConfirmR(d) \/ SessionConfirmI(d)
    \/ TimesOut(d)

UserActs(d) ==
    \/ \E g \in Gens, ok \in BOOLEAN : Revoke(d, g, ok) \/ Purge(d, g, ok) \/ UpdatePolicy(d, g, ok)
    \/ \E g \in Gens : RenameBegins(d, g)
    \/ \E ok \in BOOLEAN : RenameEnds(d, ok)
    \/ RotateIdentity(d)
    \/ UnpairLoads(d) \/ UnpairStops(d)
    \/ \E g \in Gens, purge \in BOOLEAN : UnpairWrites(d, g, purge)

Next ==
    \E d \in Devices :
        \/ InitiatePairing(d) \/ (\E g \in Gens : InitiateSession(d, g))
        \/ Handshake(d) \/ UserActs(d)
        \/ GivesUp(d) \/ Crash(d) \/ Restart(d)

Spec == Init /\ [][Next]_vars

\* A goroutine inside a handshake goes on: a message that has arrived is
\* read, a write is made, and a wait for a peer that is gone ends with its
\* context.
FairSpec == Spec /\ \A d \in Devices : WF_vars(Handshake(d))

-----------------------------------------------------------------------------
(* Properties.                                                             *)

\* The file and the memory of a device hold what the user and the ceremonies
\* made of its records, through crashes, restarts and failed handshakes: only
\* a write that failed, or two writers that each held a copy
\* (trusted_session.go writes back the clone of its lookup, RenameDevice and
\* the unpair command do alike), can part them.
IntentKept ==
    \A d \in Devices : ~excused[d] =>
        disk[d] = intent[d] /\ (up[d] => mem[d] = intent[d])

\* The secret the resolver returns is the one the record's credential refers
\* to, outside the window in which executePair and PairDevice have stored the
\* record and not yet the secret.
SecretsMatch ==
    \A d \in Devices, g \in Gens :
        /\ up[d] /\ ~excused[d] /\ mem[d][g] # NoRecord
        /\ ~(end[d].pc = "secret" /\ end[d].peer = g)
        => sec[d][g] = mem[d][g].cred

\* An initiator that has finished a trusted session is not waited for: its
\* peer has verified it and finished too, or has died since.  Two ends that
\* finished did so with one credential and with the identities each recorded
\* of the other, however their records drifted apart in half-finished
\* ceremonies and rotations (VerifyTrustedAuthInit and its siblings).
Agreement ==
    LET In(d) == end[d].pc \in {"touch", "done"} /\ end[d].rec # NoRecord
    IN  \A d \in Devices : In(d) /\ end[d].init =>
            /\ ~Waits(Peer(d))
            /\ In(Peer(d)) => /\ end[d].cred = end[Peer(d)].cred
                              /\ end[d].peer = end[Peer(d)].me

\* Revocation as the documentation states it: once RevokeDevice or
\* UnpairDevice has succeeded, a later trusted session is refused.
RevokedRefused ==
    [][\A d \in Devices :
        end[d].pc = "sess_init" /\ end'[d].pc = "sess_confR"
        => Trusted(intent[d][end'[d].peer])]_vars

\* An initiator that recorded its peer is recorded by it, unless the write
\* fails or the process dies there: the responder confirms before it records,
\* and nothing it does in between can refuse any more.
MutualPairing ==
    \A d \in Devices :
        (end[d].init /\ end[d].pc = "secret")
        ~> (end[Peer(d)].pc \in {"secret", "done"} \/ excused[Peer(d)])
=============================================================================
