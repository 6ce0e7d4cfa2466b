------------------------------ MODULE MmcAuth ------------------------------
(***************************************************************************)
(* The AACS-Auth protocol of mmc.c: hosts (processes or threads that each  *)
(* run _mmc_read_auth() of aacs.c on a MMC object of their own) read the   *)
(* Volume ID, the PMSN or the bus-encryption data keys of the disc in one  *)
(* drive.  Every SCSI command is one atomic step; commands of different    *)
(* hosts interleave freely, which is what the operating system allows on   *)
(* a device opened read-only by several processes.                         *)
(*                                                                         *)
(* The drive is external: it is modelled from the commands mmc.c sends and *)
(* the answers it checks.  It is lenient, i.e. it accepts a command in     *)
(* every state of the session that has got far enough.                     *)
(*                                                                         *)
(* Cryptography is ideal and symbolic.  Nonce(h) stands for both the host  *)
(* nonce and the host key pair mmc_open() creates; the generation number   *)
(* of a drive session stands for the drive's nonce and key pair; a bus key *)
(* is the pair of both; a signature or MAC verifies iff it was made over   *)
(* the same values with the same key.                                      *)
(***************************************************************************)
EXTENDS Integers, Sequences, FiniteSets

CONSTANTS
    Hosts,          \* callers of _mmc_read_auth / _get_bus_encryption_capable
    NumAgid,        \* AGIDs of the drive (4 in mmc.c)
    HostCerts,      \* host certificates
    HostCertList,   \* the host certificates of KEYDB.cfg, in list order
    InvalidCerts,   \* those crypto_aacs_verify_host_cert() refuses
    RevokedCerts,   \* those the drive refuses
    MismatchedCerts,\* those whose private key in KEYDB.cfg does not fit
    DriveAacs2,     \* TRUE: drive certificate type 0x11 (AACS 2.0)
    ReadsDriveCert, \* feature 0x010d: drive certificate can be read directly
    Lossy,          \* TRUE: any command may fail, done by the drive or not
    Corrupting,     \* TRUE: any reply may be delivered with wrong bytes
    MaxCalls        \* bound: calls one host makes

Agids == 0 .. NumAgid - 1

\* What a caller can ask for: MMC_READ_VID, MMC_READ_PMSN, MMC_READ_DATA_KEYS
\* of mmc_read_auth(), or the drive certificate (mmc_read_drive_cert()).
AuthRequests == {"VID", "PMSN", "DATA_KEYS"}
Requests     == AuthRequests \cup {"CERT"}

None    == "none"       \* an all-zero buffer
Garbage == "garbage"    \* bytes that nobody meant to send
BadGen  == 0            \* a drive nonce that arrived wrong; real ones start at 1

ASSUME MmcAssumption ==
    /\ None \notin Hosts
    /\ NumAgid \in Nat \ {0}
    /\ MaxCalls \in Nat
    /\ HostCertList \in Seq(HostCerts)
    /\ {DriveAacs2, ReadsDriveCert, Lossy, Corrupting} \subseteq BOOLEAN

VARIABLES
    (* one MMC object and one call frame per host *)
    pc,       \* next SCSI command of the host
    req,      \* what the host asked for
    calls,    \* mmc_open() calls so far: names host_nonce / host_key
    cidx,     \* position in the host certificate list
    inv,      \* loop variable of _mmc_invalidate_agids()
    agid,     \* AGID used by this attempt
    dn,       \* drive nonce received (generation)
    dkp,      \* drive key point received (generation)
    cert,     \* mmc->drive_cert
    mres,     \* result of the running mmc_read_auth()
    err,      \* error_code of the running _mmc_read_auth()
    out,      \* caller's buffer p1: aacs->vid, aacs->pmsn, read_data_key
    res,      \* what the last call returned
    (* the drive *)
    sess,     \* session of every AGID
    gen       \* sessions granted so far

frame == <<req, calls>>
host  == <<pc, cidx, inv, agid, dn, dkp, cert, mres, err, out, res>>
drive == <<sess, gen>>
vars  == <<frame, host, drive>>

Nonce(h) == <<h, calls[h]>>
BusKey(h) == <<Nonce(h), dkp[h]>>
HostCert(h) == HostCertList[cidx[h]]

NoNonce == <<None, 0>>
Free == [st |-> "free", gen |-> 0, hn |-> NoNonce, hc |-> None, hk |-> NoNonce]
Granted(g) == [Free EXCEPT !.st = "granted", !.gen = g]

\* What the drive requires of the session before it accepts a command.
IsGranted(a) == sess[a].st # "free"
HasHostCert(a) == sess[a].st \in {"cert", "auth"}
IsAuthenticated(a) == sess[a].st = "auth"

-----------------------------------------------------------------------------
(* How a command and its answer travel: device_send_cmd().                 *)

\* A command the drive accepts has its effect, one it refuses has none; the
\* host sees a failure when the drive refuses, and on a lossy bus at any time,
\* whether the command was executed or not.
Command(accepts, effect, onOk, onFail) ==
    \/ accepts /\ effect /\ onOk
    \/ accepts /\ Lossy /\ effect /\ onFail
    \/ (~accepts \/ Lossy) /\ UNCHANGED drive /\ onFail

\* The values one field of a reply can have when it arrives.
Deliver(v, wrong) == IF Corrupting THEN {v, wrong} ELSE {v}

Goto(h, label) == pc' = [pc EXCEPT ![h] = label]

\* return r from _mmc_read_auth() or _get_bus_encryption_capable(); mmc_close()
Return(h, r) ==
    /\ Goto(h, "idle")
    /\ res' = [res EXCEPT ![h] = r]
    /\ cert' = [cert EXCEPT ![h] = None]

\* _mmc_aacs_auth() or the read is over with result r; mmc_read_auth() still has
\* to invalidate its AGID.
Finish(h, r) ==
    /\ mres' = [mres EXCEPT ![h] = r]
    /\ Goto(h, "release")

-----------------------------------------------------------------------------
(* Host steps.                                                             *)

\* _mmc_read_auth() / _get_bus_encryption_capable() called: mmc_open() creates
\* the nonce and the key pair and opens the device.
Call(h) ==
    /\ pc[h] = "idle" /\ calls[h] < MaxCalls
    /\ calls' = [calls EXCEPT ![h] = @ + 1]
    /\ \E r \in Requests : req' = [req EXCEPT ![h] = r]
    /\ cidx' = [cidx EXCEPT ![h] = 1]
    /\ err' = [err EXCEPT ![h] = "NO_CERT"]
    /\ out' = [out EXCEPT ![h] = None]
    /\ \/ Goto(h, "config") /\ UNCHANGED <<res, cert>>
       \/ Lossy /\ Return(h, "MMC_OPEN")        \* device_open() failed
    /\ UNCHANGED <<inv, agid, dn, dkp, mres, drive>>

\* Where mmc_open() returns to.
Opened(h) == IF req[h] = "CERT" THEN "drivecert" ELSE "nextcert"

\* _mmc_check_aacs(): GET CONFIGURATION.  Without an answer the drive does not
\* support AACS and mmc_open() fails.
CheckAacs(h) ==
    /\ pc[h] = "config"
    /\ Command(TRUE, UNCHANGED drive,
               /\ \E flag \in IF Corrupting THEN BOOLEAN ELSE {ReadsDriveCert} :
                      Goto(h, IF flag THEN "opencert" ELSE Opened(h))
               /\ UNCHANGED <<res, cert>>,
               Return(h, "MMC_OPEN"))
    /\ UNCHANGED <<frame, cidx, inv, agid, dn, dkp, mres, err, out>>

\* mmc_read_drive_cert() as mmc_open() calls it; its result is ignored and only
\* a certificate that verifies is kept.
OpenReadDriveCert(h) ==
    /\ pc[h] = "opencert"
    /\ Command(TRUE, UNCHANGED drive,
               \E c \in Deliver("CERT", Garbage) :
                   cert' = [cert EXCEPT ![h] = IF c = "CERT" THEN c ELSE @],
               UNCHANGED cert)
    /\ Goto(h, Opened(h))
    /\ UNCHANGED <<frame, cidx, inv, agid, dn, dkp, mres, err, out, res>>

\* mmc_read_drive_cert() as _get_bus_encryption_capable() calls it: the copy of
\* mmc_open() if there is one of type 0x01, else it is read now.
ReadDriveCert(h) ==
    /\ pc[h] = "drivecert"
    /\ \/ /\ cert[h] # None /\ ~DriveAacs2
          /\ out' = [out EXCEPT ![h] = cert[h]]
          /\ Return(h, "SUCCESS") /\ UNCHANGED drive
       \/ /\ cert[h] = None \/ DriveAacs2
          /\ Command(TRUE, UNCHANGED drive,
                     \E c \in Deliver("CERT", Garbage) :
                         IF c = "CERT"
                         THEN /\ out' = [out EXCEPT ![h] = c]
                              /\ Return(h, "SUCCESS")
                         ELSE UNCHANGED out /\ Return(h, "MMC_FAILURE"),
                     UNCHANGED out /\ Return(h, "MMC_FAILURE"))
    /\ UNCHANGED <<frame, cidx, inv, agid, dn, dkp, mres, err>>

\* continue: the position after a certificate that is skipped (the mutant stays there).
NotSkipped(h) == cidx[h]
Skipped(h) == cidx[h] + 1

\* Head of the loop over the host certificates: the end of the list returns the
\* error of the last attempt, a certificate that does not verify is skipped.
NextCert(h) ==
    /\ pc[h] = "nextcert"
    /\ \/ /\ cidx[h] > Len(HostCertList)
          /\ Return(h, err[h])
          /\ UNCHANGED <<cidx, inv>>
       \/ /\ cidx[h] <= Len(HostCertList) /\ HostCert(h) \in InvalidCerts
          /\ cidx' = [cidx EXCEPT ![h] = Skipped(h)]
          /\ UNCHANGED <<pc, inv, res, cert>>
       \/ /\ cidx[h] <= Len(HostCertList) /\ HostCert(h) \notin InvalidCerts
          /\ inv' = [inv EXCEPT ![h] = 0]
          /\ Goto(h, "invalidate")
          /\ UNCHANGED <<cidx, res, cert>>
    /\ UNCHANGED <<frame, agid, dn, dkp, mres, err, out, drive>>

\* Loop condition of _mmc_invalidate_agids() after a turn.
MoreAgids(h) == inv[h] + 1 < NumAgid

\* _mmc_invalidate_agid(): the drive forgets the session, whoever uses it.
InvalidateAgid(a) == sess' = [sess EXCEPT ![a] = Free] /\ UNCHANGED gen

\* One turn of _mmc_invalidate_agids(): the result of the command is ignored.
InvalidateAgids(h) ==
    /\ pc[h] = "invalidate"
    /\ Command(TRUE, InvalidateAgid(inv[h]), TRUE, TRUE)
    /\ inv' = [inv EXCEPT ![h] = @ + 1]
    /\ Goto(h, IF MoreAgids(h) THEN "invalidate" ELSE "agid")
    /\ UNCHANGED <<frame, cidx, agid, dn, dkp, cert, mres, err, out, res>>

ErrorCode(e) == IF e = "revoked" THEN "CERT_REVOKED" ELSE "MMC_FAILURE"

\* The attempt is over: mmc_read_auth() returned e to _mmc_read_auth() (the
\* mutant gives up the rest of the list).
AttemptFailedGivesUp(h, e) ==
    /\ err' = [err EXCEPT ![h] = ErrorCode(e)]
    /\ cidx' = [cidx EXCEPT ![h] = Len(HostCertList) + 1]
    /\ Goto(h, "nextcert")
AttemptFailed(h, e) ==
    /\ err' = [err EXCEPT ![h] = ErrorCode(e)]
    /\ cidx' = [cidx EXCEPT ![h] = @ + 1]
    /\ Goto(h, "nextcert")

\* _mmc_report_agid(): the drive grants an AGID that is free, if there is one.
ReportAgid(h) ==
    /\ pc[h] = "agid"
    /\ LET avail == {a \in Agids : sess[a].st = "free"} IN
       \/ \E a \in avail :
             /\ gen' = gen + 1
             /\ sess' = [sess EXCEPT ![a] = Granted(gen + 1)]
             /\ \/ /\ \E b \in IF Corrupting THEN Agids ELSE {a} :
                          agid' = [agid EXCEPT ![h] = b]
                   /\ Goto(h, "hostcert")
                   /\ UNCHANGED <<err, cidx>>
                \/ Lossy /\ AttemptFailed(h, "error") /\ UNCHANGED agid
       \/ /\ avail = {} \/ Lossy
          /\ AttemptFailed(h, "error")
          /\ UNCHANGED <<drive, agid>>
    /\ UNCHANGED <<frame, inv, dn, dkp, cert, mres, out, res>>

\* _mmc_send_host_cert(): certificate and nonce of the host.  Every failure of
\* the command is taken for a revoked certificate.
SendHostCert(h) ==
    /\ pc[h] = "hostcert"
    /\ Command(IsGranted(agid[h]) /\ HostCert(h) \notin RevokedCerts,
               /\ sess' = [sess EXCEPT ![agid[h]] =
                              [@ EXCEPT !.st = "cert", !.hn = Nonce(h),
                                        !.hc = HostCert(h), !.hk = NoNonce]]
               /\ UNCHANGED gen,
               Goto(h, "challenge") /\ UNCHANGED mres,
               Finish(h, "revoked"))
    /\ UNCHANGED <<frame, cidx, inv, agid, dn, dkp, cert, err, out, res>>

\* _mmc_read_drive_cert_challenge(), then the type and the signature of the
\* drive certificate.  mmc->drive_cert is overwritten before it is verified.
ReadDriveCertChallenge(h) ==
    /\ pc[h] = "challenge"
    /\ Command(HasHostCert(agid[h]), UNCHANGED drive,
               \E n \in Deliver(sess[agid[h]].gen, BadGen), c \in Deliver("CERT", Garbage) :
                   /\ dn' = [dn EXCEPT ![h] = n]
                   /\ cert' = [cert EXCEPT ![h] = c]
                   /\ IF c = "CERT" /\ ~DriveAacs2
                      THEN Goto(h, "drivekey") /\ UNCHANGED mres
                      ELSE Finish(h, "error"),
               Finish(h, "error") /\ UNCHANGED <<dn, cert>>)
    /\ UNCHANGED <<frame, cidx, inv, agid, dkp, err, out, res>>

DriveSignatureIgnored(h, reply) == TRUE
\* The drive's signature covers the nonce it was sent last in this session.
\* _verify_signature() compares it with the nonce of this host.
DriveSignatureOk(h, reply) == reply = "KEY" /\ sess[agid[h]].hn = Nonce(h)

\* _mmc_read_drive_key() and _verify_signature() over the host nonce.
ReadDriveKey(h) ==
    /\ pc[h] = "drivekey"
    /\ Command(HasHostCert(agid[h]), UNCHANGED drive,
               \E reply \in Deliver("KEY", Garbage) :
                   /\ dkp' = [dkp EXCEPT ![h] = IF reply = "KEY"
                                                THEN sess[agid[h]].gen ELSE BadGen]
                   /\ IF DriveSignatureOk(h, reply)
                      THEN Goto(h, "hostkey") /\ UNCHANGED mres
                      ELSE Finish(h, "error"),
               Finish(h, "error") /\ UNCHANGED dkp)
    /\ UNCHANGED <<frame, cidx, inv, agid, dn, cert, err, out, res>>

\* What the drive checks before it takes the host key: it is signed with the
\* certificate it was sent last, over the nonce it gave in this session.
HostSignatureOk(h) == sess[agid[h]].hc = HostCert(h) /\ sess[agid[h]].gen = dn[h]

\* crypto_aacs_sign(), the check of the own signature, _mmc_send_host_key() and
\* crypto_create_bus_key().
SendHostKey(h) ==
    /\ pc[h] = "hostkey"
    /\ \/ HostCert(h) \in MismatchedCerts /\ Finish(h, "error") /\ UNCHANGED drive
       \/ /\ HostCert(h) \notin MismatchedCerts
          /\ Command(HasHostCert(agid[h]) /\ HostSignatureOk(h),
                     /\ sess' = [sess EXCEPT ![agid[h]] = [@ EXCEPT !.st = "auth", !.hk = Nonce(h)]]
                     /\ UNCHANGED gen,
                     Goto(h, "read") /\ UNCHANGED mres,
                     Finish(h, "error"))
    /\ UNCHANGED <<frame, cidx, inv, agid, dn, dkp, cert, err, out, res>>

DriveBusKey(a) == <<sess[a].hk, sess[a].gen>>
SameBusKey(h) == DriveBusKey(agid[h]) = BusKey(h)

\* The memcmp() of the received with the calculated MAC (mutant: not made).
MacIgnored(h, v) == TRUE
MacOk(h, v) == SameBusKey(h) /\ v = req[h]

\* The READ DISC STRUCTURE command failed (mutant: the failure is overlooked).
ReadFailureIgnored(h) == Finish(h, "ok") /\ UNCHANGED out
ReadFailed(h) == Finish(h, "error") /\ UNCHANGED out

\* READ DISC STRUCTURE: the caller's buffer is filled before the MAC of a VID or
\* PMSN is compared; data keys come encrypted with the bus key and without a MAC.
ReadDiscStructure(h) ==
    /\ pc[h] = "read"
    /\ Command(IsAuthenticated(agid[h]), UNCHANGED drive,
               \E v \in Deliver(req[h], Garbage) :
                   IF req[h] = "DATA_KEYS"
                   THEN /\ out' = [out EXCEPT ![h] = IF SameBusKey(h) THEN v ELSE Garbage]
                        /\ Finish(h, "ok")
                   ELSE /\ out' = [out EXCEPT ![h] = v]
                        /\ Finish(h, IF MacOk(h, v) THEN "ok" ELSE "error"),
               ReadFailed(h))
    /\ UNCHANGED <<frame, cidx, inv, agid, dn, dkp, cert, err, res>>

\* The AGID is given back on success and on error (mutant: on success only).
ReleaseAgidIfOk(h) == IF mres[h] = "ok" THEN InvalidateAgid(agid[h]) ELSE UNCHANGED drive
ReleaseAgid(h) == InvalidateAgid(agid[h])

\* _mmc_invalidate_agid() at the end of mmc_read_auth(), result ignored; then
\* _mmc_read_auth() returns or goes to the next certificate.
Release(h) ==
    /\ pc[h] = "release"
    /\ Command(TRUE, ReleaseAgid(h), TRUE, TRUE)
    /\ \/ /\ mres[h] = "ok"
          /\ Return(h, "SUCCESS")
          /\ UNCHANGED <<err, cidx>>
       \/ /\ mres[h] # "ok"
          /\ AttemptFailed(h, mres[h])
          /\ UNCHANGED <<res, cert>>
    /\ UNCHANGED <<frame, inv, agid, dn, dkp, mres, out>>

-----------------------------------------------------------------------------
Init ==
    /\ pc = [h \in Hosts |-> "idle"]
    /\ req = [h \in Hosts |-> "VID"]
    /\ calls = [h \in Hosts |-> 0]
    /\ cidx = [h \in Hosts |-> 1]
    /\ inv = [h \in Hosts |-> 0]
    /\ agid = [h \in Hosts |-> 0]
    /\ dn = [h \in Hosts |-> BadGen]
    /\ dkp = [h \in Hosts |-> BadGen]
    /\ cert = [h \in Hosts |-> None]
    /\ mres = [h \in Hosts |-> "error"]
    /\ err = [h \in Hosts |-> "NO_CERT"]
    /\ out = [h \in Hosts |-> None]
    /\ res = [h \in Hosts |-> None]
    /\ sess = [a \in Agids |-> Free]
    /\ gen = 0

\* One SCSI command of a call that is running.
Step(h) ==
    \/ CheckAacs(h) \/ OpenReadDriveCert(h) \/ ReadDriveCert(h)
    \/ NextCert(h) \/ InvalidateAgids(h) \/ ReportAgid(h) \/ SendHostCert(h)
    \/ ReadDriveCertChallenge(h) \/ ReadDriveKey(h) \/ SendHostKey(h)
    \/ ReadDiscStructure(h) \/ Release(h)

Next == \E h \in Hosts : Call(h) \/ Step(h)

\* A running call goes on: device_send_cmd() returns, at the latest when the
\* operating system times the command out.
Fairness == \A h \in Hosts : WF_vars(Step(h))

Spec == Init /\ [][Next]_vars
FairSpec == Spec /\ Fairness
-----------------------------------------------------------------------------
(* Properties.                                                             *)

Labels == {"idle", "config", "opencert", "drivecert", "nextcert", "invalidate",
           "agid", "hostcert", "challenge", "drivekey", "hostkey", "read", "release"}
Results == {None, "SUCCESS", "MMC_OPEN", "NO_CERT", "CERT_REVOKED", "MMC_FAILURE"}
AllNonces == (Hosts \cup {None}) \X (0 .. MaxCalls)
Sessions == [st : {"free", "granted", "cert", "auth"}, gen : Nat,
             hn : AllNonces, hc : HostCerts \cup {None}, hk : AllNonces]

\* Every variable has its type: all indices used on the certificate list and on
\* the drive's sessions are in range.
TypeOK ==
    /\ pc \in [Hosts -> Labels]
    /\ req \in [Hosts -> Requests]
    /\ calls \in [Hosts -> 0 .. MaxCalls]
    /\ cidx \in [Hosts -> 1 .. Len(HostCertList) + 1]
    /\ inv \in [Hosts -> 0 .. NumAgid]
    /\ agid \in [Hosts -> Agids]
    /\ dn \in [Hosts -> Nat] /\ dkp \in [Hosts -> Nat]
    /\ cert \in [Hosts -> {None, Garbage, "CERT"}]
    /\ mres \in [Hosts -> {"ok", "error", "revoked"}]
    /\ err \in [Hosts -> Results]
    /\ out \in [Hosts -> {None, Garbage} \cup Requests]
    /\ res \in [Hosts -> Results]
    /\ sess \in [Agids -> Sessions]
    /\ gen \in Nat
    /\ \A h \in Hosts : pc[h] = "invalidate" => inv[h] \in Agids
    /\ \A h \in Hosts : pc[h] \in {"invalidate", "agid", "hostcert", "challenge",
                                   "drivekey", "hostkey", "read", "release"}
                          => cidx[h] <= Len(HostCertList)

\* A call that returned SUCCESS for the VID, the PMSN or the drive certificate
\* delivered the drive's own bytes, whatever other hosts did to the session in
\* the meantime and whatever the bus did to the replies (MAC check of
\* _read_vid() and _read_pmsn(), crypto_aacs_verify_drive_cert()).
SuccessIsAuthentic ==
    \A h \in Hosts : pc[h] = "idle" /\ res[h] = "SUCCESS" /\ req[h] # "DATA_KEYS"
                        => out[h] = req[h]

\* When a host has authenticated and the drive still holds a session
\* authenticated by that host under its AGID, both ends have derived the same
\* bus key: the drive nonce and the drive key point the host combined come from
\* one and the same drive session (_mmc_aacs_auth()).
KeyAgreement ==
    \A h \in Hosts :
        pc[h] = "read" /\ IsAuthenticated(agid[h]) /\ sess[agid[h]].hk = Nonce(h)
            => DriveBusKey(agid[h]) = BusKey(h)

Holding == {"hostcert", "challenge", "drivekey", "hostkey", "read", "release"}

\* On a bus that loses and corrupts nothing, an AGID that is not free belongs to a host
\* that is on its way to releasing it: every path out of mmc_read_auth() that
\* got an AGID invalidates it.
AgidsOwned ==
    \A a \in Agids : IsGranted(a) => \E h \in Hosts : pc[h] \in Holding /\ agid[h] = a

\* The data keys of a SUCCESS are the drive's: they carry no MAC, so this is a
\* property of a drive used by one host over a bus that corrupts nothing.
DataKeysAuthentic ==
    \A h \in Hosts : pc[h] = "idle" /\ res[h] = "SUCCESS" /\ req[h] = "DATA_KEYS"
                        => out[h] = "DATA_KEYS"

\* AACS_ERROR_CERT_REVOKED is only reported when the drive has revoked one of
\* the host certificates that were tried (aacs.h: "certificate has been revoked").
RevokedMeansRevoked ==
    \A h \in Hosts : pc[h] = "idle" /\ res[h] = "CERT_REVOKED"
        => \E i \in 1 .. Len(HostCertList) : HostCertList[i] \in RevokedCerts \ InvalidCerts

\* Every call returns.
CallReturns == \A h \in Hosts : pc[h] # "idle" ~> pc[h] = "idle"

\* While no other host has used the drive and no command fails, a usable
\* certificate anywhere in the list is found by _mmc_read_auth(), whatever
\* certificates come before it.
UsableCertIsFound ==
    (\E i \in 1 .. Len(HostCertList) :
        HostCertList[i] \notin InvalidCerts \cup RevokedCerts \cup MismatchedCerts) =>
        \A h \in Hosts : pc[h] = "idle" /\ calls[h] > 0 /\ (\A g \in Hosts \ {h} : calls[g] = 0)
                            => res[h] = "SUCCESS"
=============================================================================
