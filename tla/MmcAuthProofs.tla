--------------------------- MODULE MmcAuthProofs ---------------------------
(* Proofs about MmcAuth for every number of hosts, AGIDs and certificates. *)
EXTENDS MmcAuth, TLAPS

LEMMA TypeInit == Init => TypeOK
  BY MmcAssumption DEF Init, TypeOK, Labels, Results, Requests, AuthRequests, Agids,
     Sessions, AllNonces, NoNonce, Free, None, Garbage, BadGen

\* The values the drive's session table is filled with are sessions.
LEMMA SessionTypes ==
    /\ Free \in Sessions
    /\ \A g \in Nat : Granted(g) \in Sessions
    /\ \A s \in Sessions, n \in AllNonces, c \in HostCerts :
         /\ [s EXCEPT !.st = "cert", !.hn = n, !.hc = c, !.hk = NoNonce] \in Sessions
         /\ [s EXCEPT !.st = "auth", !.hk = n] \in Sessions
<1>1. NoNonce \in AllNonces
  BY MmcAssumption DEF AllNonces, NoNonce, None
<1>2. Free \in Sessions
  BY <1>1 DEF Free, Sessions, None
<1> QED
  BY <1>1, <1>2 DEF Free, Granted, Sessions, None

LEMMA TypeStep == TypeOK /\ [Next]_vars => TypeOK'
<1> SUFFICES ASSUME TypeOK, [Next]_vars PROVE TypeOK'
  OBVIOUS
<1>pc. pc \in [Hosts -> Labels]
  BY DEF TypeOK
<1>req. req \in [Hosts -> Requests]
  BY DEF TypeOK
<1>calls. calls \in [Hosts -> 0 .. MaxCalls]
  BY DEF TypeOK
<1>cidx. cidx \in [Hosts -> 1 .. Len(HostCertList) + 1]
  BY DEF TypeOK
<1>inv. inv \in [Hosts -> 0 .. NumAgid]
  BY DEF TypeOK
<1>agid. agid \in [Hosts -> Agids]
  BY DEF TypeOK
<1>dn. dn \in [Hosts -> Nat]
  BY DEF TypeOK
<1>dkp. dkp \in [Hosts -> Nat]
  BY DEF TypeOK
<1>cert. cert \in [Hosts -> {None, Garbage, "CERT"}]
  BY DEF TypeOK
<1>mres. mres \in [Hosts -> {"ok", "error", "revoked"}]
  BY DEF TypeOK
<1>err. err \in [Hosts -> Results]
  BY DEF TypeOK
<1>out. out \in [Hosts -> {None, Garbage} \cup Requests]
  BY DEF TypeOK
<1>res. res \in [Hosts -> Results]
  BY DEF TypeOK
<1>sess. sess \in [Agids -> Sessions]
  BY DEF TypeOK
<1>gen. gen \in Nat
  BY DEF TypeOK
<1>loop. \A h \in Hosts : pc[h] = "invalidate" => inv[h] \in Agids
  BY DEF TypeOK
<1>bound. \A h \in Hosts : pc[h] \in {"invalidate"} \cup {"agid"} \cup Holding => cidx[h] <= Len(HostCertList)
  BY DEF TypeOK, Holding
<1>len. Len(HostCertList) \in Nat
  BY MmcAssumption
<1>cert_. \A h \in Hosts : cidx[h] <= Len(HostCertList) => HostCert(h) \in HostCerts
  BY <1>cidx, MmcAssumption DEF HostCert
<1>nonce. \A h \in Hosts : Nonce(h) \in AllNonces
  BY <1>calls DEF Nonce, AllNonces
<1>1. ASSUME NEW h \in Hosts, Call(h) PROVE TypeOK'
  <2>pc. pc' \in [Hosts -> Labels]
    BY <1>1, <1>pc DEF Call, Return, Goto, Labels
  <2>calls. calls' \in [Hosts -> 0 .. MaxCalls]
    BY <1>1, <1>calls, MmcAssumption DEF Call, Return, Goto
  <2>req. req' \in [Hosts -> Requests]
    BY <1>1, <1>req DEF Call, Return, Goto, Requests, AuthRequests
  <2>cidx. cidx' \in [Hosts -> 1 .. Len(HostCertList) + 1]
    BY <1>1, <1>cidx, <1>len, <1>bound DEF Call, Return, Goto, Holding
  <2>err. err' \in [Hosts -> Results]
    BY <1>1, <1>err DEF Call, Return, Goto, Results
  <2>out. out' \in [Hosts -> {None, Garbage} \cup Requests]
    BY <1>1, <1>out DEF Call, Return, Goto, Requests, AuthRequests, None, Garbage
  <2>res. res' \in [Hosts -> Results]
    BY <1>1, <1>res, <1>err DEF Call, Return, Goto, Results, None
  <2>cert. cert' \in [Hosts -> {None, Garbage, "CERT"}]
    BY <1>1, <1>cert DEF Call, Return, Goto, None, Garbage
  <2>rest. UNCHANGED <<inv, agid, dn, dkp, mres, sess, gen>>
    BY <1>1 DEF Call, Return, Goto, frame, drive
  <2>loop. \A g \in Hosts : pc'[g] = "invalidate" => inv'[g] \in Agids'
    BY <1>1, <1>pc, <1>inv, <1>loop, MmcAssumption, <2>rest DEF Call, Return, Goto, Agids
  <2>bound. \A g \in Hosts : pc'[g] \in {"invalidate"} \cup {"agid"} \cup Holding => cidx'[g] <= Len(HostCertList)
    BY <1>1, <1>pc, <1>cidx, <1>bound, <1>len, <2>rest DEF Call, Return, Goto, Holding
  <2> QED
    BY <2>pc, <2>calls, <2>req, <2>cidx, <2>err, <2>out, <2>res, <2>cert, <2>rest, <2>loop, <2>bound, <1>inv, <1>agid, <1>dn, <1>dkp, <1>mres, <1>sess, <1>gen DEF TypeOK, Agids, Holding
<1>2. ASSUME NEW h \in Hosts, CheckAacs(h) PROVE TypeOK'
  <2>pc. pc' \in [Hosts -> Labels]
    BY <1>2, <1>pc DEF CheckAacs, Command, Return, Goto, Opened, Labels
  <2>res. res' \in [Hosts -> Results]
    BY <1>2, <1>res, <1>err DEF CheckAacs, Command, Return, Goto, Opened, Results, None
  <2>cert. cert' \in [Hosts -> {None, Garbage, "CERT"}]
    BY <1>2, <1>cert DEF CheckAacs, Command, Return, Goto, Opened, None, Garbage
  <2>rest. UNCHANGED <<req, calls, cidx, inv, agid, dn, dkp, mres, err, out, sess, gen>>
    BY <1>2 DEF CheckAacs, Command, Return, Goto, Opened, frame, drive
  <2>loop. \A g \in Hosts : pc'[g] = "invalidate" => inv'[g] \in Agids'
    BY <1>2, <1>pc, <1>inv, <1>loop, MmcAssumption, <2>rest DEF CheckAacs, Command, Return, Goto, Opened, Agids
  <2>bound. \A g \in Hosts : pc'[g] \in {"invalidate"} \cup {"agid"} \cup Holding => cidx'[g] <= Len(HostCertList)
    BY <1>2, <1>pc, <1>cidx, <1>bound, <1>len, <2>rest DEF CheckAacs, Command, Return, Goto, Opened, Holding
  <2> QED
    BY <2>pc, <2>res, <2>cert, <2>rest, <2>loop, <2>bound, <1>req, <1>calls, <1>cidx, <1>inv, <1>agid, <1>dn, <1>dkp, <1>mres, <1>err, <1>out, <1>sess, <1>gen DEF TypeOK, Agids, Holding
<1>3. ASSUME NEW h \in Hosts, OpenReadDriveCert(h) PROVE TypeOK'
  <2>pc. pc' \in [Hosts -> Labels]
    BY <1>3, <1>pc DEF OpenReadDriveCert, Command, Goto, Opened, Labels
  <2>cert. cert' \in [Hosts -> {None, Garbage, "CERT"}]
    BY <1>3, <1>cert DEF OpenReadDriveCert, Command, Goto, Opened, Deliver, None, Garbage
  <2>rest. UNCHANGED <<req, calls, cidx, inv, agid, dn, dkp, mres, err, out, res, sess, gen>>
    BY <1>3 DEF OpenReadDriveCert, Command, Goto, Opened, frame, drive
  <2>loop. \A g \in Hosts : pc'[g] = "invalidate" => inv'[g] \in Agids'
    BY <1>3, <1>pc, <1>inv, <1>loop, MmcAssumption, <2>rest DEF OpenReadDriveCert, Command, Goto, Opened, Agids
  <2>bound. \A g \in Hosts : pc'[g] \in {"invalidate"} \cup {"agid"} \cup Holding => cidx'[g] <= Len(HostCertList)
    BY <1>3, <1>pc, <1>cidx, <1>bound, <1>len, <2>rest DEF OpenReadDriveCert, Command, Goto, Opened, Holding
  <2> QED
    BY <2>pc, <2>cert, <2>rest, <2>loop, <2>bound, <1>req, <1>calls, <1>cidx, <1>inv, <1>agid, <1>dn, <1>dkp, <1>mres, <1>err, <1>out, <1>res, <1>sess, <1>gen DEF TypeOK, Agids, Holding
<1>4. ASSUME NEW h \in Hosts, ReadDriveCert(h) PROVE TypeOK'
  <2>pc. pc' \in [Hosts -> Labels]
    BY <1>4, <1>pc DEF ReadDriveCert, Command, Return, Goto, Labels
  <2>res. res' \in [Hosts -> Results]
    BY <1>4, <1>res, <1>err DEF ReadDriveCert, Command, Return, Goto, Results, None
  <2>cert. cert' \in [Hosts -> {None, Garbage, "CERT"}]
    BY <1>4, <1>cert DEF ReadDriveCert, Command, Return, Goto, None, Garbage
  <2>out. out' \in [Hosts -> {None, Garbage} \cup Requests]
    BY <1>4, <1>out, <1>req, <1>cert DEF ReadDriveCert, Command, Return, Goto, Deliver, Requests, AuthRequests, None, Garbage
  <2>rest. UNCHANGED <<req, calls, cidx, inv, agid, dn, dkp, mres, err, sess, gen>>
    BY <1>4 DEF ReadDriveCert, Command, Return, Goto, frame, drive
  <2>loop. \A g \in Hosts : pc'[g] = "invalidate" => inv'[g] \in Agids'
    BY <1>4, <1>pc, <1>inv, <1>loop, MmcAssumption, <2>rest DEF ReadDriveCert, Command, Return, Goto, Agids
  <2>bound. \A g \in Hosts : pc'[g] \in {"invalidate"} \cup {"agid"} \cup Holding => cidx'[g] <= Len(HostCertList)
    BY <1>4, <1>pc, <1>cidx, <1>bound, <1>len, <2>rest DEF ReadDriveCert, Command, Return, Goto, Holding
  <2> QED
    BY <2>pc, <2>res, <2>cert, <2>out, <2>rest, <2>loop, <2>bound, <1>req, <1>calls, <1>cidx, <1>inv, <1>agid, <1>dn, <1>dkp, <1>mres, <1>err, <1>sess, <1>gen DEF TypeOK, Agids, Holding
<1>5. ASSUME NEW h \in Hosts, NextCert(h) PROVE TypeOK'
  <2>pc. pc' \in [Hosts -> Labels]
    BY <1>5, <1>pc DEF NextCert, Return, Goto, Labels
  <2>cidx. cidx' \in [Hosts -> 1 .. Len(HostCertList) + 1]
    BY <1>5, <1>cidx, <1>len, <1>bound DEF NextCert, Skipped, Return, Goto, Holding
  <2>inv. inv' \in [Hosts -> 0 .. NumAgid]
    BY <1>5, <1>inv, <1>loop, MmcAssumption DEF NextCert, Return, Goto, Agids
  <2>res. res' \in [Hosts -> Results]
    BY <1>5, <1>res, <1>err DEF NextCert, Return, Goto, Results, None
  <2>cert. cert' \in [Hosts -> {None, Garbage, "CERT"}]
    BY <1>5, <1>cert DEF NextCert, Return, Goto, None, Garbage
  <2>rest. UNCHANGED <<req, calls, agid, dn, dkp, mres, err, out, sess, gen>>
    BY <1>5 DEF NextCert, Return, Goto, frame, drive
  <2>loop. \A g \in Hosts : pc'[g] = "invalidate" => inv'[g] \in Agids'
    BY <1>5, <1>pc, <1>inv, <1>loop, MmcAssumption, <2>rest DEF NextCert, Return, Goto, Agids
  <2>bound. \A g \in Hosts : pc'[g] \in {"invalidate"} \cup {"agid"} \cup Holding => cidx'[g] <= Len(HostCertList)
    BY <1>5, <1>pc, <1>cidx, <1>bound, <1>len, <2>rest DEF NextCert, Skipped, Return, Goto, Holding
  <2> QED
    BY <2>pc, <2>cidx, <2>inv, <2>res, <2>cert, <2>rest, <2>loop, <2>bound, <1>req, <1>calls, <1>agid, <1>dn, <1>dkp, <1>mres, <1>err, <1>out, <1>sess, <1>gen DEF TypeOK, Agids, Holding
<1>6. ASSUME NEW h \in Hosts, InvalidateAgids(h) PROVE TypeOK'
  <2>pc. pc' \in [Hosts -> Labels]
    BY <1>6, <1>pc DEF InvalidateAgids, InvalidateAgid, MoreAgids, Command, Goto, Labels
  <2>inv. inv' \in [Hosts -> 0 .. NumAgid]
    BY <1>6, <1>inv, <1>loop, MmcAssumption DEF InvalidateAgids, InvalidateAgid, MoreAgids, Command, Goto, Agids
  <2>sess. sess' \in [Agids -> Sessions]
    BY <1>6, <1>sess, <1>agid, SessionTypes, <1>loop DEF InvalidateAgids, InvalidateAgid, MoreAgids, Command, Goto, drive
  <2>rest. UNCHANGED <<req, calls, cidx, agid, dn, dkp, cert, mres, err, out, res, gen>>
    BY <1>6 DEF InvalidateAgids, InvalidateAgid, MoreAgids, Command, Goto, frame, drive
  <2>loop. \A g \in Hosts : pc'[g] = "invalidate" => inv'[g] \in Agids'
    BY <1>6, <1>pc, <1>inv, <1>loop, MmcAssumption, <2>rest DEF InvalidateAgids, InvalidateAgid, MoreAgids, Command, Goto, Agids
  <2>bound. \A g \in Hosts : pc'[g] \in {"invalidate"} \cup {"agid"} \cup Holding => cidx'[g] <= Len(HostCertList)
    BY <1>6, <1>pc, <1>cidx, <1>bound, <1>len, <2>rest DEF InvalidateAgids, InvalidateAgid, MoreAgids, Command, Goto, Holding
  <2> QED
    BY <2>pc, <2>inv, <2>sess, <2>rest, <2>loop, <2>bound, <1>req, <1>calls, <1>cidx, <1>agid, <1>dn, <1>dkp, <1>cert, <1>mres, <1>err, <1>out, <1>res, <1>gen DEF TypeOK, Agids, Holding
<1>7. ASSUME NEW h \in Hosts, ReportAgid(h) PROVE TypeOK'
  <2>pc. pc' \in [Hosts -> Labels]
    BY <1>7, <1>pc DEF ReportAgid, AttemptFailed, ErrorCode, Goto, Labels
  <2>agid. agid' \in [Hosts -> Agids]
    BY <1>7, <1>agid DEF ReportAgid, AttemptFailed, ErrorCode, Goto, Agids
  <2>err. err' \in [Hosts -> Results]
    BY <1>7, <1>err DEF ReportAgid, AttemptFailed, ErrorCode, Goto, Results
  <2>cidx. cidx' \in [Hosts -> 1 .. Len(HostCertList) + 1]
    BY <1>7, <1>cidx, <1>len, <1>bound DEF ReportAgid, AttemptFailed, ErrorCode, Goto, Holding
  <2>sess. sess' \in [Agids -> Sessions]
    <3>1. sess' = sess \/ \E a \in Agids : sess' = [sess EXCEPT ![a] = Granted(gen + 1)]
      BY <1>7 DEF ReportAgid, drive
    <3>2. gen + 1 \in Nat
      BY <1>gen
    <3>3. Granted(gen + 1) \in Sessions
      BY <3>2, SessionTypes
    <3> QED
      BY <3>1, <3>3, <1>sess
  <2>gen. gen' \in Nat
    BY <1>7, <1>gen DEF ReportAgid, AttemptFailed, ErrorCode, Goto, drive
  <2>rest. UNCHANGED <<req, calls, inv, dn, dkp, cert, mres, out, res>>
    BY <1>7 DEF ReportAgid, AttemptFailed, ErrorCode, Goto, frame, drive
  <2>loop. \A g \in Hosts : pc'[g] = "invalidate" => inv'[g] \in Agids'
    BY <1>7, <1>pc, <1>inv, <1>loop, MmcAssumption, <2>rest DEF ReportAgid, AttemptFailed, ErrorCode, Goto, Agids
  <2>bound. \A g \in Hosts : pc'[g] \in {"invalidate"} \cup {"agid"} \cup Holding => cidx'[g] <= Len(HostCertList)
    BY <1>7, <1>pc, <1>cidx, <1>bound, <1>len, <2>rest DEF ReportAgid, AttemptFailed, ErrorCode, Goto, Holding
  <2> QED
    BY <2>pc, <2>agid, <2>err, <2>cidx, <2>sess, <2>gen, <2>rest, <2>loop, <2>bound, <1>req, <1>calls, <1>inv, <1>dn, <1>dkp, <1>cert, <1>mres, <1>out, <1>res DEF TypeOK, Agids, Holding
<1>8. ASSUME NEW h \in Hosts, SendHostCert(h) PROVE TypeOK'
  <2>pc. pc' \in [Hosts -> Labels]
    BY <1>8, <1>pc DEF SendHostCert, Command, Finish, Goto, Labels
  <2>mres. mres' \in [Hosts -> {"ok", "error", "revoked"}]
    BY <1>8, <1>mres DEF SendHostCert, Command, Finish, Goto
  <2>sess. sess' \in [Agids -> Sessions]
    <3> DEFINE s == sess[agid[h]]
               new == [s EXCEPT !.st = "cert", !.hn = Nonce(h), !.hc = HostCert(h), !.hk = NoNonce]
    <3>1. sess' = sess \/ sess' = [sess EXCEPT ![agid[h]] = new]
      BY <1>8 DEF SendHostCert, Command, drive
    <3>2. s \in Sessions /\ agid[h] \in Agids
      BY <1>sess, <1>agid
    <3>3. HostCert(h) \in HostCerts
      BY <1>8, <1>bound, <1>cert_ DEF SendHostCert, Holding
    <3>4. new \in Sessions
      BY <3>2, <3>3, <1>nonce, SessionTypes
    <3> QED
      BY <3>1, <3>2, <3>4, <1>sess
  <2>rest. UNCHANGED <<req, calls, cidx, inv, agid, dn, dkp, cert, err, out, res, gen>>
    BY <1>8 DEF SendHostCert, Command, Finish, Goto, frame, drive
  <2>loop. \A g \in Hosts : pc'[g] = "invalidate" => inv'[g] \in Agids'
    BY <1>8, <1>pc, <1>inv, <1>loop, MmcAssumption, <2>rest DEF SendHostCert, Command, Finish, Goto, Agids
  <2>bound. \A g \in Hosts : pc'[g] \in {"invalidate"} \cup {"agid"} \cup Holding => cidx'[g] <= Len(HostCertList)
    BY <1>8, <1>pc, <1>cidx, <1>bound, <1>len, <2>rest DEF SendHostCert, Command, Finish, Goto, Holding
  <2> QED
    BY <2>pc, <2>mres, <2>sess, <2>rest, <2>loop, <2>bound, <1>req, <1>calls, <1>cidx, <1>inv, <1>agid, <1>dn, <1>dkp, <1>cert, <1>err, <1>out, <1>res, <1>gen DEF TypeOK, Agids, Holding
<1>9. ASSUME NEW h \in Hosts, ReadDriveCertChallenge(h) PROVE TypeOK'
  <2>pc. pc' \in [Hosts -> Labels]
    BY <1>9, <1>pc DEF ReadDriveCertChallenge, Command, Finish, Goto, Labels
  <2>mres. mres' \in [Hosts -> {"ok", "error", "revoked"}]
    BY <1>9, <1>mres DEF ReadDriveCertChallenge, Command, Finish, Goto
  <2>dn. dn' \in [Hosts -> Nat]
    BY <1>9, <1>dn, <1>sess, <1>agid DEF ReadDriveCertChallenge, Command, Finish, Goto, Deliver, BadGen, Sessions
  <2>cert. cert' \in [Hosts -> {None, Garbage, "CERT"}]
    BY <1>9, <1>cert DEF ReadDriveCertChallenge, Command, Finish, Goto, Deliver, None, Garbage
  <2>rest. UNCHANGED <<req, calls, cidx, inv, agid, dkp, err, out, res, sess, gen>>
    BY <1>9 DEF ReadDriveCertChallenge, Command, Finish, Goto, frame, drive
  <2>loop. \A g \in Hosts : pc'[g] = "invalidate" => inv'[g] \in Agids'
    BY <1>9, <1>pc, <1>inv, <1>loop, MmcAssumption, <2>rest DEF ReadDriveCertChallenge, Command, Finish, Goto, Agids
  <2>bound. \A g \in Hosts : pc'[g] \in {"invalidate"} \cup {"agid"} \cup Holding => cidx'[g] <= Len(HostCertList)
    BY <1>9, <1>pc, <1>cidx, <1>bound, <1>len, <2>rest DEF ReadDriveCertChallenge, Command, Finish, Goto, Holding
  <2> QED
    BY <2>pc, <2>mres, <2>dn, <2>cert, <2>rest, <2>loop, <2>bound, <1>req, <1>calls, <1>cidx, <1>inv, <1>agid, <1>dkp, <1>err, <1>out, <1>res, <1>sess, <1>gen DEF TypeOK, Agids, Holding
<1>10. ASSUME NEW h \in Hosts, ReadDriveKey(h) PROVE TypeOK'
  <2>pc. pc' \in [Hosts -> Labels]
    BY <1>10, <1>pc DEF ReadDriveKey, Command, Finish, Goto, Labels
  <2>mres. mres' \in [Hosts -> {"ok", "error", "revoked"}]
    BY <1>10, <1>mres DEF ReadDriveKey, Command, Finish, Goto
  <2>dkp. dkp' \in [Hosts -> Nat]
    BY <1>10, <1>dkp, <1>sess, <1>agid DEF ReadDriveKey, Command, Finish, Goto, BadGen, Sessions
  <2>rest. UNCHANGED <<req, calls, cidx, inv, agid, dn, cert, err, out, res, sess, gen>>
    BY <1>10 DEF ReadDriveKey, Command, Finish, Goto, frame, drive
  <2>loop. \A g \in Hosts : pc'[g] = "invalidate" => inv'[g] \in Agids'
    BY <1>10, <1>pc, <1>inv, <1>loop, MmcAssumption, <2>rest DEF ReadDriveKey, Command, Finish, Goto, Agids
  <2>bound. \A g \in Hosts : pc'[g] \in {"invalidate"} \cup {"agid"} \cup Holding => cidx'[g] <= Len(HostCertList)
    BY <1>10, <1>pc, <1>cidx, <1>bound, <1>len, <2>rest DEF ReadDriveKey, Command, Finish, Goto, Holding
  <2> QED
    BY <2>pc, <2>mres, <2>dkp, <2>rest, <2>loop, <2>bound, <1>req, <1>calls, <1>cidx, <1>inv, <1>agid, <1>dn, <1>cert, <1>err, <1>out, <1>res, <1>sess, <1>gen DEF TypeOK, Agids, Holding
<1>11. ASSUME NEW h \in Hosts, SendHostKey(h) PROVE TypeOK'
  <2>pc. pc' \in [Hosts -> Labels]
    BY <1>11, <1>pc DEF SendHostKey, Command, Finish, Goto, Labels
  <2>mres. mres' \in [Hosts -> {"ok", "error", "revoked"}]
    BY <1>11, <1>mres DEF SendHostKey, Command, Finish, Goto
  <2>sess. sess' \in [Agids -> Sessions]
    <3> DEFINE s == sess[agid[h]]
               new == [s EXCEPT !.st = "auth", !.hk = Nonce(h)]
    <3>1. sess' = sess \/ sess' = [sess EXCEPT ![agid[h]] = new]
      BY <1>11 DEF SendHostKey, Command, drive
    <3>2. s \in Sessions /\ agid[h] \in Agids
      BY <1>sess, <1>agid
    <3>3. HostCerts # {}
      BY <1>11, <1>bound, <1>cert_ DEF SendHostKey, Holding
    <3>4. new \in Sessions
      BY <3>2, <3>3, <1>nonce, SessionTypes
    <3> QED
      BY <3>1, <3>2, <3>4, <1>sess
  <2>rest. UNCHANGED <<req, calls, cidx, inv, agid, dn, dkp, cert, err, out, res, gen>>
    BY <1>11 DEF SendHostKey, Command, Finish, Goto, frame, drive
  <2>loop. \A g \in Hosts : pc'[g] = "invalidate" => inv'[g] \in Agids'
    BY <1>11, <1>pc, <1>inv, <1>loop, MmcAssumption, <2>rest DEF SendHostKey, Command, Finish, Goto, Agids
  <2>bound. \A g \in Hosts : pc'[g] \in {"invalidate"} \cup {"agid"} \cup Holding => cidx'[g] <= Len(HostCertList)
    BY <1>11, <1>pc, <1>cidx, <1>bound, <1>len, <2>rest DEF SendHostKey, Command, Finish, Goto, Holding
  <2> QED
    BY <2>pc, <2>mres, <2>sess, <2>rest, <2>loop, <2>bound, <1>req, <1>calls, <1>cidx, <1>inv, <1>agid, <1>dn, <1>dkp, <1>cert, <1>err, <1>out, <1>res, <1>gen DEF TypeOK, Agids, Holding
<1>12. ASSUME NEW h \in Hosts, ReadDiscStructure(h) PROVE TypeOK'
  <2>pc. pc' \in [Hosts -> Labels]
    BY <1>12, <1>pc DEF ReadDiscStructure, ReadFailed, Command, Finish, Goto, Labels
  <2>mres. mres' \in [Hosts -> {"ok", "error", "revoked"}]
    BY <1>12, <1>mres DEF ReadDiscStructure, ReadFailed, Command, Finish, Goto
  <2>out. out' \in [Hosts -> {None, Garbage} \cup Requests]
    BY <1>12, <1>out, <1>req, <1>cert DEF ReadDiscStructure, ReadFailed, Command, Finish, Goto, Deliver, Requests, AuthRequests, None, Garbage
  <2>rest. UNCHANGED <<req, calls, cidx, inv, agid, dn, dkp, cert, err, res, sess, gen>>
    BY <1>12 DEF ReadDiscStructure, ReadFailed, Command, Finish, Goto, frame, drive
  <2>loop. \A g \in Hosts : pc'[g] = "invalidate" => inv'[g] \in Agids'
    BY <1>12, <1>pc, <1>inv, <1>loop, MmcAssumption, <2>rest DEF ReadDiscStructure, ReadFailed, Command, Finish, Goto, Agids
  <2>bound. \A g \in Hosts : pc'[g] \in {"invalidate"} \cup {"agid"} \cup Holding => cidx'[g] <= Len(HostCertList)
    BY <1>12, <1>pc, <1>cidx, <1>bound, <1>len, <2>rest DEF ReadDiscStructure, ReadFailed, Command, Finish, Goto, Holding
  <2> QED
    BY <2>pc, <2>mres, <2>out, <2>rest, <2>loop, <2>bound, <1>req, <1>calls, <1>cidx, <1>inv, <1>agid, <1>dn, <1>dkp, <1>cert, <1>err, <1>res, <1>sess, <1>gen DEF TypeOK, Agids, Holding
<1>13. ASSUME NEW h \in Hosts, Release(h) PROVE TypeOK'
  <2>pc. pc' \in [Hosts -> Labels]
    BY <1>13, <1>pc DEF Release, ReleaseAgid, InvalidateAgid, Command, AttemptFailed, ErrorCode, Return, Goto, Labels
  <2>err. err' \in [Hosts -> Results]
    BY <1>13, <1>err DEF Release, ReleaseAgid, InvalidateAgid, Command, AttemptFailed, ErrorCode, Return, Goto, Results
  <2>cidx. cidx' \in [Hosts -> 1 .. Len(HostCertList) + 1]
    BY <1>13, <1>cidx, <1>len, <1>bound DEF Release, ReleaseAgid, InvalidateAgid, Command, AttemptFailed, ErrorCode, Return, Goto, Holding
  <2>res. res' \in [Hosts -> Results]
    BY <1>13, <1>res, <1>err DEF Release, ReleaseAgid, InvalidateAgid, Command, AttemptFailed, ErrorCode, Return, Goto, Results, None
  <2>cert. cert' \in [Hosts -> {None, Garbage, "CERT"}]
    BY <1>13, <1>cert DEF Release, ReleaseAgid, InvalidateAgid, Command, AttemptFailed, ErrorCode, Return, Goto, None, Garbage
  <2>sess. sess' \in [Agids -> Sessions]
    BY <1>13, <1>sess, <1>agid, SessionTypes DEF Release, ReleaseAgid, InvalidateAgid, Command, AttemptFailed, ErrorCode, Return, Goto, drive
  <2>rest. UNCHANGED <<req, calls, inv, agid, dn, dkp, mres, out, gen>>
    BY <1>13 DEF Release, ReleaseAgid, InvalidateAgid, Command, AttemptFailed, ErrorCode, Return, Goto, frame, drive
  <2>loop. \A g \in Hosts : pc'[g] = "invalidate" => inv'[g] \in Agids'
    BY <1>13, <1>pc, <1>inv, <1>loop, MmcAssumption, <2>rest DEF Release, ReleaseAgid, InvalidateAgid, Command, AttemptFailed, ErrorCode, Return, Goto, Agids
  <2>bound. \A g \in Hosts : pc'[g] \in {"invalidate"} \cup {"agid"} \cup Holding => cidx'[g] <= Len(HostCertList)
    BY <1>13, <1>pc, <1>cidx, <1>bound, <1>len, <2>rest DEF Release, ReleaseAgid, InvalidateAgid, Command, AttemptFailed, ErrorCode, Return, Goto, Holding
  <2> QED
    BY <2>pc, <2>err, <2>cidx, <2>res, <2>cert, <2>sess, <2>rest, <2>loop, <2>bound, <1>req, <1>calls, <1>inv, <1>agid, <1>dn, <1>dkp, <1>mres, <1>out, <1>gen DEF TypeOK, Agids, Holding
<1>14. CASE UNCHANGED vars
  BY <1>14 DEF TypeOK, vars, frame, host, drive, Agids
<1> QED
  BY <1>1, <1>2, <1>3, <1>4, <1>5, <1>6, <1>7, <1>8, <1>9, <1>10, <1>11, <1>12, <1>13, <1>14
     DEF Next, Step

\* Every variable keeps its type: the loops over the certificate list and over
\* the AGIDs never leave their range.
THEOREM TypeCorrect == Spec => []TypeOK
  BY TypeInit, TypeStep, PTL DEF Spec

-----------------------------------------------------------------------------
(* Key agreement.  KeyAgreement speaks of a host that is about to read; it is *)
(* not inductive, because the drive nonce and the drive key point were read  *)
(* two commands earlier and another host may have taken the AGID over at any *)
(* time.  HostKeyInv says, for each later point of _mmc_aacs_auth(), what    *)
(* the host may still rely on: as long as the session holds the host's own   *)
(* nonce it is the session the drive nonce came from.                        *)

HostKeyInv(h) ==
    /\ pc[h] = "drivekey" /\ sess[agid[h]].hn = Nonce(h)
          => dn[h] \in {BadGen, sess[agid[h]].gen}
    /\ pc[h] = "hostkey" => dn[h] \in {BadGen, dkp[h]}
    /\ pc[h] = "read" => dn[h] = dkp[h]
    /\ pc[h] = "read" /\ IsAuthenticated(agid[h]) /\ sess[agid[h]].hk = Nonce(h)
          => sess[agid[h]].gen = dkp[h]

\* A drive session in use never has the number a corrupted nonce stands for.
GenInv == \A a \in Agids : IsGranted(a) => sess[a].gen # BadGen

KeyInv == GenInv /\ \A h \in Hosts : HostKeyInv(h)

\* Everything one step of host h can do to the session of AGID a.
SessionEffect(h, a) ==
    LET s == sess[a]
        t == sess'[a]
    IN  \/ t = s
        \/ t.st = "free" /\ t.hn = NoNonce /\ t.hk = NoNonce
        \/ t.st = "granted" /\ t.gen = gen + 1 /\ t.hn = NoNonce /\ t.hk = NoNonce
        \/ IsGranted(a) /\ t.st = "cert" /\ t.gen = s.gen /\ t.hn = Nonce(h)
        \/ HasHostCert(a) /\ t.st = "auth" /\ t.gen = s.gen /\ t.hn = s.hn /\ t.hk = Nonce(h)

LEMMA DriveStep ==
    ASSUME TypeOK, NEW h \in Hosts, Call(h) \/ Step(h)
    PROVE  \A a \in Agids : SessionEffect(h, a)
<1>1. sess \in [Agids -> Sessions] /\ agid[h] \in Agids
  BY DEF TypeOK
<1>2. CASE UNCHANGED sess
  BY <1>2 DEF SessionEffect
<1>3. CASE InvalidateAgids(h) \/ Release(h)
  <2>1. UNCHANGED sess \/ \E a \in Agids : sess' = [sess EXCEPT ![a] = Free]
    <3>1. pc[h] = "invalidate" => inv[h] \in Agids
      BY DEF TypeOK
    <3> QED
      BY <1>1, <1>3, <3>1 DEF InvalidateAgids, Release, ReleaseAgid, InvalidateAgid, Command, drive
  <2> QED
    BY <1>1, <2>1 DEF SessionEffect, Free
<1>4. CASE ReportAgid(h)
  <2>1. UNCHANGED sess \/ \E a \in Agids : sess' = [sess EXCEPT ![a] = Granted(gen + 1)]
    BY <1>4 DEF ReportAgid, drive
  <2> QED
    BY <1>1, <2>1 DEF SessionEffect, Granted, Free
<1>5. CASE SendHostCert(h)
  <2>1. \/ UNCHANGED sess
        \/ /\ IsGranted(agid[h])
           /\ sess' = [sess EXCEPT ![agid[h]] = [sess[agid[h]] EXCEPT !.st = "cert", !.hn = Nonce(h),
                                                    !.hc = HostCert(h), !.hk = NoNonce]]
    BY <1>5 DEF SendHostCert, Command, drive
  <2> DEFINE x == [sess[agid[h]] EXCEPT !.st = "cert", !.hn = Nonce(h), !.hc = HostCert(h), !.hk = NoNonce]
  <2>2. x.st = "cert" /\ x.gen = sess[agid[h]].gen /\ x.hn = Nonce(h)
    BY <1>1 DEF Sessions
  <2> HIDE DEF x
  <2>3. UNCHANGED sess \/ (IsGranted(agid[h]) /\ sess' = [sess EXCEPT ![agid[h]] = x])
    BY <2>1 DEF x
  <2> QED
    BY <1>1, <2>2, <2>3 DEF SessionEffect
<1>6. CASE SendHostKey(h)
  <2>1. \/ UNCHANGED sess
        \/ /\ HasHostCert(agid[h])
           /\ sess' = [sess EXCEPT ![agid[h]] = [sess[agid[h]] EXCEPT !.st = "auth", !.hk = Nonce(h)]]
    BY <1>6 DEF SendHostKey, Command, drive
  <2> DEFINE x == [sess[agid[h]] EXCEPT !.st = "auth", !.hk = Nonce(h)]
  <2>2. x.st = "auth" /\ x.gen = sess[agid[h]].gen /\ x.hn = sess[agid[h]].hn /\ x.hk = Nonce(h)
    BY <1>1 DEF Sessions
  <2> HIDE DEF x
  <2>3. UNCHANGED sess \/ (HasHostCert(agid[h]) /\ sess' = [sess EXCEPT ![agid[h]] = x])
    BY <2>1 DEF x
  <2> QED
    BY <1>1, <2>2, <2>3 DEF SessionEffect
<1>7. ASSUME \/ Call(h) \/ CheckAacs(h) \/ OpenReadDriveCert(h) \/ ReadDriveCert(h) \/ NextCert(h)
             \/ ReadDriveCertChallenge(h) \/ ReadDriveKey(h) \/ ReadDiscStructure(h)
      PROVE  UNCHANGED sess
  BY <1>7 DEF Call, CheckAacs, OpenReadDriveCert, ReadDriveCert, NextCert, ReadDriveCertChallenge,
     ReadDriveKey, ReadDiscStructure, ReadFailed, Command, drive
<1> QED
  BY <1>2, <1>3, <1>4, <1>5, <1>6, <1>7 DEF Step

\* A step of one host leaves the call frames of the others alone.
LEMMA HostFrame ==
    ASSUME TypeOK, NEW h \in Hosts, Call(h) \/ Step(h), NEW g \in Hosts, g # h
    PROVE  pc'[g] = pc[g] /\ agid'[g] = agid[g] /\ dn'[g] = dn[g] /\ dkp'[g] = dkp[g] /\ calls'[g] = calls[g]
<1> DEFINE Same == pc'[g] = pc[g] /\ agid'[g] = agid[g] /\ dn'[g] = dn[g] /\ dkp'[g] = dkp[g] /\ calls'[g] = calls[g]
<1>0. pc \in [Hosts -> Labels] /\ agid \in [Hosts -> Agids] /\ dn \in [Hosts -> Nat] /\ dkp \in [Hosts -> Nat]
      /\ calls \in [Hosts -> 0 .. MaxCalls]
  BY DEF TypeOK
<1>1. CASE Call(h)
  BY <1>0, <1>1 DEF Call, Return, Goto
<1>2. CASE CheckAacs(h) \/ OpenReadDriveCert(h) \/ ReadDriveCert(h)
  BY <1>0, <1>2 DEF CheckAacs, OpenReadDriveCert, ReadDriveCert, Command, Return, Goto, frame
<1>3. CASE NextCert(h) \/ InvalidateAgids(h)
  BY <1>0, <1>3 DEF NextCert, InvalidateAgids, MoreAgids, Return, Goto, frame
<1>4. CASE ReportAgid(h)
  BY <1>0, <1>4 DEF ReportAgid, AttemptFailed, ErrorCode, Goto, frame
<1>5. CASE SendHostCert(h) \/ SendHostKey(h) \/ ReadDiscStructure(h)
  BY <1>0, <1>5 DEF SendHostCert, SendHostKey, ReadDiscStructure, ReadFailed, Command, Finish, Goto, frame
<1>6. CASE ReadDriveCertChallenge(h) \/ ReadDriveKey(h)
  BY <1>0, <1>6 DEF ReadDriveCertChallenge, ReadDriveKey, Command, Finish, Goto, frame
<1>7. CASE Release(h)
  BY <1>0, <1>7 DEF Release, AttemptFailed, ErrorCode, Return, Goto, frame
<1> QED
  BY <1>1, <1>2, <1>3, <1>4, <1>5, <1>6, <1>7 DEF Step

LEMMA KeyInit == Init => KeyInv
<1> SUFFICES ASSUME Init PROVE KeyInv
  OBVIOUS
<1>1. GenInv
  BY DEF Init, GenInv, IsGranted, Free
<1>2. \A h \in Hosts : HostKeyInv(h)
  BY DEF Init, HostKeyInv
<1> QED
  BY <1>1, <1>2 DEF KeyInv

LEMMA GenStep ==
    ASSUME TypeOK, KeyInv, NEW h \in Hosts, Call(h) \/ Step(h)
    PROVE  GenInv'
<1> SUFFICES ASSUME NEW a \in Agids, IsGranted(a)' PROVE sess'[a].gen # BadGen
  BY DEF GenInv, Agids
<1>1. SessionEffect(h, a)
  BY DriveStep
<1>2. IsGranted(a) => sess[a].gen # BadGen
  BY DEF KeyInv, GenInv
<1>3. sess[a] \in Sessions /\ gen \in Nat
  BY DEF TypeOK
<1> QED
  BY <1>1, <1>2, <1>3 DEF SessionEffect, IsGranted, HasHostCert, BadGen

\* What the other hosts rely on survives a step of h: the only nonce h can put
\* into a session is its own.
LEMMA OthersKeyStep ==
    ASSUME TypeOK, KeyInv, NEW h \in Hosts, Call(h) \/ Step(h), NEW g \in Hosts, g # h
    PROVE  HostKeyInv(g)'
<1>1. pc'[g] = pc[g] /\ agid'[g] = agid[g] /\ dn'[g] = dn[g] /\ dkp'[g] = dkp[g] /\ calls'[g] = calls[g]
  BY HostFrame
<1>2. HostKeyInv(g)
  BY DEF KeyInv
<1>3. agid[g] \in Agids /\ sess[agid[g]] \in Sessions
  BY DEF TypeOK
<1>4. SessionEffect(h, agid[g])
  BY <1>3, DriveStep
<1>5. Nonce(g)' = Nonce(g) /\ Nonce(g) # Nonce(h) /\ Nonce(g) # NoNonce
  BY <1>1, MmcAssumption DEF Nonce, NoNonce
<1>6. sess'[agid[g]].hn = Nonce(g)
        => sess[agid[g]].hn = Nonce(g) /\ sess'[agid[g]].gen = sess[agid[g]].gen
  BY <1>3, <1>4, <1>5 DEF SessionEffect
<1>7. sess'[agid[g]].st = "auth" /\ sess'[agid[g]].hk = Nonce(g)
        => sess[agid[g]].st = "auth" /\ sess[agid[g]].hk = Nonce(g) /\ sess'[agid[g]].gen = sess[agid[g]].gen
  BY <1>3, <1>4, <1>5 DEF SessionEffect
<1> QED
  BY <1>1, <1>2, <1>5, <1>6, <1>7 DEF HostKeyInv, IsAuthenticated, BadGen

\* What host h itself may rely on after its own step.
LEMMA OwnKeyStep ==
    ASSUME TypeOK, KeyInv, NEW h \in Hosts, Call(h) \/ Step(h)
    PROVE  HostKeyInv(h)'
<1>0. /\ pc \in [Hosts -> Labels] /\ agid \in [Hosts -> Agids] /\ dn \in [Hosts -> Nat] /\ dkp \in [Hosts -> Nat]
      /\ sess \in [Agids -> Sessions] /\ agid[h] \in Agids
  BY DEF TypeOK
<1>1. HostKeyInv(h) /\ (IsGranted(agid[h]) => sess[agid[h]].gen # BadGen)
  BY <1>0 DEF KeyInv, GenInv
<1>2. CASE pc'[h] \notin {"drivekey", "hostkey", "read"}
  BY <1>2 DEF HostKeyInv
<1>3. CASE ReadDriveCertChallenge(h)
  <2>1. \/ pc'[h] = "release"
        \/ /\ pc'[h] = "drivekey" /\ dn'[h] \in {sess[agid[h]].gen, BadGen}
           /\ UNCHANGED <<sess, agid, calls>>
    BY <1>0, <1>3 DEF ReadDriveCertChallenge, Command, Deliver, Finish, Goto, drive, frame
  <2> QED
    BY <2>1 DEF HostKeyInv, BadGen
<1>4. CASE ReadDriveKey(h)
  <2>1. \/ pc'[h] = "release"
        \/ /\ pc[h] = "drivekey" /\ pc'[h] = "hostkey" /\ sess[agid[h]].hn = Nonce(h)
           /\ dkp'[h] = sess[agid[h]].gen /\ dn' = dn
    BY <1>0, <1>4 DEF ReadDriveKey, Command, DriveSignatureOk, Finish, Goto
  <2> QED
    BY <2>1, <1>1 DEF HostKeyInv, BadGen
<1>5. CASE SendHostKey(h)
  <2>1. \/ pc'[h] = "release"
        \/ /\ pc[h] = "hostkey" /\ pc'[h] = "read" /\ HasHostCert(agid[h])
           /\ sess[agid[h]].gen = dn[h] /\ UNCHANGED <<dn, dkp, agid, calls>>
           /\ sess' = [sess EXCEPT ![agid[h]] = [sess[agid[h]] EXCEPT !.st = "auth", !.hk = Nonce(h)]]
    BY <1>0, <1>5 DEF SendHostKey, Command, HostSignatureOk, Finish, Goto, drive, frame
  <2>2. ASSUME pc'[h] = "read" PROVE dn[h] = dkp[h] /\ sess'[agid[h]].gen = dkp[h]
    <3>1. dn[h] # BadGen
      BY <2>1, <2>2, <1>1 DEF HasHostCert, IsGranted
    <3>2. dn[h] = dkp[h]
      BY <3>1, <2>1, <2>2, <1>1 DEF HostKeyInv
    <3> QED
      BY <3>2, <2>1, <2>2, <1>0 DEF Sessions
  <2> QED
    BY <2>1, <2>2 DEF HostKeyInv
<1>6. ASSUME ~ReadDriveCertChallenge(h), ~ReadDriveKey(h), ~SendHostKey(h)
      PROVE  pc'[h] \notin {"drivekey", "hostkey", "read"}
  <2>1. CASE Call(h) \/ CheckAacs(h) \/ OpenReadDriveCert(h) \/ ReadDriveCert(h)
    BY <1>0, <2>1 DEF Call, CheckAacs, OpenReadDriveCert, ReadDriveCert, Command, Return, Goto, Opened
  <2>2. CASE NextCert(h) \/ InvalidateAgids(h) \/ ReportAgid(h)
    BY <1>0, <2>2 DEF NextCert, InvalidateAgids, MoreAgids, ReportAgid, AttemptFailed, ErrorCode, Return, Goto
  <2>3. CASE SendHostCert(h) \/ ReadDiscStructure(h) \/ Release(h)
    BY <1>0, <2>3 DEF SendHostCert, ReadDiscStructure, ReadFailed, Release, AttemptFailed, ErrorCode, Command, Return, Finish, Goto
  <2> QED
    BY <1>6, <2>1, <2>2, <2>3 DEF Step
<1> QED
  BY <1>2, <1>3, <1>4, <1>5, <1>6

LEMMA KeyStep == TypeOK /\ KeyInv /\ [Next]_vars => KeyInv'
<1> SUFFICES ASSUME TypeOK, KeyInv, [Next]_vars PROVE KeyInv'
  OBVIOUS
<1>1. ASSUME NEW h \in Hosts, Call(h) \/ Step(h) PROVE KeyInv'
  BY <1>1, GenStep, OthersKeyStep, OwnKeyStep DEF KeyInv
<1>2. CASE UNCHANGED vars
  BY <1>2 DEF KeyInv, GenInv, HostKeyInv, IsGranted, IsAuthenticated, Nonce, Agids, vars, frame, host, drive
<1> QED
  BY <1>1, <1>2 DEF Next

\* However the commands of any number of hosts interleave, and whatever the bus
\* loses or corrupts, a host that has authenticated shares its bus key with the
\* drive as long as the drive still has it as the authenticated host.
THEOREM KeyAgreementHolds == Spec => []KeyAgreement
<1>1. KeyInv => KeyAgreement
  BY DEF KeyInv, HostKeyInv, KeyAgreement, DriveBusKey, BusKey
<1> QED
  BY TypeInit, TypeStep, KeyInit, KeyStep, <1>1, PTL DEF Spec
-----------------------------------------------------------------------------
(* Authenticity.  What a call returns was put into the caller's buffer by   *)
(* a step whose check has passed; AuthInv follows the buffer and the copy   *)
(* of the drive certificate from that step to the return.                   *)

AuthInv(h) ==
    /\ err[h] # "SUCCESS"
    /\ pc[h] \in {"idle", "config", "opencert"} => cert[h] = None
    /\ pc[h] = "drivecert" => req[h] = "CERT" /\ cert[h] # Garbage
    /\ pc[h] = "release" /\ mres[h] = "ok" /\ req[h] # "DATA_KEYS" => out[h] = req[h]
    /\ pc[h] = "idle" /\ res[h] = "SUCCESS" /\ req[h] # "DATA_KEYS" => out[h] = req[h]

\* The rest of the call frame of another host is left alone, too.
LEMMA FrameRest ==
    ASSUME TypeOK, NEW h \in Hosts, Call(h) \/ Step(h), NEW g \in Hosts, g # h
    PROVE  /\ req'[g] = req[g] /\ cidx'[g] = cidx[g] /\ cert'[g] = cert[g] /\ mres'[g] = mres[g]
           /\ err'[g] = err[g] /\ out'[g] = out[g] /\ res'[g] = res[g]
<1> USE DEF TypeOK, Goto, frame
<1>1. CASE Call(h)
  BY <1>1 DEF Call, Return
<1>2. CASE CheckAacs(h) \/ OpenReadDriveCert(h) \/ ReadDriveCert(h)
  BY <1>2 DEF CheckAacs, OpenReadDriveCert, ReadDriveCert, Command, Return
<1>3. CASE NextCert(h) \/ InvalidateAgids(h)
  BY <1>3 DEF NextCert, InvalidateAgids, Return
<1>4. CASE ReportAgid(h)
  BY <1>4 DEF ReportAgid, AttemptFailed
<1>5. CASE SendHostCert(h) \/ SendHostKey(h) \/ ReadDiscStructure(h)
  BY <1>5 DEF SendHostCert, SendHostKey, ReadDiscStructure, ReadFailed, Command, Finish
<1>6. CASE ReadDriveCertChallenge(h) \/ ReadDriveKey(h)
  BY <1>6 DEF ReadDriveCertChallenge, ReadDriveKey, Command, Finish
<1>7. CASE Release(h)
  BY <1>7 DEF Release, AttemptFailed, Return
<1> QED
  BY <1>1, <1>2, <1>3, <1>4, <1>5, <1>6, <1>7 DEF Step

LEMMA AuthOwnStep ==
    ASSUME TypeOK, NEW h \in Hosts, AuthInv(h), Call(h) \/ Step(h)
    PROVE  AuthInv(h)'
<1> USE DEF TypeOK, Goto, frame, AuthInv, None, Garbage
<1>1. CASE Call(h)
  BY <1>1 DEF Call, Return
<1>2. CASE CheckAacs(h)
  BY <1>2 DEF CheckAacs, Command, Return, Opened
<1>3. CASE OpenReadDriveCert(h)
  BY <1>3 DEF OpenReadDriveCert, Command, Opened
<1>4. CASE ReadDriveCert(h)
  BY <1>4 DEF ReadDriveCert, Command, Return
<1>5. CASE NextCert(h)
  BY <1>5 DEF NextCert, Return
<1>6. CASE InvalidateAgids(h)
  BY <1>6 DEF InvalidateAgids
<1>7. CASE ReportAgid(h)
  BY <1>7 DEF ReportAgid, AttemptFailed, ErrorCode
<1>8. CASE SendHostCert(h) \/ SendHostKey(h)
  BY <1>8 DEF SendHostCert, SendHostKey, Command, Finish
<1>9. CASE ReadDriveCertChallenge(h) \/ ReadDriveKey(h)
  BY <1>9 DEF ReadDriveCertChallenge, ReadDriveKey, Command, Finish
<1>10. CASE ReadDiscStructure(h)
  BY <1>10 DEF ReadDiscStructure, ReadFailed, MacOk, Command, Finish
<1>11. CASE Release(h)
  BY <1>11 DEF Release, AttemptFailed, ErrorCode, Return
<1> QED
  BY <1>1, <1>2, <1>3, <1>4, <1>5, <1>6, <1>7, <1>8, <1>9, <1>10, <1>11 DEF Step

\* Whatever the bus corrupts and other hosts do to the session, a call that succeeds for
\* the VID, the PMSN or the drive certificate delivers the drive's own bytes.
THEOREM SuccessIsAuthenticHolds == Spec => []SuccessIsAuthentic
<1> DEFINE Inv == \A h \in Hosts : AuthInv(h)
<1>1. Init => Inv
  BY DEF Init, AuthInv, None, Garbage
<1>2. TypeOK /\ Inv /\ [Next]_vars => Inv'
  <2> SUFFICES ASSUME TypeOK, Inv, [Next]_vars, NEW g \in Hosts PROVE AuthInv(g)'
    OBVIOUS
  <2>1. ASSUME NEW h \in Hosts, Call(h) \/ Step(h), g # h PROVE AuthInv(g)'
    BY <2>1, HostFrame, FrameRest DEF AuthInv
  <2>2. CASE UNCHANGED vars
    BY <2>2 DEF AuthInv, vars, frame, host
  <2> QED
    BY <2>1, <2>2, AuthOwnStep DEF Next
<1>3. Inv => SuccessIsAuthentic
  BY DEF AuthInv, SuccessIsAuthentic
<1> QED
  BY <1>1, <1>2, <1>3, TypeCorrect, PTL DEF Spec

-----------------------------------------------------------------------------
(* A bus that loses and corrupts nothing.                                   *)

Quiet == ~Lossy /\ ~Corrupting

\* What a step of h does to the AGIDs in use: nobody else stops holding one, h stops only
\* when it has given it back, and an AGID that becomes used is the one h now holds.
LEMMA AgidStep ==
    ASSUME Quiet, TypeOK, NEW h \in Hosts, Call(h) \/ Step(h), NEW a \in Agids, IsGranted(a)'
    PROVE  \/ pc'[h] \in Holding /\ agid'[h] = a
           \/ IsGranted(a) /\ ~(pc[h] \in Holding /\ agid[h] = a)
<1> USE DEF TypeOK, Goto, Holding, IsGranted, Quiet
<1>0. SessionEffect(h, a)
  BY DriveStep
<1>1. CASE Call(h) \/ CheckAacs(h) \/ OpenReadDriveCert(h) \/ ReadDriveCert(h) \/ NextCert(h)
  BY <1>1 DEF Call, CheckAacs, OpenReadDriveCert, ReadDriveCert, NextCert, Command, drive
<1>2. CASE InvalidateAgids(h)
  <2>1. sess' = [sess EXCEPT ![inv[h]] = Free] /\ pc[h] = "invalidate" /\ Free.st = "free"
    BY <1>2 DEF InvalidateAgids, InvalidateAgid, Command, Free
  <2> QED
    BY <2>1
<1>3. CASE ReportAgid(h)
  BY <1>3 DEF ReportAgid, AttemptFailed, drive
<1>4. CASE SendHostCert(h)
  BY <1>0, <1>4 DEF SendHostCert, Command, Finish, SessionEffect, HasHostCert, drive
<1>5. CASE ReadDriveCertChallenge(h) \/ ReadDriveKey(h) \/ ReadDiscStructure(h)
  BY <1>5 DEF ReadDriveCertChallenge, ReadDriveKey, ReadDiscStructure, ReadFailed, Command, Finish, drive
<1>6. CASE SendHostKey(h)
  BY <1>0, <1>6 DEF SendHostKey, Command, Finish, SessionEffect, HasHostCert, drive
<1>7. CASE Release(h)
  <2>1. sess' = [sess EXCEPT ![agid[h]] = Free] /\ Free.st = "free"
    BY <1>7 DEF Release, ReleaseAgid, InvalidateAgid, Command, Free
  <2> QED
    BY <2>1
<1> QED
  BY <1>1, <1>2, <1>3, <1>4, <1>5, <1>6, <1>7 DEF Step

\* For any number of hosts and AGIDs, and any list of certificates: no path through
\* mmc_read_auth() leaves an AGID behind in the drive.
THEOREM AgidsOwnedHolds == ASSUME Quiet PROVE Spec => []AgidsOwned
<1>1. Init => AgidsOwned
  BY DEF Init, AgidsOwned, IsGranted, Free
<1>2. TypeOK /\ AgidsOwned /\ [Next]_vars => AgidsOwned'
  <2> SUFFICES ASSUME TypeOK, AgidsOwned, [Next]_vars, NEW a \in Agids, IsGranted(a)'
               PROVE  \E g \in Hosts : pc'[g] \in Holding /\ agid'[g] = a
    BY DEF AgidsOwned, Agids
  <2>1. ASSUME NEW h \in Hosts, Call(h) \/ Step(h)
        PROVE  \E g \in Hosts : pc'[g] \in Holding /\ agid'[g] = a
    <3>1. CASE pc'[h] \in Holding /\ agid'[h] = a
      BY <3>1
    <3>2. CASE IsGranted(a) /\ ~(pc[h] \in Holding /\ agid[h] = a)
      <4>1. PICK g \in Hosts : pc[g] \in Holding /\ agid[g] = a
        BY <3>2 DEF AgidsOwned
      <4>2. g # h
        BY <3>2, <4>1
      <4> QED
        BY <2>1, <4>1, <4>2, HostFrame
    <3> QED
      BY <2>1, <3>1, <3>2, AgidStep
  <2>2. CASE UNCHANGED vars
    BY <2>2 DEF AgidsOwned, IsGranted, vars, host, drive
  <2> QED
    BY <2>1, <2>2 DEF Next
<1> QED
  BY <1>1, <1>2, TypeCorrect, PTL DEF Spec
-----------------------------------------------------------------------------
(* One host at a time.  While no other host has used the drive, the session *)
(* h holds is in the state its own last command has left it in: SoloInv     *)
(* says which one, and that a usable certificate is still to come or being  *)
(* tried.                                                                   *)

Usable == {i \in 1 .. Len(HostCertList) :
              HostCertList[i] \notin InvalidCerts \cup RevokedCerts \cup MismatchedCerts}

Alone(h) == \A g \in Hosts \ {h} : calls[g] = 0

Trying == {"config", "opencert", "nextcert", "invalidate", "agid",
           "hostcert", "challenge", "drivekey", "hostkey"}

SoloInv(h) ==
    LET s == sess[agid[h]]
    IN  /\ pc[h] \in Trying => \E i \in Usable : cidx[h] <= i
        /\ pc[h] = "hostcert" => s.st = "granted"
        /\ pc[h] \in {"challenge", "drivekey", "hostkey"} =>
              s.st = "cert" /\ s.hn = Nonce(h) /\ s.hc = HostCert(h) /\ HostCert(h) \notin RevokedCerts
        /\ pc[h] \in {"drivekey", "hostkey"} => dn[h] = s.gen
        /\ pc[h] \in {"hostkey", "read"} => dkp[h] = s.gen
        /\ pc[h] = "read" => s.st = "auth" /\ s.hk = Nonce(h)
        /\ pc[h] = "release" => mres[h] = "ok" \/ \E i \in Usable : cidx[h] < i
        /\ pc[h] = "idle" /\ calls[h] > 0 => res[h] = "SUCCESS"

FoundInv ==
    /\ \A h \in Hosts : calls[h] = 0 => pc[h] = "idle"
    /\ \A h \in Hosts : Alone(h) => SoloInv(h)

\* A certificate that is not usable is not the last hope.
LEMMA NotTheLast ==
    ASSUME NEW c \in 1 .. Len(HostCertList) + 1,
           \E i \in Usable : c <= i,
           c <= Len(HostCertList) => HostCertList[c] \in InvalidCerts \cup RevokedCerts \cup MismatchedCerts
    PROVE  (\E i \in Usable : c < i) /\ (\E i \in Usable : c + 1 <= i)
<1>1. PICK i \in Usable : c <= i
  OBVIOUS
<1>2. i \in 1 .. Len(HostCertList) /\ Len(HostCertList) \in Nat /\ i # c
  BY <1>1, MmcAssumption DEF Usable
<1>3. c < i /\ c + 1 <= i
  BY <1>1, <1>2
<1> QED
  BY <1>1, <1>3

LEMMA SoloStep ==
    ASSUME Quiet, ~DriveAacs2, Usable # {}, TypeOK, AgidsOwned, FoundInv,
           NEW h \in Hosts, Alone(h), Call(h) \/ Step(h)
    PROVE  SoloInv(h)'
<1> USE DEF TypeOK, Goto, frame, Quiet
<1>0. /\ SoloInv(h)
      /\ agid[h] \in Agids /\ sess[agid[h]] \in Sessions
      /\ cidx[h] \in 1 .. Len(HostCertList) + 1 /\ Len(HostCertList) \in Nat
  BY MmcAssumption DEF FoundInv
<1>1. CASE Call(h)
  <2>1. \E i \in Usable : 1 <= i
    BY MmcAssumption DEF Usable
  <2>2. pc'[h] = "config" /\ cidx'[h] = 1
    BY <1>1 DEF Call
  <2> QED
    BY <2>1, <2>2 DEF SoloInv, Trying
<1>2. CASE CheckAacs(h)
  <2>1. /\ pc[h] = "config" /\ pc'[h] \in {"opencert", "drivecert", "nextcert"}
        /\ cidx' = cidx
    BY <1>2 DEF CheckAacs, Command, Opened
  <2> QED
    BY <1>0, <2>1 DEF SoloInv, Trying
<1>3. CASE OpenReadDriveCert(h)
  <2>1. /\ pc[h] = "opencert" /\ pc'[h] \in {"drivecert", "nextcert"} /\ cidx' = cidx
    BY <1>3 DEF OpenReadDriveCert, Opened
  <2> QED
    BY <1>0, <2>1 DEF SoloInv, Trying
<1>4. CASE ReadDriveCert(h)
  <2>1. pc'[h] = "idle" /\ res'[h] = "SUCCESS"
    BY <1>4 DEF ReadDriveCert, Command, Return, Deliver
  <2> QED
    BY <2>1 DEF SoloInv, Trying
<1>5. CASE NextCert(h)
  <2>0. \E i \in Usable : cidx[h] <= i
    BY <1>0, <1>5 DEF SoloInv, NextCert, Trying
  <2>1. cidx[h] <= Len(HostCertList)
    <3>1. PICK i \in Usable : cidx[h] <= i
      BY <2>0
    <3>2. i \in 1 .. Len(HostCertList)
      BY DEF Usable
    <3> QED
      BY <1>0, <3>1, <3>2
  <2>2. CASE HostCert(h) \in InvalidCerts
    <3>1. \E i \in Usable : cidx[h] + 1 <= i
      BY <1>0, <2>0, <2>2, NotTheLast DEF HostCert
    <3>2. pc'[h] = "nextcert" /\ cidx'[h] = cidx[h] + 1
      BY <1>0, <1>5, <2>1, <2>2 DEF NextCert, Skipped
    <3> QED
      BY <3>1, <3>2 DEF SoloInv
  <2>3. CASE HostCert(h) \notin InvalidCerts
    <3>1. pc'[h] = "invalidate" /\ cidx' = cidx
      BY <1>0, <1>5, <2>1, <2>3 DEF NextCert
    <3> QED
      BY <2>0, <3>1 DEF SoloInv
  <2> QED
    BY <2>2, <2>3
<1>6. CASE InvalidateAgids(h)
  <2>1. pc[h] = "invalidate" /\ pc'[h] \in {"invalidate", "agid"} /\ cidx' = cidx
    BY <1>6 DEF InvalidateAgids
  <2> QED
    BY <1>0, <2>1 DEF SoloInv, Trying
<1>7. CASE ReportAgid(h)
  <2>1. ASSUME NEW a \in Agids PROVE sess[a].st = "free"
    BY <1>7 DEF AgidsOwned, IsGranted, Holding, FoundInv, Alone, ReportAgid
  <2>2. 0 \in Agids
    BY MmcAssumption DEF Agids
  <2>3. PICK a \in Agids : /\ sess' = [sess EXCEPT ![a] = Granted(gen + 1)]
                           /\ agid' = [agid EXCEPT ![h] = a]
                           /\ pc' = [pc EXCEPT ![h] = "hostcert"]
                           /\ cidx' = cidx
    BY <1>7, <2>1, <2>2 DEF ReportAgid
  <2>4. Granted(gen + 1).st = "granted"
    BY DEF Granted, Free
  <2>5. pc'[h] = "hostcert" /\ sess'[agid'[h]].st = "granted"
    BY <2>3, <2>4
  <2> QED
    BY <1>0, <1>7, <2>3, <2>5 DEF SoloInv, Trying, ReportAgid
<1>8. CASE SendHostCert(h)
  <2>0. /\ pc[h] = "hostcert" /\ sess[agid[h]].st = "granted"
        /\ \E i \in Usable : cidx[h] <= i
    BY <1>0, <1>8 DEF SendHostCert, SoloInv, Trying
  <2>1. CASE HostCert(h) \in RevokedCerts
    <3>1. pc'[h] = "release" /\ cidx' = cidx
      BY <1>8, <2>1 DEF SendHostCert, Command, Finish
    <3>2. \E i \in Usable : cidx[h] < i
      BY <1>0, <2>0, <2>1, NotTheLast DEF HostCert
    <3> QED
      BY <3>1, <3>2 DEF SoloInv, Trying
  <2>2. CASE HostCert(h) \notin RevokedCerts
    <3> DEFINE x == [sess[agid[h]] EXCEPT !.st = "cert", !.hn = Nonce(h),
                                          !.hc = HostCert(h), !.hk = NoNonce]
    <3>1. x.st = "cert" /\ x.hn = Nonce(h) /\ x.hc = HostCert(h)
      BY <1>0 DEF Sessions
    <3>2. /\ sess' = [sess EXCEPT ![agid[h]] = x]
          /\ pc'[h] = "challenge" /\ UNCHANGED <<calls, cidx, agid>>
      BY <1>8, <2>0, <2>2 DEF SendHostCert, Command, Finish, IsGranted
    <3> HIDE DEF x
    <3>3. /\ sess'[agid'[h]].st = "cert" /\ sess'[agid'[h]].hn = Nonce(h)'
          /\ sess'[agid'[h]].hc = HostCert(h)' /\ HostCert(h)' = HostCert(h)
      BY <1>0, <3>1, <3>2 DEF Nonce, HostCert
    <3> QED
      BY <2>0, <2>2, <3>2, <3>3 DEF SoloInv
  <2> QED
    BY <2>1, <2>2
<1>9. CASE ReadDriveCertChallenge(h)
  <2>0. pc[h] = "challenge" /\ sess[agid[h]].st = "cert"
    BY <1>0, <1>9 DEF ReadDriveCertChallenge, SoloInv
  <2>1. /\ pc'[h] = "drivekey" /\ dn'[h] = sess[agid[h]].gen
        /\ UNCHANGED <<calls, cidx, agid, sess>>
    BY <1>9, <2>0 DEF ReadDriveCertChallenge, Command, HasHostCert, Deliver, drive
  <2> QED
    BY <1>0, <2>0, <2>1 DEF SoloInv, Trying, Nonce, HostCert
<1>10. CASE ReadDriveKey(h)
  <2>0. pc[h] = "drivekey" /\ sess[agid[h]].st = "cert" /\ sess[agid[h]].hn = Nonce(h)
    BY <1>0, <1>10 DEF ReadDriveKey, SoloInv
  <2>1. /\ pc'[h] = "hostkey" /\ dkp'[h] = sess[agid[h]].gen
        /\ UNCHANGED <<calls, cidx, agid, sess, dn>>
    BY <1>10, <2>0 DEF ReadDriveKey, Command, HasHostCert, Deliver, DriveSignatureOk, drive
  <2> QED
    BY <1>0, <2>0, <2>1 DEF SoloInv, Trying, Nonce, HostCert
<1>11. CASE SendHostKey(h)
  <2>0. /\ pc[h] = "hostkey" /\ sess[agid[h]].st = "cert" /\ sess[agid[h]].hc = HostCert(h)
        /\ dn[h] = sess[agid[h]].gen /\ dkp[h] = sess[agid[h]].gen
        /\ \E i \in Usable : cidx[h] <= i
    BY <1>0, <1>11 DEF SendHostKey, SoloInv, Trying
  <2>1. CASE HostCert(h) \in MismatchedCerts
    <3>1. pc'[h] = "release" /\ cidx' = cidx
      BY <1>11, <2>1 DEF SendHostKey, Finish
    <3>2. \E i \in Usable : cidx[h] < i
      BY <1>0, <2>0, <2>1, NotTheLast DEF HostCert
    <3> QED
      BY <3>1, <3>2 DEF SoloInv, Trying
  <2>2. CASE HostCert(h) \notin MismatchedCerts
    <3> DEFINE x == [sess[agid[h]] EXCEPT !.st = "auth", !.hk = Nonce(h)]
    <3>1. x.st = "auth" /\ x.hk = Nonce(h) /\ x.gen = sess[agid[h]].gen
      BY <1>0 DEF Sessions
    <3>2. /\ sess' = [sess EXCEPT ![agid[h]] = x]
          /\ pc'[h] = "read" /\ UNCHANGED <<calls, agid, dkp>>
      BY <1>11, <2>0, <2>2 DEF SendHostKey, Command, Finish, HasHostCert, HostSignatureOk
    <3> HIDE DEF x
    <3>3. /\ sess'[agid'[h]].st = "auth" /\ sess'[agid'[h]].hk = Nonce(h)'
          /\ sess'[agid'[h]].gen = dkp'[h]
      BY <1>0, <2>0, <3>1, <3>2 DEF Nonce
    <3> QED
      BY <3>2, <3>3 DEF SoloInv, Trying
  <2> QED
    BY <2>1, <2>2
<1>12. CASE ReadDiscStructure(h)
  <2>0. pc[h] = "read" /\ sess[agid[h]].st = "auth" /\ SameBusKey(h)
    BY <1>0, <1>12 DEF ReadDiscStructure, SoloInv, SameBusKey, DriveBusKey, BusKey
  <2>1. pc'[h] = "release" /\ mres'[h] = "ok"
    BY <1>12, <2>0 DEF ReadDiscStructure, Command, IsAuthenticated, Deliver, MacOk, Finish
  <2> QED
    BY <2>1 DEF SoloInv, Trying
<1>13. CASE Release(h)
  <2>1. CASE mres[h] = "ok"
    <3>1. pc'[h] = "idle" /\ res'[h] = "SUCCESS"
      BY <1>13, <2>1 DEF Release, Return
    <3> QED
      BY <3>1 DEF SoloInv, Trying
  <2>2. CASE mres[h] # "ok"
    <3>1. pc'[h] = "nextcert" /\ cidx'[h] = cidx[h] + 1
      BY <1>13, <2>2 DEF Release, AttemptFailed
    <3>2. PICK i \in Usable : cidx[h] < i
      BY <1>0, <1>13, <2>2 DEF Release, SoloInv
    <3>3. cidx[h] + 1 <= i
      BY <1>0, <3>2 DEF Usable
    <3> QED
      BY <3>1, <3>2, <3>3 DEF SoloInv
  <2> QED
    BY <2>1, <2>2
<1> QED
  BY <1>1, <1>2, <1>3, <1>4, <1>5, <1>6, <1>7, <1>8, <1>9, <1>10, <1>11, <1>12, <1>13 DEF Step

\* A host that has taken a step has made a call.
LEMMA CalledStep ==
    ASSUME TypeOK, FoundInv, NEW h \in Hosts, Call(h) \/ Step(h)
    PROVE  calls'[h] > 0
<1> USE DEF TypeOK
<1>1. CASE Call(h)
  BY <1>1 DEF Call
<1>2. CASE Step(h)
  <2>1. pc[h] # "idle" /\ calls' = calls
    BY <1>2 DEF Step, CheckAacs, OpenReadDriveCert, ReadDriveCert, NextCert, InvalidateAgids,
       ReportAgid, SendHostCert, ReadDriveCertChallenge, ReadDriveKey, SendHostKey,
       ReadDiscStructure, Release, frame
  <2>2. calls[h] \in Nat /\ calls[h] # 0
    BY <2>1 DEF FoundInv
  <2> QED
    BY <2>1, <2>2
<1> QED
  BY <1>1, <1>2

\* With a drive of AACS 1, a quiet bus and no other host in the way, a usable certificate
\* anywhere in a list of any length is found, and the call succeeds.
THEOREM UsableCertIsFoundHolds == ASSUME Quiet, ~DriveAacs2 PROVE Spec => []UsableCertIsFound
<1>1. Init => (Usable # {} => FoundInv)
  <2> SUFFICES ASSUME Init PROVE FoundInv
    OBVIOUS
  <2> QED
    BY DEF Init, FoundInv, SoloInv, Trying
<1>2. TypeOK /\ AgidsOwned /\ (Usable # {} => FoundInv) /\ [Next]_vars => (Usable # {} => FoundInv)'
  <2> SUFFICES ASSUME TypeOK, AgidsOwned, Usable # {}, FoundInv, [Next]_vars PROVE FoundInv'
    BY DEF Usable
  <2>1. ASSUME NEW h \in Hosts, Call(h) \/ Step(h) PROVE FoundInv'
    <3>1. calls'[h] > 0 /\ calls'[h] # 0
      <4>1. calls'[h] > 0
        BY <2>1, CalledStep
      <4> QED
        BY <4>1
    <3>2. ASSUME NEW g \in Hosts, g # h
          PROVE  pc'[g] = pc[g] /\ calls'[g] = calls[g] /\ ~Alone(g)'
      BY <2>1, <3>1, <3>2, HostFrame DEF Alone
    <3>3. Alone(h)' => Alone(h)
      BY <3>2 DEF Alone
    <3>4. Alone(h)' => SoloInv(h)'
      BY <2>1, <3>3, SoloStep
    <3> QED
      BY <3>1, <3>2, <3>4 DEF FoundInv
  <2>2. CASE UNCHANGED vars
    BY <2>2 DEF FoundInv, Alone, SoloInv, Nonce, HostCert, vars, frame, host, drive
  <2> QED
    BY <2>1, <2>2 DEF Next
<1>3. (Usable # {} => FoundInv) => UsableCertIsFound
  BY DEF FoundInv, Alone, SoloInv, Usable, UsableCertIsFound
<1> QED
  BY <1>1, <1>2, <1>3, TypeCorrect, AgidsOwnedHolds, PTL DEF Spec
-----------------------------------------------------------------------------
(* Data keys.  They carry no MAC, so nothing but the bus key protects them. *)

DataInv(h) ==
    /\ pc[h] = "read" => SameBusKey(h)
    /\ pc[h] = "release" /\ mres[h] = "ok" => out[h] = req[h]
    /\ pc[h] = "idle" /\ res[h] = "SUCCESS" /\ req[h] = "DATA_KEYS" => out[h] = req[h]

LEMMA DataStep ==
    ASSUME ~Corrupting, TypeOK, KeyInv, NEW h \in Hosts, AuthInv(h), DataInv(h), Call(h) \/ Step(h)
    PROVE  DataInv(h)'
<1> USE DEF TypeOK, Goto, frame, AuthInv, DataInv
<1>0. agid[h] \in Agids /\ sess[agid[h]] \in Sessions
  OBVIOUS
<1>1. CASE Call(h) \/ CheckAacs(h) \/ OpenReadDriveCert(h)
  BY <1>1 DEF Call, CheckAacs, OpenReadDriveCert, Command, Return, Opened
<1>2. CASE ReadDriveCert(h)
  BY <1>2 DEF ReadDriveCert, Command, Return
<1>3. CASE NextCert(h) \/ InvalidateAgids(h) \/ ReportAgid(h)
  BY <1>3 DEF NextCert, InvalidateAgids, ReportAgid, AttemptFailed, Return
<1>4. CASE SendHostCert(h)
  BY <1>4 DEF SendHostCert, Command, Finish
<1>5. CASE ReadDriveCertChallenge(h) \/ ReadDriveKey(h)
  BY <1>5 DEF ReadDriveCertChallenge, ReadDriveKey, Command, Finish
<1>6. CASE SendHostKey(h)
  <2>1. CASE pc'[h] # "read"
    BY <1>6, <2>1 DEF SendHostKey, Command, Finish
  <2>2. CASE pc'[h] = "read"
    <3> DEFINE x == [sess[agid[h]] EXCEPT !.st = "auth", !.hk = Nonce(h)]
    <3>1. x.st = "auth" /\ x.hk = Nonce(h)
      BY <1>0 DEF Sessions
    <3>2. sess' = [sess EXCEPT ![agid[h]] = x] /\ UNCHANGED <<calls, agid>>
      BY <1>6, <2>2 DEF SendHostKey, Command, Finish
    <3> HIDE DEF x
    <3>3. IsAuthenticated(agid[h])' /\ sess'[agid'[h]].hk = Nonce(h)'
      BY <1>0, <3>1, <3>2 DEF IsAuthenticated, Nonce
    <3>4. HostKeyInv(h)'
      BY <1>6, OwnKeyStep DEF Step
    <3>5. sess'[agid'[h]].gen = dkp'[h]
      BY <2>2, <3>2, <3>3, <3>4 DEF HostKeyInv, IsAuthenticated
    <3> QED
      BY <2>2, <3>3, <3>5 DEF SameBusKey, DriveBusKey, BusKey
  <2> QED
    BY <2>1, <2>2
<1>7. CASE ReadDiscStructure(h)
  BY <1>7 DEF ReadDiscStructure, ReadFailed, MacOk, Deliver, Command, Finish
<1>8. CASE Release(h)
  BY <1>8 DEF Release, AttemptFailed, Return
<1> QED
  BY <1>1, <1>2, <1>3, <1>4, <1>5, <1>6, <1>7, <1>8 DEF Step

\* A host that has the drive for itself gets the drive's own data keys, also when commands
\* are lost and repeated, as long as no reply arrives with wrong bytes.
THEOREM DataKeysOfOneHost ==
    ASSUME ~Corrupting, \A g, h \in Hosts : g = h
    PROVE  Spec => []DataKeysAuthentic
<1> DEFINE Inv == \A h \in Hosts : AuthInv(h) /\ DataInv(h)
<1>1. Init => Inv
  BY DEF Init, AuthInv, DataInv, None, Garbage
<1>2. TypeOK /\ KeyInv /\ Inv /\ [Next]_vars => Inv'
  <2> SUFFICES ASSUME TypeOK, KeyInv, Inv, [Next]_vars, NEW g \in Hosts
               PROVE  AuthInv(g)' /\ DataInv(g)'
    OBVIOUS
  <2>1. ASSUME NEW h \in Hosts, Call(h) \/ Step(h) PROVE AuthInv(g)' /\ DataInv(g)'
    BY <2>1, AuthOwnStep, DataStep
  <2>2. CASE UNCHANGED vars
    BY <2>2 DEF AuthInv, DataInv, SameBusKey, DriveBusKey, BusKey, Nonce, vars, frame, host, drive
  <2> QED
    BY <2>1, <2>2 DEF Next
<1>3. Inv => DataKeysAuthentic
  BY DEF DataInv, DataKeysAuthentic
<1> QED
  BY <1>1, <1>2, <1>3, TypeCorrect, KeyInit, KeyStep, PTL DEF Spec
=============================================================================
