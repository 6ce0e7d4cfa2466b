----------------------------- MODULE MCMmcAuth -----------------------------
(* Instances of MmcAuth for TLC: the lists of host certificates.           *)
EXTENDS MmcAuth, TLC

\* One usable certificate, as most KEYDB.cfg files have.
OneCert == <<"good">>
\* A certificate of every kind before the usable one.
EveryKind == <<"invalid", "revoked", "mismatched", "good">>

HostSymmetry == Permutations(Hosts)
=============================================================================
