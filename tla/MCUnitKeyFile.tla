--------------------------- MODULE MCUnitKeyFile ---------------------------
(* AACS2 discs with one to three unit keys and two titles: behind the map  *)
(* of the titles there are zeros up to the key storage area at 2000.       *)
EXTENDS UnitKeyFile

Aacs2Cert == [size |-> 200, type |-> AACS2, bee |-> TRUE, specific |-> 66, digests |-> 1, signed |-> TRUE]
FileOf(num) == [size |-> 2000 + 16 + 64 * num, dirs |-> 1, units |-> <<1, 1, 1, num>>, titles |-> 2,
                uk_pos |-> 2000, num_uk |-> num, at112 |-> FALSE]
Aacs2Discs ==
    {[certs |-> <<Aacs2Cert, Aacs2Cert>>, main |-> FileOf(num), copy |-> FileOf(num)] : num \in 1 .. 3}
=============================================================================
