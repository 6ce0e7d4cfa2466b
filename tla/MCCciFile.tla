----------------------------- MODULE MCCciFile -----------------------------
(* Discs with two CPS units, whose usage files have a basic CCI for up to  *)
(* nine titles each.                                                       *)
EXTENDS CciFile

FileOf(n, bits) == [size |-> 2048, num_entry |-> 1, at |-> <<16, 22 + BasicLength>>, entries |-> <<
    [type |-> BASIC_CCI, length |-> BasicLength, free |-> TRUE, num_titles |-> n, enhanced |-> bits]>>]
TwoUnits ==
    {[files |-> <<[main |-> FileOf(n, {t}), copy |-> FileOf(n, {t})],
                  [main |-> FileOf(m, {}), copy |-> FileOf(m, {})]>>,
      title_cps_unit |-> <<0, 1, 0>>] : n, m \in 1 .. 9, t \in 0 .. 8}
=============================================================================
