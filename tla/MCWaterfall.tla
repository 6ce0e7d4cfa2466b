---------------------------- MODULE MCWaterfall ----------------------------
(* Instances of Waterfall for TLC: disc d1 has an unencrypted CPS unit and two that    *)
(* are encrypted; d2 has no unit keys and uses bus encryption.                         *)
EXTENDS Waterfall, TLC

CONSTANTS d1, d2

UnitsOf == d1 :> 3 @@ d2 :> 0
EncryptedUnits == d1 :> {2, 3} @@ d2 :> {}
\* The usage file of unit 2 is not readable; those of all units are not.
UsageFiles == d1 :> <<"unencrypted", "missing", "encrypted">> @@ d2 :> <<>>
UsageFilesLost == d1 :> <<"missing", "missing", "missing">> @@ d2 :> <<>>

Blank == [mk |-> NoKey, vid |-> NoKey, vuk |-> NoKey, uk |-> <<>>]
NoFile == [ok |-> FALSE, keys |-> FALSE, certs |-> FALSE, entry |-> [d \in Discs |-> Blank]]
Config(keys, certs, entries) ==
    [ok |-> TRUE, keys |-> keys, certs |-> certs, entry |-> [d \in Discs |-> entries[d]]]

KeysAndCerts == Config(TRUE, TRUE, [d \in Discs |-> Blank])
CertsOnly    == Config(FALSE, TRUE, [d \in Discs |-> [Blank EXCEPT !.mk = d]])
VidListed    == Config(TRUE, FALSE, [d \in Discs |-> [Blank EXCEPT !.vid = d]])
VukListed    == Config(FALSE, FALSE, [d \in Discs |-> [Blank EXCEPT !.vuk = d]])
Listing(uk)  == Config(TRUE, TRUE, [d \in Discs |-> [Blank EXCEPT !.uk = uk]])
ListAndVuk   == Config(FALSE, FALSE, [d \in Discs |-> [Blank EXCEPT !.vuk = d, !.uk = <<1, 2>>]])
ListAndMkVid ==
    Config(FALSE, FALSE, [d \in Discs |-> [Blank EXCEPT !.mk = d, !.vid = d, !.uk = <<1, 2>>]])

\* Lists of unit keys are too short, complete, in the wrong order or too long.
RightKeys == {NoFile, KeysAndCerts, CertsOnly, VidListed, VukListed, ListAndVuk, ListAndMkVid}
             \cup {Listing(uk) : uk \in {<<1, 2>>, <<1, 2, 3>>, <<1, 3, 2>>, <<1, 2, 3, 4>>}}
Defaults == {NoFile, KeysAndCerts}
=============================================================================
