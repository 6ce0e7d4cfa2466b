---------------------------- MODULE UnitKeyFile ----------------------------
(***************************************************************************)
(* The first steps of aacs_open_device(): the content certificate          *)
(* (_read_cc_any(), cc_parse()), which says whether the disc is an AACS2   *)
(* disc, and the unit key file (_calc_title_hash(), uk_parse()), whose     *)
(* layout depends on it.                                                   *)
(*                                                                         *)
(* A certificate is its size, type, the lengths it claims, its flag and    *)
(* whether the signature verifies.  A unit key file is its size and the    *)
(* numbers it contains:                                                    *)
(*   dirs     number of BDMV directories                                   *)
(*   units    CPS unit numbers: first play, top menu, title 1, title 2 ... *)
(*   titles   number of titles it claims to have                           *)
(*   uk_pos   offset of the key storage area                               *)
(*   num_uk   number of keys it claims to have                             *)
(*   at112    are the 16 bytes at offset 112 set                           *)
(* A key is represented by the offset it was read from.                    *)
(***************************************************************************)
EXTENDS Integers, Sequences

CONSTANT UnitKeyDiscs   \* [certs: Content000.cer, Content001.cer; main, copy: unit key file]

UnitKeyFiles == [size : Nat, dirs : Nat, units : Seq(Nat), titles : Nat, uk_pos : Nat,
                 num_uk : Nat, at112 : BOOLEAN]

ASSUME UnitKeyAssumption ==
    \A d \in UnitKeyDiscs : d["main"] \in UnitKeyFiles /\ d["copy"] \in UnitKeyFiles

VARIABLES
    uk_disc, which_uk,  \* the input, and the file being parsed: "main", "copy"
    uk_pc,
    cc,                 \* CONTENT_CERT
    uk,                 \* AACS_UK
    uk_reads,           \* history: the bytes that were looked at, [first, last, size of the file]
    disc_id             \* the file the disc id is computed from

uk_vars == <<uk_disc, which_uk, uk_pc, cc, uk, uk_reads, disc_id>>

-----------------------------------------------------------------------------
(* content_cert.c *)

AACS1 == 0
AACS2 == 16
SignatureSize(c) == IF c.type = AACS2 THEN 64 ELSE 40
CertDataLen(c) == 26 + c.specific + 8 * c.digests

\* Offset and length of the BD-J root certificate hash, and the length of the format
\* specific data that it needs.
HashNeeds(c) == IF c.type = AACS2 THEN 66 ELSE 40
Hash(c) == IF c.specific < HashNeeds(c) THEN <<0, 0>>
           ELSE IF c.type = AACS2 THEN <<60, 32>> ELSE <<46, 20>>

NoCert == [aacs2 |-> FALSE, bee |-> FALSE, hash |-> <<0, 0>>]
CcParse(c) ==
    IF /\ c.size >= 26 /\ c.type \in {AACS1, AACS2}
       /\ c.size >= CertDataLen(c) + SignatureSize(c) /\ c.signed
    THEN [aacs2 |-> c.type = AACS2, bee |-> c.bee, hash |-> Hash(c)]
    ELSE NoCert

\* _read_cc_any(): the second file only if the first is missing or empty.
Cert == IF uk_disc.certs[1].size > 0 THEN uk_disc.certs[1] ELSE uk_disc.certs[2]
ReadCc ==
    /\ uk_pc = "cert"
    /\ cc' = (IF Cert.size > 0 THEN CcParse(Cert) ELSE NoCert) /\ uk_pc' = "header"
    /\ UNCHANGED <<uk_disc, which_uk, uk, uk_reads, disc_id>>

-----------------------------------------------------------------------------
(* unit_key.c *)

uk_file == uk_disc[which_uk]
NoUk == [num_uk |-> 0, enc_uk |-> <<>>, titles |-> 0, title_cps_unit |-> <<>>, aacs2 |-> FALSE,
         result |-> 0]
UkReads(first, n) ==
    uk_reads' = uk_reads \cup {[first |-> first, last |-> first + n - 1, size |-> uk_file.size]}
UkGoto(label) == uk_pc' = label /\ UNCHANGED <<uk_disc, which_uk, cc, disc_id>>

\* uk_parse() returns NULL: the duplicate is tried.
UkFailed ==
    /\ uk' = NoUk /\ UNCHANGED <<uk_disc, cc, disc_id>>
    /\ IF which_uk = "main" THEN which_uk' = "copy" /\ uk_pc' = "header"
       ELSE uk_pc' = "failed" /\ UNCHANGED which_uk

\* A file of 2048 bytes or less is not parsed; _parse_header().
ParseHeader ==
    /\ uk_pc = "header" /\ uk_reads' = {}
    /\ IF uk_file.size > 2048 /\ uk_file.dirs >= 1 THEN UkGoto("uks") /\ UNCHANGED uk ELSE UkFailed

\* Are all keys in the file (mutant: the key storage area is taken for the whole file)?
KeysFitFile(f) == (f.size - 16) \div 48 >= f.num_uk
KeysFit(f) == f.size - f.uk_pos >= 16 /\ (f.size - f.uk_pos - 16) \div 48 >= f.num_uk

\* Does _parse_uks() use the AACS2 layout?  The bytes at offset 112 stand for the second key
\* of the area, as if the area were at the beginning of the file.
UsesAacs2 == cc.aacs2 /\ (uk_file.num_uk > 1 => uk_file.at112)

\* _parse_uks() up to the loop.  The size check for AACS2 uses uk->num_uk, which is still 0,
\* and so never fails.
CheckUks ==
    /\ uk_pc = "uks"
    /\ IF uk_file.size - 2 < uk_file.uk_pos
       THEN uk' = [uk EXCEPT !.result = -1] /\ UkGoto("titles") /\ UNCHANGED uk_reads
       ELSE /\ UkReads(uk_file.uk_pos, 2)
            /\ CASE uk_file.num_uk = 0 -> UkGoto("titles") /\ UNCHANGED uk
                 [] uk_file.num_uk > 0 /\ ~KeysFit(uk_file) ->
                      uk' = [uk EXCEPT !.result = -1] /\ UkGoto("titles")
                 [] OTHER -> uk' = [uk EXCEPT !.aacs2 = UsesAacs2] /\ UkGoto("key")

\* Offset of the i-th key, counted from 1.
KeyPos(i) == uk_file.uk_pos + 48 * i + IF uk.aacs2 THEN 16 * (i - 1) ELSE 0

\* One turn of the loop in _parse_uks(); num_uk is set behind it.
ReadUk ==
    LET i == Len(uk.enc_uk) + 1
    IN  /\ uk_pc = "key" /\ UkReads(KeyPos(i), 16)
        /\ uk' = [uk EXCEPT !.enc_uk = Append(@, KeyPos(i)),
                            !.num_uk = IF i = uk_file.num_uk THEN i ELSE 0]
        /\ UkGoto(IF i = uk_file.num_uk THEN "titles" ELSE "key")

\* _assign_titles(): the CPS unit of a title as an index of the keys (mutant: the number is
\* kept).
UnitNumber(n) == IF n \in 1 .. uk.num_uk THEN n ELSE 0
UnitIndex(n) == IF n \in 1 .. uk.num_uk THEN n - 1 ELSE 0

\* Its failure is not fatal, one of _parse_uks() is.  Then the disc id is computed.
AssignTitles ==
    LET there == uk_file.size >= 26 + 4 * uk_file.titles /\ uk_file.titles <= 65533
    IN  /\ uk_pc = "titles"
        /\ IF there THEN UkReads(20, 6 + 4 * uk_file.titles) ELSE UkReads(20, 6)
        /\ \/ uk.result < 0 /\ UkFailed
           \/ /\ uk.result = 0
              /\ uk' = IF ~there THEN uk
                       ELSE [uk EXCEPT !.titles = uk_file.titles, !.title_cps_unit =
                               [t \in 1 .. uk_file.titles + 2 |-> UnitIndex(uk_file.units[t])]]
              /\ disc_id' = which_uk /\ uk_pc' = "parsed"
              /\ UNCHANGED <<uk_disc, which_uk, cc>>

UkInit ==
    /\ uk_disc \in UnitKeyDiscs /\ which_uk = "main" /\ uk_pc = "cert" /\ cc = NoCert
    /\ uk = NoUk /\ uk_reads = {} /\ disc_id = "none"

UkNext == ReadCc \/ ParseHeader \/ CheckUks \/ ReadUk \/ AssignTitles

UkSpec == UkInit /\ [][UkNext]_uk_vars

-----------------------------------------------------------------------------
\* uk_parse() looks only at bytes of the file, whatever the file claims.  (AACS1: an AACS2
\* file is checked for 48 bytes per key and read with 64.)
UkReadsFit ==
    uk.aacs2 \/ \A r \in uk_reads : r.first >= 0 /\ r.last < r.size

\* The unit key of title t is the n-th one of the area, where a key takes `stride` bytes.
KeyOf(t, stride) ==
    LET n == IF uk_file.units[t] \in 1 .. uk_file.num_uk THEN uk_file.units[t] ELSE 1
    IN  /\ uk.title_cps_unit[t] \in 0 .. uk.num_uk - 1
        /\ uk.enc_uk[uk.title_cps_unit[t] + 1] = uk_file.uk_pos + 48 + (n - 1) * stride

\* The key that is used for a title is the one its CPS unit number counts to in the key
\* storage area, for first play, top menu and every title; a number that no key has leads
\* to the first key, never outside the array.  (AACS1, or one key.)
TitlesGetTheirKey ==
    uk_pc = "parsed" =>
        /\ disc_id = which_uk /\ uk.num_uk = Len(uk.enc_uk)
        /\ uk.num_uk = 1 \/ (uk.num_uk > 1 /\ ~cc.aacs2) =>
             \A t \in DOMAIN uk.title_cps_unit : KeyOf(t, 48)

\* On an AACS2 disc, where a key takes 64 bytes, every title gets its key ("Fix AACS2 with
\* multiple unit keys", ChangeLog).
Aacs2KeysAreFound ==
    uk_pc = "parsed" /\ cc.aacs2 /\ uk.num_uk > 0 =>
        \A t \in DOMAIN uk.title_cps_unit : KeyOf(t, 64)
=============================================================================
