---------------------------- MODULE MCSequential ----------------------------
(***************************************************************************)
(* The sequential code for TLC: the parsers of the files on a disc, the    *)
(* calculation of the media key and the arithmetic on the curve.  A        *)
(* behaviour is one call of one part with one input; the other parts keep  *)
(* still.                                                                  *)
(***************************************************************************)
EXTENDS MkbFile, MediaKey, UnitKeyFile, CciFile, EcPoint, SequencesExt

VARIABLE part

\* Words of four bits, i.e. eight devices.  Records are all lists of at most two entries,
\* whatever the entries say.
EndEntry == [shift |-> 64, uv |-> 1]
Pairs == [shift : 0 .. W - 1, uv : Words]
ShortRecords == {<<>>} \cup {<<e>> : e \in Pairs \cup {EndEntry}}
                \cup {<<e, f>> : e \in Pairs \cup {EndEntry}, f \in [shift : {1, 3}, uv : Words]}
Behind == {<<EndEntry>>, <<[shift |-> 3, uv |-> 14]>>,
           <<[shift |-> 2, uv |-> 0], [shift |-> 3, uv |-> 5], EndEntry>>,
           <<[shift |-> 1, uv |-> 10], [shift |-> 3, uv |-> 14]>>}
Label(e) == [u |-> <<e.shift, e.uv \div 2^e.shift>>, w |-> <<2, e.uv \div 4>>]

\* All keys of one device, of two, a single key, or none.
KeysOf(d) == SetToSeq(DeviceKeys(d))
SomeKeys == {<<>>, <<KeysOf(14)[1]>>, KeysOf(10) \o KeysOf(4)} \cup {KeysOf(d) : d \in {0, 6, 12}}
SomePks == {<<>>, <<Label([shift |-> 3, uv |-> 6])>>}

-----------------------------------------------------------------------------
(* Media key blocks: at most three records, followed by padding, by        *)
(* nothing, by a stray byte, or cut off.  The buffer starts with room for  *)
(* two headers, so that it has to grow.                                    *)

Rec == [type : {4, 16, 129, 134}, len : {4, 12, 21}]
Tails == {[type |-> 0, len |-> 0], [type |-> 16, len |-> 2], [type |-> 4, len |-> 9]}
Version == [type |-> 16, len |-> 12]
Lists == {<<>>, <<Version>>} \cup {<<r, s>> : r, s \in Rec}
         \cup {<<Version, r, [type |-> 134, len |-> 21]>> : r \in Rec}

OffsetOf(rs, i) == FoldLeft(LAMBDA n, r : n + r.len, 0, SubSeq(rs, 1, i - 1))
\* The records rs, then the bytes of a last one, and n bytes more or less.
MkbOf(rs, l, n, is20) ==
    LET all == Append(rs, l)
    IN  [size |-> OffsetOf(all, Len(all)) + n, is20 |-> is20,
         hdr |-> [q \in 0 .. 60 |->
            LET at == {i \in DOMAIN all : OffsetOf(all, i) = q}
            IN  IF at = {} THEN [type |-> 0, len |-> 0] ELSE all[CHOOSE i \in at : TRUE]]]

MissingMkb == MkbOf(<<>>, [type |-> 0, len |-> 0], 0, FALSE)
ShortMkb == MkbOf(<<[type |-> 16, len |-> 12]>>, [type |-> 0, len |-> 0], 4, FALSE)
SomeDiscs == [x \in Lists \X Tails \X {0, 3, 4, 6} \X BOOLEAN |->
                <<MkbOf(x[1], x[2], x[3], x[4]), IF x[3] = 3 THEN MissingMkb ELSE ShortMkb>>]

-----------------------------------------------------------------------------
(* Certificates and unit key files, at the limits of the checks: the keys  *)
(* end with the file, or a few bytes behind it.                            *)

CertOf(n, type, specific, digests, signed) == [size |-> n, type |-> type, bee |-> TRUE,
    specific |-> specific, digests |-> digests, signed |-> signed]
NoFile == CertOf(0, 0, 0, 0, FALSE)
Certs == {NoFile} \cup {CertOf(26 + s + 8 * d + n, t, s, d, ok) :
            t \in {0, 16, 1}, s \in {0, 20, 39, 40, 65, 66}, d \in {0, 1}, n \in {39, 40, 64}, ok \in BOOLEAN}

UkFileOf(n, dirs, units, titles, pos0, num, at112) == [size |-> n, dirs |-> dirs, units |-> units,
    titles |-> titles, uk_pos |-> pos0, num_uk |-> num, at112 |-> at112]
NoUkFile == UkFileOf(0, 1, <<1, 1>>, 0, 0, 0, FALSE)
\* The area has num keys and rest bytes of another.
UkFiles == {UkFileOf(2000 + 16 + 48 * num + rest, 1, <<1, 2, 3, 0>>, titles, 2000, claimed, at112) :
              num \in 1 .. 3, rest \in {0, 15, 47}, titles \in {2, 600}, claimed \in 0 .. 3, at112 \in BOOLEAN}
           \cup {NoUkFile, UkFileOf(2100, 0, <<1, 1>>, 0, 2000, 1, FALSE),
                 UkFileOf(2100, 1, <<1, 1>>, 0, 2099, 1, FALSE), UkFileOf(2100, 1, <<1, 1>>, 0, 2098, 1, FALSE)}
Aacs1Cert == CertOf(200, 0, 40, 1, TRUE)
Aacs2Cert == CertOf(200, 16, 66, 1, TRUE)
SomeUnitKeyDiscs ==
    [certs : {<<c, Aacs1Cert>> : c \in Certs}, main : {NoUkFile}, copy : {NoUkFile}]
    \cup [certs : {<<NoFile, c>> : c \in {NoFile, Aacs1Cert, Aacs2Cert}}, main : UkFiles, copy : {NoUkFile}]
    \cup [certs : {<<Aacs1Cert, NoFile>>}, main : UkFiles,
          copy : {UkFileOf(2112, 1, <<2, 1, 2, 1>>, 2, 2000, 2, FALSE)}]

-----------------------------------------------------------------------------
(* Usage files: entries of all types, with up to 1025 titles.              *)

EntryOf(type, length, free, n, bits) ==
    [type |-> type, length |-> length, free |-> free, num_titles |-> n, enhanced |-> bits]
Basic(n, bits) == EntryOf(BASIC_CCI, BasicLength, TRUE, n, bits)
EntryLists ==
    {<<Basic(n, bits)>> : n \in {0, 1, 3, 8, 9, 11, 16, 1024, 1025}, bits \in {{}, {0}, {2}, {3}, {8}, {10}, {11}}}
    \cup {<<e, f>> : e, f \in {EntryOf(BASIC_CCI, BasicLength, FALSE, 1, {}), Basic(2, {}), Basic(2, {1}),
                               EntryOf(BASIC_CCI, 100, TRUE, 0, {}),
                               EntryOf(ENHANCED_TITLE_USAGE, 20, FALSE, 0, {}),
                               EntryOf(2, 4, FALSE, 0, {}), EntryOf(2, 1880, FALSE, 0, {}),
                               EntryOf(2, 1892, FALSE, 0, {}), EntryOf(2, 2026, FALSE, 0, {}), EntryOf(2, 2038, FALSE, 0, {})}}
OffsetsOf(es) == [i \in 1 .. Len(es) + 1 |-> 16 + MapThenSumSet(LAMBDA k : 6 + es[k].length, 1 .. i - 1)]
CciOf(n, es, claimed) == [size |-> n, num_entry |-> claimed, entries |-> es, at |-> OffsetsOf(es)]
NoCci == CciOf(0, <<>>, 0)
CciFiles == {CciOf(2048, es, n) : es \in EntryLists, n \in {0, 1, 2, 5, 339}}
            \cup {CciOf(2048, <<>>, 338), NoCci, CciOf(2047, <<Basic(1, {})>>, 1)}
SomeCciDiscs ==
    {[files |-> <<[main |-> f, copy |-> g]>>, title_cps_unit |-> <<0, 0>>] :
        f \in CciFiles, g \in {NoCci}}
    \cup {[files |-> <<[main |-> f, copy |-> g], [main |-> g, copy |-> f]>>, title_cps_unit |-> <<0, 1>>] :
        f \in {NoCci, CciOf(2047, <<Basic(1, {})>>, 1)}, g \in {CciOf(2048, <<Basic(1, {0})>>, 1)}}

\* Two small curves: a = p - 3, as in AACS, and another a.
SomeCurves == {[p |-> 11, a |-> 8, b |-> 6], [p |-> 13, a |-> 10, b |-> 4], [p |-> 17, a |-> 2, b |-> 2]}

-----------------------------------------------------------------------------
seq_vars == <<part, vars, mk_vars, uk_vars, cci_vars, ec_vars>>

\* The parts that keep still.
NoMkb ==
    /\ disc = CHOOSE d \in DOMAIN SomeDiscs : TRUE
    /\ faults = FALSE /\ which = 1 /\ pc = "off" /\ size = 0 /\ cap = 0 /\ chunk = 4 /\ headers = {}
    /\ call = "mkb_mk_dv" /\ want = 16 /\ pos = 0 /\ found = Null
NoMk ==
    /\ uvs = <<>> /\ behind = <<EndEntry>> /\ dkl = <<>> /\ pkl = <<>> /\ mk_pc = "off" /\ di = 1
    /\ device = -1 /\ ui = 1 /\ height = 0 /\ label = [u |-> <<0, 0>>, w |-> <<0, 0>>]
    /\ mk_result = "no_pk"
NoUkPart ==
    /\ uk_disc = [certs |-> <<NoFile, NoFile>>, main |-> NoUkFile, copy |-> NoUkFile]
    /\ which_uk = "main" /\ uk_pc = "off" /\ cc = NoCert /\ uk = NoUk /\ uk_reads = {} /\ disc_id = "none"
NoCciPart ==
    /\ cci_disc = [files |-> <<>>, title_cps_unit |-> <<>>]
    /\ cci_call = [op |-> "none", arg |-> 0, number |-> 0]
    /\ which_cci = "main" /\ cci_pc = "off" /\ cci_p = 0 /\ cci_size = 0 /\ entries = <<>>
    /\ cci_reads = {} /\ answer = [code |-> -1, basic |-> Zeros]
NoEc ==
    /\ ec_curve = [p |-> 5, a |-> 2, b |-> 1] /\ ec_op = "none" /\ ec_scalar = 1
    /\ ec_point = Infinity /\ ec_pc = "off" /\ ec_i = 0 /\ ec_result = Infinity
    /\ ec_short = FALSE /\ ec_bytes = <<>>

SeqInit ==
    \/ part = "mkb" /\ Init /\ NoMk /\ NoUkPart /\ NoCciPart /\ NoEc
    \/ part = "media_key" /\ MkInit /\ NoMkb /\ NoUkPart /\ NoCciPart /\ NoEc
    \/ part = "unit_key" /\ UkInit /\ NoMkb /\ NoMk /\ NoCciPart /\ NoEc
    \/ part = "cci" /\ CciInit /\ NoMkb /\ NoMk /\ NoUkPart /\ NoEc
    \/ part = "ec" /\ EcInit /\ NoMkb /\ NoMk /\ NoUkPart /\ NoCciPart

SeqNext ==
    \/ part = "mkb" /\ Next /\ UNCHANGED <<part, mk_vars, uk_vars, cci_vars, ec_vars>>
    \/ part = "media_key" /\ MkNext /\ UNCHANGED <<part, vars, uk_vars, cci_vars, ec_vars>>
    \/ part = "unit_key" /\ UkNext /\ UNCHANGED <<part, vars, mk_vars, cci_vars, ec_vars>>
    \/ part = "cci" /\ CciNext /\ UNCHANGED <<part, vars, mk_vars, uk_vars, ec_vars>>
    \/ part = "ec" /\ EcNext /\ UNCHANGED <<part, vars, mk_vars, uk_vars, cci_vars>>

\* The thread that makes the call goes on.
SeqSpec == SeqInit /\ [][SeqNext]_seq_vars /\ WF_seq_vars(SeqNext)

\* Every one of these calls returns, whatever the files contain: the walks over records and
\* entries, the search for a device key and _calc_pk(), whose loops have no bound of their
\* own, come to an end.
EveryCallReturns ==
    <>(\/ "done" \in {pc, mk_pc, cci_pc, ec_pc} \/ uk_pc \in {"parsed", "failed"})
=============================================================================
