------------------------------ MODULE CciFile ------------------------------
(***************************************************************************)
(* The usage files AACS/CPSUnit%05d.cci: cci_parse(), cci_is_unencrypted() *)
(* and cci_get_basic_cci() of cci.c, and the two callers in aacs.c:        *)
(* _check_cci_unencrypted(), which asks for the unit of a key, and         *)
(* aacs_get_basic_cci(), which asks for the unit of a title.               *)
(*                                                                         *)
(* A file is its size, the number of entries it claims to have, its        *)
(* entries and their offsets: they are one behind the other from offset    *)
(* 16, and zeros follow.  An entry has a type, a length, and, if it is     *)
(* basic CCI, what it says: free (the version and the flags allow any      *)
(* use), the number of titles, and the bits of the titles that are         *)
(* enhanced.                                                               *)
(***************************************************************************)
EXTENDS Integers, Sequences, FiniteSetsExt

CONSTANTS
    CciDiscs,   \* [files: number -> [main, copy]; title_cps_unit: title -> index of a key]
    SizeMod     \* 2^64: size_t wraps around

BASIC_CCI == 257
ENHANCED_TITLE_USAGE == 273
BasicLength == 132
Zeros == [type |-> 0, length |-> 0, free |-> FALSE, num_titles |-> 0, enhanced |-> {}]

UsageEntries == [type : Nat, length : Nat, free : BOOLEAN, num_titles : Nat, enhanced : SUBSET Nat]
UsageFile(f) ==
    /\ f \in [size : 0 .. SizeMod - 1, num_entry : Nat, entries : Seq(UsageEntries), at : Seq(Nat)]
    /\ Len(f.at) = Len(f.entries) + 1 /\ f.at[1] = 16
    /\ \A i \in DOMAIN f.entries : f.at[i + 1] = f.at[i] + 6 + f.entries[i].length

ASSUME CciAssumption ==
    /\ SizeMod \in Nat
    /\ \A d \in CciDiscs : \A n \in DOMAIN d.files :
           UsageFile(d.files[n]["main"]) /\ UsageFile(d.files[n]["copy"])

VARIABLES
    cci_disc,
    cci_call,     \* [op, arg, number]: the call, and the number of the file it reads
    which_cci, cci_pc,
    cci_p, cci_size,  \* position and bytes left in cci_parse()
    entries,      \* cci->entry
    cci_reads,    \* history: the last byte each entry was looked at
    answer        \* [code, basic]; code -1: NULL, or the file cannot be read

cci_vars == <<cci_disc, cci_call, which_cci, cci_pc, cci_p, cci_size, entries, cci_reads, answer>>

cci_file == cci_disc.files[cci_call.number][which_cci]
CciKeep == UNCHANGED <<cci_disc, cci_call>>

-----------------------------------------------------------------------------
(* aacs.c *)

\* _calc_uks(): the file of the i-th key.
CheckUnencrypted ==
    /\ cci_pc = "call"
    /\ \E i \in 0 .. Max(DOMAIN cci_disc.files) - 1 :
         cci_call' = [op |-> "check", arg |-> i, number |-> i + 1]
    /\ cci_pc' = "read"
    /\ UNCHANGED <<cci_disc, which_cci, cci_p, cci_size, entries, cci_reads, answer>>

\* aacs_get_basic_cci(): _cps_unit() is an index, and it is taken for the number.
GetBasicCci ==
    /\ cci_pc = "call"
    /\ \E t \in DOMAIN cci_disc.title_cps_unit :
         cci_call' = [op |-> "get", arg |-> t, number |-> cci_disc.title_cps_unit[t]]
    /\ cci_pc' = "read"
    /\ UNCHANGED <<cci_disc, which_cci, cci_p, cci_size, entries, cci_reads, answer>>

CciReturn(code, e) ==
    /\ answer' = [code |-> code, basic |-> e] /\ cci_pc' = "done"
    /\ UNCHANGED <<which_cci, cci_p, cci_size, entries, cci_reads>>

\* aacs_get_basic_cci() with a title that the disc does not have: _cps_unit() is negative.
InvalidTitle ==
    /\ cci_pc = "call"
    /\ cci_call' = [op |-> "get", arg |-> Len(cci_disc.title_cps_unit) + 1, number |-> 0]
    /\ CciReturn(-1, Zeros) /\ UNCHANGED cci_disc

\* _read_cci_file(): a missing or short file is replaced by its duplicate; the beginning of
\* cci_parse().
ReadCciFile ==
    LET exists == cci_call.number \in DOMAIN cci_disc.files
        whole == exists /\ cci_file.size >= 2048
        sane == cci_file.num_entry \in 1 .. (2048 - 16) \div 6
    IN  /\ cci_pc = "read" /\ CciKeep
        /\ \/ /\ whole /\ sane
              /\ cci_pc' = "entry" /\ cci_p' = 16 /\ cci_size' = cci_file.size - 16 /\ entries' = <<>>
              /\ UNCHANGED <<which_cci, cci_reads, answer>>
           \/ /\ exists /\ ~whole /\ which_cci = "main" /\ which_cci' = "copy"
              /\ UNCHANGED <<cci_pc, cci_p, cci_size, entries, cci_reads, answer>>
           \/ /\ ~exists \/ (whole /\ ~sane) \/ (~whole /\ which_cci = "copy")
              /\ CciReturn(-1, Zeros)

-----------------------------------------------------------------------------
(* cci.c *)

\* The entry at offset q of a file; behind the end of the file it can be anything.
EntriesAt(f, q) ==
    LET found == {i \in DOMAIN f.entries : f.at[i] = q}
    IN  IF q + 6 > f.size THEN {Zeros} \cup {f.entries[i] : i \in DOMAIN f.entries}
        ELSE IF found = {} THEN {Zeros} ELSE {f.entries[i] : i \in found}

\* _bitcpy(): the number of titles whose bits are copied; the bits of a last byte are counted
\* modulo 4.
CopiedTitles(n) == 8 * (n \div 8) + (n % 4)

\* cci_parse_entry() on entry e with n bytes left: can it be used?
EntryOk(e, n) ==
    /\ n >= 6 /\ (n + 6) % SizeMod >= e.length
    /\ e.type = BASIC_CCI /\ e.length = BasicLength => e.num_titles <= 1024

\* What is kept of it: title_type has the copied bits.
KeptEntry(e) ==
    IF e.type = BASIC_CCI /\ e.length = BasicLength
    THEN [e EXCEPT !.enhanced = {t \in e.enhanced : t < CopiedTitles(e.num_titles)}]
    ELSE [e EXCEPT !.free = FALSE, !.num_titles = 0, !.enhanced = {}]
LastByte(e) ==
    IF e.type = BASIC_CCI /\ e.length = BasicLength
    THEN 9 + (CopiedTitles(e.num_titles) + 7) \div 8 ELSE 5

\* Bytes left behind an entry (mutant: its header is forgotten).
LeftOfContents(n, e) == (n - e.length) % SizeMod
Left(n, e) == (n - (6 + e.length)) % SizeMod

ParseEntry ==
    /\ cci_pc = "entry" /\ Len(entries) < cci_file.num_entry /\ CciKeep
    /\ \E e \in EntriesAt(cci_file, cci_p) :
         IF EntryOk(e, cci_size)
         THEN /\ entries' = Append(entries, KeptEntry(e))
              /\ cci_reads' = cci_reads \cup {cci_p + LastByte(e)}
              /\ cci_p' = cci_p + 6 + e.length /\ cci_size' = Left(cci_size, e)
              /\ UNCHANGED <<which_cci, cci_pc, answer>>
         ELSE CciReturn(-1, Zeros)

\* cci_is_unencrypted(): the first entry of one of the two types decides (mutant: entries
\* for enhanced titles are not looked at).
DecidesBasic(e) == e.type = BASIC_CCI
Decides(e) == e.type \in {BASIC_CCI, ENHANCED_TITLE_USAGE}
FirstEntry(es, Test(_)) ==
    LET at == {i \in DOMAIN es : Test(es[i])} IN IF at = {} THEN Zeros ELSE es[Min(at)]
IsUnencrypted(es) ==
    LET e == FirstEntry(es, Decides)
    IN  IF e.type = BASIC_CCI /\ e.length = BasicLength /\ e.free /\ e.enhanced = {} THEN 1 ELSE 0

\* cci_is_unencrypted() or cci_get_basic_cci() on the parsed entries.
Reply ==
    LET e == FirstEntry(entries, LAMBDA x : x.type = BASIC_CCI)
    IN  /\ cci_pc = "entry" /\ Len(entries) = cci_file.num_entry /\ CciKeep
        /\ CASE cci_call.op = "check" -> CciReturn(IsUnencrypted(entries), Zeros)
             [] cci_call.op = "get" -> CciReturn(IF e = Zeros THEN -1 ELSE 0, e)

CciInit ==
    /\ cci_disc \in CciDiscs
    /\ cci_call = [op |-> "none", arg |-> 0, number |-> 0]
    /\ which_cci = "main" /\ cci_pc = "call" /\ cci_p = 0 /\ cci_size = 0 /\ entries = <<>>
    /\ cci_reads = {} /\ answer = [code |-> -1, basic |-> Zeros]

CciNext == CheckUnencrypted \/ GetBasicCci \/ InvalidTitle \/ ReadCciFile \/ ParseEntry \/ Reply

CciSpec == CciInit /\ [][CciNext]_cci_vars

-----------------------------------------------------------------------------
\* The entries a file really has, and those that count for a file that claims n of them.
EntriesFit(f) == f.at[Len(f.at)] <= f.size
Claimed(f) == SubSeq(f.entries, 1, Min({f.num_entry, Len(f.entries)}))

\* cci_parse() looks only at bytes of the file, whatever number of entries it claims, as
\* long as no entry claims to be longer than the file.  (The length of an entry is compared
\* with 6 bytes more than there are, instead of 6 less, and the bytes left then wrap around.)
CciReadsFit ==
    cci_pc \in {"entry", "done"} /\ cci_reads # {} /\ EntriesFit(cci_file) =>
        \A b \in cci_reads : b < cci_file.size

\* cci_is_unencrypted() says yes only if the entry that decides is the basic CCI, which
\* allows any use, and all its titles are basic; and it says so for all such files.  (The
\* number of titles modulo 8 is at most 3.)
UnencryptedIsRight ==
    cci_pc = "done" /\ cci_call.op = "check" /\ answer.code >= 0 /\ EntriesFit(cci_file) =>
        LET e == FirstEntry(Claimed(cci_file), LAMBDA x : x.type \in {BASIC_CCI, ENHANCED_TITLE_USAGE})
        IN  e.num_titles % 8 <= 3 =>
              (answer.code = 1 <=> /\ e.type = BASIC_CCI /\ e.length = BasicLength /\ e.free
                              /\ e.enhanced \cap 0 .. e.num_titles - 1 = {})

\* A unit that is taken for unencrypted has basic titles only ("check all titles are basic
\* titles", cci.c).
TitlesAreBasic ==
    cci_pc = "done" /\ cci_call.op = "check" /\ answer.code = 1 /\ EntriesFit(cci_file) =>
        LET e == FirstEntry(Claimed(cci_file), LAMBDA x : x.type = BASIC_CCI)
        IN  e.enhanced \cap 0 .. e.num_titles - 1 = {}

\* The copy control information returned for a title is that of the CPS unit of the title
\* (title_cps_unit: "map title to CPS unit (key index)", unit_key.h; the file of the key with
\* index i is number i + 1, as in _calc_uks()).
CciIsOfTitle ==
    cci_pc = "done" /\ cci_call.op = "get" /\ answer.code >= 0 =>
        LET f == cci_disc.files[cci_disc.title_cps_unit[cci_call.arg] + 1][which_cci]
        IN  answer.basic = KeptEntry(FirstEntry(Claimed(f), LAMBDA x : x.type = BASIC_CCI))
=============================================================================
