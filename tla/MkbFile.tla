------------------------------ MODULE MkbFile ------------------------------
(***************************************************************************)
(* The media key block on the disc: _mkb_open() and _read_mkb_file() of    *)
(* aacs.c, which read AACS/MKB_RO.inf or its duplicate record by record,   *)
(* and the search for a record in what was read (mkb.c).                   *)
(*                                                                         *)
(* Every record starts with four bytes, its type and its length.  A file   *)
(* is its size and what these four bytes say at each offset, whatever they *)
(* really belong to.  A read takes the rest of one record together with    *)
(* the four bytes of the next one.                                         *)
(***************************************************************************)
EXTENDS Integers

CONSTANTS
    Discs,        \* for every disc MKB_RO.inf and its duplicate, <<file, file>>
    Alloc         \* initial size of the buffer (65536)

IsFile(f) ==
    /\ f.size \in Nat /\ f.is20 \in BOOLEAN
    /\ \A p \in 0 .. f.size - 4 : f.hdr[p].type \in Nat /\ f.hdr[p].len \in Nat

ASSUME MkbFileAssumption ==
    /\ Alloc \in Nat /\ Alloc >= 4
    /\ \A d \in DOMAIN Discs : IsFile(Discs[d][1]) /\ IsFile(Discs[d][2])

VARIABLES
    disc, faults,   \* the input; faults: opening, reading and allocating can fail
    which,      \* the file being read: 1, 2, or 3 when both have failed
    pc,
    size, cap,  \* bytes read (mkb->size), bytes allocated (data_size)
    chunk,      \* chunk_size
    headers,    \* offsets at which the reader found a record header
    call,       \* the record the caller asks for
    want,       \* the type _record() looks for
    pos,
    found       \* [pos, len] of the record returned

reader == <<which, size, cap, chunk, headers>>
input == <<disc, faults>>
vars == <<input, reader, pc, call, want, pos, found>>

file == Discs[disc][which]
Null == [pos |-> -1, len |-> 0]

-----------------------------------------------------------------------------
(* _mkb_open(), _read_mkb_file() *)

\* return 0, and the duplicate is tried.
NextFile ==
    /\ which' = which + 1
    /\ pc' = IF which = 1 THEN "open" ELSE "done"

Open ==
    /\ pc = "open"
    /\ \/ /\ file.size >= 4
          /\ size' = 0 /\ cap' = Alloc /\ chunk' = 4 /\ headers' = {}
          /\ pc' = "read" /\ UNCHANGED which
       \/ (file.size < 4 \/ faults) /\ NextFile /\ UNCHANGED <<size, cap, chunk, headers>>
    /\ UNCHANGED <<input, call, want, pos, found>>

\* All of the chunk is there.
ReadAll == size + chunk <= file.size

\* The record whose header has just been read does not fit into the file (c is its length).
TooLarge(c) == file.size - (size + chunk) + 4 < c

\* realloc (mutant: the buffer is doubled, whatever the length of the record).
Doubled(c) == IF cap < size + chunk + c THEN 2 * cap ELSE cap
Grown(c) == IF cap < size + chunk + c THEN 2 * (size + chunk) + c ELSE cap

\* Is there a record to read, c bytes long (mutant: not if it has no contents)?
HasContents(c) == c > 4
HasRecord(c) == c >= 4

ReadChunk ==
    LET h == size + chunk - 4
        c == file.hdr[h].len
    IN  /\ pc = "read" /\ ReadAll
        /\ size' = size + chunk /\ headers' = headers \cup {h} /\ chunk' = c
        /\ IF TooLarge(c)
           THEN pc' = "lookup" /\ UNCHANGED cap
           ELSE cap' = Grown(c) /\ pc' = IF HasRecord(c) THEN "read" ELSE "lookup"
        /\ UNCHANGED <<input, which, call, want, pos, found>>

ReadFails ==
    /\ pc = "read" /\ (~ReadAll \/ faults)
    /\ NextFile
    /\ UNCHANGED <<input, size, cap, chunk, headers, call, want, pos, found>>

-----------------------------------------------------------------------------
(* mkb.c *)

VersionRec == 16
DvRec == IF file.is20 THEN 134 ELSE 129

Calls == {"mkb_type_and_version_record", "mkb_drive_revokation_entries",
          "mkb_host_revokation_entries", "mkb_subdiff_records", "mkb_cvalues", "mkb_mk_dv"}
FirstType(c) ==
    CASE c = "mkb_drive_revokation_entries" -> 32
      [] c = "mkb_host_revokation_entries" -> 33
      [] c = "mkb_subdiff_records" -> 4
      [] c = "mkb_cvalues" -> 5
      [] OTHER -> VersionRec           \* mkb_mk_dv() asks for the type of the MKB first
LeastLen(c) ==
    CASE c = "mkb_type_and_version_record" -> 12
      [] c = "mkb_mk_dv" -> 20
      [] OTHER -> 4

Lookup ==
    /\ pc = "lookup"
    /\ call' \in Calls
    /\ want' = FirstType(call') /\ pos' = 0 /\ pc' = "walk"
    /\ UNCHANGED <<input, reader, found>>

\* Does the record at pos reach beyond what was read (mutant: the bytes before it are
\* forgotten)?
TruncatedFromStart(len) == len > size
Truncated(len) == len > size - pos

\* _record() returns rec: to mkb_type(), then mkb_mk_dv() looks for the second record, or
\* to the caller, which rejects a record that is too short.
Returned(rec) ==
    LET long(n) == rec # Null /\ rec.len >= n
    IN  IF call = "mkb_mk_dv" /\ want = VersionRec
        THEN /\ want' = (IF long(12) THEN DvRec ELSE 129)
             /\ pos' = 0 /\ UNCHANGED <<pc, found>>
        ELSE /\ found' = (IF long(LeastLen(call)) THEN rec ELSE Null)
             /\ pc' = "done" /\ UNCHANGED <<want, pos>>

\* The record at pos is not the one: the next one, unless this one has no length (mutants:
\* the length does not count the header; a record without length does not end the walk).
SkipContents(len) == pos + 4 + len
Skip(len) == pos + len
NoEnd(len) == FALSE
End(len) == len = 0

\* One turn of the loop in _record().
Walk ==
    /\ pc = "walk"
    /\ IF pos + 4 > size THEN Returned(Null)
       ELSE LET h == file.hdr[pos]
            IN  CASE h.type = want /\ Truncated(h.len) -> Returned(Null)
                  [] h.type = want /\ ~Truncated(h.len) -> Returned([pos |-> pos, len |-> h.len])
                  [] h.type # want /\ End(h.len) -> Returned(Null)
                  [] h.type # want /\ ~End(h.len) ->
                        pos' = Skip(h.len) /\ UNCHANGED <<pc, want, found>>
    /\ UNCHANGED <<input, reader, call>>

Init ==
    /\ disc \in DOMAIN Discs /\ faults \in BOOLEAN
    /\ which = 1 /\ pc = "open"
    /\ size = 0 /\ cap = 0 /\ chunk = 4 /\ headers = {}
    /\ call = "mkb_mk_dv" /\ want = VersionRec /\ pos = 0 /\ found = Null

Next == Open \/ ReadChunk \/ ReadFails \/ Lookup \/ Walk

\* The thread that opens the disc goes on.
Spec == Init /\ [][Next]_vars /\ WF_vars(Next)

-----------------------------------------------------------------------------
\* Every variable has its type; what was read is inside the file.
TypeOK ==
    /\ disc \in DOMAIN Discs /\ faults \in BOOLEAN /\ which \in 1 .. 3
    /\ pc \in {"open", "read", "lookup", "walk", "done"}
    /\ (which = 3 => pc = "done")
    /\ size \in Nat /\ cap \in Nat /\ chunk \in Nat
    /\ (pc \in {"read", "lookup", "walk"} => size <= file.size)
    /\ call \in Calls /\ want \in Nat
    /\ pos \in Nat
    /\ found.pos \in Nat \cup {-1} /\ found.len \in Nat

\* file_read() is never asked for more than there is room for in the buffer.
ReadFits == pc = "read" => size + chunk <= cap

\* A header that _record() looks at is one that the reader has seen at that place: the
\* two walks over the file, which end for different reasons, agree on where records start.
WalkIsAligned == pc = "walk" /\ pos + 4 <= size => pos \in headers

\* A record that is returned is one of the file, whole and inside the buffer.
RecordIsWhole ==
    found # Null => /\ found.pos \in headers /\ found.pos + found.len <= size
                    /\ file.hdr[found.pos].type = want /\ file.hdr[found.pos].len = found.len

(* The records of a file, from its layout alone *)

\* Where the record behind the one at p starts.
AfterRecord(f, p) == IF p + 4 > f.size THEN f.size ELSE p + f.hdr[p].len
Starts(f) ==
    LET start[n \in Nat] == IF n = 0 THEN 0 ELSE AfterRecord(f, start[n - 1])
    IN  start
Offsets(f) ==
    LET start == Starts(f)
    IN  {start[n] : n \in 0 .. f.size \div 4} \cap 0 .. f.size - 4

\* The records are followed by padding, which reads as a record without length.
Padded(f) ==
    LET lens == {f.hdr[p].len : p \in Offsets(f)}
    IN  0 \in lens /\ lens \cap 1 .. 3 = {}

First(f, type) ==
    LET ps == {p \in Offsets(f) : f.hdr[p].type = type}
    IN  {p \in ps : \A q \in ps : p <= q}
Record(f, type, least) ==
    LET ps == {p \in First(f, type) : f.hdr[p].len >= least}
    IN  IF ps = {} THEN Null ELSE LET p == CHOOSE p \in ps : TRUE
                                  IN  [pos |-> p, len |-> f.hdr[p].len]
Answer(f, c) ==
    IF c # "mkb_mk_dv" THEN Record(f, FirstType(c), LeastLen(c))
    ELSE LET version == Record(f, VersionRec, 12)
         IN  Record(f, IF version # Null /\ f.is20 THEN 134 ELSE 129, LeastLen(c))

\* From a file whose records are followed by padding every record is found, and the first
\* of its type; the duplicate is used when the first file is missing, and only then.
PaddedFileIsFound ==
    pc = "done" =>
        /\ which <= 2 /\ Padded(file) => found = Answer(file, call)
        /\ ~faults /\ Padded(Discs[disc][1]) => which = 1
        /\ ~faults /\ Discs[disc][1].size < 4 /\ Padded(Discs[disc][2]) => which = 2
=============================================================================
