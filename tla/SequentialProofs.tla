-------------------------- MODULE SequentialProofs --------------------------
(***************************************************************************)
(* Proofs about the readers of three files of the disc, for files of every *)
(* size and with every content: the media key block (MkbFile), the unit    *)
(* key file (UnitKeyFile) and the usage files (CciFile); about the         *)
(* calculation of the media key from what the first one holds (MediaKey);  *)
(* and about the bytes of points of the curve (EcPoint).                   *)
(***************************************************************************)
EXTENDS MkbFile, UnitKeyFile, CciFile, MediaKey, EcPoint, SequenceTheorems,
        WellFoundedInduction, TLAPS

-----------------------------------------------------------------------------
(***************************************************************************)
(* The media key block.                                                    *)
(*                                                                         *)
(* The invariant says that the headers the reader has seen form a chain:   *)
(* it starts at offset 0, each header but the last is followed by the one  *)
(* its length points to, and the last one is the last four bytes read.     *)
(* The walk of _record() follows the same lengths, so it stays on the      *)
(* chain until it leaves the buffer.                                       *)
(***************************************************************************)

\* Is there a file being read or already read?
Active == which <= 2 /\ pc # "open"

\* The headers seen so far are linked by their lengths, from 0 to the last four bytes read.
Chain ==
    Active =>
        /\ headers \subseteq 0 .. size - 4
        /\ (size # 0 => 0 \in headers /\ size - 4 \in headers)
        /\ \A h \in headers : h # size - 4 => /\ file.hdr[h].len >= 4
                                              /\ h + file.hdr[h].len \in headers

\* What the loop of _read_mkb_file() knows at its head.
ReadState ==
    /\ pc = "read" => /\ chunk >= 4
                      /\ (size = 0 => chunk = 4)
                      /\ (size # 0 => size >= 4 /\ chunk = file.hdr[size - 4].len)
    /\ Active /\ pc # "read" => size >= 4
    /\ Active => size <= file.size

\* A record is returned only at the end of a search.
FoundState == found # Null => pc = "done" /\ which <= 2

IInv == TypeOK /\ Chain /\ ReadState /\ FoundState /\ ReadFits /\ WalkIsAligned /\ RecordIsWhole

-----------------------------------------------------------------------------
\* Both files of a disc are well-formed in the sense of the assumption.
LEMMA FileType ==
    ASSUME disc \in DOMAIN Discs, which \in 1 .. 2
    PROVE  /\ file.size \in Nat
           /\ \A p \in 0 .. file.size - 4 : file.hdr[p].type \in Nat /\ file.hdr[p].len \in Nat
BY MkbFileAssumption DEF IsFile, file

\* A search starts at the first header, or has no header to look at.
LEMMA InitInv == Init => IInv
<1> SUFFICES ASSUME Init PROVE IInv
    OBVIOUS
<1>1. TypeOK
    BY DEF Init, TypeOK, Null, VersionRec, Calls
<1>2. Chain /\ ReadState /\ FoundState /\ ReadFits /\ WalkIsAligned /\ RecordIsWhole
    BY DEF Init, Chain, Active, ReadState, FoundState, ReadFits, WalkIsAligned, RecordIsWhole
<1> QED BY <1>1, <1>2 DEF IInv

\* Every handler gives up a file in the same way.
LEMMA NextFileInv ==
    ASSUME IInv, NextFile, pc \in {"open", "read"},
           UNCHANGED <<input, call, want, pos, found, size, cap, chunk, headers>>
    PROVE  IInv'
<1>1. which \in 1 .. 2 /\ found = Null
    BY DEF IInv, TypeOK, FoundState
<1>2. TypeOK'
    BY <1>1 DEF IInv, TypeOK, NextFile, input, file
<1>3. ~Active'
    BY <1>1 DEF NextFile, Active
<1>4. pc' \notin {"read", "walk"} /\ found' = Null
    BY <1>1 DEF NextFile
<1>5. Chain' /\ ReadState' /\ FoundState' /\ ReadFits' /\ WalkIsAligned' /\ RecordIsWhole'
    BY <1>3, <1>4 DEF Chain, ReadState, FoundState, ReadFits, WalkIsAligned, RecordIsWhole, Null
<1> QED BY <1>2, <1>5 DEF IInv

LEMMA OpenInv == IInv /\ Open => IInv'
<1> SUFFICES ASSUME IInv, Open PROVE IInv'
    OBVIOUS
<1>1. CASE NextFile /\ UNCHANGED <<size, cap, chunk, headers>>
    BY <1>1, NextFileInv DEF Open
<1>2. CASE /\ file.size >= 4 /\ size' = 0 /\ cap' = Alloc /\ chunk' = 4 /\ headers' = {}
           /\ pc' = "read" /\ UNCHANGED which
    <2> USE <1>2, MkbFileAssumption
    <2>1. which \in 1 .. 2 /\ found = Null /\ disc \in DOMAIN Discs
        BY DEF IInv, TypeOK, FoundState, Open
    <2>2. file' = file /\ file.size \in Nat
        BY <2>1, FileType DEF Open, file, input
    <2>3. TypeOK'
        BY <2>1, <2>2 DEF IInv, TypeOK, Open, input
    <2>4. Chain' /\ ReadState' /\ ReadFits' /\ WalkIsAligned'
        BY <2>1, <2>2 DEF Chain, ReadState, ReadFits, WalkIsAligned, Active
    <2>5. FoundState' /\ RecordIsWhole'
        BY <2>1 DEF FoundState, RecordIsWhole, Open, Null
    <2> QED BY <2>3, <2>4, <2>5 DEF IInv
<1> QED BY <1>1, <1>2 DEF Open

\* The new header is where the length of the last one points to.
LEMMA ReadChunkInv == IInv /\ ReadChunk => IInv'
<1> SUFFICES ASSUME IInv, ReadChunk PROVE IInv'
    OBVIOUS
<1> DEFINE h == size + chunk - 4
           c == file.hdr[h].len
<1>1. which \in 1 .. 2 /\ found = Null /\ disc \in DOMAIN Discs /\ pc = "read"
    BY DEF IInv, TypeOK, FoundState, ReadChunk
<1>2. size \in Nat /\ cap \in Nat /\ chunk \in Nat /\ chunk >= 4
    BY <1>1 DEF IInv, TypeOK, ReadState
<1>3. file' = file /\ file.size \in Nat
    BY <1>1, FileType DEF ReadChunk, file, input
<1>4. h \in 0 .. file.size - 4 /\ c \in Nat
    BY <1>1, <1>2, <1>3, FileType DEF ReadChunk, ReadAll
<1>5. /\ size' = size + chunk /\ headers' = headers \cup {h} /\ chunk' = c
      /\ UNCHANGED <<input, which, call, want, pos, found>>
    BY DEF ReadChunk
<1>6. \/ pc' = "lookup" /\ cap' = cap
      \/ pc' = "lookup" /\ cap' = Grown(c)
      \/ pc' = "read" /\ cap' = Grown(c) /\ c >= 4
    BY DEF ReadChunk, HasRecord
<1>7. Grown(c) \in Nat /\ Grown(c) >= size + chunk + c
    BY <1>2, <1>4 DEF Grown
<1> HIDE DEF h, c
<1>8. TypeOK'
    BY <1>1, <1>2, <1>3, <1>4, <1>5, <1>6, <1>7 DEF IInv, TypeOK, ReadChunk, ReadAll, input
<1>9. ReadFits'
    BY <1>4, <1>5, <1>6, <1>7, <1>2 DEF ReadFits
<1>10. ReadState'
    <2>1. size' - 4 = h /\ size' >= 4 /\ size' <= file.size
        BY <1>2, <1>5, <1>3 DEF h, ReadChunk, ReadAll
    <2>2. file'.hdr[size' - 4].len = chunk'
        BY <2>1, <1>3, <1>5 DEF c
    <2> QED BY <2>1, <2>2, <1>2, <1>3, <1>4, <1>5, <1>6 DEF ReadState, Active
<1>11. Chain'
    <2>1. size' - 4 = h /\ size' \in Nat /\ size' >= 4 /\ size' >= size + 4
        BY <1>2, <1>5 DEF h
    <2>2. headers \subseteq 0 .. size - 4
        BY <1>1 DEF IInv, Chain, Active
    <2>3. headers' \subseteq 0 .. size' - 4
        BY <2>1, <2>2, <1>2, <1>4, <1>5
    <2>4. 0 \in headers' /\ size' - 4 \in headers'
        BY <2>1, <1>1, <1>2, <1>5 DEF IInv, Chain, ReadState, Active, h
    <2>5. ASSUME NEW g \in headers', g # size' - 4
          PROVE  file.hdr[g].len >= 4 /\ g + file.hdr[g].len \in headers'
        <3>1. g \in headers /\ size # 0
            BY <2>1, <2>2, <2>5, <1>2, <1>5
        <3>2. CASE g = size - 4
            BY <3>1, <3>2, <1>1, <1>2, <1>5, <2>1 DEF IInv, ReadState, h
        <3>3. CASE g # size - 4
            BY <3>1, <3>3, <1>1, <1>5 DEF IInv, Chain, Active
        <3> QED BY <3>2, <3>3
    <2> QED BY <2>3, <2>4, <2>5, <1>3 DEF Chain
<1>12. FoundState' /\ RecordIsWhole' /\ WalkIsAligned'
    BY <1>1, <1>5, <1>6 DEF FoundState, RecordIsWhole, WalkIsAligned, Null
<1> QED BY <1>8, <1>9, <1>10, <1>11, <1>12 DEF IInv

LEMMA ReadFailsInv == IInv /\ ReadFails => IInv'
BY NextFileInv DEF ReadFails

\* A step that leaves the reader alone keeps what is known about the reader.
LEMMA ReaderInv ==
    ASSUME IInv, pc \in {"lookup", "walk"}, pc' \in {"walk", "done"},
           UNCHANGED <<input, reader>>
    PROVE  Chain' /\ ReadState' /\ ReadFits' /\ file' = file /\ which \in 1 .. 2
<1>1. which \in 1 .. 2 /\ file' = file
    BY DEF IInv, TypeOK, file, input, reader
<1>2. Chain' /\ ReadState' /\ ReadFits'
    BY <1>1 DEF IInv, Chain, ReadState, ReadFits, Active, reader
<1> QED BY <1>1, <1>2

LEMMA LookupInv == IInv /\ Lookup => IInv'
<1> SUFFICES ASSUME IInv, Lookup PROVE IInv'
    OBVIOUS
<1>1. Chain' /\ ReadState' /\ ReadFits' /\ file' = file /\ which \in 1 .. 2
    BY ReaderInv DEF Lookup
<1>2. found' = Null
    BY DEF IInv, FoundState, Lookup
<1>3. TypeOK'
    BY <1>1 DEF IInv, TypeOK, Lookup, FirstType, VersionRec, input, reader
<1>4. WalkIsAligned'
    BY <1>1 DEF IInv, Chain, ReadState, Active, Lookup, reader, WalkIsAligned
<1>5. FoundState' /\ RecordIsWhole'
    BY <1>2 DEF FoundState, RecordIsWhole, Null
<1> QED BY <1>1, <1>3, <1>4, <1>5 DEF IInv

\* What a return of _record() does, whatever it returns.
LEMMA ReturnedInv ==
    ASSUME IInv, pc = "walk", UNCHANGED <<input, reader, call>>,
           NEW rec, Returned(rec),
           rec = Null \/ /\ rec = [pos |-> pos, len |-> file.hdr[pos].len]
                         /\ pos \in headers /\ pos + rec.len <= size
                         /\ file.hdr[pos].type = want /\ rec.len \in Nat
    PROVE  IInv'
<1>1. which \in 1 .. 2 /\ found = Null /\ size \in Nat /\ size >= 4
    BY DEF IInv, TypeOK, FoundState, ReadState, Active
<1>2. pc' \in {"walk", "done"}
    BY DEF Returned
<1>3. Chain' /\ ReadState' /\ ReadFits' /\ file' = file
    BY <1>2, ReaderInv
<1>4. CASE call = "mkb_mk_dv" /\ want = VersionRec
    <2>1. want' \in Nat /\ pos' = 0 /\ pc' = pc /\ found' = found
        BY <1>4 DEF Returned, DvRec
    <2>2. TypeOK'
        BY <2>1, <1>1, <1>3 DEF IInv, TypeOK, input, reader
    <2>3. WalkIsAligned' /\ FoundState' /\ RecordIsWhole'
        BY <2>1, <1>1 DEF IInv, Chain, Active, reader, WalkIsAligned, FoundState, RecordIsWhole, Null
    <2> QED BY <2>2, <2>3, <1>3 DEF IInv
<1>5. CASE ~(call = "mkb_mk_dv" /\ want = VersionRec)
    <2>1. (found' = rec \/ found' = Null) /\ pc' = "done" /\ want' = want /\ pos' = pos
        BY <1>5 DEF Returned
    <2>2. TypeOK'
        BY <2>1, <1>1, <1>3 DEF IInv, TypeOK, input, reader, Null
    <2>3. WalkIsAligned' /\ FoundState'
        BY <2>1, <1>1 DEF WalkIsAligned, FoundState, reader
    <2>4. RecordIsWhole'
        BY <2>1, <1>1, <1>3 DEF RecordIsWhole, reader
    <2> QED BY <2>2, <2>3, <2>4, <1>3 DEF IInv
<1> QED BY <1>4, <1>5

\* A step of the walk follows the chain, or leaves the buffer at its end.
LEMMA WalkInv == IInv /\ Walk => IInv'
<1> SUFFICES ASSUME IInv, Walk PROVE IInv'
    OBVIOUS
<1>1. pc = "walk" /\ which \in 1 .. 2 /\ size \in Nat /\ pos \in Nat /\ disc \in DOMAIN Discs
      /\ size <= file.size /\ want \in Nat /\ UNCHANGED <<input, reader, call>>
    BY DEF IInv, TypeOK, Walk
<1>2. CASE pos + 4 > size
    BY <1>1, <1>2, ReturnedInv DEF Walk
<1>3. CASE pos + 4 <= size
    <2> DEFINE r == file.hdr[pos]
    <2>1. pos \in headers
        BY <1>1, <1>3 DEF IInv, WalkIsAligned
    <2>2. file.size \in Nat /\ r.len \in Nat /\ r.type \in Nat
        BY <1>1, <1>3, FileType
    <2>3. CASE r.type = want /\ ~Truncated(r.len)
        <3>1. Returned([pos |-> pos, len |-> r.len])
            BY <1>1, <1>3, <2>3 DEF Walk
        <3>2. pos + r.len <= size
            BY <1>1, <2>2, <2>3 DEF Truncated
        <3> QED BY <3>1, <3>2, <2>1, <2>2, <2>3, <1>1, ReturnedInv
    <2>4. CASE (r.type = want /\ Truncated(r.len)) \/ (r.type # want /\ End(r.len))
        <3>1. Returned(Null)
            BY <1>1, <1>3, <2>4 DEF Walk
        <3> QED BY <3>1, <1>1, ReturnedInv
    <2>5. CASE r.type # want /\ ~End(r.len)
        <3>1. pos' = pos + r.len /\ r.len > 0 /\ UNCHANGED <<pc, want, found>>
            <4>1. ~(pos + 4 > size)
                BY <1>1, <1>3
            <4>2. pos' = Skip(r.len) /\ UNCHANGED <<pc, want, found>>
                BY <4>1, <2>5, Zenon DEF Walk
            <4> QED BY <4>2, <2>2, <2>5 DEF Skip, End
        <3>2. Chain' /\ ReadState' /\ ReadFits' /\ file' = file
            BY <3>1, <1>1, ReaderInv
        <3>3. TypeOK'
            BY <3>1, <3>2, <1>1, <2>2 DEF IInv, TypeOK, input, reader
        <3>4. WalkIsAligned'
            <4>1. CASE pos = size - 4
                BY <4>1, <3>1, <1>1, <2>2 DEF WalkIsAligned, reader
            <4>2. CASE pos # size - 4
                BY <4>2, <3>1, <1>1, <2>1 DEF IInv, Chain, Active, WalkIsAligned, reader
            <4> QED BY <4>1, <4>2
        <3>5. FoundState' /\ RecordIsWhole'
            BY <3>1, <1>1 DEF IInv, FoundState, RecordIsWhole
        <3> QED BY <3>2, <3>3, <3>4, <3>5 DEF IInv
    <2> QED BY <2>3, <2>4, <2>5
<1> QED BY <1>1, <1>2, <1>3

-----------------------------------------------------------------------------
\* The invariant holds in every state, whatever the files of the disc contain.
THEOREM Invariant == Spec => []IInv
<1>1. IInv /\ [Next]_vars => IInv'
    <2> SUFFICES ASSUME IInv, [Next]_vars PROVE IInv'
        OBVIOUS
    <2>1. CASE Next
        BY <2>1, OpenInv, ReadChunkInv, ReadFailsInv, LookupInv, WalkInv DEF Next
    <2>2. CASE UNCHANGED vars
        BY <2>2 DEF vars, input, reader, IInv, TypeOK, Chain, Active, ReadState, FoundState,
            ReadFits, WalkIsAligned, RecordIsWhole, file
    <2> QED BY <2>1, <2>2
<1> QED BY <1>1, InitInv, PTL DEF Spec

\* _read_mkb_file() never asks for more bytes than the buffer has room for.
THEOREM ReadsFit == Spec => []ReadFits
<1>1. IInv => ReadFits
    BY DEF IInv
<1> QED BY <1>1, Invariant, PTL

\* _record() looks only at headers the reader has seen, for every file.
THEOREM WalksAreAligned == Spec => []WalkIsAligned
<1>1. IInv => WalkIsAligned
    BY DEF IInv
<1> QED BY <1>1, Invariant, PTL

\* The record _record() returns lies inside the buffer and is one of the file, for every file.
THEOREM RecordsAreWhole == Spec => []RecordIsWhole
<1>1. IInv => RecordIsWhole
    BY DEF IInv
<1> QED BY <1>1, Invariant, PTL

-----------------------------------------------------------------------------
(* The records of a file                                                   *)

\* The least-number principle, from the well-foundedness of < on the naturals.
LEMMA NatOrder == \E R : IsWellFoundedOn(R, Nat) /\ \A x, y \in Nat : x < y => <<x, y>> \in R
<1>1. \A x, y \in Nat : x < y => <<x, y>> \in OpToRel(<, Nat)
    BY DEF OpToRel
<1> QED BY <1>1, NatLessThanWellFounded, Zenon

LEMMA LeastNatural ==
    ASSUME NEW T, T \subseteq Nat, T # {}
    PROVE  \E x \in T : \A y \in T : x <= y
<1>1. PICK R : IsWellFoundedOn(R, Nat) /\ \A x, y \in Nat : x < y => <<x, y>> \in R
    BY NatOrder
<1>2. IsWellFoundedOn(R, Nat)
    BY <1>1
<1>3. PICK x \in T : \A y \in T : ~(<<y, x>> \in R)
    BY <1>2, WFMin
<1>4. ASSUME NEW y \in T PROVE x <= y
    <2>1. x \in Nat /\ y \in Nat
        OBVIOUS
    <2>2. ~(y < x)
        BY <1>1, <1>3, <2>1
    <2> QED BY <2>1, <2>2
<1> QED BY <1>4

\* The first n values of a function that is defined by iterating a function step, from a on.
Iterates(step, a, n, s) ==
    /\ s \in [0 .. n -> Nat] /\ s[0] = a
    /\ \A i \in 1 .. n : s[i] = step[s[i - 1]]

LEMMA IteratesAgree ==
    ASSUME NEW step, NEW a, NEW n \in Nat, NEW m \in Nat, NEW s, NEW t,
           Iterates(step, a, n, s), Iterates(step, a, m, t), NEW i \in Nat, i <= n, i <= m
    PROVE  s[i] = t[i]
<1> DEFINE T == {j \in Nat : j <= n /\ j <= m /\ s[j] # t[j]}
<1>1. SUFFICES ASSUME T # {} PROVE FALSE
    OBVIOUS
<1>2. PICK k \in T : \A y \in T : k <= y
    <2>1. T \subseteq Nat
        OBVIOUS
    <2> HIDE DEF T
    <2> QED BY <1>1, <2>1, LeastNatural
<1>3. k # 0
    BY <1>2 DEF Iterates
<1>4. k - 1 \in Nat /\ k - 1 \notin T /\ k \in 1 .. n /\ k \in 1 .. m
    BY <1>2, <1>3
<1>5. s[k - 1] = t[k - 1]
    BY <1>2, <1>4
<1>6. s[k] = step[s[k - 1]] /\ t[k] = step[t[k - 1]]
    BY <1>4 DEF Iterates
<1> QED BY <1>2, <1>5, <1>6

LEMMA IteratesExist ==
    ASSUME NEW step \in [Nat -> Nat], NEW a \in Nat, NEW n \in Nat
    PROVE  \E s : Iterates(step, a, n, s)
<1> DEFINE T == {j \in Nat : ~\E s : Iterates(step, a, j, s)}
<1>1. SUFFICES ASSUME T # {} PROVE FALSE
    OBVIOUS
<1>2. PICK k \in T : \A y \in T : k <= y
    <2>1. T \subseteq Nat
        OBVIOUS
    <2> HIDE DEF T
    <2> QED BY <1>1, <2>1, LeastNatural
<1>3. k # 0
    <2>1. Iterates(step, a, 0, [i \in 0 .. 0 |-> a])
        BY DEF Iterates
    <2> QED BY <1>2, <2>1
<1>4. k - 1 \in Nat /\ k - 1 \notin T
    BY <1>2, <1>3
<1>5. PICK s : Iterates(step, a, k - 1, s)
    BY <1>4
<1> DEFINE t == [i \in 0 .. k |-> IF i = k THEN step[s[k - 1]] ELSE s[i]]
<1>6. s[k - 1] \in Nat
    BY <1>4, <1>5 DEF Iterates
<1>7. Iterates(step, a, k, t)
    <2>1. \A i \in 0 .. k - 1 : s[i] \in Nat /\ t[i] = s[i]
        <3>1. \A i \in 0 .. k - 1 : i \in 0 .. k /\ i # k
            BY <1>2
        <3>2. \A i \in 0 .. k - 1 : s[i] \in Nat
            BY <1>5 DEF Iterates
        <3> QED BY <3>1, <3>2
    <2>2. t[k] = step[s[k - 1]] /\ t[k] \in Nat
        BY <1>2, <1>6
    <2>3. t \in [0 .. k -> Nat]
        <3>1. t = [i \in 0 .. k |-> t[i]]
            OBVIOUS
        <3> HIDE DEF t
        <3>2. \A i \in 0 .. k : i \in 0 .. k - 1 \/ i = k
            BY <1>2
        <3>3. \A i \in 0 .. k : t[i] \in Nat
            BY <3>2, <2>1, <2>2
        <3> QED BY <3>1, <3>3
    <2>4. t[0] = a
        BY <1>3, <1>4, <1>5, <2>1 DEF Iterates
    <2>5. ASSUME NEW i \in 1 .. k PROVE t[i] = step[t[i - 1]]
        <3>1. i - 1 \in 0 .. k - 1
            BY <1>2
        <3>2. CASE i = k
            BY <2>1, <2>2, <3>1, <3>2
        <3>3. CASE i # k
            <4>1. i \in 1 .. k - 1 /\ i \in 0 .. k - 1
                BY <1>2, <3>3
            <4>2. s[i] = step[s[i - 1]]
                BY <1>5, <4>1 DEF Iterates
            <4> HIDE DEF t
            <4> QED BY <2>1, <3>1, <4>1, <4>2
        <3> QED BY <3>2, <3>3
    <2> HIDE DEF t
    <2> QED BY <2>3, <2>4, <2>5 DEF Iterates
<1> QED BY <1>2, <1>7

\* The definition by iteration has a solution.
LEMMA Iteration ==
    ASSUME NEW step \in [Nat -> Nat], NEW a \in Nat
    PROVE  \E g \in [Nat -> Nat] : g[0] = a /\ \A n \in Nat : n # 0 => g[n] = step[g[n - 1]]
<1> DEFINE pick(n) == CHOOSE s : Iterates(step, a, n, s)
           g == [n \in Nat |-> pick(n)[n]]
<1>1. ASSUME NEW n \in Nat PROVE Iterates(step, a, n, pick(n))
    BY IteratesExist
<1> HIDE DEF pick
<1>2. g[0] = a
    BY <1>1 DEF Iterates
<1>3. ASSUME NEW n \in Nat PROVE g[n] \in Nat
    BY <1>1 DEF Iterates
<1>4. ASSUME NEW n \in Nat, n # 0 PROVE g[n] = step[g[n - 1]]
    <2>1. n - 1 \in Nat /\ n \in 1 .. n /\ n - 1 <= n /\ n - 1 <= n - 1
        BY <1>4
    <2>2. Iterates(step, a, n, pick(n)) /\ Iterates(step, a, n - 1, pick(n - 1))
        BY <1>1, <2>1
    <2>3. pick(n)[n] = step[pick(n)[n - 1]]
        BY <2>1, <2>2 DEF Iterates
    <2>4. pick(n)[n - 1] = pick(n - 1)[n - 1]
        BY <2>1, <2>2, IteratesAgree
    <2> QED BY <2>1, <2>3, <2>4
<1>5. g \in [Nat -> Nat]
    <2>1. g = [n \in Nat |-> g[n]]
        OBVIOUS
    <2> HIDE DEF g
    <2> QED BY <1>3, <2>1
<1> HIDE DEF g
<1> QED BY <1>2, <1>4, <1>5

LEMMA AfterRecordType == ASSUME NEW f, IsFile(f), NEW p \in Nat PROVE AfterRecord(f, p) \in Nat
<1>1. CASE p + 4 > f.size
    BY <1>1 DEF AfterRecord, IsFile
<1>2. CASE ~(p + 4 > f.size)
    <2>1. p \in 0 .. f.size - 4
        BY <1>2 DEF IsFile
    <2>2. f.hdr[p].len \in Nat
        BY <2>1 DEF IsFile
    <2> QED BY <1>2, <2>2 DEF AfterRecord
<1> QED BY <1>1, <1>2

\* The recursive definition of the starts has a solution, for every file.
LEMMA StartsFacts ==
    ASSUME NEW f, IsFile(f)
    PROVE  /\ Starts(f) \in [Nat -> Nat] /\ Starts(f)[0] = 0
           /\ \A n \in Nat : Starts(f)[n + 1] = AfterRecord(f, Starts(f)[n])
<1> DEFINE step == [p \in Nat |-> AfterRecord(f, p)]
           IsSolution(h) == h = [n \in Nat |-> IF n = 0 THEN 0 ELSE AfterRecord(f, h[n - 1])]
<1>1. step \in [Nat -> Nat] /\ 0 \in Nat
    BY AfterRecordType
<1>2. PICK g \in [Nat -> Nat] : g[0] = 0 /\ \A n \in Nat : n # 0 => g[n] = step[g[n - 1]]
    <2> HIDE DEF step
    <2> QED BY <1>1, Iteration
<1>3. ASSUME NEW n \in Nat, n # 0 PROVE g[n] = AfterRecord(f, g[n - 1])
    <2>1. n - 1 \in Nat /\ g[n - 1] \in Nat
        BY <1>3
    <2> QED BY <1>2, <1>3, <2>1
<1>4. IsSolution(g)
    <2>1. g = [n \in Nat |-> g[n]]
        OBVIOUS
    <2> QED BY <1>2, <1>3, <2>1
<1>5. Starts(f) = CHOOSE h : IsSolution(h)
    BY DEF Starts
<1>6. IsSolution(Starts(f))
    <2> HIDE DEF IsSolution
    <2> QED BY <1>4, <1>5
<1> DEFINE h == Starts(f)
<1>7. h = [n \in Nat |-> IF n = 0 THEN 0 ELSE AfterRecord(f, h[n - 1])]
    BY <1>6
<1> HIDE DEF h
<1>8. h[0] = 0 /\ \A n \in Nat : h[n + 1] = AfterRecord(f, h[n])
    BY <1>7
<1>9. ASSUME NEW n \in Nat PROVE h[n] \in Nat
    <2> DEFINE T == {j \in Nat : h[j] \notin Nat}
    <2>1. SUFFICES ASSUME T # {} PROVE FALSE
        OBVIOUS
    <2>2. PICK k \in T : \A y \in T : k <= y
        <3>1. T \subseteq Nat
            OBVIOUS
        <3> HIDE DEF T
        <3> QED BY <2>1, <3>1, LeastNatural
    <2>3. k # 0
        BY <2>2, <1>8
    <2>4. k - 1 \in Nat /\ k - 1 \notin T /\ k - 1 + 1 = k
        BY <2>2, <2>3
    <2>5. h[k] = AfterRecord(f, h[k - 1]) /\ h[k - 1] \in Nat
        BY <1>8, <2>4
    <2> QED BY <2>2, <2>5, AfterRecordType
<1> QED BY <1>7, <1>8, <1>9 DEF h

\* A start inside the file has all the ones in front of it inside the file.
LEMMA StartsGrow ==
    ASSUME NEW f, IsFile(f), NEW n \in Nat, Starts(f)[n] + 4 <= f.size, NEW i \in Nat, i <= n
    PROVE  Starts(f)[i] + 4 <= f.size /\ Starts(f)[i] <= Starts(f)[n]
<1> DEFINE s == Starts(f)
           T == {j \in Nat : j <= n /\ ~(s[n - j] + 4 <= f.size /\ s[n - j] <= s[n])}
<1>1. /\ \A j \in Nat : s[j] \in Nat
      /\ \A j \in Nat : s[j + 1] = AfterRecord(f, s[j])
      /\ f.size \in Nat /\ \A p \in 0 .. f.size - 4 : f.hdr[p].len \in Nat
    BY StartsFacts DEF IsFile
<1> HIDE DEF s
<1>2. n - i \notin T
    <2>1. SUFFICES ASSUME T # {} PROVE FALSE
        OBVIOUS
    <2>2. PICK k \in T : \A y \in T : k <= y
        <3>1. T \subseteq Nat
            OBVIOUS
        <3> HIDE DEF T
        <3> QED BY <2>1, <3>1, LeastNatural
    <2>3. k # 0
        BY <1>1, <2>2 DEF s
    <2>4. k - 1 \in Nat /\ k - 1 \notin T /\ k - 1 <= n
        BY <2>2, <2>3
    <2> DEFINE q == n - k
    <2>5. q \in Nat /\ n - (k - 1) = q + 1
        BY <2>2
    <2>6. s[q + 1] + 4 <= f.size /\ s[q + 1] <= s[n]
        BY <2>4, <2>5
    <2>7. ~(s[q] + 4 <= f.size /\ s[q] <= s[n])
        BY <2>2
    <2> HIDE DEF q, T
    <2>8. s[q + 1] = AfterRecord(f, s[q]) /\ s[q] \in Nat /\ s[q + 1] \in Nat /\ s[n] \in Nat
        BY <1>1, <2>5
    <2>9. CASE s[q] + 4 > f.size
        BY <1>1, <2>6, <2>8, <2>9 DEF AfterRecord
    <2>10. CASE ~(s[q] + 4 > f.size)
        <3>1. s[q] \in 0 .. f.size - 4
            BY <1>1, <2>8, <2>10
        <3>2. s[q + 1] = s[q] + f.hdr[s[q]].len /\ f.hdr[s[q]].len \in Nat
            BY <1>1, <2>8, <2>10, <3>1 DEF AfterRecord
        <3> QED BY <1>1, <2>6, <2>7, <2>8, <2>10, <3>2
    <2> QED BY <2>9, <2>10
<1>3. n - i \in Nat /\ n - i <= n /\ n - (n - i) = i
    OBVIOUS
<1>4. s[i] + 4 <= f.size /\ s[i] <= s[n]
    BY <1>2, <1>3
<1> QED BY <1>4 DEF s

\* The records of a file with padding: the padding is the last one, each of the others is
\* followed by the one its length points to, and there is nothing between them.
LEMMA OffsetFacts ==
    ASSUME NEW f, IsFile(f), Padded(f)
    PROVE  /\ f.size >= 4 /\ 0 \in Offsets(f)
           /\ \A p \in Offsets(f) : p \in 0 .. f.size - 4
           /\ \A p \in Offsets(f) : f.hdr[p].len = 0 => \A q \in Offsets(f) : q <= p
           /\ \A p \in Offsets(f) : f.hdr[p].len # 0 =>
                  /\ f.hdr[p].len >= 4 /\ p + f.hdr[p].len \in Offsets(f)
                  /\ \A q \in Offsets(f) : p < q => p + f.hdr[p].len <= q
<1> DEFINE s == Starts(f)
           N == f.size \div 4
<1>1. /\ \A j \in Nat : s[j] \in Nat
      /\ \A j \in Nat : s[j + 1] = AfterRecord(f, s[j])
      /\ s[0] = 0
      /\ f.size \in Nat /\ \A p \in 0 .. f.size - 4 : f.hdr[p].len \in Nat
    BY StartsFacts DEF IsFile
<1>2. N \in Nat
    BY <1>1
<1>3. Offsets(f) = {s[n] : n \in 0 .. N} \cap 0 .. f.size - 4
    BY DEF Offsets
<1>4. \A i, n \in Nat : s[n] + 4 <= f.size /\ i <= n => s[i] + 4 <= f.size /\ s[i] <= s[n]
    BY StartsGrow
<1> HIDE DEF s, N
<1>5. \A p : p \in Offsets(f) <=> \E n \in Nat : n <= N /\ p = s[n] /\ s[n] + 4 <= f.size
    BY <1>1, <1>2, <1>3
<1>6. \A n \in Nat : s[n] + 4 <= f.size => s[n + 1] = s[n] + f.hdr[s[n]].len
    BY <1>1 DEF AfterRecord
<1>7. /\ \E p \in Offsets(f) : f.hdr[p].len = 0
      /\ \A p \in Offsets(f) : f.hdr[p].len \notin 1 .. 3
    BY DEF Padded
<1>8. PICK k \in Nat : k <= N /\ s[k] + 4 <= f.size /\ f.hdr[s[k]].len = 0
    BY <1>5, <1>7
<1>9. \A p \in Offsets(f) : p \in 0 .. f.size - 4
    BY <1>3
<1>10. f.size >= 4 /\ 0 \in Offsets(f)
    <2>1. f.size >= 4
        BY <1>1, <1>8
    <2> QED BY <1>1, <1>2, <1>5, <2>1
\* Behind a record without length there is nothing but the record itself.
<1>11. ASSUME NEW m \in Nat, s[m] + 4 <= f.size, f.hdr[s[m]].len = 0, NEW n \in Nat, m <= n
       PROVE  s[n] = s[m]
    <2> DEFINE T == {j \in Nat : m <= j /\ s[j] # s[m]}
    <2>1. SUFFICES ASSUME T # {} PROVE FALSE
        BY <1>11
    <2>2. PICK j \in T : \A y \in T : j <= y
        <3>1. T \subseteq Nat
            OBVIOUS
        <3> HIDE DEF T
        <3> QED BY <2>1, <3>1, LeastNatural
    <2>3. j # m /\ j - 1 \in Nat /\ m <= j - 1 /\ j - 1 \notin T /\ j - 1 + 1 = j
        BY <2>2
    <2>4. s[j - 1] = s[m]
        BY <2>3
    <2>5. s[j] = s[j - 1] + f.hdr[s[j - 1]].len
        BY <1>6, <1>11, <2>3, <2>4
    <2>6. s[j] = s[m]
        BY <1>1, <1>11, <2>4, <2>5
    <2> QED BY <2>2, <2>6
<1>12. ASSUME NEW p \in Offsets(f), f.hdr[p].len = 0, NEW q \in Offsets(f) PROVE q <= p
    <2>1. PICK m \in Nat : p = s[m] /\ s[m] + 4 <= f.size
        BY <1>5
    <2>2. PICK n \in Nat : q = s[n] /\ s[n] + 4 <= f.size
        BY <1>5
    <2>3. CASE m <= n
        BY <1>1, <1>11, <1>12, <2>1, <2>2, <2>3
    <2>4. CASE n <= m
        BY <1>4, <2>1, <2>2, <2>4
    <2> QED BY <2>3, <2>4
<1>13. ASSUME NEW p \in Offsets(f), f.hdr[p].len # 0
       PROVE  /\ f.hdr[p].len >= 4 /\ p + f.hdr[p].len \in Offsets(f)
              /\ \A q \in Offsets(f) : p < q => p + f.hdr[p].len <= q
    <2>1. PICK m \in Nat : m <= N /\ p = s[m] /\ s[m] + 4 <= f.size
        BY <1>5
    <2>2. f.hdr[p].len \in Nat /\ f.hdr[p].len >= 4
        <3>1. PICK n \in Nat : n = f.hdr[p].len
            BY <1>1, <1>9
        <3>2. n \notin 1 .. 3 /\ n # 0
            BY <1>7, <1>13, <3>1
        <3> QED BY <3>1, <3>2
    <2>3. s[m + 1] = p + f.hdr[p].len
        BY <1>6, <2>1
    <2>4. m < k
        <3> SUFFICES ASSUME k <= m PROVE FALSE
            OBVIOUS
        <3>1. s[m] = s[k]
            BY <1>8, <1>11
        <3> QED BY <1>8, <1>13, <2>1, <3>1
    <2>5. m + 1 \in Nat /\ m + 1 <= k /\ m + 1 <= N
        BY <1>2, <1>8, <2>4
    <2>6. s[m + 1] + 4 <= f.size
        BY <1>4, <1>8, <2>5
    <2>7. p + f.hdr[p].len \in Offsets(f)
        BY <1>5, <2>3, <2>5, <2>6
    <2>8. ASSUME NEW q \in Offsets(f), p < q PROVE p + f.hdr[p].len <= q
        <3>1. PICK n \in Nat : q = s[n] /\ s[n] + 4 <= f.size
            BY <1>5
        <3>2. ~(n <= m)
            <4> SUFFICES ASSUME n <= m PROVE FALSE
                OBVIOUS
            <4>1. s[n] <= s[m]
                BY <1>4, <2>1
            <4> QED BY <1>1, <2>1, <2>8, <3>1, <4>1
        <3>3. m + 1 <= n
            BY <3>2
        <3> QED BY <1>4, <2>3, <2>5, <3>1, <3>3
    <2> QED BY <2>2, <2>7, <2>8
<1> QED BY <1>9, <1>10, <1>12, <1>13

-----------------------------------------------------------------------------
(* A file with padding is found                                            *)

\* The first record of a type decides.
LEMMA RecordFound ==
    ASSUME NEW f, NEW type, NEW least, NEW p \in Offsets(f), Offsets(f) \subseteq Nat, f.hdr[p].type = type,
           \A q \in Offsets(f) : q < p => f.hdr[q].type # type
    PROVE  Record(f, type, least) =
               IF f.hdr[p].len >= least THEN [pos |-> p, len |-> f.hdr[p].len] ELSE Null
<1>1. First(f, type) = {p}
    <2>1. p \in First(f, type)
        BY DEF First
    <2>2. ASSUME NEW q \in First(f, type) PROVE q = p
        <3>1. q \in Offsets(f) /\ f.hdr[q].type = type /\ q <= p
            BY DEF First
        <3> QED BY <3>1
    <2> QED BY <2>1, <2>2
<1> DEFINE ps == {q \in First(f, type) : f.hdr[q].len >= least}
           rec(q) == [pos |-> q, len |-> f.hdr[q].len]
<1>2. Record(f, type, least) = IF ps = {} THEN Null ELSE rec(CHOOSE q \in ps : TRUE)
    BY DEF Record
<1>3. CASE f.hdr[p].len >= least
    <2>1. ps = {p}
        BY <1>1, <1>3
    <2> HIDE DEF ps
    <2>2. (CHOOSE q \in ps : TRUE) = p
        BY <2>1
    <2> QED BY <1>2, <1>3, <2>1, <2>2
<1>4. CASE ~(f.hdr[p].len >= least)
    <2>1. ps = {}
        BY <1>1, <1>4
    <2> QED BY <1>2, <1>4, <2>1
<1> QED BY <1>3, <1>4

LEMMA RecordMissing ==
    ASSUME NEW f, NEW type, NEW least, \A q \in Offsets(f) : f.hdr[q].type # type
    PROVE  Record(f, type, least) = Null
BY DEF Record, First

\* The type mkb_mk_dv() looks for in the end.
SecondType(f) == IF Record(f, VersionRec, 12) # Null /\ f.is20 THEN 134 ELSE 129

\* _record() looks for what the caller asked for.
WantsRight(f) ==
    /\ call # "mkb_mk_dv" => want = FirstType(call)
    /\ call = "mkb_mk_dv" => want \in {VersionRec, SecondType(f)}

\* The reader follows the records up to the padding, and the walk has passed only records
\* of other types.
OnRecords(f) ==
    /\ headers \subseteq Offsets(f)
    /\ pc # "read" => f.hdr[size - 4].len = 0
    /\ pc = "walk" => /\ pos \in Offsets(f) /\ WantsRight(f)
                      /\ \A q \in Offsets(f) : q < pos => f.hdr[q].type # want
    /\ pc = "done" => found = Answer(f, call)

\* The file that is read is the one that should be.
RightFile ==
    /\ ~faults /\ Padded(Discs[disc][1]) => which = 1
    /\ ~faults /\ Discs[disc][1].size < 4 /\ Padded(Discs[disc][2]) => which = 2 \/ (which = 1 /\ pc = "open")

PInv == RightFile /\ (Active /\ Padded(file) => OnRecords(file))

LEMMA IsFileNow == ASSUME IInv, which <= 2 PROVE which \in 1 .. 2 /\ IsFile(file) /\ disc \in DOMAIN Discs
BY MkbFileAssumption DEF IInv, TypeOK, file

\* With padding the reader is never asked for more than there is.
LEMMA PaddedReads ==
    ASSUME IInv, PInv, pc = "read", Padded(file)
    PROVE  ReadAll /\ size + chunk - 4 \in Offsets(file) /\ which <= 2
<1>1. which <= 2 /\ Active
    BY DEF IInv, TypeOK, Active
<1>2. IsFile(file) /\ headers \subseteq Offsets(file)
    BY <1>1, IsFileNow DEF PInv, OnRecords
<1>3. size \in Nat /\ chunk \in Nat /\ file.size \in Nat
    BY <1>2 DEF IInv, TypeOK, IsFile
<1>4. CASE size = 0
    <2>1. chunk = 4 /\ file.size >= 4 /\ 0 \in Offsets(file)
        BY <1>2, <1>4, OffsetFacts DEF IInv, ReadState
    <2> QED BY <1>1, <1>3, <1>4, <2>1 DEF ReadAll
<1>5. CASE size # 0
    <2> DEFINE g == size - 4
    <2>1. g \in Offsets(file) /\ chunk = file.hdr[g].len /\ chunk >= 4 /\ size >= 4
        BY <1>1, <1>2, <1>5 DEF IInv, Chain, ReadState
    <2>2. g + chunk \in Offsets(file) /\ g + chunk \in 0 .. file.size - 4
        <3>1. file.hdr[g].len # 0
            BY <1>3, <2>1
        <3> QED BY <1>2, <2>1, <3>1, OffsetFacts
    <2>3. g + chunk = size + chunk - 4
        BY <1>3
    <2> QED BY <1>1, <1>3, <2>2, <2>3 DEF ReadAll
<1> QED BY <1>4, <1>5

LEMMA PNextFile ==
    ASSUME IInv, PInv, NextFile, pc \in {"open", "read"}, UNCHANGED input,
           ~faults => ~Padded(file)
    PROVE  PInv'
<1>1. which \in 1 .. 2 /\ disc' = disc /\ faults' = faults
    BY DEF IInv, TypeOK, input
<1>2. RightFile'
    <2>1. (~faults /\ Padded(Discs[disc][1]))' <=> (~faults /\ Padded(Discs[disc][1]))
        BY <1>1
    <2>2. (Padded(Discs[disc][2]))' <=> Padded(Discs[disc][2])
        BY <1>1
    <2>3. ~(~faults /\ Padded(Discs[disc][1]))
        BY <1>1 DEF PInv, RightFile, file
    <2>4. CASE which = 1
        BY <1>1, <2>1, <2>3, <2>4 DEF RightFile, NextFile
    <2>5. CASE which = 2
        BY <1>1, <2>1, <2>2, <2>3, <2>5 DEF RightFile, file
    <2> QED BY <1>1, <2>4, <2>5
<1>3. ~Active'
    BY <1>1 DEF NextFile, Active
<1> QED BY <1>2, <1>3 DEF PInv

LEMMA POpen == ASSUME IInv, PInv, Open PROVE PInv'
<1>1. pc = "open" /\ UNCHANGED input /\ which \in 1 .. 2 /\ IsFile(file)
    BY IsFileNow DEF Open, IInv, TypeOK
<1>2. CASE (file.size < 4 \/ faults) /\ NextFile
    <2>1. ~faults => ~Padded(file)
        BY <1>1, <1>2, OffsetFacts DEF IsFile
    <2> QED BY <1>1, <1>2, <2>1, PNextFile
<1>3. CASE file.size >= 4 /\ headers' = {} /\ pc' = "read" /\ which' = which
    <2>1. disc' = disc /\ faults' = faults /\ file' = file
        BY <1>1, <1>3 DEF input, file
    <2>2. RightFile'
        <3>1. (Padded(Discs[disc][1]))' <=> Padded(Discs[disc][1])
            BY <2>1
        <3>2. ~(which = 1 /\ Discs[disc][1].size < 4)
            BY <1>1, <1>3 DEF file, IsFile
        <3> QED BY <1>1, <1>3, <2>1, <3>1, <3>2 DEF PInv, RightFile
    <2>3. OnRecords(file)'
        BY <1>3 DEF OnRecords
    <2> QED BY <2>2, <2>3 DEF PInv
<1> QED BY <1>2, <1>3 DEF Open

LEMMA PReadFails == ASSUME IInv, PInv, ReadFails PROVE PInv'
<1>1. ~faults => ~Padded(file)
    BY PaddedReads DEF ReadFails
<1> QED BY <1>1, PNextFile DEF ReadFails

\* A step with the same disc and file keeps the choice of the file.
LEMMA PSameFile ==
    ASSUME IInv, PInv, UNCHANGED input, which' = which, pc # "open"
    PROVE  RightFile' /\ file' = file /\ (Padded(file)' <=> Padded(file))
<1>1. disc' = disc /\ faults' = faults
    BY DEF input
<1>2. file' = file
    BY <1>1 DEF file
<1>3. (Padded(Discs[disc][1]))' <=> Padded(Discs[disc][1])
    BY <1>1
<1>4. (Padded(Discs[disc][2]))' <=> Padded(Discs[disc][2])
    BY <1>1
<1>5. Padded(file)' <=> Padded(file)
    BY <1>2
<1> QED BY <1>1, <1>2, <1>3, <1>4, <1>5 DEF PInv, RightFile

LEMMA PReadChunk == ASSUME IInv, PInv, ReadChunk PROVE PInv'
<1> DEFINE h == size + chunk - 4
           c == file.hdr[h].len
<1>1. RightFile' /\ file' = file /\ (Padded(file)' <=> Padded(file)) /\ pc = "read"
    BY PSameFile DEF ReadChunk
<1>2. ASSUME Padded(file) PROVE OnRecords(file)'
    <2>1. h \in Offsets(file) /\ which <= 2 /\ Active
        BY <1>1, <1>2, PaddedReads DEF Active
    <2>2. IsFile(file) /\ headers \subseteq Offsets(file)
        BY <1>2, <2>1, IsFileNow DEF PInv, OnRecords
    <2>3. size \in Nat /\ chunk \in Nat /\ file.size \in Nat /\ c \in Nat
        BY <1>2, <2>1, <2>2, OffsetFacts DEF IInv, TypeOK, IsFile
    <2>4. size' = size + chunk /\ headers' = headers \cup {h}
        BY DEF ReadChunk
    <2>5. size' - 4 = h
        BY <2>3, <2>4
    <2>6. c # 0 => c >= 4 /\ h + c \in 0 .. file.size - 4
        BY <1>2, <2>1, <2>2, OffsetFacts
    <2>7. h \in 0 .. file.size - 4
        BY <1>2, <2>1, <2>2, OffsetFacts
    <2>8. ~TooLarge(c)
        <3> HIDE DEF c
        <3> QED BY <2>3, <2>6, <2>7 DEF TooLarge
    <2>9. pc' = IF HasRecord(c) THEN "read" ELSE "lookup"
        BY <2>8 DEF ReadChunk
    <2>10. pc' # "read" => c = 0
        BY <2>6, <2>9 DEF HasRecord
    <2>11. pc' \in {"read", "lookup"}
        BY <2>9
    <2>12. headers' \subseteq Offsets(file)
        BY <2>1, <2>2, <2>4
    <2>13. pc' # "read" => file.hdr[size' - 4].len = 0
        BY <2>5, <2>10
    <2> QED BY <1>1, <2>11, <2>12, <2>13 DEF OnRecords
<1> QED BY <1>1, <1>2 DEF PInv

LEMMA PLookup == ASSUME IInv, PInv, Lookup PROVE PInv'
<1>1. RightFile' /\ file' = file /\ (Padded(file)' <=> Padded(file)) /\ pc = "lookup"
    BY PSameFile DEF Lookup, reader
<1>2. ASSUME Padded(file) PROVE OnRecords(file)'
    <2>1. which <= 2 /\ Active
        BY <1>1 DEF IInv, TypeOK, Active
    <2>2. IsFile(file) /\ OnRecords(file)
        BY <1>2, <2>1, IsFileNow DEF PInv
    <2>3. /\ pc' = "walk" /\ pos' = 0 /\ want' = FirstType(call') /\ call' \in Calls
          /\ headers' = headers /\ size' = size
        BY DEF Lookup, reader
    <2>4. WantsRight(file)'
        <3>1. call' = "mkb_mk_dv" => FirstType(call') = VersionRec
            BY Zenon DEF FirstType
        <3> QED BY <2>3, <3>1 DEF WantsRight
    <2>5. 0 \in Offsets(file) /\ \A q \in Offsets(file) : ~(q < 0)
        BY <1>2, <2>2, OffsetFacts DEF IsFile
    <2> QED BY <1>1, <2>2, <2>3, <2>4, <2>5 DEF OnRecords
<1> QED BY <1>1, <1>2 DEF PInv

\* What _record() returns is the first record of the type, whatever length the caller wants.
IsFirst(f, rec) ==
    \A least \in Nat : Record(f, want, least) = IF rec # Null /\ rec.len >= least THEN rec ELSE Null

LEMMA PReturned ==
    ASSUME IInv, PInv, pc = "walk", Padded(file), UNCHANGED <<input, reader, call>>,
           NEW rec, Returned(rec), IsFirst(file, rec)
    PROVE  OnRecords(file)'
<1>1. which <= 2 /\ Active
    BY DEF IInv, TypeOK, Active
<1>2. /\ IsFile(file) /\ OnRecords(file) /\ WantsRight(file) /\ file' = file /\ headers' = headers
      /\ size' = size /\ call' = call /\ call \in Calls
    BY <1>1, IsFileNow DEF PInv, OnRecords, file, input, reader, IInv, TypeOK
<1>3. CASE call = "mkb_mk_dv" /\ want = VersionRec
    <2>1. /\ want' = IF rec # Null /\ rec.len >= 12 THEN DvRec ELSE 129
          /\ pos' = 0 /\ pc' = "walk"
        BY <1>3 DEF Returned
    <2>2. Record(file, VersionRec, 12) = IF rec # Null /\ rec.len >= 12 THEN rec ELSE Null
        BY <1>3 DEF IsFirst
    <2>3. want' = SecondType(file)
        BY <2>1, <2>2 DEF SecondType, DvRec
    <2>4. 0 \in Offsets(file) /\ \A q \in Offsets(file) : ~(q < 0)
        BY <1>2, OffsetFacts DEF IsFile
    <2>5. WantsRight(file)'
        BY <1>2, <1>3, <2>3 DEF WantsRight, SecondType
    <2> QED BY <1>2, <2>1, <2>4, <2>5 DEF OnRecords
<1>4. CASE ~(call = "mkb_mk_dv" /\ want = VersionRec)
    <2>1. LeastLen(call) \in Nat
        BY Zenon DEF LeastLen
    <2>2. /\ found' = IF rec # Null /\ rec.len >= LeastLen(call) THEN rec ELSE Null
          /\ pc' = "done"
        BY <1>4 DEF Returned
    <2>3. found' = Record(file, want, LeastLen(call))
        BY <2>1, <2>2 DEF IsFirst
    <2>4. Answer(file, call) = Record(file, want, LeastLen(call))
        <3>1. CASE call # "mkb_mk_dv"
            BY <1>2, <3>1 DEF WantsRight, Answer
        <3>2. CASE call = "mkb_mk_dv"
            <4>1. want = SecondType(file)
                BY <1>2, <1>4, <3>2 DEF WantsRight
            <4> QED BY <3>2, <4>1 DEF Answer, SecondType
        <3> QED BY <3>1, <3>2
    <2>5. found' = Answer(file, call)
        BY <2>3, <2>4
    <2>6. Answer(file, call)' = Answer(file, call)
        BY <1>2
    <2> QED BY <1>2, <2>2, <2>5, <2>6 DEF OnRecords
<1> QED BY <1>3, <1>4

LEMMA PWalk == ASSUME IInv, PInv, Walk PROVE PInv'
<1>1. RightFile' /\ file' = file /\ (Padded(file)' <=> Padded(file)) /\ pc = "walk"
      /\ UNCHANGED <<input, reader, call>>
    BY PSameFile DEF Walk, reader
<1>2. ASSUME Padded(file) PROVE OnRecords(file)'
    <2>1. which <= 2 /\ Active
        BY <1>1 DEF IInv, TypeOK, Active
    <2>2. IsFile(file) /\ OnRecords(file)
        BY <1>2, <2>1, IsFileNow DEF PInv
    <2> DEFINE r == file.hdr[pos]
               z == size - 4
    <2>3. /\ pos \in Offsets(file) /\ WantsRight(file) /\ headers \subseteq Offsets(file)
          /\ \A q \in Offsets(file) : q < pos => file.hdr[q].type # want
          /\ file.hdr[z].len = 0
        BY <1>1, <2>2 DEF OnRecords
    <2>4. Offsets(file) \subseteq Nat /\ pos \in 0 .. file.size - 4 /\ file.size \in Nat /\ r.len \in Nat
        BY <1>2, <2>2, <2>3, OffsetFacts DEF IsFile
    <2>5. size \in Nat /\ size >= 4 /\ z \in Offsets(file)
        BY <1>1, <2>1, <2>3 DEF IInv, TypeOK, Chain, ReadState
    <2>6. \A q \in Offsets(file) : q <= z
        BY <1>2, <2>2, <2>3, <2>5, OffsetFacts
    <2>7. ~(pos + 4 > size)
        BY <2>3, <2>4, <2>5, <2>6
    <2>8. r.len # 0 => /\ r.len >= 4 /\ pos + r.len \in Offsets(file)
                       /\ \A q \in Offsets(file) : pos < q => pos + r.len <= q
        BY <1>2, <2>2, <2>3, OffsetFacts
    <2>9. ~Truncated(r.len)
        <3>1. CASE r.len = 0
            BY <2>4, <2>5, <2>7, <3>1 DEF Truncated
        <3>2. CASE r.len # 0
            <4>1. pos + r.len <= z
                BY <2>6, <2>8, <3>2
            <4> QED BY <2>4, <2>5, <4>1 DEF Truncated
        <3> QED BY <3>1, <3>2
    <2>10. CASE r.type = want
        <3> DEFINE rec == [pos |-> pos, len |-> r.len]
        <3>1. Returned(rec)
            BY <1>1, <2>7, <2>9, <2>10, Zenon DEF Walk
        <3>2. rec # Null
            BY <2>4 DEF Null
        <3>3. IsFirst(file, rec)
            <4> SUFFICES ASSUME NEW least \in Nat
                         PROVE  Record(file, want, least) = IF rec # Null /\ rec.len >= least THEN rec ELSE Null
                BY DEF IsFirst
            <4>1. Record(file, want, least) = IF r.len >= least THEN rec ELSE Null
                BY <2>3, <2>4, <2>10, RecordFound
            <4> QED BY <3>2, <4>1
        <3> HIDE DEF rec
        <3> QED BY <1>1, <1>2, <3>1, <3>3, PReturned
    <2>11. CASE r.type # want /\ r.len = 0
        <3>1. Returned(Null)
            BY <1>1, <2>7, <2>11, Zenon DEF Walk, End
        <3>2. \A q \in Offsets(file) : q <= pos
            BY <1>2, <2>2, <2>3, <2>11, OffsetFacts
        <3>3. \A q \in Offsets(file) : file.hdr[q].type # want
            <4> SUFFICES ASSUME NEW q \in Offsets(file) PROVE file.hdr[q].type # want
                OBVIOUS
            <4>1. q = pos \/ q < pos
                BY <2>4, <3>2
            <4> QED BY <2>3, <2>11, <4>1
        <3>4. IsFirst(file, Null)
            BY <3>3, RecordMissing DEF IsFirst
        <3> QED BY <1>1, <1>2, <3>1, <3>4, PReturned
    <2>12. CASE r.type # want /\ r.len # 0
        <3>1. pos' = Skip(r.len) /\ UNCHANGED <<pc, want, found>>
            BY <1>1, <2>7, <2>12, Zenon DEF Walk, End
        <3>2. pos' = pos + r.len /\ pos' \in Offsets(file)
            BY <2>8, <2>12, <3>1 DEF Skip
        <3>3. ASSUME NEW q \in Offsets(file), q < pos' PROVE file.hdr[q].type # want
            <4>1. ~(pos < q)
                <5> SUFFICES ASSUME pos < q PROVE FALSE
                    OBVIOUS
                <5>1. pos + r.len <= q
                    BY <2>8, <2>12
                <5>2. pos' \in Nat /\ q \in Nat /\ pos' <= q
                    BY <2>4, <3>2, <5>1
                <5> QED BY <3>3, <5>2
            <4>2. q = pos \/ q < pos
                BY <2>4, <4>1
            <4> QED BY <2>3, <2>12, <4>2
        <3>4. WantsRight(file)'
            BY <1>1, <2>3, <3>1 DEF WantsRight
        <3>5. headers' = headers /\ size' = size /\ pc' = "walk" /\ want' = want
            BY <1>1, <3>1 DEF reader
        <3> QED BY <1>1, <2>3, <3>2, <3>3, <3>4, <3>5 DEF OnRecords
    <2> QED BY <2>10, <2>11, <2>12
<1> QED BY <1>1, <1>2 DEF PInv

\* From every file whose records are followed by padding, of any size and with any number of
\* records, each record that is asked for is found, and the first of its type; and it is the
\* first file if that one can be used.
THEOREM PaddedFilesAreFound == Spec => []PaddedFileIsFound
<1>1. Init => PInv
    BY DEF Init, PInv, RightFile, Active
<1>2. IInv /\ PInv /\ [Next]_vars => PInv'
    <2> SUFFICES ASSUME IInv, PInv, [Next]_vars PROVE PInv'
        OBVIOUS
    <2>1. CASE Next
        BY <2>1, POpen, PReadChunk, PReadFails, PLookup, PWalk DEF Next
    <2>2. CASE UNCHANGED vars
        <3>1. /\ disc' = disc /\ faults' = faults /\ which' = which /\ pc' = pc /\ size' = size
              /\ headers' = headers /\ call' = call /\ want' = want /\ pos' = pos /\ found' = found
            BY <2>2 DEF vars, input, reader
        <3>2. file' = file
            BY <3>1 DEF file
        <3> QED BY <3>1, <3>2 DEF PInv, RightFile, Active, OnRecords, WantsRight
    <2> QED BY <2>1, <2>2
<1>3. IInv /\ PInv => PaddedFileIsFound
    BY DEF IInv, TypeOK, PInv, RightFile, Active, OnRecords, PaddedFileIsFound
<1> QED BY <1>1, <1>2, <1>3, Invariant, PTL DEF Spec

-----------------------------------------------------------------------------
(* The unit key file                                                       *)

Uks == [num_uk : Nat, enc_uk : Seq(Nat), titles : Nat, title_cps_unit : Seq(Nat),
        aacs2 : BOOLEAN, result : {0, -1}]

UkTypes ==
    /\ uk_pc \in {"cert", "header", "uks", "key", "titles", "parsed", "failed"}
    /\ uk_disc \in UnitKeyDiscs /\ which_uk \in {"main", "copy"}
    /\ uk \in Uks

\* How far the parser has come: what it has checked of the file, and what it has read.
Progress ==
    /\ uk_pc \in {"cert", "header", "uks"} => uk = NoUk
    /\ uk_pc \in {"uks", "key", "titles"} => uk_file.size > 2048
    /\ uk_pc = "key" => KeysFit(uk_file) /\ uk.result = 0 /\ Len(uk.enc_uk) < uk_file.num_uk
    /\ uk_pc \in {"titles", "parsed"} /\ uk.result = 0 =>
           uk.num_uk = uk_file.num_uk /\ Len(uk.enc_uk) = uk_file.num_uk
    /\ uk_pc = "parsed" => uk.result = 0 /\ disc_id = which_uk
    /\ uk_pc # "parsed" => uk.title_cps_unit = <<>>

\* The n-th key was read from its place; a file that is given up had no keys read.
KeysRead ==
    /\ \A i \in 1 .. Len(uk.enc_uk) : uk.enc_uk[i] = KeyPos(i)
    /\ uk.aacs2 => cc.aacs2 /\ uk.result = 0

TitlesAssigned ==
    uk_pc = "parsed" =>
        \A t \in DOMAIN uk.title_cps_unit : uk.title_cps_unit[t] = UnitIndex(uk_file.units[t])

UkInv == UkTypes /\ Progress /\ KeysRead /\ TitlesAssigned /\ UkReadsFit

LEMMA UkFileType == ASSUME UkTypes PROVE uk_file \in UnitKeyFiles
BY UnitKeyAssumption DEF UkTypes, uk_file

LEMMA NoUkType == NoUk \in Uks
<1>1. <<>> \in Seq(Nat)
    OBVIOUS
<1> QED BY <1>1 DEF NoUk, Uks

\* The next file is begun, or the last one was given up.
LEMMA NextUkFile ==
    ASSUME UkTypes, UkFailed, \A r \in uk_reads' : r.first >= 0 /\ r.last < r.size
    PROVE  UkInv'
<1>1. uk' = NoUk /\ uk_disc' = uk_disc /\ which_uk' \in {"main", "copy"} /\ uk_pc' \in {"header", "failed"}
    BY DEF UkFailed, UkTypes
<1>2. UkTypes'
    BY <1>1, NoUkType DEF UkTypes
<1>3. Progress' /\ TitlesAssigned'
    BY <1>1 DEF Progress, TitlesAssigned, NoUk
<1>4. KeysRead'
    BY <1>1 DEF KeysRead, NoUk
<1> QED BY <1>2, <1>3, <1>4 DEF UkInv, UkReadsFit

LEMMA UkOpenStep == ASSUME UkInv, ReadCc \/ ParseHeader PROVE UkInv'
<1> USE DEF UkInv
<1>1. CASE ReadCc
    <2>1. /\ uk_pc = "cert" /\ uk_pc' = "header" /\ uk_disc' = uk_disc /\ which_uk' = which_uk
          /\ uk' = uk /\ uk_reads' = uk_reads /\ uk = NoUk
        BY <1>1 DEF ReadCc, Progress
    <2>2. UkTypes' /\ Progress' /\ TitlesAssigned' /\ UkReadsFit'
        BY <2>1 DEF UkTypes, Progress, TitlesAssigned, UkReadsFit
    <2>3. KeysRead'
        BY <2>1 DEF KeysRead, NoUk
    <2> QED BY <2>2, <2>3
<1>2. CASE ParseHeader
    <2>1. uk_pc = "header" /\ uk = NoUk /\ uk_reads' = {}
        BY <1>2 DEF ParseHeader, Progress
    <2>2. CASE UkFailed
        BY <2>1, <2>2, NextUkFile
    <2>3. CASE uk_file.size > 2048 /\ UkGoto("uks") /\ UNCHANGED uk
        <3>1. UkTypes' /\ Progress' /\ TitlesAssigned' /\ UkReadsFit'
            BY <2>1, <2>3 DEF UkGoto, UkTypes, Progress, TitlesAssigned, UkReadsFit, uk_file
        <3>2. KeysRead'
            BY <2>1, <2>3 DEF UkGoto, KeysRead, NoUk
        <3> QED BY <3>1, <3>2
    <2> QED BY <1>2, <2>2, <2>3 DEF ParseHeader
<1> QED BY <1>1, <1>2

\* One more read that is inside the file.
LEMMA ReadInside ==
    ASSUME NEW first \in Nat, NEW n \in Nat, first + n <= uk_file.size, uk_file.size \in Nat,
           \A r \in uk_reads : r.first >= 0 /\ r.last < r.size, UkReads(first, n)
    PROVE  \A r \in uk_reads' : r.first >= 0 /\ r.last < r.size
BY DEF UkReads

LEMMA CheckUksStep == ASSUME UkInv, CheckUks PROVE UkInv'
<1> USE DEF UkInv
<1>1. /\ uk_pc = "uks" /\ uk = NoUk /\ uk_file \in UnitKeyFiles /\ uk_file.size > 2048
      /\ uk_disc' = uk_disc /\ which_uk' = which_uk /\ cc' = cc /\ disc_id' = disc_id
    <2>1. uk_disc' = uk_disc /\ which_uk' = which_uk /\ cc' = cc /\ disc_id' = disc_id
        BY Zenon DEF CheckUks, UkGoto
    <2>2. uk_pc = "uks"
        BY Zenon DEF CheckUks
    <2> QED BY <2>1, <2>2, UkFileType DEF Progress
<1>2. uk_file' = uk_file
    BY <1>1 DEF uk_file
<1>3. uk.enc_uk = <<>> /\ uk.num_uk = 0 /\ uk.result = 0 /\ ~uk.aacs2 /\ uk \in Uks
    BY <1>1, NoUkType DEF NoUk
<1>4. \/ uk_file.size - 2 < uk_file.uk_pos /\ uk_reads' = uk_reads
      \/ uk_file.size - 2 >= uk_file.uk_pos /\ UkReads(uk_file.uk_pos, 2)
    BY <1>1 DEF CheckUks, UnitKeyFiles
<1>5. UkReadsFit'
    <2>1. \A r \in uk_reads : r.first >= 0 /\ r.last < r.size
        BY <1>3 DEF UkReadsFit
    <2>2. \A r \in uk_reads' : r.first >= 0 /\ r.last < r.size
        BY <1>1, <1>4, <2>1, ReadInside DEF UnitKeyFiles
    <2> QED BY <2>2 DEF UkReadsFit
<1>6. \/ uk' = [uk EXCEPT !.result = -1] /\ uk_pc' = "titles"
      \/ uk_file.num_uk = 0 /\ uk' = uk /\ uk_pc' = "titles"
      \/ /\ uk_file.num_uk # 0 /\ (uk_file.num_uk > 0 => KeysFit(uk_file))
         /\ uk' = [uk EXCEPT !.aacs2 = UsesAacs2] /\ uk_pc' = "key"
    BY Zenon DEF CheckUks, UkGoto
<1>7. CASE uk' = [uk EXCEPT !.result = -1] /\ uk_pc' = "titles"
    <2>1. uk' \in Uks /\ uk'.enc_uk = <<>> /\ uk'.result = -1 /\ ~uk'.aacs2
        BY <1>3, <1>7 DEF Uks
    <2> QED BY <1>1, <1>2, <1>5, <1>7, <2>1 DEF UkTypes, Progress, KeysRead, TitlesAssigned
<1>8. CASE uk_file.num_uk = 0 /\ uk' = uk /\ uk_pc' = "titles"
    BY <1>1, <1>2, <1>3, <1>5, <1>8 DEF UkTypes, Progress, KeysRead, TitlesAssigned
<1>9. CASE /\ uk_file.num_uk # 0 /\ (uk_file.num_uk > 0 => KeysFit(uk_file))
           /\ uk' = [uk EXCEPT !.aacs2 = UsesAacs2] /\ uk_pc' = "key"
    <2>1. UsesAacs2 \in BOOLEAN /\ (UsesAacs2 => cc.aacs2)
        BY DEF UsesAacs2
    <2>2. uk' \in Uks /\ uk'.enc_uk = <<>> /\ uk'.result = 0 /\ (uk'.aacs2 => cc.aacs2)
        BY <1>3, <1>9, <2>1 DEF Uks
    <2>3. uk_file.num_uk > 0 /\ Len(<<>>) = 0
        BY <1>1, <1>9 DEF UnitKeyFiles
    <2>4. KeysFit(uk_file)'
        BY <1>2, <1>9, <2>3 DEF KeysFit
    <2> QED BY <1>1, <1>2, <1>5, <1>9, <2>2, <2>3, <2>4 DEF UkTypes, Progress, KeysRead, TitlesAssigned
<1> QED BY <1>6, <1>7, <1>8, <1>9

LEMMA ReadUkStep == ASSUME UkInv, ReadUk PROVE UkInv'
<1> USE DEF UkInv
<1> DEFINE i == Len(uk.enc_uk) + 1
           num == IF i = uk_file.num_uk THEN i ELSE 0
<1>1. /\ uk_pc = "key" /\ UkReads(KeyPos(i), 16)
      /\ uk' = [uk EXCEPT !.enc_uk = Append(@, KeyPos(i)), !.num_uk = num]
      /\ uk_pc' = (IF i = uk_file.num_uk THEN "titles" ELSE "key")
      /\ uk_disc' = uk_disc /\ which_uk' = which_uk /\ cc' = cc /\ disc_id' = disc_id
    BY DEF ReadUk, UkGoto
<1>2. uk_file' = uk_file /\ uk_file \in UnitKeyFiles /\ uk_file.size > 2048
    BY <1>1, UkFileType DEF uk_file, Progress
<1>3. /\ KeysFit(uk_file) /\ uk.result = 0 /\ uk \in Uks /\ uk.enc_uk \in Seq(Nat)
      /\ Len(uk.enc_uk) \in Nat /\ i <= uk_file.num_uk /\ i \in Nat /\ i > 0
    BY <1>1, <1>2 DEF Progress, UkTypes, Uks, UnitKeyFiles
<1>4. KeyPos(i) \in Nat /\ (~uk.aacs2 => KeyPos(i) = uk_file.uk_pos + 48 * i)
    BY <1>2, <1>3 DEF KeyPos, UnitKeyFiles
<1>5. UkReadsFit'
    <2>1. CASE uk.aacs2
        BY <1>1, <1>3, <2>1 DEF UkReadsFit, Uks
    <2>2. CASE ~uk.aacs2
        <3>1. (uk_file.size - uk_file.uk_pos - 16) \div 48 >= i
            BY <1>2, <1>3 DEF KeysFit, UnitKeyFiles
        <3>2. uk_file.uk_pos + 48 * i + 16 <= uk_file.size
            BY <1>2, <1>3, <3>1 DEF UnitKeyFiles
        <3>3. \A r \in uk_reads : r.first >= 0 /\ r.last < r.size
            BY <2>2 DEF UkReadsFit
        <3>4. \A r \in uk_reads' : r.first >= 0 /\ r.last < r.size
            <4>1. KeyPos(i) + 16 <= uk_file.size /\ uk_file.size \in Nat
                BY <1>2, <1>4, <2>2, <3>2 DEF UnitKeyFiles
            <4> QED BY <1>1, <1>4, <3>3, <4>1, ReadInside
        <3> QED BY <3>4 DEF UkReadsFit
    <2> QED BY <2>1, <2>2
<1> HIDE DEF i
<1>6. /\ Append(uk.enc_uk, KeyPos(i)) \in Seq(Nat) /\ Len(Append(uk.enc_uk, KeyPos(i))) = i
      /\ \A k \in 1 .. i : Append(uk.enc_uk, KeyPos(i))[k] = KeyPos(k)
    <2>1. \A k \in 1 .. Len(uk.enc_uk) : uk.enc_uk[k] = KeyPos(k)
        BY DEF KeysRead
    <2> QED BY <1>3, <1>4, <2>1 DEF i
<1>7. num \in Nat
    BY <1>3
<1> HIDE DEF num
<1>8. /\ uk' \in Uks /\ uk'.enc_uk = Append(uk.enc_uk, KeyPos(i)) /\ uk'.num_uk = num
      /\ uk'.result = 0 /\ uk'.aacs2 = uk.aacs2
    BY <1>1, <1>3, <1>6, <1>7 DEF Uks
<1>9. UkTypes' /\ TitlesAssigned'
    BY <1>1, <1>8 DEF UkTypes, TitlesAssigned
<1>10. KeysRead'
    <2>1. \A k : KeyPos(k)' = KeyPos(k)
        BY <1>2, <1>8 DEF KeyPos
    <2> QED BY <1>1, <1>6, <1>8, <2>1 DEF KeysRead
<1>11. Progress'
    <2>1. KeysFit(uk_file)'
        BY <1>2, <1>3 DEF KeysFit
    <2>2. CASE i = uk_file.num_uk
        BY <1>1, <1>2, <1>6, <1>8, <2>2 DEF Progress, num
    <2>3. CASE i # uk_file.num_uk
        <3>1. i < uk_file.num_uk
            BY <1>2, <1>3, <2>3 DEF UnitKeyFiles
        <3> QED BY <1>1, <1>2, <1>6, <1>8, <2>1, <2>3, <3>1 DEF Progress
    <2> QED BY <2>2, <2>3
<1> QED BY <1>5, <1>9, <1>10, <1>11

LEMMA AssignTitlesStep == ASSUME UkInv, AssignTitles PROVE UkInv'
<1> USE DEF UkInv
<1> DEFINE there == uk_file.size >= 26 + 4 * uk_file.titles /\ uk_file.titles <= 65533
           map == [t \in 1 .. uk_file.titles + 2 |-> UnitIndex(uk_file.units[t])]
<1>1. /\ uk_pc = "titles" /\ uk_file \in UnitKeyFiles /\ uk_file.size > 2048 /\ uk \in Uks
    BY UkFileType DEF AssignTitles, Progress, UkTypes
<1>2. uk.aacs2 \/ \A r \in uk_reads' : r.first >= 0 /\ r.last < r.size
    <2>1. (there /\ UkReads(20, 6 + 4 * uk_file.titles)) \/ UkReads(20, 6)
        BY DEF AssignTitles
    <2> QED BY <1>1, <2>1, ReadInside DEF UkReadsFit, UnitKeyFiles
<1>3. CASE uk.result < 0 /\ UkFailed
    <2>1. ~uk.aacs2
        BY <1>3 DEF KeysRead
    <2> QED BY <1>2, <1>3, <2>1, NextUkFile
<1>4. CASE /\ uk.result = 0
           /\ uk' = IF ~there THEN uk ELSE [uk EXCEPT !.titles = uk_file.titles, !.title_cps_unit = map]
           /\ disc_id' = which_uk /\ uk_pc' = "parsed" /\ UNCHANGED <<uk_disc, which_uk, cc>>
    <2>1. uk_file' = uk_file
        BY <1>4 DEF uk_file
    <2>2. map \in Seq(Nat)
        <3>1. \A n : UnitIndex(n) \in Nat
            BY <1>1 DEF UnitIndex, Uks
        <3>2. map \in [1 .. uk_file.titles + 2 -> Nat] /\ uk_file.titles + 2 \in Nat
            BY <1>1, <3>1 DEF UnitKeyFiles
        <3> QED BY <3>2
    <2>3. /\ uk' \in Uks /\ uk'.num_uk = uk.num_uk /\ uk'.enc_uk = uk.enc_uk
          /\ uk'.aacs2 = uk.aacs2 /\ uk'.result = uk.result
          /\ uk'.title_cps_unit \in {uk.title_cps_unit, map}
        <3> HIDE DEF there, map
        <3>1. uk_file.titles \in Nat
            BY <1>1 DEF UnitKeyFiles
        <3>2. CASE uk' = uk
            BY <1>1, <3>2
        <3>3. CASE uk' = [uk EXCEPT !.titles = uk_file.titles, !.title_cps_unit = map]
            <4>1. uk \in Uks
                BY <1>1
            <4>2. map \in Seq(Nat)
                BY <2>2
            <4>3. PICK n \in Nat, m \in Seq(Nat) :
                    m = map /\ uk' = [uk EXCEPT !.titles = n, !.title_cps_unit = m]
                BY <3>1, <3>3, <4>2
            <4>4. /\ uk' \in Uks /\ uk'.num_uk = uk.num_uk /\ uk'.enc_uk = uk.enc_uk
                  /\ uk'.aacs2 = uk.aacs2 /\ uk'.result = uk.result /\ uk'.title_cps_unit = m
                BY <4>1, <4>3 DEF Uks
            <4> QED BY <4>3, <4>4
        <3> QED BY <1>4, <3>2, <3>3
    <2>4. UkTypes' /\ Progress'
        BY <1>1, <1>4, <2>1, <2>3 DEF UkTypes, Progress
    <2>5. KeysRead'
        <3>1. \A k : KeyPos(k)' = KeyPos(k)
            BY <2>1, <2>3 DEF KeyPos
        <3> QED BY <1>4, <2>3, <3>1 DEF KeysRead
    <2>6. TitlesAssigned'
        <3>1. uk.title_cps_unit = <<>> /\ DOMAIN <<>> = {}
            BY <1>1 DEF Progress
        <3>2. \A n : UnitIndex(n)' = UnitIndex(n)
            BY <2>3 DEF UnitIndex
        <3>3. DOMAIN map = 1 .. uk_file.titles + 2
              /\ \A t \in 1 .. uk_file.titles + 2 : map[t] = UnitIndex(uk_file.units[t])
            OBVIOUS
        <3> HIDE DEF map
        <3> QED BY <2>1, <2>3, <3>1, <3>2, <3>3 DEF TitlesAssigned
    <2>7. UkReadsFit'
        BY <1>2, <2>3 DEF UkReadsFit
    <2> QED BY <2>4, <2>5, <2>6, <2>7
<1> QED BY <1>3, <1>4 DEF AssignTitles

LEMMA UkInvariant == UkSpec => []UkInv
<1>1. UkInit => UkInv
    BY NoUkType DEF UkInit, UkInv, UkTypes, Progress, KeysRead, TitlesAssigned, UkReadsFit, NoUk
<1>2. UkInv /\ [UkNext]_uk_vars => UkInv'
    <2>1. UkInv /\ UNCHANGED uk_vars => UkInv'
        BY DEF uk_vars, UkInv, UkTypes, Progress, KeysRead, TitlesAssigned, UkReadsFit, KeysFit,
               KeyPos, UnitIndex, uk_file
    <2> QED BY <2>1, UkOpenStep, CheckUksStep, ReadUkStep, AssignTitlesStep DEF UkNext
<1> QED BY <1>1, <1>2, PTL DEF UkSpec

\* uk_parse() looks only at bytes of the file, for files of every size and whatever offsets
\* and numbers they claim, unless it uses the AACS2 layout.
THEOREM UnitKeyReadsFit == UkSpec => []UkReadsFit
<1>1. UkInv => UkReadsFit
    BY DEF UkInv
<1> QED BY <1>1, UkInvariant, PTL

\* First play, top menu and every title get the key that their CPS unit number counts to, on
\* every AACS1 disc and on every disc with one key; a number that no key has leads to the
\* first key.
THEOREM TitlesHaveTheirKey == UkSpec => []TitlesGetTheirKey
<1>1. UkInv => TitlesGetTheirKey
    <2> SUFFICES ASSUME UkInv, uk_pc = "parsed" PROVE TitlesGetTheirKey
        BY DEF TitlesGetTheirKey
    <2>1. /\ uk \in Uks /\ uk_file \in UnitKeyFiles /\ disc_id = which_uk
          /\ uk.num_uk = uk_file.num_uk /\ Len(uk.enc_uk) = uk_file.num_uk
        BY UkFileType DEF UkInv, UkTypes, Progress
    <2>2. ASSUME uk.num_uk = 1 \/ (uk.num_uk > 1 /\ ~cc.aacs2), NEW t \in DOMAIN uk.title_cps_unit
          PROVE  KeyOf(t, 48)
        <3> DEFINE n == IF uk_file.units[t] \in 1 .. uk_file.num_uk THEN uk_file.units[t] ELSE 1
        <3>1. n \in 1 .. uk.num_uk
            BY <2>1, <2>2 DEF Uks
        <3>2. uk.title_cps_unit[t] = n - 1
            BY <2>1 DEF UkInv, TitlesAssigned, UnitIndex
        <3>3. uk.enc_uk[n] = KeyPos(n)
            BY <2>1, <3>1 DEF UkInv, KeysRead
        <3>4. KeyPos(n) = uk_file.uk_pos + 48 + (n - 1) * 48
            <4>1. uk.aacs2 => n = 1
                BY <2>1, <2>2, <3>1 DEF UkInv, KeysRead, Uks
            <4>2. n \in Nat /\ uk_file.uk_pos \in Nat /\ uk.aacs2 \in BOOLEAN
                BY <2>1, <3>1 DEF UnitKeyFiles, Uks
            <4> HIDE DEF n
            <4>3. CASE uk.aacs2
                BY <4>1, <4>2, <4>3 DEF KeyPos
            <4>4. CASE ~uk.aacs2
                BY <4>2, <4>4 DEF KeyPos
            <4> QED BY <4>3, <4>4
        <3>5. n - 1 \in 0 .. uk.num_uk - 1 /\ n - 1 + 1 = n
            <4>1. uk.num_uk \in Nat
                BY <2>1 DEF Uks
            <4> HIDE DEF n
            <4> QED BY <3>1, <4>1
        <3> QED BY <3>2, <3>3, <3>4, <3>5 DEF KeyOf
    <2> QED BY <2>1, <2>2 DEF TitlesGetTheirKey
<1> QED BY <1>1, UkInvariant, PTL

-----------------------------------------------------------------------------
(* The usage files                                                         *)

LEMMA UsageFileFacts ==
    ASSUME NEW f, UsageFile(f)
    PROVE  /\ f.size \in Nat /\ f.size < SizeMod /\ SizeMod \in Nat /\ f.num_entry \in Nat
           /\ f.entries \in Seq(UsageEntries) /\ Len(f.entries) \in Nat
           /\ DOMAIN f.entries = 1 .. Len(f.entries) /\ Len(f.at) = Len(f.entries) + 1
           /\ \A i \in 1 .. Len(f.entries) + 1 : f.at[i] \in Nat
           /\ \A i \in 1 .. Len(f.entries) :
                  f.entries[i] \in UsageEntries /\ f.entries[i].length \in Nat
                  /\ f.at[i + 1] = f.at[i] + 6 + f.entries[i].length
<1>1. f \in [size : 0 .. SizeMod - 1, num_entry : Nat, entries : Seq(UsageEntries), at : Seq(Nat)]
    BY DEF UsageFile
<1>2. f.size \in 0 .. SizeMod - 1 /\ f.entries \in Seq(UsageEntries) /\ f.at \in Seq(Nat) /\ f.num_entry \in Nat
    BY <1>1
<1>3. SizeMod \in Nat
    BY CciAssumption
<1>4. Len(f.entries) \in Nat /\ DOMAIN f.entries = 1 .. Len(f.entries) /\ Len(f.at) = Len(f.entries) + 1
    BY <1>2 DEF UsageFile
<1>5. \A i \in 1 .. Len(f.entries) + 1 : f.at[i] \in Nat
    BY <1>2, <1>4
<1>6. \A i \in 1 .. Len(f.entries) : f.entries[i] \in UsageEntries
    BY <1>2, <1>4
<1>7. \A i \in 1 .. Len(f.entries) : f.entries[i].length \in Nat
    BY <1>6 DEF UsageEntries
<1>8. \A i \in 1 .. Len(f.entries) : f.at[i + 1] = f.at[i] + 6 + f.entries[i].length
    BY <1>4 DEF UsageFile
<1>9. f.size \in Nat /\ f.size < SizeMod
    BY <1>2, <1>3
<1> QED BY <1>2, <1>3, <1>4, <1>5, <1>6, <1>7, <1>8, <1>9

\* Each entry begins behind the one in front of it.
LEMMA OffsetsGrow ==
    ASSUME NEW f, UsageFile(f), NEW i \in 1 .. Len(f.entries) + 1, NEW j \in 1 .. Len(f.entries) + 1, i < j
    PROVE  f.at[i] + 6 <= f.at[j]
<1> DEFINE m == Len(f.entries)
           T == {k \in 1 .. m + 1 : i < k /\ ~(f.at[i] + 6 <= f.at[k])}
<1>1. m \in Nat /\ \A k \in 1 .. m + 1 : f.at[k] \in Nat
    BY UsageFileFacts
<1>2. \A k \in 1 .. m : f.at[k] + 6 <= f.at[k + 1]
    <2> TAKE k \in 1 .. m
    <2>1. f.at[k + 1] = f.at[k] + 6 + f.entries[k].length /\ f.entries[k].length \in Nat
        BY UsageFileFacts
    <2>2. f.at[k] \in Nat
        BY <1>1
    <2> QED BY <2>1, <2>2
<1>3. SUFFICES ASSUME T # {} PROVE FALSE
    OBVIOUS
<1>4. PICK k \in T : \A y \in T : k <= y
    <2>1. T \subseteq Nat
        BY <1>1
    <2> HIDE DEF T
    <2> QED BY <1>3, <2>1, LeastNatural
<1>5. k - 1 \in 1 .. m /\ k - 1 + 1 = k /\ k - 1 \notin T /\ i <= k - 1
    BY <1>1, <1>4
<1>6. f.at[k - 1] + 6 <= f.at[k] /\ f.at[k - 1] \in Nat /\ f.at[k] \in Nat /\ f.at[i] \in Nat
    BY <1>1, <1>2, <1>5
<1>7. CASE i = k - 1
    BY <1>4, <1>6, <1>7
<1>8. CASE i # k - 1
    <2>1. f.at[i] + 6 <= f.at[k - 1]
        BY <1>1, <1>5, <1>8
    <2> QED BY <1>4, <1>6, <2>1
<1> QED BY <1>7, <1>8

\* What the parser has stored is what the file holds; behind the entries there are zeros.
Stored(f) ==
    \A j \in 1 .. Len(entries) :
        entries[j] = IF j <= Len(f.entries) THEN KeptEntry(f.entries[j]) ELSE Zeros

\* The parser is at the beginning of an entry, or behind all of them, and knows how many
\* bytes are left.
Aligned(f) ==
    /\ cci_p \in Nat /\ cci_p <= f.size /\ cci_size = f.size - cci_p
    /\ Len(entries) <= Len(f.entries) => cci_p = f.at[Len(entries) + 1]
    /\ Len(entries) > Len(f.entries) => f.at[Len(f.at)] <= cci_p

HasFile == cci_call.number \in DOMAIN cci_disc.files

CciInv ==
    /\ cci_pc \in {"call", "read", "entry", "done"}
    /\ cci_disc \in CciDiscs /\ which_cci \in {"main", "copy"} /\ entries \in Seq(UsageEntries)
    /\ cci_pc \in {"call", "read"} => cci_reads = {}
    /\ cci_pc = "entry" \/ cci_reads # {} => HasFile
    /\ cci_pc # "call" => cci_call.op \in {"check", "get"}
    /\ cci_pc = "entry" /\ EntriesFit(cci_file) => Aligned(cci_file) /\ Stored(cci_file)
    /\ HasFile /\ EntriesFit(cci_file) => \A b \in cci_reads : b < cci_file.size
    /\ cci_pc = "done" /\ cci_call.op = "check" /\ answer.code >= 0 =>
           /\ HasFile /\ Len(entries) = cci_file.num_entry /\ answer.code = IsUnencrypted(entries)
           /\ EntriesFit(cci_file) => Stored(cci_file)

LEMMA TheFile == ASSUME CciInv, HasFile PROVE UsageFile(cci_file)
BY CciAssumption DEF CciInv, HasFile, cci_file

LEMMA ZerosType == Zeros \in UsageEntries /\ KeptEntry(Zeros) = Zeros
BY DEF Zeros, UsageEntries, KeptEntry, BASIC_CCI, BasicLength

LEMMA KeptType ==
    ASSUME NEW e \in UsageEntries
    PROVE  KeptEntry(e) \in UsageEntries /\ KeptEntry(e).type = e.type /\ KeptEntry(e).length = e.length
<1>1. CASE e.type = BASIC_CCI /\ e.length = BasicLength
    <2> DEFINE kept == {t \in e.enhanced : t < CopiedTitles(e.num_titles)}
    <2>1. kept \subseteq Nat
        BY DEF UsageEntries
    <2>2. KeptEntry(e) = [e EXCEPT !.enhanced = kept]
        BY <1>1 DEF KeptEntry
    <2> HIDE DEF kept
    <2> QED BY <2>1, <2>2 DEF UsageEntries
<1>2. CASE ~(e.type = BASIC_CCI /\ e.length = BasicLength)
    <2>1. KeptEntry(e) = [e EXCEPT !.free = FALSE, !.num_titles = 0, !.enhanced = {}]
        BY <1>2 DEF KeptEntry
    <2>2. PICK no \in BOOLEAN, zero \in Nat, empty \in SUBSET Nat : no = FALSE /\ zero = 0 /\ empty = {}
        OBVIOUS
    <2>3. KeptEntry(e) = [e EXCEPT !.free = no, !.num_titles = zero, !.enhanced = empty]
        BY <2>1, <2>2, Zenon
    <2> QED BY <2>3 DEF UsageEntries
<1> QED BY <1>1, <1>2

\* cci_parse() does not look behind the end of an entry.
LEMMA LastByteInside ==
    ASSUME NEW e \in UsageEntries, NEW n, EntryOk(e, n)
    PROVE  LastByte(e) < 6 + e.length
<1>1. e.num_titles \in Nat
    BY DEF UsageEntries
<1>2. CopiedTitles(e.num_titles) \in Nat /\ CopiedTitles(e.num_titles) <= e.num_titles
    BY <1>1 DEF CopiedTitles
<1> HIDE DEF CopiedTitles
<1> QED BY <1>1, <1>2 DEF EntryOk, LastByte, UsageEntries, BasicLength

\* A call that ends with an error, or before the file was parsed, has nothing to answer for.
LEMMA ErrorReturn ==
    ASSUME CciInv, CciKeep, CciReturn(-1, Zeros), cci_pc \in {"read", "entry"} PROVE CciInv'
<1>1. /\ cci_disc' = cci_disc /\ cci_call' = cci_call /\ which_cci' = which_cci /\ cci_pc' = "done"
      /\ entries' = entries /\ cci_reads' = cci_reads /\ answer'.code = -1
    BY DEF CciKeep, CciReturn
<1>2. cci_file' = cci_file /\ HasFile' = HasFile
    BY <1>1 DEF cci_file, HasFile
<1>3. (EntriesFit(cci_file))' <=> EntriesFit(cci_file)
    BY <1>2 DEF EntriesFit
<1> QED BY <1>1, <1>2, <1>3 DEF CciInv

LEMMA CciCallStep == ASSUME CciInv, CheckUnencrypted \/ GetBasicCci \/ InvalidTitle PROVE CciInv'
BY DEF CciInv, CheckUnencrypted, GetBasicCci, InvalidTitle, CciReturn

LEMMA ReadCciStep == ASSUME CciInv, ReadCciFile PROVE CciInv'
<1>1. cci_pc = "read" /\ CciKeep /\ cci_disc' = cci_disc /\ cci_call' = cci_call /\ cci_reads = {}
    BY DEF ReadCciFile, CciInv, CciKeep
<1>2. \/ CciReturn(-1, Zeros)
      \/ /\ cci_call.number \in DOMAIN cci_disc.files /\ cci_file.size >= 2048
         /\ cci_pc' = "entry" /\ cci_p' = 16 /\ cci_size' = cci_file.size - 16 /\ entries' = <<>>
         /\ UNCHANGED <<which_cci, cci_reads, answer>>
      \/ which_cci' = "copy" /\ UNCHANGED <<cci_pc, cci_p, cci_size, entries, cci_reads, answer>>
    BY DEF ReadCciFile
<1>3. CASE CciReturn(-1, Zeros)
    BY <1>1, <1>3, ErrorReturn
<1>4. CASE /\ cci_call.number \in DOMAIN cci_disc.files /\ cci_file.size >= 2048
           /\ cci_pc' = "entry" /\ cci_p' = 16 /\ cci_size' = cci_file.size - 16 /\ entries' = <<>>
           /\ UNCHANGED <<which_cci, cci_reads, answer>>
    <2>1. cci_file' = cci_file /\ HasFile /\ HasFile'
        BY <1>1, <1>4 DEF cci_file, HasFile
    <2>2. UsageFile(cci_file)
        BY <2>1, TheFile
    <2>3. <<>> \in Seq(UsageEntries) /\ Len(<<>>) = 0
        OBVIOUS
    <2>4. cci_file.at[1] = 16 /\ Len(cci_file.entries) \in Nat /\ cci_file.size \in Nat
        BY <2>2, UsageFileFacts DEF UsageFile
    <2>5. Aligned(cci_file)'
        BY <1>4, <2>1, <2>3, <2>4 DEF Aligned
    <2>6. Stored(cci_file)'
        BY <1>4, <2>3 DEF Stored
    <2> QED BY <1>1, <1>4, <2>1, <2>3, <2>5, <2>6 DEF CciInv
<1>5. CASE which_cci' = "copy" /\ UNCHANGED <<cci_pc, cci_p, cci_size, entries, cci_reads, answer>>
    BY <1>1, <1>5 DEF CciInv
<1> QED BY <1>2, <1>3, <1>4, <1>5

LEMMA ReplyStep == ASSUME CciInv, Reply PROVE CciInv'
<1>1. /\ cci_pc = "entry" /\ Len(entries) = cci_file.num_entry
      /\ cci_disc' = cci_disc /\ cci_call' = cci_call /\ cci_pc' = "done"
      /\ which_cci' = which_cci /\ entries' = entries /\ cci_reads' = cci_reads
    <2>1. \E c, e : CciReturn(c, e)
        <3>1. CASE cci_call.op = "check"
            BY <3>1, Zenon DEF Reply
        <3>2. CASE cci_call.op = "get"
            BY <3>2, Zenon DEF Reply
        <3> QED BY <3>1, <3>2 DEF CciInv, Reply
    <2>2. cci_pc = "entry" /\ Len(entries) = cci_file.num_entry /\ CciKeep
        BY Zenon DEF Reply
    <2> QED BY <2>1, <2>2 DEF CciKeep, CciReturn
<1>2. cci_call.op = "check" => answer'.code = IsUnencrypted(entries)
    <2>1. cci_call.op = "check" => CciReturn(IsUnencrypted(entries), Zeros)
        BY Zenon DEF Reply
    <2> QED BY <2>1 DEF CciReturn
<1>3. cci_file' = cci_file /\ HasFile' = HasFile /\ IsUnencrypted(entries)' = IsUnencrypted(entries)
    BY <1>1 DEF cci_file, HasFile, IsUnencrypted
<1>4. /\ (EntriesFit(cci_file))' <=> EntriesFit(cci_file)
      /\ (Stored(cci_file))' <=> Stored(cci_file)
    BY <1>1, <1>3 DEF EntriesFit, Stored
<1> QED BY <1>1, <1>2, <1>3, <1>4 DEF CciInv

\* What cci_parse_entry() finds where the parser is, if the entries are inside the file.
LEMMA EntryFound ==
    ASSUME NEW f, UsageFile(f), EntriesFit(f), Aligned(f), entries \in Seq(UsageEntries),
           NEW e \in EntriesAt(f, cci_p), EntryOk(e, cci_size)
    PROVE  /\ cci_p + 6 + e.length <= f.size
           /\ e = IF Len(entries) < Len(f.entries) THEN f.entries[Len(entries) + 1] ELSE Zeros
           /\ Len(entries) < Len(f.entries) => cci_p + 6 + e.length = f.at[Len(entries) + 2]
           /\ Len(entries) >= Len(f.entries) => f.at[Len(f.at)] <= cci_p
<1> DEFINE k == Len(entries)
           m == Len(f.entries)
           hit == {i \in DOMAIN f.entries : f.at[i] = cci_p}
<1>1. /\ m \in Nat /\ k \in Nat /\ DOMAIN f.entries = 1 .. m /\ Len(f.at) = m + 1 /\ f.size \in Nat
      /\ \A i \in 1 .. m + 1 : f.at[i] \in Nat
    BY UsageFileFacts
<1>2. cci_p \in Nat /\ cci_size = f.size - cci_p /\ cci_size >= 6
    BY DEF Aligned, EntryOk
<1>3. ~(cci_p + 6 > f.size)
    BY <1>1, <1>2
<1>4. e \in IF hit = {} THEN {Zeros} ELSE {f.entries[i] : i \in hit}
    BY <1>3 DEF EntriesAt
<1>5. f.at[m + 1] <= f.size
    BY <1>1 DEF EntriesFit
<1>6. CASE k < m
    <2>1. cci_p = f.at[k + 1] /\ k + 1 \in 1 .. m
        BY <1>1, <1>6 DEF Aligned
    <2>2. k + 1 \in hit
        BY <2>1, <1>1
    <2>3. ASSUME NEW i \in hit PROVE i = k + 1
        <3>1. i \in 1 .. m /\ f.at[i] = f.at[k + 1] /\ f.at[i] \in Nat
            BY <1>1, <2>1
        <3>2. i \in 1 .. m + 1 /\ k + 1 \in 1 .. m + 1
            BY <3>1, <2>1, <1>1
        <3>3. ~(i < k + 1)
            <4> SUFFICES ASSUME i < k + 1 PROVE FALSE
                OBVIOUS
            <4>1. f.at[i] + 6 <= f.at[k + 1]
                BY <3>2, OffsetsGrow
            <4> QED BY <4>1, <3>1
        <3>4. ~(k + 1 < i)
            <4> SUFFICES ASSUME k + 1 < i PROVE FALSE
                OBVIOUS
            <4>1. f.at[k + 1] + 6 <= f.at[i]
                BY <3>2, OffsetsGrow
            <4> QED BY <4>1, <3>1
        <3> QED BY <3>2, <3>3, <3>4, <1>1
    <2>4. e = f.entries[k + 1]
        <3> HIDE DEF hit, k, m
        <3> QED BY <2>2, <2>3, <1>4
    <2>5. f.at[k + 2] = cci_p + 6 + e.length
        <3>1. f.at[k + 1 + 1] = f.at[k + 1] + 6 + f.entries[k + 1].length
            BY <2>1, UsageFileFacts
        <3>2. k + 1 + 1 = k + 2
            BY <1>1
        <3> QED BY <3>1, <3>2, <2>1, <2>4
    <2>6. f.at[k + 2] <= f.at[m + 1]
        <3>1. CASE k + 2 = m + 1
            BY <3>1, <1>1
        <3>2. CASE k + 2 # m + 1
            <4>1. k + 2 \in 1 .. m + 1 /\ m + 1 \in 1 .. m + 1 /\ k + 2 < m + 1
                BY <1>1, <1>6, <3>2
            <4>2. f.at[k + 2] + 6 <= f.at[m + 1] /\ f.at[k + 2] \in Nat /\ f.at[m + 1] \in Nat
                BY <4>1, <1>1, OffsetsGrow
            <4> QED BY <4>2
        <3> QED BY <3>1, <3>2
    <2>7. f.at[k + 2] \in Nat /\ f.at[m + 1] \in Nat
        BY <1>1, <1>6
    <2> QED
        <3>1. cci_p + 6 + e.length <= f.size
            BY <1>1, <1>5, <2>5, <2>6, <2>7
        <3> QED BY <1>1, <1>6, <2>4, <2>5, <3>1
<1>7. CASE k >= m
    <2>1. f.at[m + 1] <= cci_p
        <3>1. CASE k = m
            BY <1>1, <1>2, <3>1 DEF Aligned
        <3>2. CASE k > m
            BY <1>1, <3>2 DEF Aligned
        <3> QED BY <1>1, <1>7, <3>1, <3>2
    <2>2. hit = {}
        <3> SUFFICES ASSUME NEW i \in hit PROVE FALSE
            OBVIOUS
        <3>1. i \in 1 .. m + 1 /\ m + 1 \in 1 .. m + 1 /\ i < m + 1 /\ f.at[i] = cci_p
            BY <1>1
        <3>2. f.at[i] + 6 <= f.at[m + 1] /\ f.at[m + 1] \in Nat
            BY <3>1, <1>1, OffsetsGrow
        <3> QED BY <3>1, <3>2, <2>1, <1>2
    <2>3. e = Zeros
        BY <1>4, <2>2
    <2>4. e.length = 0
        BY <2>3 DEF Zeros
    <2> QED BY <1>1, <1>2, <1>3, <1>7, <2>1, <2>3, <2>4
<1> QED BY <1>1, <1>6, <1>7

\* Behind an entry that is inside the file the number of bytes left does not wrap around.
LEMMA BytesLeft ==
    ASSUME NEW p \in Nat, NEW n \in Nat, NEW bytes \in Nat, NEW M \in Nat, p + 6 + n <= bytes, bytes < M
    PROVE  (bytes - p - (6 + n)) % M = bytes - (p + 6 + n) /\ p + 6 + n \in Nat
<1>1. bytes - p - (6 + n) = bytes - (p + 6 + n) /\ bytes - (p + 6 + n) \in Nat /\ bytes - (p + 6 + n) < M
    OBVIOUS
<1>2. ASSUME NEW x \in Nat, x < M PROVE x % M = x
    BY <1>2
<1> QED BY <1>1, <1>2

LEMMA ParseEntryStep == ASSUME CciInv, ParseEntry PROVE CciInv'
<1>1. cci_pc = "entry" /\ HasFile /\ CciKeep /\ entries \in Seq(UsageEntries)
    BY DEF ParseEntry, CciInv
<1>2. cci_disc' = cci_disc /\ cci_call' = cci_call
    BY <1>1 DEF CciKeep
<1>3. UsageFile(cci_file)
    BY <1>1, TheFile
<1>4. PICK e \in EntriesAt(cci_file, cci_p) :
        IF EntryOk(e, cci_size)
        THEN /\ entries' = Append(entries, KeptEntry(e))
             /\ cci_reads' = cci_reads \cup {cci_p + LastByte(e)}
             /\ cci_p' = cci_p + 6 + e.length /\ cci_size' = Left(cci_size, e)
             /\ UNCHANGED <<which_cci, cci_pc, answer>>
        ELSE CciReturn(-1, Zeros)
    BY DEF ParseEntry
<1>5. CASE ~EntryOk(e, cci_size)
    BY <1>1, <1>4, <1>5, ErrorReturn
<1>6. CASE EntryOk(e, cci_size)
    <2>1. /\ entries' = Append(entries, KeptEntry(e))
          /\ cci_reads' = cci_reads \cup {cci_p + LastByte(e)}
          /\ cci_p' = cci_p + 6 + e.length /\ cci_size' = Left(cci_size, e)
          /\ which_cci' = which_cci /\ cci_pc' = "entry" /\ answer' = answer
        BY <1>1, <1>4, <1>6
    <2>2. e \in UsageEntries
        <3>1. e = Zeros \/ \E i \in DOMAIN cci_file.entries : e = cci_file.entries[i]
            BY DEF EntriesAt
        <3> QED BY <1>3, <3>1, UsageFileFacts, ZerosType
    <2>3. KeptEntry(e) \in UsageEntries /\ e.length \in Nat
        BY <2>2, KeptType DEF UsageEntries
    <2>4. /\ entries' \in Seq(UsageEntries) /\ Len(entries') = Len(entries) + 1 /\ Len(entries) \in Nat
          /\ \A j \in 1 .. Len(entries) : entries'[j] = entries[j]
          /\ entries'[Len(entries) + 1] = KeptEntry(e)
        BY <1>1, <2>1, <2>3
    <2>5. cci_file' = cci_file /\ HasFile' = HasFile
        BY <1>2, <2>1 DEF cci_file, HasFile
    <2>6. (EntriesFit(cci_file))' <=> EntriesFit(cci_file)
        BY <2>5 DEF EntriesFit
    <2>7. ASSUME EntriesFit(cci_file)
          PROVE  Aligned(cci_file)' /\ Stored(cci_file)' /\ \A b \in cci_reads' : b < cci_file.size
        <3> DEFINE f == cci_file
                   k == Len(entries)
                   m == Len(cci_file.entries)
        <3>1. Aligned(f) /\ Stored(f) /\ \A b \in cci_reads : b < f.size
            BY <1>1, <2>7 DEF CciInv
        <3>2. /\ cci_p + 6 + e.length <= f.size
              /\ e = IF k < m THEN f.entries[k + 1] ELSE Zeros
              /\ k < m => cci_p + 6 + e.length = f.at[k + 2]
              /\ k >= m => f.at[Len(f.at)] <= cci_p
            BY <1>1, <1>3, <1>6, <2>7, <3>1, EntryFound
        <3>3. /\ cci_p \in Nat /\ cci_size = f.size - cci_p /\ f.size \in Nat /\ m \in Nat /\ k \in Nat
              /\ f.size < SizeMod /\ SizeMod \in Nat /\ Len(f.at) = m + 1 /\ f.at[m + 1] \in Nat
            BY <1>3, <2>4, <3>1, UsageFileFacts DEF Aligned
        <3>4. cci_p + 6 + e.length <= f.size
            BY <3>2
        <3>5. cci_size' = f.size - cci_p' /\ cci_p' \in Nat /\ cci_p' <= f.size
            <4> HIDE DEF f, k, m
            <4>1. PICK n \in Nat : n = e.length
                BY <2>3
            <4>2. (cci_size - (6 + n)) % SizeMod = f.size - (cci_p + 6 + n) /\ cci_p + 6 + n \in Nat
                <5>1. PICK s \in Nat : s = f.size
                    BY <3>3
                <5>2. cci_p + 6 + n <= s /\ s < SizeMod /\ SizeMod \in Nat /\ cci_p \in Nat
                    BY <3>4, <3>3, <4>1, <5>1
                <5>3. (s - cci_p - (6 + n)) % SizeMod = s - (cci_p + 6 + n) /\ cci_p + 6 + n \in Nat
                    BY <5>2, BytesLeft
                <5> QED BY <3>3, <5>1, <5>3
            <4> QED BY <2>1, <3>4, <4>1, <4>2 DEF Left
        <3>6. Aligned(f)'
            <4>1. CASE k < m
                <5>1. k + 1 <= m /\ k + 1 + 1 = k + 2 /\ ~(k + 1 > m)
                    BY <4>1, <3>3
                <5> QED BY <5>1, <4>1, <2>1, <2>4, <2>5, <3>2, <3>5 DEF Aligned
            <4>2. CASE k >= m
                <5>1. ~(k + 1 <= m)
                    BY <4>2, <3>3
                <5>2. f.at[m + 1] <= cci_p'
                    BY <4>2, <2>1, <2>3, <3>2, <3>3
                <5> QED BY <5>1, <5>2, <2>4, <2>5, <3>3, <3>5 DEF Aligned
            <4> QED BY <4>1, <4>2, <3>3
        <3>7. Stored(f)'
            <4> SUFFICES ASSUME NEW j \in 1 .. Len(entries')
                         PROVE  entries'[j] = IF j <= m THEN KeptEntry(f.entries[j]) ELSE Zeros
                BY <2>5 DEF Stored
            <4>1. CASE j <= k
                BY <4>1, <2>4, <3>1, <3>3 DEF Stored
            <4>2. CASE j = k + 1
                BY <4>2, <2>4, <3>2, <3>3, ZerosType
            <4> QED BY <4>1, <4>2, <2>4, <3>3
        <3>8. ASSUME NEW b \in cci_reads' PROVE b < f.size
            <4>1. cci_p + LastByte(e) < f.size
                <5>1. LastByte(e) < 6 + e.length
                    BY <1>6, <2>2, LastByteInside
                <5>2. LastByte(e) \in Int
                    BY <2>2 DEF LastByte, CopiedTitles, UsageEntries
                <5> HIDE DEF f, k, m
                <5> QED BY <5>1, <5>2, <2>3, <3>4, <3>3
            <4> QED BY <4>1, <2>1, <3>1
        <3> QED BY <3>6, <3>7, <3>8
    <2> QED BY <1>1, <1>2, <2>1, <2>4, <2>5, <2>6, <2>7 DEF CciInv
<1> QED BY <1>5, <1>6

LEMMA CciInvariant == CciSpec => []CciInv
<1>1. CciInit => CciInv
    BY DEF CciInit, CciInv
<1>2. CciInv /\ [CciNext]_cci_vars => CciInv'
    <2> SUFFICES ASSUME CciInv, [CciNext]_cci_vars PROVE CciInv'
        OBVIOUS
    <2>1. CASE CheckUnencrypted \/ GetBasicCci \/ InvalidTitle
        BY <2>1, CciCallStep
    <2>2. CASE ReadCciFile
        BY <2>2, ReadCciStep
    <2>3. CASE ParseEntry
        BY <2>3, ParseEntryStep
    <2>4. CASE Reply
        BY <2>4, ReplyStep
    <2>5. CASE UNCHANGED cci_vars
        BY <2>5 DEF CciInv, cci_vars, cci_file, HasFile, EntriesFit, Aligned, Stored, IsUnencrypted,
                    FirstEntry, Decides
    <2> QED BY <2>1, <2>2, <2>3, <2>4, <2>5 DEF CciNext
<1> QED BY <1>1, <1>2, PTL DEF CciSpec

\* For every usage file: cci_parse() reads only bytes of the file, whatever number of entries
\* the file claims, as long as its entries are inside it.
THEOREM UsageReadsFit == CciSpec => []CciReadsFit
<1>1. CciInv => CciReadsFit
    BY DEF CciInv, CciReadsFit
<1> QED BY <1>1, CciInvariant, PTL

\* _bitcpy() copies the bits of all titles if their number modulo 8 is at most 3.
LEMMA AllTitlesCopied == ASSUME NEW n \in Nat, n % 8 <= 3 PROVE CopiedTitles(n) = n
BY DEF CopiedTitles

\* A usage entry decides in the same way before and after it was stored.
LEMMA SameDecision ==
    ASSUME NEW e \in UsageEntries, e.num_titles % 8 <= 3
    PROVE  /\ KeptEntry(e).type = BASIC_CCI /\ KeptEntry(e).length = BasicLength
              /\ KeptEntry(e).free /\ KeptEntry(e).enhanced = {}
           <=> /\ e.type = BASIC_CCI /\ e.length = BasicLength /\ e.free
               /\ e.enhanced \cap 0 .. e.num_titles - 1 = {}
<1>1. KeptEntry(e).type = e.type /\ KeptEntry(e).length = e.length
    BY KeptType
<1>2. CASE e.type = BASIC_CCI /\ e.length = BasicLength
    <2>1. e.num_titles \in Nat /\ e.enhanced \subseteq Nat
        BY DEF UsageEntries
    <2>2. CopiedTitles(e.num_titles) = e.num_titles
        BY <2>1, AllTitlesCopied
    <2>3. KeptEntry(e).free = e.free /\ KeptEntry(e).enhanced = {t \in e.enhanced : t < e.num_titles}
        BY <1>2, <2>2 DEF KeptEntry, UsageEntries
    <2>4. {t \in e.enhanced : t < e.num_titles} = e.enhanced \cap 0 .. e.num_titles - 1
        BY <2>1
    <2> QED BY <1>1, <1>2, <2>3, <2>4
<1>3. CASE ~(e.type = BASIC_CCI /\ e.length = BasicLength)
    BY <1>1, <1>3
<1> QED BY <1>2, <1>3

\* The entries that can decide are the same in the file and in what the parser has stored.
LEMMA SameCandidates ==
    ASSUME NEW f, UsageFile(f), Stored(f), entries \in Seq(UsageEntries), Len(entries) = f.num_entry
    PROVE  /\ {i \in DOMAIN entries : entries[i].type \in {BASIC_CCI, ENHANCED_TITLE_USAGE}}
               = {i \in DOMAIN Claimed(f) : Claimed(f)[i].type \in {BASIC_CCI, ENHANCED_TITLE_USAGE}}
           /\ \A i \in DOMAIN entries : entries[i].type \in {BASIC_CCI, ENHANCED_TITLE_USAGE} =>
                  Claimed(f)[i] \in UsageEntries /\ entries[i] = KeptEntry(Claimed(f)[i])
<1> DEFINE n == f.num_entry
           m == Len(f.entries)
           c == Min({n, m})
<1>1. /\ n \in Nat /\ m \in Nat /\ f.entries \in Seq(UsageEntries)
      /\ \A i \in 1 .. m : f.entries[i] \in UsageEntries
    BY UsageFileFacts
<1>2. c = IF n <= m THEN n ELSE m
    <2>1. c \in {n, m} /\ \A y \in {n, m} : c <= y
        <3>1. \E x \in {n, m} : \A y \in {n, m} : x <= y
            BY <1>1
        <3> QED BY <3>1, Zenon DEF Min
    <2> QED BY <1>1, <2>1
<1>3. DOMAIN Claimed(f) = 1 .. c /\ \A i \in 1 .. c : Claimed(f)[i] = f.entries[i]
    <2>1. c \in Nat /\ c <= m
        BY <1>1, <1>2
    <2>2. Claimed(f) = SubSeq(f.entries, 1, c)
        BY DEF Claimed
    <2> HIDE DEF c
    <2> QED BY <1>1, <2>1, <2>2
<1>4. DOMAIN entries = 1 .. n
    OBVIOUS
<1>5. ASSUME NEW i \in 1 .. n, i <= m
      PROVE  entries[i] = KeptEntry(f.entries[i]) /\ entries[i].type = f.entries[i].type
    <2>1. i \in 1 .. m
        BY <1>1, <1>5
    <2>2. entries[i] = KeptEntry(f.entries[i])
        BY <1>5 DEF Stored
    <2> QED BY <1>1, <2>1, <2>2, KeptType
<1>6. ASSUME NEW i \in 1 .. n, ~(i <= m) PROVE entries[i].type \notin {BASIC_CCI, ENHANCED_TITLE_USAGE}
    <2>1. entries[i] = Zeros
        BY <1>6 DEF Stored
    <2> QED BY <2>1 DEF Zeros, BASIC_CCI, ENHANCED_TITLE_USAGE
<1> HIDE DEF c
<1>7. \A i : i \in 1 .. c <=> i \in 1 .. n /\ i <= m
    BY <1>1, <1>2
<1> HIDE DEF n, m
<1>8. \A i \in 1 .. n : entries[i].type \in {BASIC_CCI, ENHANCED_TITLE_USAGE} =>
          i \in 1 .. c /\ Claimed(f)[i] \in UsageEntries /\ entries[i] = KeptEntry(Claimed(f)[i])
    <2> SUFFICES ASSUME NEW i \in 1 .. n, entries[i].type \in {BASIC_CCI, ENHANCED_TITLE_USAGE}
                 PROVE  i \in 1 .. c /\ Claimed(f)[i] \in UsageEntries /\ entries[i] = KeptEntry(Claimed(f)[i])
        OBVIOUS
    <2>1. i <= m
        BY <1>6
    <2>2. i \in 1 .. c /\ i \in 1 .. m
        BY <2>1, <1>1, <1>7
    <2> QED BY <2>1, <2>2, <1>1, <1>3, <1>5
<1>9. \A i \in 1 .. c : i \in 1 .. n /\ Claimed(f)[i].type = entries[i].type
    BY <1>3, <1>5, <1>7
<1> QED BY <1>3, <1>4, <1>8, <1>9

\* For every usage file whose entries are inside it: cci_is_unencrypted() says yes if and only
\* if the entry that decides is a basic CCI that allows any use, without enhanced titles.
THEOREM UnencryptedMeansFree == CciSpec => []UnencryptedIsRight
<1>1. CciInv => UnencryptedIsRight
    <2> DEFINE f == cci_file
               cl == Claimed(f)
               ins == {i \in DOMAIN entries : entries[i].type \in {BASIC_CCI, ENHANCED_TITLE_USAGE}}
               outs == {i \in DOMAIN cl : cl[i].type \in {BASIC_CCI, ENHANCED_TITLE_USAGE}}
               stored == IF ins = {} THEN Zeros ELSE entries[Min(ins)]
               e == IF outs = {} THEN Zeros ELSE cl[Min(outs)]
    <2>1. SUFFICES ASSUME CciInv, cci_pc = "done", cci_call.op = "check", answer.code >= 0, EntriesFit(f),
                          e.num_titles % 8 <= 3
                   PROVE  answer.code = 1 <=> /\ e.type = BASIC_CCI /\ e.length = BasicLength /\ e.free
                                              /\ e.enhanced \cap 0 .. e.num_titles - 1 = {}
        BY DEF UnencryptedIsRight, FirstEntry
    <2>2. /\ HasFile /\ Len(entries) = f.num_entry /\ answer.code = IsUnencrypted(entries)
          /\ Stored(f) /\ entries \in Seq(UsageEntries)
        BY <2>1 DEF CciInv
    <2>3. UsageFile(f)
        BY <2>1, <2>2, TheFile
    <2>4. /\ ins = outs
          /\ \A i \in ins : cl[i] \in UsageEntries /\ entries[i] = KeptEntry(cl[i])
        BY <2>2, <2>3, SameCandidates
    <2>5. e \in UsageEntries /\ stored = KeptEntry(e)
        <3>1. CASE ins = {}
            BY <3>1, <2>4, ZerosType
        <3>2. CASE ins # {}
            <4>1. ins \subseteq Nat
                BY <2>2
            <4>2. Min(ins) \in ins
                <5> HIDE DEF ins
                <5>1. \E x \in ins : \A y \in ins : x <= y
                    BY <3>2, <4>1, LeastNatural
                <5> QED BY <5>1, Zenon DEF Min
            <4> HIDE DEF ins, outs, cl
            <4> QED BY <3>2, <4>2, <2>4
        <3> QED BY <3>1, <3>2
    <2>6. answer.code = IF stored.type = BASIC_CCI /\ stored.length = BasicLength /\ stored.free
                           /\ stored.enhanced = {} THEN 1 ELSE 0
        BY <2>2 DEF IsUnencrypted, FirstEntry, Decides
    <2> HIDE DEF e, stored
    <2> QED BY <2>1, <2>5, <2>6, SameDecision
<1> QED BY <1>1, CciInvariant, PTL

-----------------------------------------------------------------------------
(***************************************************************************)
(* The media key (MediaKey), for device numbers of every width.            *)
(*                                                                         *)
(* First the arithmetic of powers of two: cutting off bits, and the one    *)
(* node that a word other than 0 names.  Then the keys: a device that an   *)
(* entry serves has the key of a node on the way from v up to u, and       *)
(* _calc_pk() stays on that way.  The invariant says that a device is      *)
(* given up only if no entry of the record serves it.                      *)
(***************************************************************************)

(* Powers *)

LEMMA PowerFacts ==
    ASSUME NEW b \in Nat \ {0}
    PROVE  /\ \A k \in Nat : Power(b)[k] \in Nat \ {0}
           /\ Power(b)[0] = 1 /\ \A k \in Nat : Power(b)[k + 1] = b * Power(b)[k]
<1> DEFINE step == [n \in Nat |-> b * n]
           IsSolution(h) == h = [n \in Nat |-> IF n = 0 THEN 1 ELSE b * h[n - 1]]
<1>1. PICK g \in [Nat -> Nat] : g[0] = 1 /\ \A n \in Nat : n # 0 => g[n] = step[g[n - 1]]
    <2>1. step \in [Nat -> Nat]
        OBVIOUS
    <2> HIDE DEF step
    <2>2. 1 \in Nat
        OBVIOUS
    <2> QED BY <2>1, <2>2, Iteration
<1>2. IsSolution(g)
    <2>1. ASSUME NEW n \in Nat, n # 0 PROVE g[n] = b * g[n - 1]
        <3>1. n - 1 \in Nat /\ g[n - 1] \in Nat
            BY <2>1
        <3> QED BY <1>1, <2>1, <3>1
    <2>2. g = [n \in Nat |-> g[n]]
        OBVIOUS
    <2> QED BY <1>1, <2>1, <2>2
<1>3. Power(b) = CHOOSE h : IsSolution(h)
    BY DEF Power
<1> DEFINE p == Power(b)
<1>4. IsSolution(p)
    <2> HIDE DEF IsSolution
    <2> QED BY <1>2, <1>3
<1> HIDE DEF p
<1>5. p[0] = 1 /\ \A n \in Nat : p[n + 1] = b * p[n]
    BY <1>4
<1>6. ASSUME NEW n \in Nat PROVE p[n] \in Nat \ {0}
    <2> DEFINE T == {j \in Nat : p[j] \notin Nat \ {0}}
    <2>1. SUFFICES ASSUME T # {} PROVE FALSE
        OBVIOUS
    <2>2. PICK k \in T : \A y \in T : k <= y
        <3>1. T \subseteq Nat
            OBVIOUS
        <3> HIDE DEF T
        <3> QED BY <2>1, <3>1, LeastNatural
    <2>3. k # 0
        BY <2>2, <1>5
    <2>4. k - 1 \in Nat /\ k - 1 \notin T /\ k - 1 + 1 = k
        BY <2>2, <2>3
    <2>5. p[k] = b * p[k - 1] /\ p[k - 1] \in Nat \ {0}
        BY <1>5, <2>4
    <2>6. p[k] \in Nat \ {0}
        BY <2>5
    <2> QED BY <2>2, <2>6
<1> QED BY <1>5, <1>6 DEF p

LEMMA Pow2Facts ==
    /\ \A k \in Nat : Pow2[k] \in Nat \ {0}
    /\ Pow2[0] = 1 /\ \A k \in Nat : Pow2[k + 1] = 2 * Pow2[k]
BY PowerFacts DEF Pow2

\* A number less its low k bits.
LEMMA CutType == ASSUME NEW x \in Nat, NEW k \in Nat PROVE x \div Pow2[k] \in Nat
<1>1. Pow2[k] \in Nat \ {0}
    BY Pow2Facts
<1> QED BY <1>1

\* Division with remainder.
LEMMA Division ==
    ASSUME NEW x \in Nat, NEW p \in Nat \ {0}
    PROVE  /\ x \div p \in Nat /\ x % p \in 0 .. p - 1 /\ x = (x \div p) * p + (x % p)
OBVIOUS

LEMMA Quotient ==
    ASSUME NEW p \in Nat \ {0}, NEW q \in Nat, NEW r \in 0 .. p - 1
    PROVE  (q * p + r) \div p = q /\ (q * p + r) % p = r
<1> DEFINE x == q * p + r
           d == x \div p
           s == x % p
<1>1. x \in Nat
    OBVIOUS
<1>2. d \in Nat /\ s \in 0 .. p - 1 /\ x = d * p + s
    BY <1>1, Division
<1>3. (d - q) * p = r - s
    <2>1. d * p + s = q * p + r
        BY <1>2
    <2> HIDE DEF d, s
    <2> QED BY <1>2, <2>1
<1> HIDE DEF d, s, x
<1>4. ~(d - q >= 1)
    <2>1. SUFFICES ASSUME d - q >= 1 PROVE (d - q) * p >= p
        BY <1>2, <1>3
    <2> QED BY <1>2, <2>1
<1>5. ~(q - d >= 1)
    <2>1. SUFFICES ASSUME q - d >= 1 PROVE (q - d) * p >= p
        BY <1>2, <1>3
    <2> QED BY <1>2, <2>1
<1>6. d = q
    BY <1>2, <1>4, <1>5
<1>7. s = r
    BY <1>2, <1>3, <1>6
<1> QED BY <1>6, <1>7 DEF d, s, x

\* Cutting off one bit more is halving.
LEMMA CutOneMore ==
    ASSUME NEW x \in Nat, NEW k \in Nat
    PROVE  x \div Pow2[k + 1] = (x \div Pow2[k]) \div 2
<1> DEFINE p == Pow2[k]
<1>1. p \in Nat \ {0} /\ Pow2[k + 1] = 2 * p
    BY Pow2Facts
<1> HIDE DEF p
<1>2. x \div (2 * p) = (x \div p) \div 2
    BY <1>1
<1> QED BY <1>1, <1>2 DEF p

\* Numbers that agree above bit a agree above every higher one.
LEMMA CutsAgree ==
    ASSUME NEW x \in Nat, NEW y \in Nat, NEW a \in Nat, NEW b \in Nat, a <= b,
           x \div Pow2[a] = y \div Pow2[a]
    PROVE  x \div Pow2[b] = y \div Pow2[b]
<1> DEFINE T == {j \in Nat : a <= j /\ x \div Pow2[j] # y \div Pow2[j]}
<1>1. SUFFICES ASSUME T # {} PROVE FALSE
    OBVIOUS
<1>2. PICK k \in T : \A j \in T : k <= j
    <2>1. T \subseteq Nat
        OBVIOUS
    <2> HIDE DEF T
    <2> QED BY <1>1, <2>1, LeastNatural
<1>3. k # a
    BY <1>2
<1>4. k - 1 \in Nat /\ a <= k - 1 /\ k - 1 \notin T /\ k - 1 + 1 = k
    BY <1>2, <1>3
<1>5. x \div Pow2[k - 1] = y \div Pow2[k - 1]
    BY <1>4
<1>6. x \div Pow2[k] = y \div Pow2[k]
    BY <1>4, <1>5, CutOneMore
<1> QED BY <1>2, <1>6

\* A higher power of two is an even multiple of a lower one.
LEMMA HigherPower ==
    ASSUME NEW a \in Nat, NEW b \in Nat, a < b
    PROVE  \E c \in Nat : Pow2[b] = (2 * c) * Pow2[a]
<1> DEFINE Even(j) == \E c \in Nat : Pow2[j] = (2 * c) * Pow2[a]
           T == {j \in Nat : a < j /\ ~Even(j)}
<1>1. SUFFICES ASSUME T # {} PROVE FALSE
    OBVIOUS
<1>2. PICK k \in T : \A j \in T : k <= j
    <2>1. T \subseteq Nat
        OBVIOUS
    <2> HIDE DEF T
    <2> QED BY <1>1, <2>1, LeastNatural
<1>3. k - 1 \in Nat /\ k - 1 + 1 = k /\ k - 1 \notin T /\ a <= k - 1
    BY <1>2
<1>4. Pow2[k] = 2 * Pow2[k - 1] /\ Pow2[k - 1] \in Nat /\ Pow2[a] \in Nat
    BY <1>3, Pow2Facts
<1>5. CASE k - 1 = a
    <2>1. Pow2[k] = (2 * 1) * Pow2[a]
        BY <1>4, <1>5
    <2> QED BY <1>2, <2>1
<1>6. CASE k - 1 # a
    <2>1. PICK c \in Nat : Pow2[k - 1] = (2 * c) * Pow2[a]
        BY <1>3, <1>6
    <2>2. Pow2[k] = (2 * (2 * c)) * Pow2[a] /\ 2 * c \in Nat
        BY <1>4, <2>1
    <2> QED BY <1>2, <2>2
<1> QED BY <1>5, <1>6

\* An odd multiple of a power of two is no odd multiple of a higher one.
LEMMA OddMultiples ==
    ASSUME NEW a \in Nat, NEW b \in Nat, NEW n \in Nat, NEW m \in Nat,
           (2 * n + 1) * Pow2[a] = (2 * m + 1) * Pow2[b]
    PROVE  ~(a < b)
<1> SUFFICES ASSUME a < b PROVE FALSE
    OBVIOUS
<1>1. PICK c \in Nat : Pow2[b] = (2 * c) * Pow2[a]
    BY HigherPower
<1>2. Pow2[a] \in Nat \ {0}
    BY Pow2Facts
<1> DEFINE p == Pow2[a]
           q == (2 * m + 1) * c
<1>3. q \in Nat /\ (2 * m + 1) * ((2 * c) * p) = (2 * q) * p
    BY <1>2
<1> HIDE DEF p, q
<1>4. (2 * n + 1) * p = (2 * q) * p
    BY <1>1, <1>3 DEF p
<1>5. p \in Nat \ {0}
    BY <1>2 DEF p
<1>6. (2 * n + 1 - 2 * q) * p = 0
    BY <1>3, <1>4, <1>5
<1>7. 2 * n + 1 - 2 * q = 0
    <2> DEFINE z == 2 * n + 1 - 2 * q
    <2>1. z \in Int /\ z * p = 0
        BY <1>3, <1>6
    <2> HIDE DEF z
    <2>2. z = 0
        BY <1>5, <2>1
    <2> QED BY <2>2 DEF z
<1> QED BY <1>3, <1>7

-----------------------------------------------------------------------------
(* The node v of a word *)

\* k is the number of zeros of the mask of v: the bits of x below k are a one and zeros.
IsMask(x, k) == UvBit(x, k - 1) = 1 /\ x % Pow2[k - 1] = 0

\* The same with the node instead of bits.
LEMMA MaskNode ==
    ASSUME NEW x \in Nat, NEW k \in Nat \ {0}
    PROVE  IsMask(x, k) <=> x = (x \div Pow2[k]) * Pow2[k] + Pow2[k - 1]
<1> DEFINE p == Pow2[k - 1]
           q == x \div p
           n == x \div Pow2[k]
<1>1. k - 1 \in Nat /\ k - 1 + 1 = k
    OBVIOUS
<1>2. p \in Nat \ {0} /\ Pow2[k] = 2 * p
    BY <1>1, Pow2Facts
<1>3. n = q \div 2
    BY <1>1, CutOneMore
<1>4. q \in Nat /\ x % p \in 0 .. p - 1 /\ x = q * p + (x % p)
    BY <1>2, Division
<1>5. UvBit(x, k - 1) = q % 2
    BY DEF UvBit
<1>6. (x \div Pow2[k]) * Pow2[k] + Pow2[k - 1] = n * (2 * p) + p
    BY <1>2
<1> HIDE DEF n, p, q
<1>7. n \in Nat /\ q % 2 \in {0, 1} /\ q = 2 * n + (q % 2)
    BY <1>3, <1>4
<1>8. ASSUME q % 2 = 1, x % p = 0 PROVE x = n * (2 * p) + p
    <2>1. q = 2 * n + 1 /\ x = q * p
        BY <1>2, <1>4, <1>7, <1>8
    <2>2. (2 * n + 1) * p = n * (2 * p) + p
        BY <1>2, <1>7
    <2> QED BY <2>1, <2>2
<1>9. ASSUME x = n * (2 * p) + p PROVE q % 2 = 1 /\ x % p = 0
    <2>1. n * (2 * p) + p = (2 * n + 1) * p + 0
        BY <1>2, <1>7
    <2>2. x \div p = 2 * n + 1 /\ x % p = 0
        <3>1. 2 * n + 1 \in Nat /\ 0 \in 0 .. p - 1
            BY <1>2, <1>7
        <3>2. ((2 * n + 1) * p + 0) \div p = 2 * n + 1 /\ ((2 * n + 1) * p + 0) % p = 0
            BY <1>2, <3>1, Quotient
        <3>3. x = (2 * n + 1) * p + 0
            BY <1>9, <2>1
        <3> QED BY <3>2, <3>3
    <2>3. q = 2 * n + 1
        BY <2>2 DEF q
    <2> QED BY <1>7, <2>2, <2>3
<1>10. IsMask(x, k) <=> (q % 2 = 1 /\ x % p = 0)
    BY <1>5 DEF IsMask, p
<1> QED BY <1>6, <1>8, <1>9, <1>10

\* A word v 1 0 ... 0 names one node.
LEMMA OneNode ==
    ASSUME NEW x \in Nat, NEW k \in Nat \ {0}, NEW n \in Nat, x = n * Pow2[k] + Pow2[k - 1]
    PROVE  /\ IsMask(x, k) /\ x \div Pow2[k] = n
           /\ \A j \in Nat \ {0} : IsMask(x, j) => j = k
<1> DEFINE p == Pow2[k - 1]
<1>1. k - 1 \in Nat /\ k - 1 + 1 = k
    OBVIOUS
<1>2. p \in Nat \ {0} /\ Pow2[k] = 2 * p
    BY <1>1, Pow2Facts
<1> HIDE DEF p
<1>3. 2 * p \in Nat \ {0} /\ p \in 0 .. (2 * p) - 1 /\ x = n * (2 * p) + p
    BY <1>2 DEF p
<1>4. x \div (2 * p) = n
    <2> DEFINE d == 2 * p
    <2>1. d \in Nat \ {0} /\ p \in 0 .. d - 1 /\ x = n * d + p
        BY <1>3
    <2> HIDE DEF d
    <2>2. x \div d = n
        BY <2>1, Quotient
    <2> QED BY <2>2 DEF d
<1>5. x \div Pow2[k] = n
    BY <1>2, <1>4
<1>6. IsMask(x, k)
    BY <1>5, MaskNode
<1>7. ASSUME NEW j \in Nat \ {0}, IsMask(x, j) PROVE j = k
    <2> DEFINE m == x \div Pow2[j]
    <2>1. j - 1 \in Nat /\ j - 1 + 1 = j
        OBVIOUS
    <2>2. Pow2[j] = 2 * Pow2[j - 1] /\ Pow2[j - 1] \in Nat /\ Pow2[j] \in Nat
        BY <2>1, Pow2Facts
    <2>3. x = m * Pow2[j] + Pow2[j - 1] /\ m \in Nat
        BY <1>7, MaskNode, CutType
    <2> HIDE DEF m
    <2>4. x = (2 * m + 1) * Pow2[j - 1]
        BY <2>2, <2>3
    <2>5. x = (2 * n + 1) * Pow2[k - 1]
        BY <1>2, <1>3 DEF p
    <2>6. ~(j - 1 < k - 1)
        BY <1>1, <2>1, <2>3, <2>4, <2>5, OddMultiples
    <2>7. ~(k - 1 < j - 1)
        BY <1>1, <2>1, <2>3, <2>4, <2>5, OddMultiples
    <2> QED BY <2>6, <2>7
<1> QED BY <1>5, <1>6, <1>7

\* Every word but 0 has a lowest one.
LEMMA MaskExists == ASSUME NEW x \in Words, x # 0 PROVE \E k \in 1 .. W : IsMask(x, k)
<1> USE MediaKeyAssumption
<1> DEFINE T == {j \in Nat : x % Pow2[j] # 0}
<1>1. W \in Nat /\ x \in Nat /\ Pow2[W] \in Nat \ {0} /\ x < Pow2[W]
    BY Pow2Facts DEF Words
<1>2. W \in T
    <2> DEFINE p == Pow2[W]
    <2>1. p \in Nat \ {0} /\ x \in 0 .. p - 1
        BY <1>1
    <2> HIDE DEF p
    <2>2. x % p = x
        <3>1. (0 * p + x) % p = x /\ 0 * p + x = x
            BY <2>1, Quotient
        <3> QED BY <3>1
    <2>3. x % Pow2[W] = x
        BY <2>2 DEF p
    <2> QED BY <1>1, <2>3
<1>3. PICK k \in T : \A j \in T : k <= j
    <2>1. T \subseteq Nat
        OBVIOUS
    <2> HIDE DEF T
    <2> QED BY <1>2, <2>1, LeastNatural
<1>4. k # 0
    BY <1>3, <1>1, Pow2Facts
<1>5. k \in 1 .. W /\ k - 1 \in Nat /\ k - 1 + 1 = k /\ k - 1 \notin T
    BY <1>1, <1>2, <1>3, <1>4
<1>6. x % Pow2[k - 1] = 0
    BY <1>5
<1>7. UvBit(x, k - 1) = 1
    <2> DEFINE p == Pow2[k - 1]
               q == x \div p
    <2>1. p \in Nat \ {0} /\ Pow2[k] = 2 * p
        BY <1>5, Pow2Facts
    <2>2. q \in Nat /\ x = q * p
        <3>1. q \in Nat /\ x % p \in 0 .. p - 1 /\ x = q * p + (x % p)
            BY <1>1, <2>1, Division
        <3>2. x % p = 0
            BY <1>6
        <3> HIDE DEF p, q
        <3> QED BY <2>1, <3>1, <3>2
    <2>3. SUFFICES ASSUME q % 2 # 1 PROVE FALSE
        BY DEF UvBit
    <2>4. x % Pow2[k] # 0
        BY <1>3
    <2> HIDE DEF p, q
    <2>5. PICK r \in Nat : q = 2 * r
        <3>1. q = 2 * (q \div 2) /\ q \div 2 \in Nat
            BY <2>2, <2>3
        <3> QED BY <3>1
    <2>6. x = r * (2 * p) + 0
        BY <2>1, <2>2, <2>5
    <2> DEFINE d == 2 * p
    <2>7. d \in Nat \ {0} /\ 0 \in 0 .. d - 1 /\ x = r * d + 0
        BY <2>1, <2>6
    <2> HIDE DEF d
    <2>8. x % d = 0
        <3>1. (r * d + 0) % d = 0
            BY <2>7, Quotient
        <3> QED BY <2>7, <3>1
    <2> QED BY <2>1, <2>4, <2>8 DEF d
<1> QED BY <1>5, <1>6, <1>7 DEF IsMask

\* _calc_v_mask() finds it, and the node is the one the word names.
LEMMA VMaskFacts ==
    ASSUME NEW x \in Words, x # 0
    PROVE  VMask(x) \in 1 .. W /\ IsMask(x, VMask(x)) /\ VNode(x) = Node(x, VMask(x))
<1> USE MediaKeyAssumption
<1> DEFINE v == VMask(x)
           n == x \div Pow2[v]
           Names(y) == x = y[2] * Pow2[y[1]] + Pow2[y[1] - 1]
<1>1. x \in Nat /\ x < Pow2[W] /\ Pow2[W] \in Nat /\ W \in Nat
    BY Pow2Facts DEF Words
<1>2. v = CHOOSE k \in 1 .. W : IsMask(x, k)
    BY DEF VMask, IsMask
<1>3. v \in 1 .. W /\ IsMask(x, v)
    BY <1>2, MaskExists
<1> HIDE DEF v
<1>4. v \in Nat \ {0}
    BY <1>1, <1>3
<1>5. n \in Nat /\ x = n * Pow2[v] + Pow2[v - 1]
    BY <1>1, <1>3, <1>4, MaskNode, CutType
<1>6. n <= x
    <2>1. Pow2[v] \in Nat \ {0} /\ Pow2[v - 1] \in Nat
        <3>1. v - 1 \in Nat
            BY <1>4
        <3> QED BY <3>1, <1>4, Pow2Facts
    <2> DEFINE p == Pow2[v]
    <2> HIDE DEF p, n
    <2>2. n * p >= n
        BY <1>5, <2>1 DEF p
    <2> QED BY <1>1, <1>5, <2>1, <2>2 DEF p
<1>7. <<v, n>> \in (1 .. W) \X Words /\ Names(<<v, n>>)
    BY <1>1, <1>3, <1>5, <1>6 DEF Words
<1>8. ASSUME NEW y \in (1 .. W) \X Words, Names(y) PROVE y = <<v, n>>
    <2>1. y[1] \in Nat \ {0} /\ y[2] \in Nat /\ y = <<y[1], y[2]>>
        BY <1>1, <1>8 DEF Words
    <2>2. x \div Pow2[y[1]] = y[2] /\ (IsMask(x, v) => v = y[1])
        BY <1>1, <1>4, <1>8, <2>1, OneNode
    <2> QED BY <1>3, <2>1, <2>2
<1>9. VNode(x) = <<v, n>>
    <2>1. VNode(x) = CHOOSE y \in (1 .. W) \X Words : Names(y)
        BY DEF VNode
    <2> HIDE DEF Names, n
    <2> QED BY <1>7, <1>8, <2>1
<1> QED BY <1>3, <1>9 DEF v, Node

LEMMA VMaskIs ==
    ASSUME NEW x \in Nat, NEW k \in 1 .. W, NEW n \in Nat, x = n * Pow2[k] + Pow2[k - 1]
    PROVE  x # 0 /\ VMask(x) = k /\ x \div Pow2[k] = n
<1>1. k \in Nat \ {0} /\ k - 1 \in Nat
    BY MediaKeyAssumption
<1>2. Pow2[k - 1] \in Nat \ {0} /\ Pow2[k] \in Nat
    BY <1>1, Pow2Facts
<1>3. IsMask(x, k) /\ x \div Pow2[k] = n /\ \A j \in Nat \ {0} : IsMask(x, j) => j = k
    BY <1>1, OneNode
<1>4. \A j \in 1 .. W : j \in Nat \ {0}
    BY MediaKeyAssumption
<1>5. VMask(x) = CHOOSE j \in 1 .. W : IsMask(x, j)
    BY DEF VMask, IsMask
<1>6. VMask(x) = k
    BY <1>3, <1>4, <1>5
<1> QED BY <1>2, <1>3, <1>6

-----------------------------------------------------------------------------
(* Devices and entries *)

\* The search of _calc_mk_dks() looks for entries that serve the device.
LEMMA AppliesMeansServed ==
    ASSUME NEW d \in Words, NEW e \in Entries
    PROVE  Applies(d, e) <=> IsServed(d, e)
<1>1. SUFFICES ASSUME e.uv # 0, e.shift # EndMark PROVE Serves(d, e) <=> IsServed(d, e)
    BY DEF Applies, IsServed
<1>2. e.uv \in Words /\ e.shift \in 0 .. W
    BY <1>1, MediaKeyAssumption DEF Entries
<1>3. VNode(e.uv) = Node(e.uv, VMask(e.uv)) /\ VMask(e.uv) \in 0 .. W
    BY <1>1, <1>2, VMaskFacts, MediaKeyAssumption
<1>4. ASSUME NEW k \in 0 .. W PROVE Node(e.uv, k) \in Ancestors(d) <=> Below(d, Node(e.uv, k))
    BY DEF Node, Ancestors, Below
<1> QED BY <1>1, <1>2, <1>3, <1>4 DEF Serves, IsServed

\* Two numbers that differ only in their lowest bit are siblings.
LEMMA SiblingIs ==
    ASSUME NEW a \in Nat, NEW b \in Nat, a \div 2 = b \div 2, a # b
    PROVE  a = Sibling(b)
BY DEF Sibling

\* A device that an entry serves has a key for it: that of the last node, on the way up from v,
\* that is not above the device.
LEMMA ServedDeviceHasKey ==
    ASSUME NEW d \in Words, NEW e \in Entries, Applies(d, e)
    PROVE  \E key \in DeviceKeys(d) : Fits(key, e)
<1> DEFINE s == e.shift
           x == e.uv
           v == VMask(x)
<1>1. /\ x \in Words /\ x # 0 /\ s \in 0 .. W - 1 /\ W \in Nat
      /\ x \in Nat /\ d \in Nat
    BY MediaKeyAssumption, Pow2Facts DEF Applies, Entries, Words
<1>2. v \in 1 .. W
    BY <1>1, VMaskFacts
<1>3. d \div Pow2[s] = x \div Pow2[s] /\ d \div Pow2[v] # x \div Pow2[v]
    BY DEF Applies, Serves, Below, Node
<1> HIDE DEF s, x, v
<1>4. v < s
    <2>1. SUFFICES ASSUME s <= v PROVE FALSE
        BY <1>1, <1>2
    <2>2. s \in Nat /\ v \in Nat
        BY <1>1, <1>2
    <2> QED BY <1>1, <1>3, <2>1, <2>2, CutsAgree
<1> DEFINE T == {j \in Nat : v < j /\ d \div Pow2[j] = x \div Pow2[j]}
<1>5. s \in T
    BY <1>1, <1>3, <1>4
<1>6. PICK t \in T : \A j \in T : t <= j
    <2>1. T \subseteq Nat
        OBVIOUS
    <2> HIDE DEF T
    <2> QED BY <1>5, <2>1, LeastNatural
<1> DEFINE k == t - 1
<1>7. k \in Nat /\ k + 1 = t /\ v <= k /\ k + 1 <= s /\ k \notin T
    BY <1>1, <1>2, <1>5, <1>6
<1> HIDE DEF k
<1>8. d \div Pow2[k] # x \div Pow2[k]
    BY <1>1, <1>2, <1>3, <1>7
<1> DEFINE n == x \div Pow2[k]
<1>9. n = Sibling(d \div Pow2[k])
    <2>1. n \in Nat /\ d \div Pow2[k] \in Nat
        BY <1>1, <1>7, CutType
    <2>2. d \div Pow2[k + 1] = x \div Pow2[k + 1]
        BY <1>6, <1>7
    <2>3. n \div 2 = (d \div Pow2[k]) \div 2
        BY <1>1, <1>7, <2>2, CutOneMore
    <2> HIDE DEF n
    <2> QED BY <1>8, <2>1, <2>3, SiblingIs DEF n
<1>10. k \in 1 .. W - 2 /\ s \in 2 .. W - 1 /\ k < s /\ k \in 1 .. W
    BY <1>1, <1>2, <1>7
<1> DEFINE key == DeviceKey(d, s, k)
<1>11. key.node = d /\ key.shift = s /\ key.uv = n * Pow2[k] + Pow2[k - 1]
    BY <1>9 DEF DeviceKey
<1>12. key \in DeviceKeys(d)
    <2>1. <<s, k>> \in {q \in (2 .. W - 1) \X (1 .. W - 2) : q[2] < q[1]}
        BY <1>10
    <2>2. key = DeviceKey(d, <<s, k>>[1], <<s, k>>[2])
        OBVIOUS
    <2> HIDE DEF key
    <2> QED BY <2>1, <2>2 DEF DeviceKeys
<1> HIDE DEF key
<1>13. n \in Nat /\ key.uv \in Nat
    <2>1. k - 1 \in Nat
        BY <1>10
    <2>2. n \in Nat /\ Pow2[k] \in Nat /\ Pow2[k - 1] \in Nat
        BY <1>1, <1>7, <2>1, CutType, Pow2Facts
    <2> HIDE DEF n
    <2> QED BY <1>11, <2>2
<1>14. key.uv # 0 /\ VMask(key.uv) = k /\ key.uv \div Pow2[k] = n
    <2> HIDE DEF n
    <2> QED BY <1>10, <1>11, <1>13, VMaskIs
<1>15. Fits(key, e)
    BY <1>11, <1>14 DEF Fits, Below, Node, s, x
<1> QED BY <1>12, <1>15

-----------------------------------------------------------------------------
(* The search *)

\* All devices of the list have all their keys, and no key is above its u.
GoodKeys == \A k \in 1 .. Len(dkl) : Complete(dkl[k].node) /\ KeyIsBelowU(dkl[k])

\* No entry of the record serves d.
Excluded(d) == \A i \in Reached : ~IsServed(d, uvs[i])

MkTypeOK ==
    /\ uvs \in Seq(Entries) /\ behind \in Seq(Entries) /\ behind # <<>>
    /\ dkl \in Seq(DkEntries)
    /\ mk_pc \in {"device", "subset", "dk", "pk", "pks", "done"}
    /\ di \in Nat \ {0} /\ device \in Words \cup {-1} /\ height \in Nat

\* Where the search is.
Current ==
    /\ mk_pc \in {"subset", "dk", "pk"} => di \in 1 .. Len(dkl) /\ device = dkl[di].node
    /\ mk_pc \in {"dk", "pk"} => ui \in Applying(device)

\* _calc_pk() has reached the label of a node above the v of the entry, or of v; its mask is
\* not zero.
LabelIsOnPath ==
    mk_pc = "pk" /\ GoodKeys =>
        /\ label = [u |-> Node(Entry(ui).uv, Entry(ui).shift), w |-> Node(Entry(ui).uv, height)]
        /\ height < W

\* A device that was given up is served by no entry.
GivenUp ==
    GoodKeys =>
        /\ \A k \in 1 .. Len(dkl) : k < di => Excluded(dkl[k].node)
        /\ mk_pc = "device" /\ device # -1 => Excluded(device)
        /\ mk_pc = "pks" => \A k \in 1 .. Len(dkl) : Excluded(dkl[k].node)

MkInv == MkTypeOK /\ Current /\ LabelIsOnPath /\ GivenUp
         /\ (mk_pc # "done" => mk_result = "no_pk") /\ ServedDevicesGetMk

-----------------------------------------------------------------------------
LEMMA EntryType == ASSUME MkTypeOK, NEW i \in Nat \ {0} PROVE Entry(i) \in Entries
<1>1. CASE i <= Len(uvs)
    <2>1. i \in 1 .. Len(uvs)
        BY <1>1 DEF MkTypeOK
    <2> QED BY <1>1, <2>1 DEF Entry, MkTypeOK
<1>2. CASE ~(i <= Len(uvs))
    <2>1. Len(uvs) \in Nat /\ Len(behind) \in Nat \ {0} /\ behind \in Seq(Entries)
        BY DEF MkTypeOK
    <2>2. i - Len(uvs) <= Len(behind) => i - Len(uvs) \in 1 .. Len(behind)
        BY <1>2, <2>1
    <2>3. 1 \in 1 .. Len(behind)
        BY <2>1
    <2>4. Entry(i) = IF i - Len(uvs) <= Len(behind) THEN behind[i - Len(uvs)] ELSE behind[1]
        BY <1>2 DEF Entry
    <2>5. \A j \in 1 .. Len(behind) : behind[j] \in Entries
        BY <2>1
    <2> QED BY <2>2, <2>3, <2>4, <2>5
<1> QED BY <1>1, <1>2

LEMMA DkType ==
    ASSUME MkTypeOK, NEW i \in 1 .. Len(dkl)
    PROVE  dkl[i].node \in Words /\ dkl[i].shift \in Nat /\ dkl[i].uv \in Words
<1>1. dkl[i] \in DkEntries
    BY DEF MkTypeOK
<1> QED BY <1>1 DEF DkEntries

\* The search finds the first entry that serves the device, if the record has one.
LEMMA SearchFinds ==
    ASSUME MkTypeOK, NEW d \in Words, ~Excluded(d)
    PROVE  \E i \in Applying(d) : i <= Len(uvs)
<1>1. PICK r \in Reached : IsServed(d, uvs[r])
    BY DEF Excluded
<1> DEFINE T == {i \in Nat : i \in 1 .. Len(uvs) /\ Applies(d, uvs[i])}
<1>2. r \in 1 .. Len(uvs) /\ Len(uvs) \in Nat /\ \A j \in 1 .. r : ~Stops(uvs[j])
    BY <1>1 DEF Reached, MkTypeOK
<1>3. uvs[r] \in Entries
    BY <1>2 DEF MkTypeOK
<1>4. r \in T
    BY <1>1, <1>2, <1>3, AppliesMeansServed
<1>5. PICK i \in T : \A j \in T : i <= j
    <2>1. T \subseteq Nat
        OBVIOUS
    <2> HIDE DEF T
    <2> QED BY <1>4, <2>1, LeastNatural
<1>6. i \in 1 .. Len(uvs) /\ i <= r /\ Applies(d, uvs[i])
    BY <1>4, <1>5
<1>7. ASSUME NEW j \in 1 .. i - 1 PROVE Entry(j) = uvs[j] /\ ~Applies(d, Entry(j)) /\ ~Stops(Entry(j))
    <2>1. j \in Nat /\ j \in 1 .. Len(uvs) /\ j \in 1 .. r /\ j < i
        BY <1>2, <1>6
    <2>2. Entry(j) = uvs[j]
        BY <2>1 DEF Entry
    <2>3. ~Applies(d, uvs[j])
        BY <1>5, <1>6, <2>1
    <2> QED BY <1>2, <2>1, <2>2, <2>3
<1>8. i \in 1 .. NumUvs
    BY <1>2, <1>6 DEF NumUvs
<1>9. Entry(i) = uvs[i]
    BY <1>6 DEF Entry
<1>10. i \in Applying(d)
    BY <1>6, <1>7, <1>8, <1>9 DEF Applying
<1> QED BY <1>6, <1>10

LEMMA SearchFindsOne ==
    ASSUME MkTypeOK, NEW d, NEW i \in Applying(d), NEW j \in Applying(d)
    PROVE  i = j
<1>1. i \in Nat \ {0} /\ j \in Nat \ {0}
    BY DEF Applying, NumUvs, MkTypeOK
<1>2. ASSUME NEW a \in Applying(d), NEW b \in Applying(d), a \in Nat \ {0}, b \in Nat \ {0} PROVE ~(a < b)
    <2>1. SUFFICES ASSUME a < b PROVE FALSE
        OBVIOUS
    <2>2. a \in 1 .. b - 1
        BY <1>2, <2>1
    <2> QED BY <2>2 DEF Applying
<1>3. ~(i < j) /\ ~(j < i)
    BY <1>1, <1>2
<1> QED BY <1>1, <1>3

\* The entry it ends with serves the device; inside the record it is one that counts.
LEMMA SearchIsRight ==
    ASSUME MkTypeOK, NEW d \in Words, NEW i \in Applying(d)
    PROVE  /\ i \in Nat \ {0} /\ Entry(i) \in Entries /\ Applies(d, Entry(i))
           /\ Entry(i).uv # 0 /\ Entry(i).uv \in Words
           /\ i <= Len(uvs) => i \in Reached /\ IsServed(d, uvs[i]) /\ Entry(i) = uvs[i]
<1>1. i \in Nat \ {0} /\ Applies(d, Entry(i)) /\ \A j \in 1 .. i - 1 : ~Stops(Entry(j))
    BY DEF Applying, NumUvs, MkTypeOK
<1>2. Entry(i) \in Entries
    BY <1>1, EntryType
<1>3. Entry(i).uv # 0 /\ Entry(i).uv \in Words /\ ~Stops(Entry(i))
    BY <1>1, <1>2 DEF Applies, Stops, Entries
<1>4. ASSUME i <= Len(uvs) PROVE i \in Reached /\ IsServed(d, uvs[i]) /\ Entry(i) = uvs[i]
    <2>1. Entry(i) = uvs[i] /\ i \in 1 .. Len(uvs)
        BY <1>1, <1>4 DEF Entry, MkTypeOK
    <2>2. IsServed(d, uvs[i])
        BY <1>1, <1>2, <2>1, AppliesMeansServed
    <2>3. ASSUME NEW j \in 1 .. i PROVE ~Stops(uvs[j])
        <3>1. j = i \/ j \in 1 .. i - 1
            BY <1>1
        <3>2. Entry(j) = uvs[j]
            BY <1>1, <1>4 DEF Entry, MkTypeOK
        <3> QED BY <1>1, <1>3, <3>1, <3>2
    <2> QED BY <2>1, <2>2, <2>3 DEF Reached
<1> QED BY <1>1, <1>2, <1>3, <1>4

\* With all its keys in the rest of the list, the device has one for the entry.
LEMMA KeyIsFound ==
    ASSUME MkTypeOK, GoodKeys, di \in 1 .. Len(dkl), device = dkl[di].node,
           \A k \in 1 .. Len(dkl) : k < di => dkl[k].node # device,
           NEW e \in Entries, Applies(device, e)
    PROVE  FindDk(di, e) # {}
<1>1. device \in Words /\ Len(dkl) \in Nat
    <2>1. dkl[di].node \in Words /\ dkl[di].shift \in Nat /\ dkl[di].uv \in Words
        BY DkType
    <2> QED BY <2>1 DEF MkTypeOK
<1>2. PICK key \in DeviceKeys(device) : Fits(key, e)
    BY <1>1, ServedDeviceHasKey
<1>3. PICK k \in 1 .. Len(dkl) : dkl[k] = key
    BY DEF GoodKeys, Complete
<1>4. key.node = device
    BY <1>2 DEF DeviceKeys, DeviceKey
<1> DEFINE T == {j \in Nat : j \in di .. Len(dkl) /\ dkl[j].node = device /\ Fits(dkl[j], e)}
<1>5. k \in T
    BY <1>1, <1>2, <1>3, <1>4
<1>6. PICK i \in T : \A j \in T : i <= j
    <2>1. T \subseteq Nat
        OBVIOUS
    <2> HIDE DEF T
    <2> QED BY <1>5, <2>1, LeastNatural
<1>7. ASSUME NEW j \in di .. i - 1 PROVE ~(dkl[j].node = device /\ Fits(dkl[j], e))
    <2>1. j \in Nat /\ j \in di .. Len(dkl) /\ j < i
        BY <1>1, <1>6
    <2> QED BY <1>6, <2>1
<1>8. i \in FindDk(di, e)
    BY <1>6, <1>7 DEF FindDk
<1> QED BY <1>8

LEMMA MkInitInv == MkInit => MkInv
<1> SUFFICES ASSUME MkInit PROVE MkInv
    OBVIOUS
<1>1. MkTypeOK
    BY MediaKeyAssumption DEF MkInit, MkTypeOK
<1>2. Current /\ LabelIsOnPath /\ mk_pc # "done" /\ mk_result = "no_pk"
    BY DEF MkInit, Current, LabelIsOnPath
<1>3. GivenUp
    <2>1. di = 1 /\ device = -1 /\ (mk_pc = "pks" => Len(dkl) = 0)
        BY DEF MkInit
    <2> QED BY <1>1, <2>1 DEF GivenUp, MkTypeOK
<1> QED BY <1>1, <1>2, <1>3 DEF MkInv, ServedDevicesGetMk

\* The input stays, and with it what depends on nothing else.
LEMMA SameInput ==
    ASSUME UNCHANGED mk_input
    PROVE  /\ GoodKeys' <=> GoodKeys
           /\ \A d : Excluded(d)' <=> Excluded(d)
           /\ \A d : Applying(d)' = Applying(d)
           /\ \A i : Entry(i)' = Entry(i)
           /\ UNCHANGED <<uvs, behind, dkl, pkl>>
<1>1. UNCHANGED <<uvs, behind, dkl, pkl>>
    BY DEF mk_input
<1> QED BY <1>1 DEF GoodKeys, Complete, Excluded, Reached, Applying, NumUvs, Entry

\* What all actions that go on to the next position of the list have in common.
LEMMA GiveUp ==
    ASSUME MkInv, UNCHANGED <<mk_input, device, mk_result>>, TryNextDevice, height' \in Nat,
           mk_pc \in {"subset", "dk", "pk"}, GoodKeys => Excluded(device)
    PROVE  MkInv'
<1>1. MkTypeOK'
    BY DEF MkInv, MkTypeOK, TryNextDevice, mk_input
<1>2. Current' /\ LabelIsOnPath'
    BY DEF TryNextDevice, Current, LabelIsOnPath
<1>3. GivenUp'
    <2>1. SUFFICES ASSUME GoodKeys PROVE
              /\ \A k \in 1 .. Len(dkl) : k < di + 1 => Excluded(dkl[k].node)
              /\ Excluded(device)
        BY SameInput DEF GivenUp, TryNextDevice
    <2>2. ASSUME NEW k \in 1 .. Len(dkl), k < di + 1 PROVE Excluded(dkl[k].node)
        <3>1. k < di \/ k = di
            BY <2>2 DEF MkInv, MkTypeOK
        <3> QED BY <2>1, <2>2, <3>1 DEF MkInv, GivenUp, Current
    <2> QED BY <2>1, <2>2
<1>4. mk_result' = "no_pk" /\ mk_pc' # "done"
    BY DEF MkInv, TryNextDevice
<1> QED BY <1>1, <1>2, <1>3, <1>4 DEF MkInv, ServedDevicesGetMk

LEMMA NextDeviceInv == ASSUME MkInv, NextDevice PROVE MkInv'
<1>1. UNCHANGED mk_input /\ mk_result' = "no_pk" /\ mk_pc' # "done" /\ di \in 1 .. Len(dkl)
    BY DEF MkInv, MkTypeOK, NextDevice
<1>2. dkl[di].node \in Words /\ dkl[di].shift \in Nat /\ dkl[di].uv \in Words
    BY <1>1, DkType DEF MkInv
<1>3. MkTypeOK'
    BY <1>1, <1>2 DEF MkInv, MkTypeOK, NextDevice, mk_input
<1>4. Current' /\ LabelIsOnPath'
    BY <1>1 DEF NextDevice, Current, LabelIsOnPath, mk_input
<1>5. GivenUp'
    <2>1. SUFFICES ASSUME GoodKeys PROVE
              /\ \A k \in 1 .. Len(dkl) : k < di' => Excluded(dkl[k].node)
              /\ mk_pc' = "device" /\ device' # -1 => Excluded(device')
        BY <1>1, SameInput DEF GivenUp, NextDevice
    <2>2. CASE dkl[di].node = device
        <3>1. di' = di + 1 /\ device' = device /\ device # -1
            <4>1. Words \subseteq Nat
                BY DEF Words
            <4> QED BY <1>2, <2>2, <4>1 DEF NextDevice
        <3>2. Excluded(device)
            BY <2>1, <3>1 DEF MkInv, GivenUp, NextDevice
        <3>3. ASSUME NEW k \in 1 .. Len(dkl), k < di + 1 PROVE Excluded(dkl[k].node)
            <4>1. k < di \/ k = di
                BY <3>3 DEF MkInv, MkTypeOK
            <4> QED BY <2>1, <2>2, <3>2, <4>1 DEF MkInv, GivenUp
        <3> QED BY <3>1, <3>2, <3>3
    <2>3. CASE dkl[di].node # device
        <3>1. di' = di /\ mk_pc' = "subset"
            BY <2>3 DEF NextDevice
        <3> QED BY <2>1, <3>1 DEF MkInv, GivenUp
    <2> QED BY <2>2, <2>3
<1> QED BY <1>1, <1>3, <1>4, <1>5 DEF MkInv, ServedDevicesGetMk

LEMMA NoMoreDevicesInv == ASSUME MkInv, NoMoreDevices PROVE MkInv'
<1>1. UNCHANGED mk_input /\ mk_result' = "no_pk" /\ mk_pc' = "pks" /\ di' = di
    BY DEF MkInv, NoMoreDevices
<1>2. MkTypeOK' /\ Current' /\ LabelIsOnPath'
    BY DEF MkInv, MkTypeOK, Current, LabelIsOnPath, NoMoreDevices, mk_input
<1>3. GivenUp'
    <2>1. SUFFICES ASSUME GoodKeys, NEW k \in 1 .. Len(dkl) PROVE Excluded(dkl[k].node)
        BY <1>1, SameInput DEF GivenUp
    <2>2. CASE di > Len(dkl)
        <3>1. k < di
            BY <2>2 DEF MkInv, MkTypeOK
        <3> QED BY <2>1, <3>1 DEF MkInv, GivenUp
    <2>3. CASE Len(uvs) = 0
        BY <2>3 DEF Excluded, Reached
    <2> QED BY <2>2, <2>3 DEF NoMoreDevices
<1> QED BY <1>1, <1>2, <1>3 DEF MkInv, ServedDevicesGetMk

LEMMA FindSubsetInv == ASSUME MkInv, FindSubset PROVE MkInv'
<1>1. UNCHANGED <<mk_input, device, mk_result, height>> /\ mk_result = "no_pk" /\ mk_pc = "subset"
    BY DEF MkInv, FindSubset
<1>2. di \in 1 .. Len(dkl) /\ device = dkl[di].node /\ device \in Words
    <2>1. di \in 1 .. Len(dkl) /\ device = dkl[di].node
        BY <1>1 DEF MkInv, Current
    <2>2. dkl[di].node \in Words /\ dkl[di].shift \in Nat /\ dkl[di].uv \in Words
        BY <2>1, DkType DEF MkInv
    <2> QED BY <2>1, <2>2
<1>3. CASE Applying(device) = {} /\ TryNextDevice
    <2>1. Excluded(device)
        BY <1>2, <1>3, SearchFinds DEF MkInv
    <2>2. height' \in Nat
        BY <1>1 DEF MkInv, MkTypeOK
    <2> QED BY <1>1, <1>3, <2>1, <2>2, GiveUp
<1>4. CASE ui' \in Applying(device) /\ mk_pc' = "dk" /\ UNCHANGED di
    <2>1. MkTypeOK'
        BY <1>1, <1>4 DEF MkInv, MkTypeOK, mk_input
    <2>2. Current'
        <3>1. Applying(device)' = Applying(device)
            BY <1>1 DEF Applying, NumUvs, Entry, mk_input
        <3>2. UNCHANGED dkl
            BY <1>1 DEF mk_input
        <3> QED BY <1>1, <1>2, <1>4, <3>1, <3>2 DEF Current
    <2>3. LabelIsOnPath' /\ GivenUp'
        BY <1>1, <1>4, SameInput DEF LabelIsOnPath, GivenUp, MkInv
    <2> QED BY <1>1, <1>4, <2>1, <2>2, <2>3 DEF MkInv, ServedDevicesGetMk
<1> QED BY <1>3, <1>4 DEF FindSubset

\* The label of the key that _find_dk() takes is that of a node above the v of the entry.
LEMMA FoundKeyIsOnPath ==
    ASSUME MkTypeOK, GoodKeys, NEW e \in Entries, NEW i \in 1 .. Len(dkl), Fits(dkl[i], e)
    PROVE  LabelOf(dkl[i]) = [u |-> Node(e.uv, e.shift), w |-> Node(e.uv, VMask(dkl[i].uv))]
<1> DEFINE x == dkl[i].uv
           s == dkl[i].shift
           v == VMask(x)
<1>1. dkl[i].node \in Words /\ dkl[i].shift \in Nat /\ dkl[i].uv \in Words
    BY DkType
<1>2. x \in Words /\ s \in Nat /\ x \in Nat /\ e.uv \in Nat
    BY <1>1 DEF Entries, Words
<1>3. x # 0 /\ s = e.shift /\ e.uv \div Pow2[v] = x \div Pow2[v]
    BY DEF Fits, Below, Node
<1>4. v \in Nat /\ v <= s
    <2>1. v \in 1 .. W /\ VNode(x) = Node(x, v) /\ W \in Nat
        BY <1>2, <1>3, VMaskFacts, MediaKeyAssumption
    <2>2. VNode(x)[1] <= s
        BY <1>3 DEF GoodKeys, KeyIsBelowU
    <2> QED BY <2>1, <2>2 DEF Node
<1>5. e.uv \div Pow2[s] = x \div Pow2[s]
    BY <1>2, <1>3, <1>4, CutsAgree
<1> QED BY <1>3, <1>5 DEF LabelOf, Node

LEMMA FindDeviceKeyInv == ASSUME MkInv, FindDeviceKey PROVE MkInv'
<1>1. UNCHANGED <<mk_input, device, ui, mk_result>> /\ mk_result = "no_pk" /\ mk_pc = "dk"
    BY DEF MkInv, FindDeviceKey
<1>2. di \in 1 .. Len(dkl) /\ device = dkl[di].node /\ device \in Words /\ ui \in Applying(device)
    <2>1. di \in 1 .. Len(dkl) /\ device = dkl[di].node /\ ui \in Applying(device)
        BY <1>1 DEF MkInv, Current
    <2>2. dkl[di].node \in Words /\ dkl[di].shift \in Nat /\ dkl[di].uv \in Words
        BY <2>1, DkType DEF MkInv
    <2> QED BY <2>1, <2>2
<1>3. Entry(ui) \in Entries /\ Applies(device, Entry(ui))
    BY <1>2, SearchIsRight DEF MkInv
<1>4. CASE FindDk(di, Entry(ui)) = {} /\ TryNextDevice /\ UNCHANGED <<height, label>>
    <2>1. ASSUME GoodKeys PROVE Excluded(device)
        <3>1. PICK k \in 1 .. Len(dkl) : k < di /\ dkl[k].node = device
            BY <1>2, <1>3, <1>4, <2>1, KeyIsFound DEF MkInv
        <3> QED BY <2>1, <3>1 DEF MkInv, GivenUp
    <2>2. height' \in Nat
        BY <1>4 DEF MkInv, MkTypeOK
    <2> QED BY <1>1, <1>4, <2>1, <2>2, GiveUp
<1>5. ASSUME NEW i \in FindDk(di, Entry(ui)), height' = VMask(dkl[i].uv),
             label' = LabelOf(dkl[i]), mk_pc' = "pk", UNCHANGED di
      PROVE  MkInv'
    <2>1. i \in 1 .. Len(dkl) /\ Fits(dkl[i], Entry(ui))
        BY <1>2 DEF FindDk, MkInv, MkTypeOK
    <2>2. dkl[i].uv \in Words /\ dkl[i].uv # 0
        <3>1. dkl[i].node \in Words /\ dkl[i].shift \in Nat /\ dkl[i].uv \in Words
            BY <2>1, DkType DEF MkInv
        <3> QED BY <2>1, <3>1 DEF Fits
    <2>3. height' \in Nat
        BY <1>5, <2>2, VMaskFacts, MediaKeyAssumption
    <2>4. MkTypeOK'
        BY <1>1, <1>5, <2>3 DEF MkInv, MkTypeOK, mk_input
    <2>5. UNCHANGED dkl /\ Applying(device)' = Applying(device) /\ Entry(ui)' = Entry(ui)
        BY <1>1 DEF Applying, NumUvs, Entry, mk_input
    <2>6. Current'
        BY <1>1, <1>2, <1>5, <2>5 DEF Current
    <2>7. LabelIsOnPath'
        <3>1. SUFFICES ASSUME GoodKeys PROVE
                  /\ label' = [u |-> Node(Entry(ui).uv, Entry(ui).shift), w |-> Node(Entry(ui).uv, height')]
                  /\ height' < W
            BY <1>1, <2>5, SameInput DEF LabelIsOnPath, Node
        <3>2. label' = [u |-> Node(Entry(ui).uv, Entry(ui).shift), w |-> Node(Entry(ui).uv, height')]
            BY <1>3, <1>5, <2>1, <3>1, FoundKeyIsOnPath DEF MkInv
        <3>3. VNode(dkl[i].uv) = Node(dkl[i].uv, height') /\ KeyIsBelowU(dkl[i])
            BY <1>5, <2>1, <2>2, <3>1, VMaskFacts DEF GoodKeys
        <3>4. height' <= dkl[i].shift
            BY <2>2, <3>3 DEF KeyIsBelowU, Node
        <3>5. dkl[i].shift = Entry(ui).shift /\ Entry(ui).shift \in 0 .. W - 1
            BY <1>3, <2>1 DEF Fits, Applies, Entries
        <3> QED BY <2>3, <3>2, <3>4, <3>5, MediaKeyAssumption
    <2>8. GivenUp'
        BY <1>1, <1>5, SameInput DEF GivenUp, MkInv
    <2> QED BY <1>1, <1>5, <2>4, <2>6, <2>7, <2>8 DEF MkInv, ServedDevicesGetMk
<1> QED BY <1>4, <1>5 DEF FindDeviceKey

LEMMA CalcPkInv == ASSUME MkInv, CalcPk PROVE MkInv'
<1>1. UNCHANGED <<mk_input, mk_pc, di, device, ui, mk_result>> /\ mk_result = "no_pk" /\ mk_pc = "pk"
    BY DEF MkInv, CalcPk
<1>2. /\ height \in Nat /\ height' \in Nat
      /\ height' = IF height \in {0, W} THEN height ELSE height - 1
    BY DEF MkInv, MkTypeOK, CalcPk
<1>3. MkTypeOK'
    BY <1>1, <1>2 DEF MkInv, MkTypeOK, mk_input
<1>4. UNCHANGED dkl /\ Applying(device)' = Applying(device) /\ Entry(ui)' = Entry(ui)
    BY <1>1 DEF Applying, NumUvs, Entry, mk_input
<1>5. Current'
    BY <1>1, <1>4 DEF MkInv, Current
<1>6. LabelIsOnPath'
    <2> DEFINE x == Entry(ui).uv
               s == Entry(ui).shift
    <2>1. SUFFICES ASSUME GoodKeys
                   PROVE  label' = [u |-> Node(x, s), w |-> Node(x, height')] /\ height' < W
        BY <1>1, <1>4, SameInput DEF LabelIsOnPath, Node
    <2>2. label = [u |-> Node(x, s), w |-> Node(x, height)] /\ height < W
        BY <1>1, <2>1 DEF MkInv, LabelIsOnPath
    <2>8. height' < W
        BY <1>2, <2>2, MediaKeyAssumption
    <2>3. x \in Nat
        <3>1. device \in Words /\ ui \in Applying(device)
            <4>1. di \in 1 .. Len(dkl) /\ device = dkl[di].node /\ ui \in Applying(device)
                BY <1>1 DEF MkInv, Current
            <4>2. dkl[di].node \in Words /\ dkl[di].shift \in Nat /\ dkl[di].uv \in Words
                BY <4>1, DkType DEF MkInv
            <4> QED BY <4>1, <4>2
        <3>2. x \in Words
            BY <3>1, SearchIsRight DEF MkInv
        <3> QED BY <3>2 DEF Words
    <2>4. label' = Child(label, x)
        BY DEF CalcPk
    <2> HIDE DEF x, s
    <2>5. label.w = <<height, x \div Pow2[height]>> /\ label.u = Node(x, s)
        BY <2>2 DEF Node
    <2>6. CASE height = 0
        BY <1>2, <2>2, <2>4, <2>5, <2>6, <2>8 DEF Child
    <2>7. CASE height # 0
        <3> DEFINE k == height - 1
                   y == x \div Pow2[k]
        <3>1. k \in Nat /\ k + 1 = height /\ height' = k
            BY <1>2, <2>2, <2>7, MediaKeyAssumption
        <3>2. y \in Nat /\ x \div Pow2[height] = y \div 2
            BY <2>3, <3>1, CutType, CutOneMore
        <3>3. 2 * (x \div Pow2[height]) + UvBit(x, k) = y
            <4>1. UvBit(x, k) = y % 2
                BY DEF UvBit
            <4> HIDE DEF y
            <4> QED BY <3>2, <4>1
        <3>4. label' = [label EXCEPT !.w = <<k, 2 * @[2] + UvBit(x, k)>>]
            BY <2>4, <2>5, <2>7 DEF Child
        <3>5. label' = [label EXCEPT !.w = <<k, y>>]
            <4> HIDE DEF k, y
            <4> QED BY <2>5, <3>3, <3>4
        <3>6. label' = [u |-> Node(x, s), w |-> <<k, y>>]
            <4> HIDE DEF k, y
            <4> QED BY <2>2, <3>5
        <3> QED BY <2>8, <3>1, <3>6 DEF Node
    <2> QED BY <2>6, <2>7
<1>7. GivenUp'
    BY <1>1, SameInput DEF GivenUp, MkInv
<1> QED BY <1>1, <1>3, <1>5, <1>6, <1>7 DEF MkInv, ServedDevicesGetMk

LEMMA ValidateDkInv == ASSUME MkInv, ValidateDk PROVE MkInv'
<1>1. UNCHANGED <<mk_input, device, ui, height, label>> /\ mk_result = "no_pk" /\ mk_pc = "pk"
    BY DEF MkInv, ValidateDk
<1>2. di \in 1 .. Len(dkl) /\ device = dkl[di].node /\ device \in Words /\ ui \in Applying(device)
    <2>1. di \in 1 .. Len(dkl) /\ device = dkl[di].node /\ ui \in Applying(device)
        BY <1>1 DEF MkInv, Current
    <2>2. dkl[di].node \in Words /\ dkl[di].shift \in Nat /\ dkl[di].uv \in Words
        BY <2>1, DkType DEF MkInv
    <2> QED BY <2>1, <2>2
<1>3. CASE ValidPk(label, ui)
    <2>1. mk_result' = "success" /\ mk_pc' = "done" /\ di' = di
        BY <1>3 DEF ValidateDk
    <2>2. ui \in Reached /\ IsServed(dkl[di].node, uvs[ui])
        BY <1>2, <1>3, SearchIsRight DEF MkInv, ValidPk
    <2>3. UNCHANGED <<uvs, dkl>>
        BY <1>1 DEF mk_input
    <2>4. ServedDevicesGetMk'
        <3>1. \E i \in Reached, k \in 1 .. Len(dkl) : IsServed(dkl[k].node, uvs[i])
            BY <1>2, <2>2
        <3>2. (\E i \in Reached, k \in 1 .. Len(dkl) : IsServed(dkl[k].node, uvs[i]))'
            BY <2>3, <3>1 DEF Reached
        <3> QED BY <2>1, <3>2 DEF ServedDevicesGetMk
    <2>5. MkTypeOK' /\ Current' /\ LabelIsOnPath' /\ GivenUp'
        BY <1>1, <2>1, SameInput DEF MkInv, MkTypeOK, Current, LabelIsOnPath, GivenUp, mk_input
    <2> QED BY <2>1, <2>4, <2>5 DEF MkInv
<1>4. CASE ~ValidPk(label, ui)
    <2>1. TryNextDevice /\ UNCHANGED mk_result
        BY <1>4 DEF ValidateDk
    <2>2. ASSUME GoodKeys PROVE Excluded(device)
        <3>1. label = LabelOf(Entry(ui))
            BY <1>1, <2>2 DEF MkInv, LabelIsOnPath, LabelOf, ValidateDk
        <3>2. ui \in Nat \ {0} /\ Entry(ui).uv # 0 /\ (ui <= Len(uvs) => Entry(ui) = uvs[ui])
            BY <1>2, SearchIsRight DEF MkInv
        <3>3. ~(ui <= Len(uvs))
            BY <1>4, <3>1, <3>2 DEF ValidPk
        <3>4. SUFFICES ASSUME ~Excluded(device) PROVE FALSE
            OBVIOUS
        <3>5. PICK i \in Applying(device) : i <= Len(uvs)
            BY <1>2, <3>4, SearchFinds DEF MkInv
        <3>6. i = ui
            BY <1>2, <3>5, SearchFindsOne DEF MkInv
        <3> QED BY <3>3, <3>5, <3>6
    <2>3. height' \in Nat
        BY <1>1 DEF MkInv, MkTypeOK
    <2> QED BY <1>1, <2>1, <2>2, <2>3, GiveUp
<1> QED BY <1>3, <1>4

LEMMA TryPksInv == ASSUME MkInv, TryPks PROVE MkInv'
<1>1. UNCHANGED <<mk_input, di, device, ui, height, label>> /\ mk_pc = "pks" /\ mk_pc' = "done"
    BY DEF TryPks
<1>2. MkTypeOK' /\ Current' /\ LabelIsOnPath' /\ GivenUp'
    BY <1>1, SameInput DEF MkInv, MkTypeOK, Current, LabelIsOnPath, GivenUp, mk_input
<1>3. ServedDevicesGetMk'
    <2>1. UNCHANGED <<uvs, dkl, pkl>>
        BY <1>1 DEF mk_input
    <2>2. ServedDevicesGetMk' <=>
            (pkl = <<>> /\ GoodKeys =>
                (mk_result' = "success"
                 <=> \E i \in Reached, k \in 1 .. Len(dkl) : IsServed(dkl[k].node, uvs[i])))
        BY <1>1, <2>1 DEF ServedDevicesGetMk, GoodKeys, Reached, Complete
    <2>3. SUFFICES ASSUME pkl = <<>>, GoodKeys PROVE
              /\ mk_result' # "success"
              /\ ~\E i \in Reached, k \in 1 .. Len(dkl) : IsServed(dkl[k].node, uvs[i])
        BY <2>2
    <2>4. mk_result' # "success"
        BY <2>3 DEF TryPks
    <2>5. \A k \in 1 .. Len(dkl) : Excluded(dkl[k].node)
        BY <1>1, <2>3 DEF MkInv, GivenUp
    <2> QED BY <2>4, <2>5 DEF Excluded
<1> QED BY <1>1, <1>2, <1>3 DEF MkInv

LEMMA MkStepInv == MkInv /\ [MkNext]_mk_vars => MkInv'
<1> SUFFICES ASSUME MkInv, [MkNext]_mk_vars PROVE MkInv'
    OBVIOUS
<1>1. CASE UNCHANGED mk_vars
    <2>1. UNCHANGED <<uvs, behind, dkl, pkl, mk_pc, di, device, ui, height, label, mk_result>>
        BY <1>1 DEF mk_vars, mk_input
    <2> QED BY <2>1 DEF MkInv, MkTypeOK, Current, LabelIsOnPath, GivenUp, GoodKeys, Excluded,
                Reached, Applying, NumUvs, Entry, Complete, ServedDevicesGetMk
<1>2. CASE MkNext
    BY <1>2, NextDeviceInv, NoMoreDevicesInv, FindSubsetInv, FindDeviceKeyInv, CalcPkInv,
       ValidateDkInv, TryPksInv DEF MkNext
<1> QED BY <1>1, <1>2

\* For numbers of any width W, every record, every list of device keys and whatever follows the record
\* in memory: _calc_mk_dks() finds the media key exactly for the devices the record serves.
THEOREM ServedDevicesGetTheMk == MkSpec => []ServedDevicesGetMk
<1>1. MkInv => ServedDevicesGetMk
    BY DEF MkInv
<1> QED BY <1>1, MkInitInv, MkStepInv, PTL DEF MkSpec

-----------------------------------------------------------------------------
(***************************************************************************)
(* The bytes of points of the curve (EcPoint), for every base, every size  *)
(* of a coordinate and every curve.  The digits that are printed are those *)
(* of the number, the zeros in front included; what they spell follows     *)
(* digit by digit.  The coordinates stay below the prime.                  *)
(***************************************************************************)

(* Digits *)

\* Dividing twice.
LEMMA DivideTwice ==
    ASSUME NEW x \in Nat, NEW b \in Nat \ {0}, NEW p \in Nat \ {0}
    PROVE  x \div (b * p) = (x \div p) \div b
<1> DEFINE q == x \div p
           r == x % p
           n == q \div b
           t == q % b
           c == b * p
<1>1. q \in Nat /\ r \in 0 .. p - 1 /\ x = q * p + r
    BY Division
<1>2. n \in Nat /\ t \in 0 .. b - 1 /\ q = n * b + t
    BY <1>1, Division
<1> HIDE DEF q, r, n, t
<1>3. c \in Nat \ {0}
    OBVIOUS
<1>4. x = n * c + (t * p + r)
    <2>1. (n * b + t) * p = n * (b * p) + t * p
        BY <1>2
    <2> QED BY <1>1, <1>2, <2>1
<1>5. t * p + r \in 0 .. c - 1
    <2>1. t * p \in Nat
        BY <1>2
    <2>2. t * p <= (b - 1) * p
        <3>1. (b - 1 - t) * p >= 0
            BY <1>2
        <3> QED BY <1>2, <3>1
    <2>3. (b - 1) * p = c - p
        OBVIOUS
    <2> HIDE DEF c
    <2> QED BY <1>1, <1>3, <2>1, <2>2, <2>3
<1> HIDE DEF c
<1>6. x \div c = n
    <2> DEFINE z == t * p + r
    <2>1. z \in 0 .. c - 1 /\ x = n * c + z
        BY <1>4, <1>5
    <2> HIDE DEF z
    <2>2. (n * c + z) \div c = n
        BY <1>2, <1>3, <2>1, Quotient
    <2> QED BY <2>1, <2>2
<1> QED BY <1>6 DEF c, n, q

\* The quotient by one power and by the next differ by a digit.
LEMMA DigitStep ==
    ASSUME NEW b \in Nat \ {0}, NEW x \in Nat, NEW k \in Nat
    PROVE  /\ x \div Power(b)[k] \in Nat /\ (x \div Power(b)[k]) % b \in Nat
           /\ x \div Power(b)[k] = b * (x \div Power(b)[k + 1]) + ((x \div Power(b)[k]) % b)
<1> DEFINE p == Power(b)[k]
           q == x \div p
<1>1. p \in Nat \ {0} /\ Power(b)[k + 1] = b * p
    BY PowerFacts
<1>2. x \div Power(b)[k + 1] = q \div b
    <2> HIDE DEF p
    <2>1. x \div (b * p) = (x \div p) \div b
        BY <1>1, DivideTwice
    <2> QED BY <1>1, <2>1
<1>3. q \in Nat
    BY <1>1
<1> HIDE DEF p, q
<1>4. q \div b \in Nat /\ q % b \in Nat /\ q = (q \div b) * b + (q % b)
    BY <1>3, Division
<1>5. q = b * (q \div b) + (q % b)
    BY <1>4
<1> QED BY <1>2, <1>3, <1>4, <1>5 DEF p, q

LEMMA PowersGrow ==
    ASSUME NEW b \in Nat \ {0}, NEW m \in Nat, NEW n \in Nat, m <= n
    PROVE  Power(b)[m] <= Power(b)[n]
<1> DEFINE p == Power(b)
           T == {j \in Nat : m <= j /\ ~(p[m] <= p[j])}
<1>1. SUFFICES ASSUME T # {} PROVE FALSE
    OBVIOUS
<1>2. PICK k \in T : \A y \in T : k <= y
    <2>1. T \subseteq Nat
        OBVIOUS
    <2> HIDE DEF T
    <2> QED BY <1>1, <2>1, LeastNatural
<1> HIDE DEF p
<1>3. p[m] \in Nat /\ \A j \in Nat : p[j] \in Nat \ {0} /\ p[j + 1] = b * p[j]
    BY PowerFacts DEF p
<1>4. k # m
    BY <1>2, <1>3
<1>5. k - 1 \in Nat /\ m <= k - 1 /\ k - 1 \notin T /\ k - 1 + 1 = k
    BY <1>2, <1>4
<1>6. p[m] <= p[k - 1] /\ p[k - 1] \in Nat /\ p[k] = b * p[k - 1]
    BY <1>3, <1>5
<1>7. p[k - 1] <= b * p[k - 1]
    BY <1>6
<1>8. p[m] <= p[k]
    BY <1>3, <1>6, <1>7
<1> QED BY <1>2, <1>8

\* What the digits of a number spell: with all of them the number, with the last ones its remainder.
LEMMA DigitsSpell ==
    ASSUME NEW s, NEW n \in Nat, Len(s) = n, NEW x \in Nat, Base \in Nat \ {0},
           \A j \in 1 .. n : s[j] = (x \div Power(Base)[n - j]) % Base
    PROVE  Value(s) = x % Power(Base)[n]
<1> DEFINE p == Power(Base)
           c == x \div p[n]
           g(j) == (x \div p[n - j]) - p[j] * c
           IsSolution(h) == h = [j \in 0 .. n |-> IF j = 0 THEN 0 ELSE Base * h[j - 1] + s[j]]
<1>1. p[0] = 1 /\ \A k \in Nat : p[k] \in Nat \ {0} /\ p[k + 1] = Base * p[k]
    BY PowerFacts
<1>2. c \in Nat /\ x % p[n] = x - p[n] * c
    <2> DEFINE d == p[n]
    <2>1. d \in Nat \ {0}
        BY <1>1
    <2> HIDE DEF d
    <2>2. x \div d \in Nat /\ x % d \in Nat /\ x = (x \div d) * d + (x % d)
        BY <2>1, Division
    <2>3. (x \div d) * d = d * (x \div d)
        BY <2>1, <2>2
    <2>4. x % d = x - d * (x \div d)
        BY <2>1, <2>2, <2>3
    <2> QED BY <2>2, <2>4 DEF d
<1> HIDE DEF c
<1>3. g(0) = 0
    <2>1. n - 0 = n /\ p[0] = 1
        BY <1>1
    <2>2. g(0) = (x \div p[n]) - 1 * c
        BY <2>1
    <2> QED BY <1>2, <2>2 DEF c
<1>4. ASSUME NEW j \in 1 .. n PROVE g(j - 1) \in Int /\ g(j) = Base * g(j - 1) + s[j]
    <2> DEFINE k == n - j
               i == j - 1
               q == x \div p[k]
               r == x \div p[k + 1]
    <2>1. k \in Nat /\ i \in Nat /\ k + 1 = n - i /\ i + 1 = j
        OBVIOUS
    <2>2. q \in Nat /\ r \in Nat /\ q % Base \in Nat /\ q = Base * r + (q % Base)
        <3>1. k + 1 \in Nat
            BY <2>1
        <3>2. r \in Nat
            BY <3>1, DigitStep
        <3> QED BY <2>1, <3>2, DigitStep
    <2>3. s[j] = q % Base
        OBVIOUS
    <2>4. p[j] = Base * p[i] /\ p[i] \in Nat
        BY <1>1, <2>1
    <2>5. g(j - 1) = r - p[i] * c
        BY <2>1
    <2>6. g(j) = q - p[j] * c
        OBVIOUS
    <2> HIDE DEF k, i, q, r, p, g
    <2>7. Base * (r - p[i] * c) + (q % Base) = q - (Base * p[i]) * c
        <3>1. Base * (r - p[i] * c) = Base * r - (Base * p[i]) * c
            BY <1>2, <2>2, <2>4
        <3>2. (Base * p[i]) * c \in Int /\ Base * r \in Int
            BY <1>2, <2>2, <2>4
        <3> QED BY <2>2, <3>1, <3>2
    <2>8. r - p[i] * c \in Int
        BY <1>2, <2>2, <2>4
    <2> QED BY <2>3, <2>4, <2>5, <2>6, <2>7, <2>8
<1>5. g(n) = x % p[n]
    <2>1. n - n = 0 /\ p[0] = 1
        BY <1>1
    <2>2. g(n) = (x \div 1) - p[n] * c
        BY <2>1
    <2> QED BY <1>2, <2>2
<1> HIDE DEF g
<1>6. IsSolution([j \in 0 .. n |-> g(j)])
    <2>1. \A j \in 0 .. n : j = 0 \/ (j \in 1 .. n /\ j - 1 \in 0 .. n)
        OBVIOUS
    <2> QED BY <1>3, <1>4, <2>1
<1> DEFINE h == CHOOSE f : IsSolution(f)
<1>7. Value(s) = h[n]
    BY DEF Value
<1>8. IsSolution(h)
    <2> HIDE DEF IsSolution
    <2> QED BY <1>6
<1> HIDE DEF h
<1>9. h[n] = g(n)
    <2> DEFINE T == {j \in Nat : j <= n /\ h[j] # g(j)}
    <2>1. SUFFICES ASSUME T # {} PROVE FALSE
        OBVIOUS
    <2>2. PICK k \in T : \A y \in T : k <= y
        <3>1. T \subseteq Nat
            OBVIOUS
        <3> HIDE DEF T
        <3> QED BY <2>1, <3>1, LeastNatural
    <2>3. h[0] = 0 /\ \A j \in 1 .. n : h[j] = Base * h[j - 1] + s[j]
        BY <1>8
    <2>4. k # 0
        BY <1>3, <2>2, <2>3
    <2>5. k - 1 \in Nat /\ k - 1 \notin T /\ k \in 1 .. n /\ k - 1 <= n
        BY <2>2, <2>4
    <2>6. h[k - 1] = g(k - 1)
        BY <2>5
    <2>7. h[k] = g(k)
        BY <1>4, <2>3, <2>5, <2>6
    <2> QED BY <2>2, <2>7
<1> QED BY <1>5, <1>7, <1>9

-----------------------------------------------------------------------------
(* The bytes of a number *)

\* gcry_mpi_print() writes the last PrintedLen(v) digits, and the others are 0.
LEMMA PrintedFacts ==
    ASSUME NEW v \in Nat, v < Power(Base)[PointBytes]
    PROVE  /\ PrintedLen(v) \in 0 .. PointBytes /\ v < Power(Base)[PrintedLen(v)]
           /\ Printed(v) \in Seq(Nat) /\ Len(Printed(v)) = PrintedLen(v)
           /\ \A j \in 1 .. PrintedLen(v) :
                 Printed(v)[j] = (v \div Power(Base)[PrintedLen(v) - j]) % Base
<1> DEFINE T == {n \in 0 .. PointBytes : Power(Base)[n] > v}
           n == PrintedLen(v)
<1>1. Base \in Nat \ {0} /\ PointBytes \in Nat
    BY EcAssumption
<1>2. PointBytes \in T
    BY <1>1, PowerFacts
<1>3. PICK k \in T : \A j \in T : k <= j
    <2>1. T \subseteq Nat
        BY <1>1
    <2> HIDE DEF T
    <2> QED BY <1>2, <2>1, LeastNatural
<1>4. n \in T
    <2>1. n = CHOOSE x \in T : \A y \in T : x <= y
        BY DEF PrintedLen, Min
    <2> HIDE DEF T, n
    <2> QED BY <1>3, <2>1
<1>5. n \in 0 .. PointBytes /\ n \in Nat /\ Power(Base)[n] > v
    BY <1>1, <1>4
<1>6. v < Power(Base)[n]
    BY <1>1, <1>5, PowerFacts
<1> HIDE DEF n
<1> DEFINE digit(j) == (v \div Power(Base)[n - j]) % Base
<1>7. ASSUME NEW j \in 1 .. n PROVE digit(j) \in Nat
    <2>1. n - j \in Nat
        BY <1>5
    <2> QED BY <1>1, <2>1, DigitStep
<1>8. Printed(v) = [j \in 1 .. n |-> digit(j)]
    BY DEF Printed, n
<1> HIDE DEF digit
<1>9. Printed(v) \in Seq(Nat) /\ Len(Printed(v)) = n
    BY <1>5, <1>7, <1>8, IsASeq
<1>10. \A j \in 1 .. n : Printed(v)[j] = digit(j)
    BY <1>8
<1> QED BY <1>5, <1>6, <1>9, <1>10 DEF n, digit

\* Zeros in front make it PointBytes digits, which spell the number.
LEMMA PaddedFacts ==
    ASSUME NEW v \in Nat, v < Power(Base)[PointBytes]
    PROVE  /\ PadLeft(Printed(v)) \in Seq(Nat) /\ Len(PadLeft(Printed(v))) = PointBytes
           /\ \A j \in 1 .. PointBytes :
                 PadLeft(Printed(v))[j] = (v \div Power(Base)[PointBytes - j]) % Base
<1> DEFINE n == PrintedLen(v)
           s == Printed(v)
           zeros == [j \in 1 .. PointBytes - n |-> 0]
           t == PadLeft(s)
<1>1. Base \in Nat \ {0} /\ PointBytes \in Nat
    BY EcAssumption
<1>2. /\ n \in 0 .. PointBytes /\ v < Power(Base)[n] /\ s \in Seq(Nat) /\ Len(s) = n
      /\ \A j \in 1 .. n : s[j] = (v \div Power(Base)[n - j]) % Base
    BY PrintedFacts
<1>3. t = zeros \o s
    BY <1>2 DEF PadLeft
<1> HIDE DEF s, n, t
<1>4. zeros \in Seq(Nat) /\ Len(zeros) = PointBytes - n
    <2>1. PointBytes - n \in Nat
        BY <1>1, <1>2
    <2> QED BY <2>1, IsASeq
<1>5. \A j \in 1 .. PointBytes - n : zeros[j] = 0
    OBVIOUS
<1> HIDE DEF zeros
<1>6. /\ t \in Seq(Nat) /\ Len(t) = Len(zeros) + Len(s)
      /\ \A i \in 1 .. Len(zeros) + Len(s) : t[i] = IF i <= Len(zeros) THEN zeros[i] ELSE s[i - Len(zeros)]
    BY <1>2, <1>3, <1>4, ConcatProperties
<1>7. Len(zeros) + Len(s) = PointBytes
    BY <1>1, <1>2, <1>4
<1>8. ASSUME NEW j \in 1 .. PointBytes PROVE t[j] = (v \div Power(Base)[PointBytes - j]) % Base
    <2>1. CASE j <= PointBytes - n
        <3>1. t[j] = 0
            BY <1>4, <1>5, <1>6, <1>7, <2>1
        <3>2. PointBytes - j \in Nat /\ n \in Nat /\ n <= PointBytes - j
            BY <1>1, <1>2, <2>1
        <3>3. Power(Base)[n] <= Power(Base)[PointBytes - j]
            BY <1>1, <3>2, PowersGrow
        <3> DEFINE p == Power(Base)[PointBytes - j]
        <3>4. p \in Nat \ {0} /\ v < p
            <4>1. Power(Base)[n] \in Nat /\ p \in Nat \ {0}
                BY <1>1, <3>2, PowerFacts
            <4> QED BY <1>2, <3>3, <4>1
        <3> HIDE DEF p
        <3>5. v \div p = 0
            <4>1. v \in 0 .. p - 1 /\ 0 * p + v = v
                BY <3>4
            <4>2. (0 * p + v) \div p = 0
                BY <3>4, <4>1, Quotient
            <4> QED BY <4>1, <4>2
        <3>6. (v \div p) % Base = 0
            BY <1>1, <3>5
        <3> QED BY <3>1, <3>6 DEF p
    <2>2. CASE ~(j <= PointBytes - n)
        <3> DEFINE i == j - (PointBytes - n)
        <3>1. i \in 1 .. n /\ n - i = PointBytes - j
            BY <1>1, <1>2, <2>2
        <3>2. t[j] = s[i]
            BY <1>4, <1>6, <1>7, <2>2
        <3> HIDE DEF i
        <3> QED BY <1>2, <3>1, <3>2
    <2> QED BY <2>1, <2>2
<1> QED BY <1>6, <1>7, <1>8 DEF t, s

LEMMA PaddedValue ==
    ASSUME NEW v \in Nat, v < Power(Base)[PointBytes], NEW s, Len(s) = PointBytes,
           \A j \in 1 .. PointBytes : s[j] = PadLeft(Printed(v))[j]
    PROVE  Value(s) = v
<1> DEFINE p == Power(Base)[PointBytes]
<1>1. Base \in Nat \ {0} /\ PointBytes \in Nat /\ p \in Nat \ {0}
    BY EcAssumption, PowerFacts
<1>2. Value(s) = v % p
    <2>1. \A j \in 1 .. PointBytes : s[j] = (v \div Power(Base)[PointBytes - j]) % Base
        BY PaddedFacts
    <2> QED BY <1>1, <2>1, DigitsSpell
<1>3. v < p
    OBVIOUS
<1> HIDE DEF p
<1>4. v \in 0 .. p - 1 /\ 0 * p + v = v
    BY <1>1, <1>3
<1>5. (0 * p + v) % p = v
    BY <1>1, <1>4, Quotient
<1> QED BY <1>2, <1>4, <1>5

\* The halves of two fields of the same size.
LEMMA Halves ==
    ASSUME NEW N \in Nat, NEW s \in Seq(Nat), NEW t \in Seq(Nat), Len(s) = N, Len(t) = N
    PROVE  LET a == SubSeq(s \o t, 1, N)
               c == SubSeq(s \o t, N + 1, 2 * N)
           IN  /\ Len(s \o t) = 2 * N /\ Len(a) = N /\ Len(c) = N
               /\ \A i \in 1 .. N : a[i] = s[i] /\ c[i] = t[i]
<1> DEFINE w == s \o t
           a == SubSeq(w, 1, N)
           c == SubSeq(w, N + 1, 2 * N)
<1>1. /\ w \in Seq(Nat) /\ Len(w) = Len(s) + Len(t)
      /\ \A i \in 1 .. Len(s) + Len(t) : w[i] = IF i <= Len(s) THEN s[i] ELSE t[i - Len(s)]
    BY ConcatProperties
<1> HIDE DEF w
<1>2. Len(s) + Len(t) = 2 * N
    OBVIOUS
<1>3. Len(w) = 2 * N /\ \A i \in 1 .. 2 * N : w[i] \in Nat
    BY <1>1, <1>2
<1>4. Len(a) = N /\ \A i \in 1 .. N : a[i] = w[i]
    <2>1. \A i \in 1 .. N : w[i] \in Nat
        BY <1>3
    <2>2. /\ Len(a) = IF 1 <= N THEN N - 1 + 1 ELSE 0
          /\ \A i \in 1 .. N - 1 + 1 : a[i] = w[1 + i - 1]
        BY <2>1, SubSeqProperties
    <2> HIDE DEF a
    <2> QED BY <2>2
<1>5. Len(c) = N /\ \A i \in 1 .. N : c[i] = w[N + i]
    <2>1. \A i \in N + 1 .. 2 * N : w[i] \in Nat
        BY <1>3
    <2>2. /\ Len(c) = IF N + 1 <= 2 * N THEN 2 * N - (N + 1) + 1 ELSE 0
          /\ \A i \in 1 .. 2 * N - (N + 1) + 1 : c[i] = w[N + 1 + i - 1]
        BY <2>1, SubSeqProperties
    <2> HIDE DEF c
    <2>3. 2 * N - (N + 1) + 1 = N /\ (~(N + 1 <= 2 * N) => N = 0)
        OBVIOUS
    <2>4. \A i \in 1 .. N : N + 1 + i - 1 = N + i
        OBVIOUS
    <2> QED BY <2>2, <2>3, <2>4
<1> HIDE DEF a, c
<1>6. ASSUME NEW i \in 1 .. N PROVE a[i] = s[i] /\ c[i] = t[i]
    <2>1. i \in 1 .. Len(s) + Len(t) /\ N + i \in 1 .. Len(s) + Len(t) /\ N + i - N = i
        BY <1>2
    <2>2. w[i] = s[i] /\ w[N + i] = t[i]
        BY <1>1, <2>1
    <2> QED BY <1>4, <1>5, <2>2
<1> QED BY <1>3, <1>4, <1>5, <1>6 DEF a, c, w

\* The bytes of both coordinates.
LEMMA TwoFields ==
    ASSUME NEW x \in Nat, x < Power(Base)[PointBytes], NEW y \in Nat, y < Power(Base)[PointBytes]
    PROVE  LET bytes == PadLeft(Printed(x)) \o PadLeft(Printed(y))
           IN  /\ Len(bytes) = 2 * PointBytes
               /\ Value(SubSeq(bytes, 1, PointBytes)) = x
               /\ Value(SubSeq(bytes, PointBytes + 1, 2 * PointBytes)) = y
<1> DEFINE s == PadLeft(Printed(x))
           t == PadLeft(Printed(y))
           a == SubSeq(s \o t, 1, PointBytes)
           c == SubSeq(s \o t, PointBytes + 1, 2 * PointBytes)
<1>1. PointBytes \in Nat /\ s \in Seq(Nat) /\ t \in Seq(Nat) /\ Len(s) = PointBytes /\ Len(t) = PointBytes
    BY EcAssumption, PaddedFacts
<1>2. /\ Len(s \o t) = 2 * PointBytes /\ Len(a) = PointBytes /\ Len(c) = PointBytes
      /\ \A i \in 1 .. PointBytes : a[i] = s[i] /\ c[i] = t[i]
    <2> HIDE DEF s, t
    <2> QED BY <1>1, Halves
<1> HIDE DEF a, c
<1>3. Value(a) = x /\ Value(c) = y
    BY <1>2, PaddedValue
<1> QED BY <1>2, <1>3 DEF a, c

\* The last bytes of a number that has so many are its remainder.
LEMMA LastBytes ==
    ASSUME NEW x \in Nat, x < Power(Base)[PointBytes], PrintedLen(x) >= BusKeyBytes
    PROVE  LET s == Printed(x)
               t == SubSeq(s, Len(s) - BusKeyBytes + 1, Len(s))
           IN  Len(t) = BusKeyBytes /\ Value(t) = x % Power(Base)[BusKeyBytes]
<1> DEFINE s == Printed(x)
           n == PrintedLen(x)
           K == BusKeyBytes
           t == SubSeq(s, n - K + 1, n)
<1>1. Base \in Nat \ {0} /\ K \in Nat \ {0}
    BY EcAssumption
<1>2. /\ n \in Nat /\ s \in Seq(Nat) /\ Len(s) = n
      /\ \A j \in 1 .. n : s[j] = (x \div Power(Base)[n - j]) % Base
    <2>1. PointBytes \in Nat
        BY EcAssumption
    <2> QED BY <2>1, PrintedFacts
<1>3. K <= n
    BY <1>1, <1>2
<1> HIDE DEF s, n, K
<1>4. Len(t) = K /\ \A i \in 1 .. K : t[i] = s[n - K + i]
    <2>1. n - K + 1 \in Int /\ n \in Int
        BY <1>1, <1>2
    <2>2. \A i \in n - K + 1 .. n : s[i] \in Nat
        BY <1>1, <1>2, <1>3
    <2>3. /\ Len(t) = IF n - K + 1 <= n THEN n - (n - K + 1) + 1 ELSE 0
          /\ \A i \in 1 .. n - (n - K + 1) + 1 : t[i] = s[n - K + 1 + i - 1]
        BY <2>1, <2>2, SubSeqProperties
    <2> HIDE DEF t
    <2>4. n - (n - K + 1) + 1 = K /\ n - K + 1 <= n
        BY <1>1, <1>2
    <2>5. \A i \in 1 .. K : n - K + 1 + i - 1 = n - K + i
        BY <1>1, <1>2
    <2> QED BY <2>3, <2>4, <2>5
<1> HIDE DEF t
<1>5. ASSUME NEW i \in 1 .. K PROVE t[i] = (x \div Power(Base)[K - i]) % Base
    <2>1. n - K + i \in 1 .. n /\ n - (n - K + i) = K - i
        BY <1>1, <1>2, <1>3
    <2> QED BY <1>2, <1>4, <2>1
<1>6. Value(t) = x % Power(Base)[K]
    BY <1>1, <1>4, <1>5, DigitsSpell
<1> QED BY <1>2, <1>4, <1>6 DEF t, s, K

-----------------------------------------------------------------------------
(* The field *)

\* Coordinates are below p.
Points == [x : 0 .. F - 1, y : 0 .. F - 1, z : 0 .. F - 1]

LEMMA FieldFacts ==
    ASSUME ec_curve \in EcCurves
    PROVE  /\ F \in Nat /\ 2 < F /\ F <= Power(Base)[PointBytes] /\ ec_curve.a \in Nat
           /\ \A x \in Int : x % F \in 0 .. F - 1
           /\ \A z \in 1 .. F - 1 : Inv(z) \in 1 .. F - 1
           /\ Infinity \in Points
<1>1. /\ F \in Nat /\ 2 < F /\ F <= Power(Base)[PointBytes] /\ ec_curve.a \in Nat
      /\ \A z \in 1 .. F - 1 : \E y \in 1 .. F - 1 : (z * y) % F = 1
    BY EcAssumption DEF F
<1> HIDE DEF F
<1>2. \A x \in Int : x % F \in 0 .. F - 1
    BY <1>1
<1>3. \A z \in 1 .. F - 1 : Inv(z) \in 1 .. F - 1
    BY <1>1 DEF Inv
<1>4. Infinity \in Points
    BY <1>1 DEF Infinity, Points
<1> QED BY <1>1, <1>2, <1>3, <1>4

LEMMA SlopeType == ASSUME ec_curve \in EcCurves, NEW P \in Points PROVE Slope(P) \in 0 .. F - 1
<1> DEFINE zz == (P.z * P.z) % F
           q == ((P.x - zz) * (P.x + zz)) % F
           r == (zz * zz) % F
<1>1. F \in Nat /\ ec_curve.a \in Nat /\ \A x \in Int : x % F \in 0 .. F - 1
    BY FieldFacts
<1>2. P.x \in Int /\ P.z \in Int
    BY <1>1 DEF Points
<1>3. zz \in Int
    <2>1. P.z * P.z \in Int
        BY <1>2
    <2> QED BY <1>1, <2>1
<1>4. Slope(P) = IF ec_curve.a = F - 3 THEN (3 * q) % F ELSE (3 * P.x * P.x + ec_curve.a * r) % F
    BY DEF Slope
<1> HIDE DEF zz, F
<1>5. (P.x - zz) * (P.x + zz) \in Int /\ zz * zz \in Int
    BY <1>2, <1>3
<1>6. q \in Int /\ r \in Int
    BY <1>1, <1>5
<1> HIDE DEF q, r
<1>7. 3 * q \in Int /\ 3 * P.x * P.x + ec_curve.a * r \in Int
    BY <1>1, <1>2, <1>6
<1> QED BY <1>1, <1>4, <1>7

LEMMA DupType == ASSUME ec_curve \in EcCurves, NEW P \in Points PROVE Dup(P) \in Points
<1> DEFINE l1 == Slope(P)
           yy == (P.y * P.y) % F
           l2 == (4 * P.x * yy) % F
           x3 == (l1 * l1 - 2 * l2) % F
           y4 == (yy * yy) % F
           y3 == (l1 * (l2 - x3) - 8 * y4) % F
           z3 == (2 * P.y * P.z) % F
<1>1. F \in Nat /\ Infinity \in Points /\ \A x \in Int : x % F \in 0 .. F - 1
    BY FieldFacts
<1>2. P.x \in Int /\ P.y \in Int /\ P.z \in Int /\ l1 \in Int
    BY <1>1, SlopeType DEF Points
<1>3. Dup(P) = IF P.y = 0 \/ P.z = 0 THEN Infinity ELSE [x |-> x3, y |-> y3, z |-> z3]
    BY DEF Dup
<1> HIDE DEF F, l1
<1>4. yy \in Int
    <2>1. P.y * P.y \in Int
        BY <1>2
    <2> QED BY <1>1, <2>1
<1> HIDE DEF yy
<1>5. l2 \in Int /\ y4 \in Int
    <2>1. 4 * P.x * yy \in Int /\ yy * yy \in Int
        BY <1>2, <1>4
    <2> QED BY <1>1, <2>1
<1> HIDE DEF l2, y4
<1>6. x3 \in Int /\ x3 \in 0 .. F - 1
    <2>1. l1 * l1 - 2 * l2 \in Int
        BY <1>2, <1>5
    <2> QED BY <1>1, <2>1
<1> HIDE DEF x3
<1>7. y3 \in 0 .. F - 1 /\ z3 \in 0 .. F - 1
    <2>1. l1 * (l2 - x3) - 8 * y4 \in Int /\ 2 * P.y * P.z \in Int
        BY <1>2, <1>5, <1>6
    <2>2. y3 \in 0 .. F - 1
        BY <1>1, <2>1, Zenon
    <2>3. z3 \in 0 .. F - 1
        BY <1>1, <2>1, Zenon
    <2> QED BY <2>2, <2>3
<1> HIDE DEF y3, z3
<1> QED BY <1>1, <1>3, <1>6, <1>7 DEF Points

LEMMA AddType ==
    ASSUME ec_curve \in EcCurves, NEW P \in Points, NEW Q \in Points
    PROVE  Add(P, Q) \in Points
<1> DEFINE Cube(z) == (((z * z) % F) * z) % F
           l1 == (P.x * Q.z * Q.z) % F
           l2 == IF P.z = 1 THEN P.x ELSE (Q.x * P.z * P.z) % F
           l3 == (l1 - l2) % F
           l4 == (P.y * Cube(Q.z)) % F
           l5 == (Q.y * Cube(P.z)) % F
           l6 == (l4 - l5) % F
           t2 == (l3 * l3 * (l1 + l2)) % F
           x3 == (l6 * l6 - t2) % F
           l9 == (t2 - 2 * x3) % F
           y3 == ((l9 * l6 - (l4 + l5) * Cube(l3)) * Inv(2)) % F
           z3 == (P.z * Q.z * l3) % F
<1>1. F \in Nat /\ Infinity \in Points /\ (\A x \in Int : x % F \in 0 .. F - 1) /\ Inv(2) \in Int
    <2>1. 2 \in 1 .. F - 1
        BY FieldFacts
    <2> QED BY <2>1, FieldFacts
<1>2. /\ P.x \in Int /\ P.y \in Int /\ P.z \in Int
      /\ Q.x \in Int /\ Q.y \in Int /\ Q.z \in Int
    BY <1>1 DEF Points
<1>3. Add(P, Q) = IF P = Q THEN Dup(P)
                  ELSE IF P.z = 0 THEN Q
                  ELSE IF Q.z = 0 THEN P
                  ELSE IF l3 # 0 THEN [x |-> x3, y |-> y3, z |-> z3]
                  ELSE IF l6 = 0 THEN Dup(P) ELSE Infinity
    BY DEF Add
<1> HIDE DEF F
<1>4. ASSUME NEW z \in Int PROVE Cube(z) \in Int
    <2>1. (z * z) % F \in Int
        <3>1. z * z \in Int
            OBVIOUS
        <3> QED BY <1>1, <3>1
    <2>2. ((z * z) % F) * z \in Int
        BY <2>1
    <2> QED BY <1>1, <2>2
<1> HIDE DEF Cube
<1>5. l1 \in Int /\ l2 \in Int
    <2>1. P.x * Q.z * Q.z \in Int /\ Q.x * P.z * P.z \in Int
        BY <1>2
    <2> QED BY <1>1, <1>2, <2>1
<1> HIDE DEF l1, l2
<1>6. l3 \in Int /\ l4 \in Int /\ l5 \in Int
    <2>1. l1 - l2 \in Int /\ P.y * Cube(Q.z) \in Int /\ Q.y * Cube(P.z) \in Int
        BY <1>2, <1>4, <1>5
    <2>2. \A x \in Int : x % F \in Int
        BY <1>1
    <2> QED BY <2>1, <2>2, Zenon
<1> HIDE DEF l3, l4, l5
<1>7. l6 \in Int /\ t2 \in Int
    <2>1. l4 - l5 \in Int /\ l3 * l3 * (l1 + l2) \in Int
        BY <1>5, <1>6
    <2> QED BY <1>1, <2>1
<1> HIDE DEF l6, t2
<1>8. x3 \in Int /\ x3 \in 0 .. F - 1
    <2>1. l6 * l6 - t2 \in Int
        BY <1>7
    <2> QED BY <1>1, <2>1
<1> HIDE DEF x3
<1>9. l9 \in Int
    <2>1. t2 - 2 * x3 \in Int
        BY <1>7, <1>8
    <2> QED BY <1>1, <2>1
<1> HIDE DEF l9
<1>10. y3 \in 0 .. F - 1 /\ z3 \in 0 .. F - 1
    <2>1. (l9 * l6 - (l4 + l5) * Cube(l3)) \in Int
        BY <1>4, <1>6, <1>7, <1>9
    <2>2. (l9 * l6 - (l4 + l5) * Cube(l3)) * Inv(2) \in Int
        BY <1>1, <2>1
    <2>3. P.z * Q.z * l3 \in Int
        BY <1>2, <1>6
    <2> QED BY <1>1, <2>2, <2>3
<1> HIDE DEF y3, z3
<1>11. [x |-> x3, y |-> y3, z |-> z3] \in Points
    BY <1>8, <1>10 DEF Points
<1>12. Dup(P) \in Points
    BY DupType
<1> QED BY <1>1, <1>3, <1>11, <1>12

LEMMA AffineType ==
    ASSUME ec_curve \in EcCurves, NEW P \in Points
    PROVE  /\ Affine(P)[1] \in Nat /\ Affine(P)[1] < Power(Base)[PointBytes]
           /\ Affine(P)[2] \in Nat /\ Affine(P)[2] < Power(Base)[PointBytes]
<1> DEFINE zi == Inv(P.z)
           z2 == (zi * zi) % F
           z3 == (z2 * zi) % F
           x == (P.x * z2) % F
           y == (P.y * z3) % F
<1>1. /\ F \in Nat /\ 2 < F /\ F <= Power(Base)[PointBytes]
      /\ \A v \in Int : v % F \in 0 .. F - 1
    BY FieldFacts
<1>2. Power(Base)[PointBytes] \in Nat
    BY EcAssumption, PowerFacts
<1>3. CASE P.z = 0
    BY <1>1, <1>2, <1>3 DEF Affine
<1>4. CASE P.z # 0
    <2>1. P.x \in Int /\ P.y \in Int /\ P.z \in 1 .. F - 1
        BY <1>1, <1>4 DEF Points
    <2>2. zi \in Int
        BY <2>1, FieldFacts
    <2>3. Affine(P) = <<x, y>>
        BY <1>4 DEF Affine
    <2> HIDE DEF F, zi
    <2>4. z2 \in Int
        <3>1. zi * zi \in Int
            BY <2>2
        <3> QED BY <1>1, <3>1
    <2> HIDE DEF z2
    <2>5. z3 \in Int
        <3>1. z2 * zi \in Int
            BY <2>2, <2>4
        <3> QED BY <1>1, <3>1
    <2> HIDE DEF z3
    <2>6. x \in 0 .. F - 1 /\ y \in 0 .. F - 1
        <3>1. P.x * z2 \in Int /\ P.y * z3 \in Int
            BY <2>1, <2>4, <2>5
        <3> QED BY <1>1, <3>1
    <2> HIDE DEF x, y
    <2> QED BY <1>1, <1>2, <2>3, <2>6
<1> QED BY <1>3, <1>4

-----------------------------------------------------------------------------
(* The calls *)

EcTypeOK ==
    /\ ec_curve \in EcCurves /\ ec_op \in {"key_pair", "bus_key"}
    /\ ec_scalar \in 1 .. Power(2)[ScalarBits] - 1 /\ ec_point \in Points
    /\ ec_pc \in {"call", "mul", "done"} /\ ec_i \in Int /\ ec_result \in Points

EcInv == EcTypeOK /\ PointIsPrinted

LEMMA EcInitInv == EcInit => EcInv
<1> SUFFICES ASSUME EcInit PROVE EcInv
    OBVIOUS
<1>1. ec_curve \in EcCurves
    BY DEF EcInit
<1>2. F \in Nat /\ 2 < F /\ Infinity \in Points
    BY <1>1, FieldFacts
<1>3. ec_point \in Points
    <2>1. PICK x, y \in 0 .. F - 1 : ec_point = [x |-> x, y |-> y, z |-> 1]
        BY DEF EcInit, F
    <2> QED BY <1>2, <2>1 DEF Points
<1> QED BY <1>1, <1>2, <1>3 DEF EcInit, EcInv, EcTypeOK, PointIsPrinted

LEMMA BitType == ASSUME NEW n \in Nat, NEW i \in Nat PROVE Bit(n, i) \in {0, 1}
<1>1. Power(2)[i] \in Nat \ {0}
    BY PowerFacts
<1> DEFINE p == Power(2)[i]
<1>2. p \in Nat \ {0}
    BY <1>1
<1> HIDE DEF p
<1>3. n \div p \in Nat
    BY <1>2
<1> QED BY <1>3 DEF Bit, p

\* The numbers of bits of the tripled scalar.
LEMMA NBitsType == ASSUME EcTypeOK PROVE NBits(3 * ec_scalar) \in Nat
<1> DEFINE T == {i \in 0 .. ScalarBits + 2 : Power(2)[i] > 3 * ec_scalar}
           q == Power(2)[ScalarBits]
<1>1. ScalarBits \in Nat /\ ScalarBits + 1 \in Nat /\ ScalarBits + 1 + 1 = ScalarBits + 2
    BY EcAssumption
<1>2. q \in Nat /\ Power(2)[ScalarBits + 1] = 2 * q /\ Power(2)[ScalarBits + 2] = 2 * (2 * q)
    BY <1>1, PowerFacts
<1>3. ec_scalar \in Nat /\ ec_scalar < q
    BY <1>2 DEF EcTypeOK
<1>4. ScalarBits + 2 \in T
    BY <1>1, <1>2, <1>3
<1>5. PICK k \in T : \A j \in T : k <= j
    <2>1. T \subseteq Nat
        BY <1>1
    <2> HIDE DEF T
    <2> QED BY <1>4, <2>1, LeastNatural
<1>6. NBits(3 * ec_scalar) = CHOOSE x \in T : \A y \in T : x <= y
    BY DEF NBits, Min
<1>7. NBits(3 * ec_scalar) \in T
    <2> HIDE DEF T
    <2> QED BY <1>5, <1>6
<1> QED BY <1>1, <1>7

LEMMA MulStepInv == ASSUME EcInv, MulStep PROVE EcInv'
<1> DEFINE twice == Dup(ec_result)
           h == Bit(3 * ec_scalar, ec_i)
           k == Bit(ec_scalar, ec_i)
<1>1. /\ ec_curve \in EcCurves /\ ec_result \in Points /\ ec_point \in Points /\ ec_i \in Nat
      /\ 3 * ec_scalar \in Nat /\ ec_scalar \in Nat
    BY DEF EcInv, EcTypeOK, MulStep
<1>2. h \in {0, 1} /\ k \in {0, 1}
    BY <1>1, BitType
<1>3. twice \in Points
    BY <1>1, DupType
<1>4. Negative(ec_point) \in Points
    <2>1. (F - ec_point.y) % F \in 0 .. F - 1
        <3>1. F - ec_point.y \in Int
            BY <1>1, FieldFacts DEF Points
        <3> QED BY <1>1, <3>1, FieldFacts
    <2> QED BY <1>1, <2>1 DEF Negative, Points
<1>5. Add(twice, ec_point) \in Points /\ Add(twice, Negative(ec_point)) \in Points
    BY <1>1, <1>3, <1>4, AddType
<1>6. ec_result' = CASE h = k -> twice
                     [] h > k -> Add(twice, ec_point)
                     [] h < k -> Add(twice, Negative(ec_point))
    BY DEF MulStep
<1> HIDE DEF twice, h, k
<1>7. ec_result' \in Points
    <2>1. h = k \/ h > k \/ h < k
        BY <1>2
    <2>2. ec_result' \in {twice, Add(twice, ec_point), Add(twice, Negative(ec_point))}
        BY <1>2, <1>6, <2>1
    <2> QED BY <1>3, <1>5, <2>2
<1>8. Points' = Points
    BY DEF MulStep, ec_call, Points, F
<1>9. EcTypeOK'
    <2>1. /\ UNCHANGED <<ec_curve, ec_op, ec_scalar, ec_point, ec_pc>> /\ ec_i' \in Int
        BY <1>1 DEF MulStep, ec_call
    <2> QED BY <1>7, <1>8, <2>1 DEF EcInv, EcTypeOK
<1>10. ec_pc' = "mul"
    BY DEF MulStep
<1> QED BY <1>9, <1>10 DEF EcInv, PointIsPrinted

LEMMA FinishInv == ASSUME EcInv, Finish PROVE EcInv'
<1> DEFINE x == Affine(ec_result)[1]
           y == Affine(ec_result)[2]
           s == Printed(x)
<1>1. UNCHANGED <<ec_curve, ec_op, ec_scalar, ec_point, ec_i, ec_result>> /\ ec_pc' = "done"
    BY DEF Finish, ec_call
<1>2. EcTypeOK'
    <2>1. Points' = Points
        BY <1>1 DEF Points, F
    <2> QED BY <1>1, <2>1 DEF EcInv, EcTypeOK
<1>3. /\ x \in Nat /\ x < Power(Base)[PointBytes]
      /\ y \in Nat /\ y < Power(Base)[PointBytes]
    BY AffineType DEF EcInv, EcTypeOK
<1>4. Affine(ec_result)' = Affine(ec_result)
    BY <1>1 DEF Affine, Inv, F
<1>5. /\ PrintedLen(x) \in Nat /\ x < Power(Base)[PrintedLen(x)]
      /\ s \in Seq(Nat) /\ Len(s) = PrintedLen(x)
    BY <1>3, PrintedFacts, EcAssumption
<1>6. BusKeyBytes \in Nat /\ BusKeyBytes - 1 \in Nat /\ Base \in Nat \ {0}
    BY EcAssumption
<1> DEFINE Right == IF ec_op = "key_pair"
                    THEN /\ Len(ec_bytes') = 2 * PointBytes
                         /\ Value(SubSeq(ec_bytes', 1, PointBytes)) = x
                         /\ Value(SubSeq(ec_bytes', PointBytes + 1, 2 * PointBytes)) = y
                    ELSE /\ Len(ec_bytes') = BusKeyBytes
                         /\ x >= Power(Base)[BusKeyBytes - 1]
                            => Value(ec_bytes') = x % Power(Base)[BusKeyBytes]
<1>7. ASSUME ec_op = "key_pair", ec_bytes' = PadLeft(s) \o PadLeft(Printed(y)) PROVE Right
    <2> HIDE DEF x, y
    <2> QED BY <1>3, <1>7, TwoFields
<1>8. ASSUME ec_op = "bus_key", Len(s) >= BusKeyBytes,
             ec_bytes' = SubSeq(s, Len(s) - BusKeyBytes + 1, Len(s))
      PROVE  Right
    <2> HIDE DEF x, y
    <2>1. Len(ec_bytes') = BusKeyBytes /\ Value(ec_bytes') = x % Power(Base)[BusKeyBytes]
        BY <1>3, <1>5, <1>8, LastBytes
    <2> QED BY <1>8, <2>1
<1>9. ASSUME ec_op = "bus_key", Len(s) < BusKeyBytes,
             NEW junk \in [1 .. BusKeyBytes - Len(s) -> {0, Base - 1}], ec_bytes' = junk \o s
      PROVE  Right
    <2>1. junk \in Seq(Nat) /\ Len(junk) = BusKeyBytes - Len(s)
        <3>1. BusKeyBytes - Len(s) \in Nat /\ \A i \in 1 .. BusKeyBytes - Len(s) : junk[i] \in Nat
            BY <1>5, <1>6, <1>9
        <3>2. junk = [i \in 1 .. BusKeyBytes - Len(s) |-> junk[i]]
            OBVIOUS
        <3>3. [i \in 1 .. BusKeyBytes - Len(s) |-> junk[i]] \in Seq(Nat)
            BY <3>1, IsASeq
        <3> QED BY <3>1, <3>2, <3>3, LenProperties
    <2>2. Len(junk \o s) = BusKeyBytes
        <3> HIDE DEF s
        <3>1. Len(junk \o s) = Len(junk) + Len(s)
            BY <1>5, <2>1, ConcatProperties
        <3> QED BY <1>5, <1>6, <2>1, <3>1
    <2>3. ~(x >= Power(Base)[BusKeyBytes - 1])
        <3>1. PrintedLen(x) <= BusKeyBytes - 1
            BY <1>5, <1>6, <1>9
        <3>2. Power(Base)[PrintedLen(x)] <= Power(Base)[BusKeyBytes - 1]
            BY <1>5, <1>6, <3>1, PowersGrow
        <3>3. Power(Base)[PrintedLen(x)] \in Nat /\ Power(Base)[BusKeyBytes - 1] \in Nat
            BY <1>5, <1>6, PowerFacts
        <3> HIDE DEF x
        <3> QED BY <1>3, <1>5, <3>2, <3>3
    <2> QED BY <1>9, <2>2, <2>3
<1>10. Right
    BY <1>7, <1>8, <1>9 DEF Finish
<1>11. PointIsPrinted'
    BY <1>1, <1>4, <1>10 DEF PointIsPrinted, Value
<1> QED BY <1>2, <1>11 DEF EcInv

LEMMA EcStepInv == EcInv /\ [EcNext]_ec_vars => EcInv'
<1> SUFFICES ASSUME EcInv, [EcNext]_ec_vars PROVE EcInv'
    OBVIOUS
<1>1. CASE UNCHANGED ec_vars
    <2>1. UNCHANGED <<ec_curve, ec_op, ec_scalar, ec_point, ec_pc, ec_i, ec_result, ec_bytes>>
        BY <1>1 DEF ec_vars
    <2>2. Points' = Points /\ Affine(ec_result)' = Affine(ec_result)
        BY <2>1 DEF Points, Affine, Inv, F
    <2>3. EcTypeOK'
        BY <2>1, <2>2 DEF EcInv, EcTypeOK
    <2>4. PointIsPrinted'
        BY <2>1, <2>2 DEF EcInv, PointIsPrinted, Value
    <2> QED BY <2>3, <2>4 DEF EcInv
<1>2. CASE MulStart
    <2>1. UNCHANGED <<ec_curve, ec_op, ec_scalar, ec_point>> /\ ec_pc' = "mul"
          /\ ec_result' = ec_point /\ ec_i' = NBits(3 * ec_scalar) - 2
        BY <1>2 DEF MulStart, ec_call
    <2>2. ec_i' \in Int
        BY <2>1, NBitsType DEF EcInv
    <2>3. Points' = Points
        BY <2>1 DEF Points, F
    <2> QED BY <2>1, <2>2, <2>3 DEF EcInv, EcTypeOK, PointIsPrinted
<1>3. CASE MulStep
    BY <1>3, MulStepInv
<1>4. CASE Finish
    BY <1>4, FinishInv
<1> QED BY <1>1, <1>2, <1>3, <1>4 DEF EcNext

\* For every base, every size of a field and every curve over a field: the bytes of a key point give
\* back its coordinates, and a bus key is the end of x.
THEOREM PointsArePrinted == EcSpec => []PointIsPrinted
<1>1. EcInv => PointIsPrinted
    BY DEF EcInv
<1> QED BY <1>1, EcInitInv, EcStepInv, PTL DEF EcSpec
=============================================================================
