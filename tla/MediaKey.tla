------------------------------ MODULE MediaKey ------------------------------
(***************************************************************************)
(* The media key from device keys or processing keys: _calc_mk_dks(),      *)
(* _find_dk(), _calc_pk(), _calc_v_mask(), _calc_mk_pks() and              *)
(* _validate_pk() of aacs.c.                                               *)
(*                                                                         *)
(* Device numbers are the leaves of a binary tree.  A number uv of W bits  *)
(* names two nodes: u is what is left of uv when its low u_mask_shift bits *)
(* are cut off, v what is left when everything up to its lowest 1 is cut   *)
(* off.  The entry (u, v) of a media key block serves the devices below u  *)
(* that are not below v.  A mask of the code, always ones followed by      *)
(* zeros, is represented by the number of its zeros; a node is its height  *)
(* (that number) and its prefix.                                           *)
(*                                                                         *)
(* Keys are symbolic: the label of node w in the tree of u.  crypto_aesg3()*)
(* makes the labels of both children and the processing key of a label.    *)
(***************************************************************************)
EXTENDS Integers, Sequences, Powers

CONSTANTS
    W,            \* bits of a device number and of uv (32)
    Records,      \* subset-difference records of media key blocks
    Leftovers,    \* what can follow the record in memory, read as entries
    DkLists,      \* lists of device keys
    PkLists       \* lists of processing keys

Pow2 == Power(2)                             \* 1ul << k
Words == 0 .. Pow2[W] - 1
EndMark == 64                                   \* u_mask_shift & 0xc0
Entries == [shift : 0 .. W - 1 \cup {EndMark}, uv : Words]
DkEntries == [node : Words, shift : Nat, uv : Words]

ASSUME MediaKeyAssumption ==
    /\ W \in Nat \ {0}
    /\ \A r \in Records : r \in Seq(Entries)
    /\ Leftovers \subseteq Seq(Entries) \ {<<>>}
    /\ \A l \in DkLists : l \in Seq(DkEntries)

VARIABLES
    uvs, behind, dkl, pkl,    \* the input
    mk_pc,
    di,       \* position in dkl (the loop over the devices)
    device,   \* device_number, -1 before the first
    ui,       \* uvs_idx + 1
    height,   \* dev_key_v_mask
    label,    \* the label _calc_pk() has reached
    mk_result

mk_input == <<uvs, behind, dkl, pkl>>
mk_vars == <<mk_input, mk_pc, di, device, ui, height, label, mk_result>>

-----------------------------------------------------------------------------
(* Nodes and labels *)

Node(x, k) == <<k, x \div Pow2[k]>>
UvBit(x, i) == (x \div Pow2[i]) % 2
Below(x, node) == x \div Pow2[node[1]] = node[2]

\* _calc_v_mask(): the loop ends at the lowest 1 of uv (mutant: it stops one bit early).
VMaskShort(uv) == CHOOSE k \in 0 .. W - 1 : UvBit(uv, k) = 1 /\ uv % Pow2[k] = 0
VMask(uv) == CHOOSE k \in 1 .. W : UvBit(uv, k - 1) = 1 /\ uv % Pow2[k - 1] = 0

\* The label an entry, or a device key of the configuration, is about.
LabelOf(e) == [u |-> Node(e.uv, e.shift), w |-> Node(e.uv, VMask(e.uv))]

\* The child of a label on the way to uv.  Below a leaf (the mask is all ones) there is
\* nothing, and the code takes the left one.
Child(l, uv) ==
    LET k == l.w[1] IN IF k = 0 THEN l ELSE
    [l EXCEPT !.w = <<k - 1, 2 * @[2] + UvBit(uv, k - 1)>>]

-----------------------------------------------------------------------------
(* The record *)

\* num_uvs of _calc_mk_dks() is a fifth of the length of the C-values record, which has
\* 16 bytes for every entry: the loop runs on behind the end of the record.
NumUvs == (16 * Len(uvs)) \div 5
Entry(i) ==
    IF i <= Len(uvs) THEN uvs[i]
    ELSE IF i - Len(uvs) <= Len(behind) THEN behind[i - Len(uvs)] ELSE behind[1]

\* Does entry e serve device d?
Serves(d, e) == Below(d, Node(e.uv, e.shift)) /\ ~Below(d, Node(e.uv, VMask(e.uv)))

Stops(e) == e.uv # 0 /\ e.shift = EndMark
Applies(d, e) == e.uv # 0 /\ e.shift # EndMark /\ Serves(d, e)

\* The entry the search of _calc_mk_dks() ends with, if any.
Applying(d) == {i \in 1 .. NumUvs :
    Applies(d, Entry(i)) /\ \A j \in 1 .. i - 1 : ~Applies(d, Entry(j)) /\ ~Stops(Entry(j))}

\* _find_dk() for entry e, from position from on.
Fits(dk, e) ==
    dk.uv # 0 /\ dk.shift = e.shift /\ Below(e.uv, Node(dk.uv, VMask(dk.uv)))
FindDk(from, e) == {i \in from .. Len(dkl) :
    /\ dkl[i].node = device /\ Fits(dkl[i], e)
    /\ \A j \in from .. i - 1 : ~(dkl[j].node = device /\ Fits(dkl[j], e))}

\* _validate_pk(): the C-value of entry i is the media key encrypted with the processing
\* key of that entry, and nothing else passes the verification data.
ValidPk(pk, i) == i <= Len(uvs) /\ uvs[i].uv # 0 /\ pk = LabelOf(uvs[i])

-----------------------------------------------------------------------------
(* _calc_mk_dks() *)

NextDevice ==
    /\ mk_pc = "device" /\ di <= Len(dkl) /\ Len(uvs) > 0
    /\ IF dkl[di].node = device
       THEN di' = di + 1 /\ UNCHANGED <<mk_pc, device>>
       ELSE device' = dkl[di].node /\ mk_pc' = "subset" /\ UNCHANGED di
    /\ UNCHANGED <<mk_input, ui, height, label, mk_result>>

\* The end of the list, or a record without entries.
NoMoreDevices ==
    /\ mk_pc = "device" /\ (di > Len(dkl) \/ Len(uvs) = 0)
    /\ mk_pc' = "pks"
    /\ UNCHANGED <<mk_input, di, device, ui, height, label, mk_result>>

\* continue
TryNextDevice == mk_pc' = "device" /\ di' = di + 1

\* The subset-difference for this device.
FindSubset ==
    /\ mk_pc = "subset"
    /\ \/ /\ Applying(device) = {} /\ TryNextDevice /\ UNCHANGED ui
       \/ /\ ui' \in Applying(device) /\ mk_pc' = "dk" /\ UNCHANGED di
    /\ UNCHANGED <<mk_input, device, height, label, mk_result>>

FindDeviceKey ==
    /\ mk_pc = "dk"
    /\ \/ /\ FindDk(di, Entry(ui)) = {} /\ TryNextDevice /\ UNCHANGED <<height, label>>
       \/ \E i \in FindDk(di, Entry(ui)) :
             /\ height' = VMask(dkl[i].uv) /\ label' = LabelOf(dkl[i])
             /\ mk_pc' = "pk" /\ UNCHANGED di
    /\ UNCHANGED <<mk_input, device, ui, mk_result>>

\* One turn of _calc_pk(); the mask gains a one, unless it is all ones.  Zero, the mask of a
\* device key whose uv is the highest bit alone, stays zero when it is shifted.
CalcPk ==
    /\ mk_pc = "pk" /\ height # VMask(Entry(ui).uv)
    /\ label' = Child(label, Entry(ui).uv)
    /\ height' = IF height \in {0, W} THEN height ELSE height - 1
    /\ UNCHANGED <<mk_input, mk_pc, di, device, ui, mk_result>>

ValidateDk ==
    /\ mk_pc = "pk" /\ height = VMask(Entry(ui).uv)
    /\ IF ValidPk(label, ui)
       THEN mk_result' = "success" /\ mk_pc' = "done" /\ UNCHANGED di
       ELSE TryNextDevice /\ UNCHANGED mk_result
    /\ UNCHANGED <<mk_input, device, ui, height, label>>

-----------------------------------------------------------------------------
\* _calc_mk_pks(): every key with every entry before the first that ends the record.  When
\* there is no record, len is not initialised: there is nothing to try, or NULL is read.
Tried == {i \in 1 .. Len(uvs) : \A j \in 1 .. i : uvs[j].shift # EndMark}

TryPks ==
    /\ mk_pc = "pks"
    /\ \/ /\ mk_result' = IF \E k \in 1 .. Len(pkl), i \in Tried : ValidPk(pkl[k], i)
                         THEN "success" ELSE "no_pk"
       \/ uvs = <<>> /\ mk_result' = "crash"
    /\ mk_pc' = "done"
    /\ UNCHANGED <<mk_input, di, device, ui, height, label>>

MkInit ==
    /\ uvs \in Records /\ behind \in Leftovers /\ dkl \in DkLists /\ pkl \in PkLists
    /\ mk_pc = IF dkl = <<>> THEN "pks" ELSE "device"
    /\ di = 1 /\ device = -1 /\ ui = 1
    /\ height = 0 /\ label = [u |-> <<0, 0>>, w |-> <<0, 0>>]
    /\ mk_result = "no_pk"

MkNext == NextDevice \/ NoMoreDevices \/ FindSubset \/ FindDeviceKey \/ CalcPk \/ ValidateDk
        \/ TryPks

\* The thread that runs the calculation goes on.
MkSpec == MkInit /\ [][MkNext]_mk_vars /\ WF_mk_vars(MkNext)

-----------------------------------------------------------------------------
\* The keys a device has: for every u above it the label of each node next to its path.
Sibling(n) == IF n % 2 = 0 THEN n + 1 ELSE n - 1
DeviceKey(d, s, k) ==
    [node |-> d, shift |-> s, uv |-> Sibling(d \div Pow2[k]) * Pow2[k] + Pow2[k - 1]]
DeviceKeys(d) ==
    {DeviceKey(d, p[1], p[2]) : p \in {q \in (2 .. W - 1) \X (1 .. W - 2) : q[2] < q[1]}}

\* The tree, without the masks of the code: the node v of uv = v 1 0 ... 0, and the
\* nodes above a device.
VNode(uv) == CHOOSE n \in (1 .. W) \X Words : uv = n[2] * Pow2[n[1]] + Pow2[n[1] - 1]
Ancestors(d) == {Node(d, k) : k \in 0 .. W}
IsServed(d, e) ==
    /\ e.uv # 0 /\ e.shift # EndMark
    /\ Node(e.uv, e.shift) \in Ancestors(d) /\ VNode(e.uv) \notin Ancestors(d)

Reached == {i \in 1 .. Len(uvs) : \A j \in 1 .. i : ~Stops(uvs[j])}

Complete(d) == \A key \in DeviceKeys(d) : \E k \in 1 .. Len(dkl) : dkl[k] = key

\* A device key is that of a node at or below its u.  (Another one in front of the right one
\* would be taken by _find_dk(), and _calc_mk_dks() would give the device up.)
KeyIsBelowU(dk) == dk.uv # 0 => VNode(dk.uv)[1] <= dk.shift

\* With complete sets of device keys the media key is found exactly for the devices an
\* entry of the record serves: those below u that are not below v.  Whatever is read
\* behind the record does no harm.  (No processing keys here.)
ServedDevicesGetMk ==
    /\ mk_pc = "done" /\ pkl = <<>>
    /\ \A k \in 1 .. Len(dkl) : Complete(dkl[k].node) /\ KeyIsBelowU(dkl[k])
    => (mk_result = "success"
        <=> \E i \in Reached, k \in 1 .. Len(dkl) : IsServed(dkl[k].node, uvs[i]))
=============================================================================
