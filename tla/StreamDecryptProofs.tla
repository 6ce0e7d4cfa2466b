------------------------ MODULE StreamDecryptProofs ------------------------
(***************************************************************************)
(* Proofs about StreamDecrypt for every number of threads, CPS units,      *)
(* titles and calls.                                                       *)
(***************************************************************************)
EXTENDS StreamDecrypt, TLAPS

Busy == {"load", "decrypt", "store"}

\* A unit read from the disc whose marks of encryption are not set is clear, what is being
\* stored is the key that fits the buffer, and a success is a clear unit.
ThreadClear(t) ==
    /\ pc[t] = "call" /\ fresh[t] /\ ~buf[t].cpi => buf[t].data = "clear"
    /\ pc[t] = "store" => RightKey(buf[t], seen[t].current)
    /\ Finished(t) /\ fresh[t] /\ ret[t].val = 1 => buf[t].data = "clear"

ClearInv == TypeOK /\ \A t \in Threads : ThreadClear(t)

\* The title map was read, the player resets with the title aacs_select_title() takes for
\* First Play, and the shared fields are accessed in program order.
Rules == ~Reorder /\ TitlesRead /\ ResetTitle = FirstPlay

\* While a thread works on a unit of the playlist, the flag it has seen, or is about to
\* raise, stands for the CPS unit of this playlist.
ThreadCurrent(t) ==
    /\ buf[t].data = "cipher" => buf[t].key = playing
    /\ pc[t] = "load" =>
          /\ "current" \in todo[t]
          /\ "selected" \notin todo[t] /\ seen[t].selected /\ playing \in GoodKeys => current = playing
    /\ pc[t] = "decrypt" /\ seen[t].selected /\ playing \in GoodKeys => seen[t].current = playing
    /\ pc[t] = "store" =>
          /\ seen[t].current = playing
          /\ "current" \notin todo[t] => current = playing

\* A unit read from the disc has lost its bus encryption once when its key is looked for.
ThreadDecrypts(t) ==
    /\ pc[t] = "call" /\ fresh[t] => buf[t] \in {Cipher(playing), Plain}
    /\ pc[t] \in Busy /\ fresh[t] => buf[t].data = "cipher" /\ buf[t].bus = 0
    /\ Finished(t) /\ fresh[t] /\ loaded /\ playing \in GoodKeys => ret[t].val = 1

PlayInv == ClearInv /\ SelectionIsCurrent /\ \A t \in Threads : ThreadCurrent(t) /\ ThreadDecrypts(t)

-----------------------------------------------------------------------------
\* Removing the bus encryption and decrypting give a buffer.
Buffers == [cpi : BOOLEAN, bus : Int, key : CpsUnits, data : {"cipher", "clear", "garbage"}]

LEMMA BufferType ==
    ASSUME NEW b \in Buffers, NEW k
    PROVE  RemoveBus(b) \in Buffers /\ Decrypted(b, k) \in Buffers
<1>1. RemoveBus(b) \in Buffers
    BY DEF Buffers, RemoveBus
<1>2. ASSUME NEW x \in {"clear", "garbage"}
      PROVE  [b EXCEPT !.cpi = FALSE, !.data = x] \in Buffers
    BY DEF Buffers
<1>3. Decrypted(b, k) \in Buffers
    BY <1>2, Zenon DEF Decrypted
<1> QED BY <1>1, <1>3

\* The indices the autodetection loop finds are in range, and their keys fit.
LEMMA FoundFits ==
    ASSUME NEW b, NEW k \in Found(b)
    PROVE  k \in CpsUnits /\ RightKey(b, k)
BY DEF Found, Verifies

LEMMA CpsUnitsType ==
    ASSUME NEW c \in CpsUnits
    PROVE  /\ 0 \in CpsUnits /\ CpsUnits \subseteq Nat
           /\ Plain \in Buffers /\ Cipher(c) \in Buffers
BY StreamAssumption DEF CpsUnits, Plain, Cipher, Buffers

LEMMA InitType == Init => TypeOK
<1> SUFFICES ASSUME Init PROVE TypeOK
    OBVIOUS
<1>1. 0 \in CpsUnits /\ Plain \in Buffers
    BY CpsUnitsType DEF Init
<1>2. buf \in [Threads -> [cpi : BOOLEAN, bus : Int, key : CpsUnits,
                            data : {"cipher", "clear", "garbage"}]]
    BY <1>1 DEF Init, Buffers
<1>3. /\ current \in CpsUnits /\ selected \in BOOLEAN
      /\ loaded \in BOOLEAN /\ playing \in CpsUnits
      /\ pc \in [Threads -> {"idle", "call", "load", "decrypt", "store"}]
      /\ fresh \in [Threads -> BOOLEAN]
      /\ todo \in [Threads -> SUBSET Fields]
    BY <1>1, Zenon DEF Init
<1>4. calls \in [Threads -> 0 .. MaxCalls]
    BY StreamAssumption DEF Init
<1>5. seen \in [Threads -> [current : CpsUnits, selected : BOOLEAN]]
    BY <1>1 DEF Init
<1>6. [call |-> "none", val |-> 0] \in [call : {"none", "bus", "unit"}, val : -1 .. 1]
    OBVIOUS
<1>7. ret \in [Threads -> [call : {"none", "bus", "unit"}, val : -1 .. 1]]
    BY <1>6, Zenon DEF Init
<1> QED BY <1>2, <1>3, <1>4, <1>5, <1>7 DEF TypeOK

LEMMA StartPlaylistType ==
    ASSUME TypeOK, NEW c \in CpsUnits, NEW title \in Titles, StartPlaylist(c, title)
    PROVE  TypeOK'
<1>1. Plain \in Buffers
    BY CpsUnitsType
<1>2. current' \in CpsUnits /\ selected' \in BOOLEAN
    <2>1. CASE SelectTitle(title) = {}
        BY <2>1 DEF StartPlaylist, TypeOK, shared
    <2>2. CASE SelectTitle(title) # {}
        <3>1. PICK s \in SelectTitle(title) : current' = s[1] /\ selected' = s[2]
            BY <2>2 DEF StartPlaylist
        <3>2. title \in Nat
            BY StreamAssumption DEF Titles
        <3>3. 0 \in 0 .. NumTitles + 1 /\ (title <= NumTitles => title + 1 \in 0 .. NumTitles + 1)
            BY <3>2, StreamAssumption
        <3>4. \/ s = <<TitleCpsUnit[0], FALSE>>
              \/ title <= NumTitles /\ s = <<TitleCpsUnit[title + 1], TRUE>>
            BY <3>1 DEF SelectTitle
        <3>5. TitleCpsUnit[0] \in CpsUnits
            BY <3>3, StreamAssumption
        <3>6. title <= NumTitles => TitleCpsUnit[title + 1] \in CpsUnits
            BY <3>3, StreamAssumption
        <3>7. CASE s = <<TitleCpsUnit[0], FALSE>>
            BY <3>1, <3>5, <3>7
        <3>8. CASE title <= NumTitles /\ s = <<TitleCpsUnit[title + 1], TRUE>>
            BY <3>1, <3>6, <3>8
        <3> QED BY <3>4, <3>7, <3>8
    <2> QED BY <2>1, <2>2
<1>3. /\ playing' \in CpsUnits
      /\ buf' \in [Threads -> Buffers]
      /\ fresh' \in [Threads -> BOOLEAN]
      /\ ret' \in [Threads -> [call : {"none", "bus", "unit"}, val : -1 .. 1]]
      /\ calls' \in [Threads -> 0 .. MaxCalls]
      /\ UNCHANGED <<loaded, pc, todo, seen>>
    BY <1>1, StreamAssumption DEF StartPlaylist
<1> QED BY <1>2, <1>3 DEF TypeOK, Buffers

LEMMA ThreadStepType ==
    ASSUME TypeOK, NEW t \in Threads, ThreadStep(t)
    PROVE  TypeOK'
<1> USE DEF TypeOK
<1>0. /\ Plain \in Buffers /\ Cipher(playing) \in Buffers /\ buf \in [Threads -> Buffers]
      /\ buf[t] \in Buffers
    BY CpsUnitsType DEF Buffers
<1>1. CASE ReadUnit(t)
    BY <1>0, <1>1, StreamAssumption DEF ReadUnit, shared, disc, Buffers
<1>2. CASE ReadPlainUnit(t)
    BY <1>0, <1>2, StreamAssumption DEF ReadPlainUnit, shared, disc, Buffers
<1>3. CASE CallAgain(t)
    BY <1>3, StreamAssumption DEF CallAgain, shared, disc
<1>4. CASE DecryptBus(t)
    <2>1. (IF buf[t].cpi THEN RemoveBus(buf[t]) ELSE buf[t]) \in Buffers
        BY <1>0, BufferType
    <2> QED BY <1>4, <2>1 DEF DecryptBus, Return, shared, disc, Buffers
<1>5. CASE DecryptPlain(t)
    BY <1>5 DEF DecryptPlain, Return, shared, disc
<1>6. CASE DecryptWithoutKeys(t)
    BY <1>6 DEF DecryptWithoutKeys, Return, shared, disc
<1>7. CASE DecryptStart(t)
    <2>1. RemoveBus(buf[t]) \in Buffers
        BY <1>0, BufferType
    <2> QED BY <1>7, <2>1 DEF DecryptStart, shared, disc, Buffers, Fields
<1>8. ASSUME NEW f \in Fields, Load(t, f) PROVE TypeOK'
    <2>1. /\ todo' \in [Threads -> SUBSET Fields]
          /\ pc' \in [Threads -> {"idle", "call", "load", "decrypt", "store"}]
          /\ UNCHANGED <<shared, disc, buf, fresh, ret, calls>>
        BY <1>8 DEF Load
    <2>2. seen' \in [Threads -> [current : CpsUnits, selected : BOOLEAN]]
        BY <1>8 DEF Load
    <2> QED BY <2>1, <2>2 DEF shared, disc
<1>9. CASE DecryptInPlace(t)
    <2>1. Decrypted(buf[t], seen[t].current) \in Buffers
        BY <1>0, BufferType
    <2> QED BY <1>9, <2>1 DEF DecryptInPlace, Return, shared, disc, Buffers
<1>10. ASSUME NEW k \in Found(buf[t]), Autodetect(t, k) PROVE TypeOK'
    <2>1. k \in CpsUnits
        BY FoundFits
    <2> QED BY <1>10, <2>1 DEF Autodetect, shared, disc
<1>11. CASE AutodetectFails(t)
    BY <1>11 DEF AutodetectFails, Return, shared, disc
<1>12. ASSUME NEW f \in Fields, Store(t, f) PROVE TypeOK'
    <2>1. current' \in CpsUnits /\ selected' \in BOOLEAN
        BY <1>12 DEF Store
    <2> QED BY <1>12, <2>1 DEF Store, disc
<1>13. CASE CopyBack(t)
    <2>1. Decrypted(buf[t], seen[t].current) \in Buffers
        BY <1>0, BufferType
    <2> QED BY <1>13, <2>1 DEF CopyBack, Return, shared, disc, Buffers
<1> QED BY <1>1, <1>2, <1>3, <1>4, <1>5, <1>6, <1>7, <1>8, <1>9, <1>10, <1>11, <1>12, <1>13
        DEF ThreadStep, Serve

\* The index of the CPS unit is always inside aacs->uk->uk[], whatever titles are selected
\* and whichever thread stores what it has found.
THEOREM TypeCorrect == Spec => []TypeOK
<1>1. TypeOK /\ [Next]_vars => TypeOK'
    <2> SUFFICES ASSUME TypeOK, [Next]_vars PROVE TypeOK'
        OBVIOUS
    <2>1. CASE UNCHANGED vars
        BY <2>1 DEF vars, TypeOK
    <2>2. CASE Next
        BY <2>2, StartPlaylistType, ThreadStepType DEF Next
    <2> QED BY <2>1, <2>2
<1> QED BY <1>1, InitType, PTL DEF Spec
-----------------------------------------------------------------------------
\* A thread leaves the buffers and locals of the others alone.
LEMMA OthersStay ==
    ASSUME TypeOK, NEW t \in Threads, ThreadStep(t), NEW s \in Threads, s # t
    PROVE  /\ pc'[s] = pc[s] /\ buf'[s] = buf[s] /\ fresh'[s] = fresh[s]
           /\ todo'[s] = todo[s] /\ seen'[s] = seen[s] /\ ret'[s] = ret[s]
<1> USE DEF TypeOK, Return
<1>1. CASE ReadUnit(t)
    BY <1>1 DEF ReadUnit
<1>2. CASE ReadPlainUnit(t)
    BY <1>2 DEF ReadPlainUnit
<1>3. CASE CallAgain(t)
    BY <1>3 DEF CallAgain
<1>4. CASE DecryptBus(t)
    BY <1>4 DEF DecryptBus
<1>5. CASE DecryptPlain(t)
    BY <1>5 DEF DecryptPlain
<1>6. CASE DecryptWithoutKeys(t)
    BY <1>6 DEF DecryptWithoutKeys
<1>7. CASE DecryptStart(t)
    BY <1>7 DEF DecryptStart
<1>8. ASSUME NEW f \in Fields, Load(t, f)
      PROVE  /\ pc'[s] = pc[s] /\ buf'[s] = buf[s] /\ fresh'[s] = fresh[s]
             /\ todo'[s] = todo[s] /\ seen'[s] = seen[s] /\ ret'[s] = ret[s]
    BY <1>8 DEF Load
<1>9. CASE DecryptInPlace(t)
    BY <1>9 DEF DecryptInPlace
<1>10. ASSUME NEW k \in Found(buf[t]), Autodetect(t, k)
       PROVE  /\ pc'[s] = pc[s] /\ buf'[s] = buf[s] /\ fresh'[s] = fresh[s]
              /\ todo'[s] = todo[s] /\ seen'[s] = seen[s] /\ ret'[s] = ret[s]
    BY <1>10 DEF Autodetect
<1>11. CASE AutodetectFails(t)
    BY <1>11 DEF AutodetectFails
<1>12. ASSUME NEW f \in Fields, Store(t, f)
       PROVE  /\ pc'[s] = pc[s] /\ buf'[s] = buf[s] /\ fresh'[s] = fresh[s]
              /\ todo'[s] = todo[s] /\ seen'[s] = seen[s] /\ ret'[s] = ret[s]
    BY <1>12 DEF Store
<1>13. CASE CopyBack(t)
    BY <1>13 DEF CopyBack
<1> QED BY <1>1, <1>2, <1>3, <1>4, <1>5, <1>6, <1>7, <1>8, <1>9, <1>10, <1>11, <1>12, <1>13
        DEF ThreadStep, Serve

\* Decryption with the right key gives the clear unit.
LEMMA RightKeyClears ==
    ASSUME NEW b \in Buffers, NEW k, RightKey(b, k)
    PROVE  Decrypted(b, k).data = "clear"
BY DEF Buffers, Decrypted

LEMMA ClearOwnStep ==
    ASSUME ClearInv, NEW t \in Threads, ThreadStep(t)
    PROVE  ThreadClear(t)'
<1> USE DEF TypeOK, Return, Finished
<1>0. TypeOK /\ ThreadClear(t) /\ buf[t] \in Buffers
    BY DEF ClearInv, Buffers
<1>1. CASE ReadUnit(t)
    BY <1>0, <1>1 DEF ReadUnit, ThreadClear, Cipher
<1>2. CASE ReadPlainUnit(t)
    BY <1>0, <1>2 DEF ReadPlainUnit, ThreadClear, Plain
<1>3. CASE CallAgain(t)
    BY <1>0, <1>3 DEF CallAgain, ThreadClear
<1>4. CASE DecryptBus(t)
    BY <1>0, <1>4 DEF DecryptBus, ThreadClear
<1>5. CASE DecryptPlain(t)
    BY <1>0, <1>5 DEF DecryptPlain, ThreadClear
<1>6. CASE DecryptWithoutKeys(t)
    BY <1>0, <1>6 DEF DecryptWithoutKeys, ThreadClear
<1>7. CASE DecryptStart(t)
    BY <1>0, <1>7 DEF DecryptStart, ThreadClear
<1>8. ASSUME NEW f \in Fields, Load(t, f) PROVE ThreadClear(t)'
    BY <1>0, <1>8 DEF Load, ThreadClear
<1>9. CASE DecryptInPlace(t)
    BY <1>0, <1>9, RightKeyClears DEF DecryptInPlace, ThreadClear, Verifies
<1>10. ASSUME NEW k \in Found(buf[t]), Autodetect(t, k) PROVE ThreadClear(t)'
    BY <1>0, <1>10, FoundFits DEF Autodetect, ThreadClear
<1>11. CASE AutodetectFails(t)
    BY <1>0, <1>11 DEF AutodetectFails, ThreadClear
<1>12. ASSUME NEW f \in Fields, Store(t, f) PROVE ThreadClear(t)'
    BY <1>0, <1>12 DEF Store, ThreadClear
<1>13. CASE CopyBack(t)
    BY <1>0, <1>13, RightKeyClears DEF CopyBack, ThreadClear
<1> QED BY <1>1, <1>2, <1>3, <1>4, <1>5, <1>6, <1>7, <1>8, <1>9, <1>10, <1>11, <1>12, <1>13
        DEF ThreadStep, Serve

LEMMA ClearInvariant == Spec => []ClearInv
<1>1. Init => ClearInv
    BY InitType DEF Init, ClearInv, ThreadClear, Finished
<1>2. ASSUME ClearInv, NEW c \in CpsUnits, NEW title \in Titles, StartPlaylist(c, title)
      PROVE  ClearInv'
    <2>1. TypeOK'
        BY <1>2, StartPlaylistType DEF ClearInv
    <2>2. ASSUME NEW t \in Threads PROVE ThreadClear(t)'
        BY <1>2, <2>2 DEF StartPlaylist, Idle, ThreadClear, Finished
    <2> QED BY <2>1, <2>2 DEF ClearInv
<1>3. ASSUME ClearInv, NEW t \in Threads, ThreadStep(t)
      PROVE  ClearInv'
    <2>1. TypeOK'
        BY <1>3, ThreadStepType DEF ClearInv
    <2>2. ASSUME NEW s \in Threads, s # t PROVE ThreadClear(s)'
        BY <1>3, <2>2, OthersStay DEF ClearInv, ThreadClear, Finished, RightKey
    <2> QED BY <1>3, <2>1, <2>2, ClearOwnStep DEF ClearInv
<1>4. ClearInv /\ UNCHANGED vars => ClearInv'
    BY DEF ClearInv, TypeOK, ThreadClear, Finished, RightKey, vars
<1>5. ClearInv /\ [Next]_vars => ClearInv'
    BY <1>2, <1>3, <1>4 DEF Next
<1> QED BY <1>1, <1>5, PTL DEF Spec

\* aacs_decrypt_unit() never reports success for a unit that is not clear, for every number
\* of threads, whatever the others store in the handle, and in whichever order the shared
\* fields become visible.
THEOREM SuccessIsClear == Spec => []SuccessMeansClear
<1>1. ClearInv => SuccessMeansClear
    BY DEF ClearInv, ThreadClear, SuccessMeansClear
<1> QED BY <1>1, ClearInvariant, PTL

-----------------------------------------------------------------------------
\* What is found for a unit of the playlist is the CPS unit of the playlist.
LEMMA FoundIsPlaying ==
    ASSUME NEW t \in Threads, ThreadCurrent(t), NEW k \in Found(buf[t])
    PROVE  k = playing /\ playing \in GoodKeys
BY FoundFits DEF ThreadCurrent, RightKey

\* Decryption makes no ciphertext and changes no key.
LEMMA BufferKeys ==
    ASSUME NEW b \in Buffers, NEW k
    PROVE  /\ RemoveBus(b).key = b.key /\ RemoveBus(b).data = b.data
           /\ Decrypted(b, k).data # "cipher"
<1>1. RemoveBus(b).key = b.key /\ RemoveBus(b).data = b.data
    BY DEF Buffers, RemoveBus
<1>2. ASSUME NEW x \in {"clear", "garbage"}
      PROVE  [b EXCEPT !.cpi = FALSE, !.data = x].data # "cipher"
    BY DEF Buffers
<1>3. Decrypted(b, k).data # "cipher"
    BY <1>2, Zenon DEF Decrypted
<1> QED BY <1>1, <1>3

\* What a step of a thread does to what the threads share: a key that is stored is the one
\* of the playlist, and the flag is raised only behind it.
LEMMA SharedStep ==
    ASSUME Rules, PlayInv, NEW t \in Threads, ThreadStep(t)
    PROVE  /\ UNCHANGED disc
           /\ current' = current \/ current' = playing
           /\ SelectionIsCurrent'
<1> USE DEF PlayInv, ClearInv, TypeOK
<1>1. ThreadCurrent(t) /\ SelectionIsCurrent
    OBVIOUS
<1>2. ASSUME UNCHANGED shared, UNCHANGED disc
      PROVE  /\ UNCHANGED disc
             /\ current' = current \/ current' = playing
             /\ SelectionIsCurrent'
    BY <1>1, <1>2 DEF shared, disc, SelectionIsCurrent
<1>3. ASSUME NEW f \in Fields, Store(t, f)
      PROVE  /\ UNCHANGED disc
             /\ current' = current \/ current' = playing
             /\ SelectionIsCurrent'
    <2>1. CASE f = "current"
        BY <1>1, <1>3, <2>1 DEF Store, ThreadCurrent, SelectionIsCurrent, disc
    <2>2. CASE f = "selected"
        <3>1. "current" \notin todo[t]
            BY <1>3, <2>2 DEF Store, MayStore, Rules
        <3> QED BY <1>1, <1>3, <2>2, <3>1 DEF Store, ThreadCurrent, SelectionIsCurrent, disc
    <2> QED BY <2>1, <2>2 DEF Fields
<1>4. (\E f \in Fields : Store(t, f)) \/ (UNCHANGED shared /\ UNCHANGED disc)
    BY DEF ThreadStep, Serve, ReadUnit, ReadPlainUnit, CallAgain, DecryptBus, DecryptPlain,
           DecryptWithoutKeys, DecryptStart, Load, DecryptInPlace, Autodetect,
           AutodetectFails, CopyBack
<1> QED BY <1>2, <1>3, <1>4

LEMMA CurrentOwnStep ==
    ASSUME Rules, PlayInv, NEW t \in Threads, ThreadStep(t)
    PROVE  ThreadCurrent(t)'
<1> USE DEF TypeOK, Return
<1>0. TypeOK /\ ThreadCurrent(t) /\ SelectionIsCurrent /\ buf[t] \in Buffers
    BY DEF PlayInv, ClearInv, Buffers
<1>1. CASE ReadUnit(t)
    BY <1>0, <1>1 DEF ReadUnit, ThreadCurrent, Cipher, disc
<1>2. CASE ReadPlainUnit(t)
    BY <1>0, <1>2 DEF ReadPlainUnit, ThreadCurrent, Plain, disc
<1>3. CASE CallAgain(t)
    BY <1>0, <1>3 DEF CallAgain, ThreadCurrent, disc
<1>4. CASE DecryptBus(t)
    BY <1>0, <1>4, BufferKeys DEF DecryptBus, ThreadCurrent, disc
<1>5. CASE DecryptPlain(t)
    BY <1>0, <1>5 DEF DecryptPlain, ThreadCurrent, disc
<1>6. CASE DecryptWithoutKeys(t)
    BY <1>0, <1>6 DEF DecryptWithoutKeys, ThreadCurrent, disc
<1>7. CASE DecryptStart(t)
    BY <1>0, <1>7, BufferKeys DEF DecryptStart, ThreadCurrent, disc, Fields
<1>8. ASSUME NEW f \in Fields, Load(t, f) PROVE ThreadCurrent(t)'
    <2>1. CASE f = "selected"
        <3>1. todo[t] # {f} /\ "current" \in todo'[t] /\ pc'[t] = "load"
            BY <1>0, <1>8, <2>1 DEF Load, ThreadCurrent
        <3> QED BY <1>0, <1>8, <2>1, <3>1 DEF Load, ThreadCurrent, SelectionIsCurrent, disc, shared
    <2>2. CASE f = "current"
        <3>1. "selected" \notin todo[t] /\ todo[t] = {f}
            BY <1>0, <1>8, <2>2 DEF Load, MayLoad, Rules, ThreadCurrent, Fields
        <3>2. pc'[t] = "decrypt" /\ seen'[t].current = current /\ seen'[t].selected = seen[t].selected
            BY <1>0, <1>8, <2>2, <3>1 DEF Load
        <3> QED BY <1>0, <1>8, <3>1, <3>2 DEF Load, ThreadCurrent, disc, shared
    <2> QED BY <2>1, <2>2 DEF Fields
<1>9. CASE DecryptInPlace(t)
    BY <1>0, <1>9, BufferKeys DEF DecryptInPlace, ThreadCurrent, disc
<1>10. ASSUME NEW k \in Found(buf[t]), Autodetect(t, k) PROVE ThreadCurrent(t)'
    BY <1>0, <1>10, FoundIsPlaying DEF Autodetect, ThreadCurrent, disc, Fields
<1>11. CASE AutodetectFails(t)
    BY <1>0, <1>11 DEF AutodetectFails, ThreadCurrent, disc
<1>12. ASSUME NEW f \in Fields, Store(t, f) PROVE ThreadCurrent(t)'
    BY <1>0, <1>12 DEF Store, ThreadCurrent, disc
<1>13. CASE CopyBack(t)
    BY <1>0, <1>13, BufferKeys DEF CopyBack, ThreadCurrent, disc
<1> QED BY <1>1, <1>2, <1>3, <1>4, <1>5, <1>6, <1>7, <1>8, <1>9, <1>10, <1>11, <1>12, <1>13
        DEF ThreadStep, Serve

\* A unit without bus encryption decrypts with the key of the playlist and no other one.
LEMMA PlayingFits ==
    ASSUME PlayInv, NEW t \in Threads, fresh[t], pc[t] = "decrypt", playing \in GoodKeys
    PROVE  /\ RightKey(buf[t], playing)
           /\ playing \in Found(buf[t])
           /\ KnownKey(t) => seen[t].current = playing
<1>1. RightKey(buf[t], playing)
    BY DEF PlayInv, ThreadDecrypts, ThreadCurrent, Busy, RightKey
<1>2. ASSUME NEW j \in 0 .. playing - 1 PROVE ~RightKey(buf[t], j)
    <2>1. j # playing
        BY StreamAssumption DEF PlayInv, ClearInv, TypeOK, CpsUnits
    <2> QED BY <1>1, <2>1 DEF RightKey
<1>3. playing \in Found(buf[t])
    BY <1>1, <1>2 DEF Found, Verifies, PlayInv, ClearInv, TypeOK
<1>4. NumUk = 1 => seen[t].current = playing
    BY DEF PlayInv, ClearInv, TypeOK, CpsUnits
<1>5. seen[t].selected => seen[t].current = playing
    BY DEF PlayInv, ThreadCurrent
<1> QED BY <1>1, <1>3, <1>4, <1>5 DEF KnownKey

LEMMA DecryptsOwnStep ==
    ASSUME Rules, PlayInv, NEW t \in Threads, ThreadStep(t)
    PROVE  ThreadDecrypts(t)'
<1> USE DEF TypeOK, Return, Finished, Busy
<1>0. TypeOK /\ ThreadCurrent(t) /\ ThreadDecrypts(t) /\ buf[t] \in Buffers
    BY DEF PlayInv, ClearInv, Buffers
<1>1. CASE ReadUnit(t)
    BY <1>0, <1>1 DEF ReadUnit, ThreadDecrypts, Cipher, disc
<1>2. CASE ReadPlainUnit(t)
    BY <1>0, <1>2 DEF ReadPlainUnit, ThreadDecrypts, disc
<1>3. CASE CallAgain(t)
    BY <1>0, <1>3 DEF CallAgain, ThreadDecrypts, disc
<1>4. CASE DecryptBus(t)
    BY <1>0, <1>4 DEF DecryptBus, ThreadDecrypts, disc
<1>5. CASE DecryptPlain(t)
    BY <1>0, <1>5 DEF DecryptPlain, ThreadDecrypts, disc
<1>6. CASE DecryptWithoutKeys(t)
    BY <1>0, <1>6 DEF DecryptWithoutKeys, ThreadDecrypts, disc
<1>7. CASE DecryptStart(t)
    <2>1. fresh[t] => RemoveBus(buf[t]).data = "cipher" /\ RemoveBus(buf[t]).bus = 0
        <3>1. SUFFICES ASSUME fresh[t]
                       PROVE  RemoveBus(buf[t]).data = "cipher" /\ RemoveBus(buf[t]).bus = 0
            OBVIOUS
        <3>2. buf[t] = Cipher(playing)
            BY <1>0, <1>7, <3>1 DEF DecryptStart, ThreadDecrypts, Plain
        <3> QED BY <3>2 DEF RemoveBus, Cipher
    <2>2. /\ pc'[t] = "load" /\ fresh'[t] = fresh[t] /\ buf'[t] = RemoveBus(buf[t])
        BY <1>0, <1>7 DEF DecryptStart
    <2> QED BY <2>1, <2>2 DEF ThreadDecrypts
<1>8. ASSUME NEW f \in Fields, Load(t, f) PROVE ThreadDecrypts(t)'
    BY <1>0, <1>8 DEF Load, ThreadDecrypts, disc
<1>9. CASE DecryptInPlace(t)
    BY <1>0, <1>9, PlayingFits DEF DecryptInPlace, ThreadDecrypts, disc, Verifies
<1>10. ASSUME NEW k \in Found(buf[t]), Autodetect(t, k) PROVE ThreadDecrypts(t)'
    BY <1>0, <1>10 DEF Autodetect, ThreadDecrypts, disc
<1>11. CASE AutodetectFails(t)
    BY <1>0, <1>11, PlayingFits DEF AutodetectFails, ThreadDecrypts, disc
<1>12. ASSUME NEW f \in Fields, Store(t, f) PROVE ThreadDecrypts(t)'
    BY <1>0, <1>12 DEF Store, ThreadDecrypts, disc
<1>13. CASE CopyBack(t)
    BY <1>0, <1>13 DEF CopyBack, ThreadDecrypts, disc
<1> QED BY <1>1, <1>2, <1>3, <1>4, <1>5, <1>6, <1>7, <1>8, <1>9, <1>10, <1>11, <1>12, <1>13
        DEF ThreadStep, Serve

\* A thread that did not move still sees the playlist and a key that fits it.
LEMMA PlayOthersStep ==
    ASSUME Rules, PlayInv, NEW t \in Threads, ThreadStep(t), NEW s \in Threads, s # t
    PROVE  ThreadCurrent(s)' /\ ThreadDecrypts(s)'
<1>1. /\ pc'[s] = pc[s] /\ buf'[s] = buf[s] /\ fresh'[s] = fresh[s]
      /\ todo'[s] = todo[s] /\ seen'[s] = seen[s] /\ ret'[s] = ret[s]
    BY OthersStay DEF PlayInv, ClearInv
<1>2. playing' = playing /\ loaded' = loaded /\ (current' = current \/ current' = playing)
    BY SharedStep DEF disc
<1>3. ThreadCurrent(s) /\ ThreadDecrypts(s)
    BY DEF PlayInv
<1> QED BY <1>1, <1>2, <1>3 DEF ThreadCurrent, ThreadDecrypts, Finished, Cipher

\* A new playlist starts with its own CPS unit, or with none.
LEMMA StartPlaylistPlay ==
    ASSUME Rules, PlayInv, NEW c \in CpsUnits, NEW title \in Titles, StartPlaylist(c, title)
    PROVE  SelectionIsCurrent' /\ \A t \in Threads : ThreadCurrent(t)' /\ ThreadDecrypts(t)'
<1>1. SelectionIsCurrent'
    <2>1. CASE SelectTitle(title) = {}
        <3>1. title # FirstPlay /\ ~(title <= NumTitles)
            BY <2>1 DEF SelectTitle, Rules
        <3>2. c = playing
            BY <3>1, StreamAssumption DEF StartPlaylist, Rules
        <3> QED BY <2>1, <3>2 DEF StartPlaylist, SelectionIsCurrent, PlayInv, shared
    <2>2. CASE SelectTitle(title) # {}
        <3>1. PICK s \in SelectTitle(title) : current' = s[1] /\ selected' = s[2]
            BY <2>2 DEF StartPlaylist
        <3>2. CASE title = FirstPlay
            <4>1. s = <<TitleCpsUnit[0], FALSE>>
                BY <3>1, <3>2 DEF SelectTitle, Rules
            <4> QED BY <3>1, <4>1 DEF SelectionIsCurrent
        <3>3. CASE title # FirstPlay
            <4>1. title <= NumTitles /\ s = <<TitleCpsUnit[title + 1], TRUE>>
                BY <3>1, <3>3 DEF SelectTitle, Rules
            <4>2. TitleCpsUnit[title + 1] = c
                BY <3>3, <4>1, StreamAssumption DEF StartPlaylist, Rules
            <4> QED BY <3>1, <4>1, <4>2 DEF SelectionIsCurrent, StartPlaylist
        <3> QED BY <3>2, <3>3
    <2> QED BY <2>1, <2>2
<1>2. ASSUME NEW t \in Threads PROVE ThreadCurrent(t)' /\ ThreadDecrypts(t)'
    <2>1. pc'[t] = "idle" /\ buf'[t] = Plain /\ ret'[t].call = "none"
        BY DEF StartPlaylist, Idle
    <2> QED BY <2>1 DEF ThreadCurrent, ThreadDecrypts, Finished, Busy, Plain
<1> QED BY <1>1, <1>2

LEMMA PlayInvariant == ASSUME Rules PROVE Spec => []PlayInv
<1>1. Init => PlayInv
    BY InitType DEF Init, PlayInv, ClearInv, ThreadClear, ThreadCurrent, ThreadDecrypts,
                    SelectionIsCurrent, Finished, Busy, Plain
<1>2. PlayInv /\ ClearInv' /\ [Next]_vars => PlayInv'
    <2> SUFFICES ASSUME PlayInv, ClearInv', [Next]_vars PROVE PlayInv'
        OBVIOUS
    <2>1. ASSUME NEW c \in CpsUnits, NEW title \in Titles, StartPlaylist(c, title)
          PROVE  PlayInv'
        BY <2>1, StartPlaylistPlay DEF PlayInv
    <2>2. ASSUME NEW t \in Threads, ThreadStep(t) PROVE PlayInv'
        BY <2>2, SharedStep, CurrentOwnStep, DecryptsOwnStep, PlayOthersStep DEF PlayInv
    <2>3. CASE UNCHANGED vars
        BY <2>3 DEF PlayInv, ThreadCurrent, ThreadDecrypts, SelectionIsCurrent, Finished,
                    Cipher, vars
    <2> QED BY <2>1, <2>2, <2>3 DEF Next
<1> QED BY <1>1, <1>2, ClearInvariant, PTL DEF Spec

\* What is remembered about the CPS unit is about the playlist being played, for every
\* number of threads and CPS units and every title map.
THEOREM SelectionStaysCurrent == ASSUME Rules PROVE Spec => []SelectionIsCurrent
<1>1. PlayInv => SelectionIsCurrent
    BY DEF PlayInv
<1> QED BY <1>1, PlayInvariant, PTL

\* Any number of threads may decrypt units of one playlist at the same time: every unit
\* that has its key is decrypted.
THEOREM EveryUnitIsDecrypted == ASSUME Rules PROVE Spec => []UnitsAreDecrypted
<1>1. PlayInv => UnitsAreDecrypted
    BY DEF PlayInv, ThreadDecrypts, UnitsAreDecrypted
<1> QED BY <1>1, PlayInvariant, PTL

-----------------------------------------------------------------------------
(* The refinement of StreamService.  A step of a thread is a question, an  *)
(* answer, or nothing to the service.                                      *)

requestBar == [t \in Threads |-> Request(t)]
replyBar == [t \in Threads |-> Reply(t)]

\* A thread that works on a buffer has found it marked as encrypted, and has keys.
ThreadServes(t) == pc[t] \in Busy => loaded /\ buf[t].cpi

ServeInv == PlayInv /\ \A t \in Threads : ThreadServes(t)

\* Removing the bus encryption does not touch the marks.
LEMMA RemoveBusMarks ==
    ASSUME NEW b \in Buffers
    PROVE  RemoveBus(b).cpi = b.cpi
BY DEF Buffers, RemoveBus

LEMMA ServesStep ==
    ASSUME Rules, ServeInv, NEW t \in Threads, ThreadStep(t), NEW s \in Threads
    PROVE  ThreadServes(s)'
<1>0. /\ TypeOK /\ ThreadServes(s) /\ buf[t] \in Buffers
      /\ loaded' = loaded
    BY SharedStep DEF ServeInv, PlayInv, ClearInv, TypeOK, Buffers, disc
<1>1. CASE s # t
    BY <1>0, <1>1, OthersStay DEF ThreadServes
<1>2. CASE s = t
    <2> USE DEF TypeOK, Return, ThreadServes, Busy
    <2>1. CASE ReadUnit(t) \/ ReadPlainUnit(t) \/ CallAgain(t)
        BY <1>0, <1>2, <2>1 DEF ReadUnit, ReadPlainUnit, CallAgain
    <2>2. CASE DecryptBus(t) \/ DecryptPlain(t) \/ DecryptWithoutKeys(t)
        BY <1>0, <1>2, <2>2 DEF DecryptBus, DecryptPlain, DecryptWithoutKeys
    <2>3. CASE DecryptStart(t)
        BY <1>0, <1>2, <2>3, RemoveBusMarks DEF DecryptStart
    <2>4. ASSUME NEW f \in Fields, Load(t, f) PROVE ThreadServes(s)'
        BY <1>0, <1>2, <2>4 DEF Load
    <2>5. CASE DecryptInPlace(t) \/ AutodetectFails(t) \/ CopyBack(t)
        BY <1>0, <1>2, <2>5 DEF DecryptInPlace, AutodetectFails, CopyBack
    <2>6. ASSUME NEW k \in Found(buf[t]), Autodetect(t, k) PROVE ThreadServes(s)'
        BY <1>0, <1>2, <2>6 DEF Autodetect
    <2>7. ASSUME NEW f \in Fields, Store(t, f) PROVE ThreadServes(s)'
        BY <1>0, <1>2, <2>7 DEF Store
    <2> QED BY <2>1, <2>2, <2>3, <2>4, <2>5, <2>6, <2>7 DEF ThreadStep, Serve
<1> QED BY <1>1, <1>2

LEMMA ServeInvariant == ASSUME Rules PROVE Spec => []ServeInv
<1>1. Init => \A t \in Threads : ThreadServes(t)
    BY DEF Init, ThreadServes, Busy
<1>2. ServeInv /\ [Next]_vars => \A t \in Threads : ThreadServes(t)'
    <2> SUFFICES ASSUME ServeInv, [Next]_vars, NEW s \in Threads PROVE ThreadServes(s)'
        OBVIOUS
    <2>1. ASSUME NEW c \in CpsUnits, NEW title \in Titles, StartPlaylist(c, title)
          PROVE  ThreadServes(s)'
        BY <2>1 DEF StartPlaylist, Idle, ThreadServes, Busy
    <2>2. ASSUME NEW t \in Threads, ThreadStep(t) PROVE ThreadServes(s)'
        BY <2>2, ServesStep
    <2>3. CASE UNCHANGED vars
        BY <2>3 DEF vars, ThreadServes, ServeInv
    <2> QED BY <2>1, <2>2, <2>3 DEF Next
<1>3. ServeInv /\ PlayInv' /\ [Next]_vars => ServeInv'
    BY <1>2 DEF ServeInv
<1>4. Init /\ PlayInv => ServeInv
    BY <1>1 DEF ServeInv
<1> QED BY <1>3, <1>4, PlayInvariant, PTL DEF Spec

\* What the player sees of the other threads does not change.
LEMMA OthersSeen ==
    ASSUME TypeOK, NEW t \in Threads, ThreadStep(t),
           NEW q, NEW r, Request(t)' = q, Reply(t)' = r
    PROVE  /\ requestBar' = [requestBar EXCEPT ![t] = q]
           /\ replyBar' = [replyBar EXCEPT ![t] = r]
<1>1. ASSUME NEW s \in Threads, s # t
      PROVE  Request(s)' = Request(s) /\ Reply(s)' = Reply(s)
    BY <1>1, OthersStay DEF Request, Reply, Finished
<1>2. requestBar' = [requestBar EXCEPT ![t] = q]
    BY <1>1 DEF requestBar
<1>3. replyBar' = [replyBar EXCEPT ![t] = r]
    BY <1>1 DEF replyBar
<1> QED BY <1>2, <1>3

\* A thread that asks and one that is answered, as the service sees them.
LEMMA AskSeen ==
    ASSUME TypeOK, NEW t \in Threads, ThreadStep(t), UNCHANGED disc,
           Request(t) = "none", Request(t)' \in Service!Requests, Reply(t)' = "none"
    PROVE  Service!Ask(t)
<1>1. /\ requestBar' = [requestBar EXCEPT ![t] = Request(t)']
      /\ replyBar' = [replyBar EXCEPT ![t] = "none"]
    BY OthersSeen
<1>2. requestBar[t] = "none"
    BY DEF requestBar
<1> QED BY <1>1, <1>2 DEF Service!Ask, requestBar, replyBar, disc

LEMMA AnswerSeen ==
    ASSUME TypeOK, NEW t \in Threads, ThreadStep(t), UNCHANGED disc,
           Request(t) # "none", Request(t)' = "none", Reply(t)' \in Service!Answers(Request(t))
    PROVE  Service!Answer(t)
<1>1. /\ requestBar' = [requestBar EXCEPT ![t] = "none"]
      /\ replyBar' = [replyBar EXCEPT ![t] = Reply(t)']
    BY OthersSeen
<1>2. requestBar[t] = Request(t)
    BY DEF requestBar
<1> QED BY <1>1, <1>2 DEF Service!Answer, requestBar, replyBar, disc

\* A step inside a call shows nothing.
LEMMA NothingSeen ==
    ASSUME TypeOK, NEW t \in Threads, ThreadStep(t), UNCHANGED disc,
           Request(t)' = Request(t), Reply(t)' = Reply(t)
    PROVE  UNCHANGED Service!vars
<1>1. /\ requestBar' = [requestBar EXCEPT ![t] = Request(t)]
      /\ replyBar' = [replyBar EXCEPT ![t] = Reply(t)]
    BY OthersSeen
<1>2. requestBar' = requestBar /\ replyBar' = replyBar
    BY <1>1 DEF requestBar, replyBar
<1> QED BY <1>2 DEF Service!vars, requestBar, replyBar, disc

\* Without the right key in the table no key fits a unit of the playlist.
LEMMA NoKeyFits ==
    ASSUME ServeInv, NEW t \in Threads, buf[t].data = "cipher", playing \notin GoodKeys, NEW k
    PROVE  ~RightKey(buf[t], k)
BY DEF ServeInv, PlayInv, ThreadCurrent, RightKey

\* A call that ends gives one of the answers of the service.
LEMMA AnswerStep ==
    ASSUME Rules, ServeInv, NEW t \in Threads,
           \/ DecryptBus(t) \/ DecryptPlain(t) \/ DecryptWithoutKeys(t)
           \/ DecryptInPlace(t) \/ AutodetectFails(t) \/ CopyBack(t)
    PROVE  Service!Answer(t)
<1> USE DEF Return, TypeOK
<1>0. /\ TypeOK /\ ThreadStep(t) /\ ThreadClear(t) /\ ThreadCurrent(t) /\ ThreadDecrypts(t)
      /\ ThreadServes(t) /\ buf[t] \in Buffers
      /\ UNCHANGED disc
    BY SharedStep DEF ServeInv, PlayInv, ClearInv, ThreadStep, Serve, Buffers
<1>1. /\ pc[t] # "idle" /\ pc'[t] = "idle" /\ ret'[t].call \in {"bus", "unit"}
    BY <1>0 DEF DecryptBus, DecryptPlain, DecryptWithoutKeys, DecryptInPlace, AutodetectFails, CopyBack
<1>2. Request(t) # "none" /\ Request(t)' = "none"
    BY <1>1 DEF Request
<1>3. Reply(t)' \in {"bus", "error", "clear", "wrong"}
    BY <1>1 DEF Reply, Finished
<1>4. Reply(t)' \in Service!Answers(Request(t))
    <2>1. CASE ~fresh[t]
        <3>1. Request(t) = "again"
            BY <1>1, <2>1 DEF Request
        <3> QED BY <1>3, <3>1 DEF Service!Answers
    <2>2. CASE fresh[t] /\ DecryptBus(t)
        <3>1. Reply(t)' = "bus"
            BY <1>0, <1>1, <2>2 DEF DecryptBus, Reply, Finished
        <3> QED BY <3>1 DEF Service!Answers
    <2>3. CASE fresh[t] /\ DecryptPlain(t)
        <3>1. Request(t) = "plain"
            BY <1>1, <2>3 DEF Request, DecryptPlain
        <3>2. buf'[t].data = "clear" /\ ret'[t].call = "unit" /\ ret'[t].val = 1
            BY <1>0, <2>3 DEF DecryptPlain, ThreadClear
        <3>3. Reply(t)' = "clear"
            BY <1>1, <3>2 DEF Reply, Finished
        <3> QED BY <3>1, <3>3 DEF Service!Answers
    <2>4. CASE fresh[t] /\ DecryptWithoutKeys(t)
        <3>1. Request(t) = "encrypted" /\ ~loaded
            BY <1>1, <2>4 DEF Request, DecryptWithoutKeys
        <3>2. Reply(t)' = "error"
            BY <1>0, <1>1, <2>4 DEF DecryptWithoutKeys, Reply, Finished
        <3> QED BY <3>1, <3>2 DEF Service!Answers
    <2>5. ASSUME fresh[t], DecryptInPlace(t) \/ AutodetectFails(t) \/ CopyBack(t)
          PROVE  Reply(t)' \in Service!Answers(Request(t))
        <3>1. pc[t] \in {"decrypt", "store"} /\ loaded /\ buf[t].cpi /\ buf[t].data = "cipher"
            BY <1>0, <2>5 DEF DecryptInPlace, AutodetectFails, CopyBack, ThreadServes, ThreadDecrypts, Busy
        <3>2. Request(t) = "encrypted"
            BY <1>1, <2>5, <3>1 DEF Request
        <3>3. ret'[t].call = "unit" /\ fresh'[t]
            BY <1>0, <2>5 DEF DecryptInPlace, AutodetectFails, CopyBack
        <3>4. CASE playing \in GoodKeys
            <4>1. ThreadDecrypts(t)' /\ ThreadClear(t)'
                BY <1>0, DecryptsOwnStep, ClearOwnStep DEF ServeInv, PlayInv
            <4>2. ret'[t].val = 1
                BY <1>0, <1>1, <3>1, <3>3, <3>4, <4>1 DEF ThreadDecrypts, Finished, disc
            <4>3. buf'[t].data = "clear"
                BY <1>1, <3>3, <4>1, <4>2 DEF ThreadClear, Finished
            <4>4. Reply(t)' = "clear"
                BY <1>1, <3>3, <4>2, <4>3 DEF Reply, Finished
            <4> QED BY <3>1, <3>2, <3>4, <4>4 DEF Service!Answers
        <3>5. CASE playing \notin GoodKeys
            <4>1. ~CopyBack(t)
                BY <1>0, <3>1, <3>5, NoKeyFits DEF CopyBack, ThreadClear
            <4>2. ret'[t].val = 0
                BY <1>0, <2>5, <3>1, <3>5, <4>1, NoKeyFits DEF DecryptInPlace, AutodetectFails, Verifies
            <4>3. Reply(t)' = "error"
                BY <1>1, <3>3, <4>2 DEF Reply, Finished
            <4> QED BY <3>2, <3>5, <4>3 DEF Service!Answers
        <3> QED BY <3>4, <3>5
    <2> QED BY <2>1, <2>2, <2>3, <2>4, <2>5
<1> QED BY <1>0, <1>2, <1>4, AnswerSeen

LEMMA AskStep ==
    ASSUME Rules, ServeInv, NEW t \in Threads, ReadUnit(t) \/ ReadPlainUnit(t) \/ CallAgain(t)
    PROVE  Service!Ask(t)
<1> USE DEF TypeOK
<1>0. TypeOK /\ ThreadStep(t) /\ UNCHANGED disc
    BY SharedStep DEF ServeInv, PlayInv, ClearInv, ThreadStep
<1>1. pc[t] = "idle" /\ pc'[t] = "call"
    BY <1>0 DEF ReadUnit, ReadPlainUnit, CallAgain
<1>2. fresh'[t] \in BOOLEAN /\ buf'[t].cpi \in BOOLEAN
    BY <1>0, ThreadStepType
<1>3. Request(t) = "none" /\ Reply(t)' = "none"
    BY <1>1 DEF Request, Reply, Finished
<1>4. Request(t)' \in Service!Requests
    BY <1>1, <1>2 DEF Request, Service!Requests
<1> QED BY <1>0, <1>3, <1>4, AskSeen

LEMMA InsideStep ==
    ASSUME Rules, ServeInv, NEW t \in Threads,
           \/ DecryptStart(t)
           \/ \E f \in Fields : Load(t, f)
           \/ \E k \in Found(buf[t]) : Autodetect(t, k)
           \/ \E f \in Fields : Store(t, f)
    PROVE  UNCHANGED Service!vars
<1> USE DEF TypeOK
<1>0. TypeOK /\ ThreadStep(t) /\ buf[t] \in Buffers /\ UNCHANGED disc
    BY SharedStep DEF ServeInv, PlayInv, ClearInv, ThreadStep, Serve, Buffers
<1>1. /\ pc[t] # "idle" /\ pc'[t] # "idle" /\ fresh'[t] = fresh[t]
      /\ buf'[t].cpi = buf[t].cpi
    BY <1>0, RemoveBusMarks DEF DecryptStart, Load, Autodetect, Store
<1>2. Request(t)' = Request(t) /\ Reply(t)' = Reply(t)
    BY <1>1 DEF Request, Reply, Finished
<1> QED BY <1>0, <1>2, NothingSeen

\* Whatever the handle remembers of titles, playlists and the findings of its threads, and
\* however the threads interleave, the player is answered as by a service without memory:
\* one answer for each call, from the unit, the playlist and the keys alone.  (That every
\* call gets its answer needs fairness and is checked, not proved.)
THEOREM ServiceRefined == ASSUME Rules PROVE Spec => Service!Safety
<1>1. Init => Service!Init
    <2> SUFFICES ASSUME Init PROVE Service!Init
        OBVIOUS
    <2>1. ASSUME NEW t \in Threads PROVE Request(t) = "none" /\ Reply(t) = "none"
        BY DEF Init, Request, Reply, Finished
    <2> QED BY <2>1 DEF Init, Service!Init
<1>2. ServeInv /\ [Next]_vars => [Service!Next]_(Service!vars)
    <2> SUFFICES ASSUME ServeInv, [Next]_vars PROVE [Service!Next]_(Service!vars)
        OBVIOUS
    <2>1. ASSUME NEW c \in CpsUnits, NEW title \in Titles, StartPlaylist(c, title)
          PROVE  Service!StartPlaylist(c)
        <3>1. ASSUME NEW t \in Threads
              PROVE  Request(t) = "none" /\ Request(t)' = "none" /\ Reply(t)' = "none"
            <4>1. pc[t] = "idle" /\ pc'[t] = "idle" /\ ret'[t].call = "none"
                BY <2>1, <3>1 DEF StartPlaylist, Idle
            <4> QED BY <4>1 DEF Request, Reply, Finished
        <3> QED BY <2>1, <3>1 DEF StartPlaylist, Service!StartPlaylist
    <2>2. ASSUME NEW t \in Threads, ThreadStep(t)
          PROVE  Service!Ask(t) \/ Service!Answer(t) \/ UNCHANGED Service!vars
        BY <2>2, AskStep, AnswerStep, InsideStep DEF ThreadStep, Serve
    <2>3. CASE UNCHANGED vars
        BY <2>3 DEF vars, Service!vars, Request, Reply, Finished
    <2> QED BY <2>1, <2>2, <2>3 DEF Next, Service!Next
<1> QED BY <1>1, <1>2, ServeInvariant, PTL DEF Spec, Service!Safety
=============================================================================
