--------------------------- MODULE StreamDecrypt ---------------------------
(***************************************************************************)
(* The stream side of aacs.c: aacs_decrypt_unit(), aacs_decrypt_bus() and   *)
(* aacs_select_title() on one opened AACS handle.                          *)
(*                                                                         *)
(* The threads of a player decrypt the aligned units of a playlist, each   *)
(* in a buffer of its own, and share two plain fields of the handle:       *)
(* current_cps_unit and cps_unit_selected.  Every access to one of the two *)
(* is a step.  The C code orders the accesses only by writing them one     *)
(* after the other; with Reorder they become visible in either order, as   *)
(* the compiler and a weakly ordered processor are free to do.             *)
(*                                                                         *)
(* A buffer is abstracted to what the code and its properties tell apart:  *)
(* the copy permission bits of its first byte, how many layers of bus      *)
(* encryption it carries (a negative number: "removed" once too often) and *)
(* whether its payload is ciphertext of some unit key, clear or garbage.   *)
(* Only ciphertext decrypted with its own key passes _verify_ts(): 32 sync *)
(* bytes do not appear by chance.                                          *)
(***************************************************************************)
EXTENDS Integers

CONSTANTS
    Threads,         \* threads of the player
    NumUk,           \* aacs->uk->num_uk
    GoodKeys,        \* the CPS units whose key in aacs->uk->uk[] is right
    NumTitles,       \* aacs->uk->num_titles
    TitleCpsUnit,    \* aacs->uk->title_cps_unit[]
    TitlesRead,      \* aacs->uk->title_cps_unit != NULL
    Bus,             \* aacs->bee && aacs->bec > 0
    ResetTitle,      \* the title the player selects to forget the CPS unit
    SelectsTitles,   \* TRUE: the player also selects titles by number
    Retries,         \* TRUE: the player calls again with a buffer that failed
    Reorder,         \* TRUE: the shared fields are accessed in either order
    MaxCalls         \* bound: calls one thread makes for one playlist

CpsUnits == 0 .. NumUk - 1

ASSUME StreamAssumption ==
    /\ NumUk \in Nat /\ NumTitles \in Nat /\ MaxCalls \in Nat
    /\ GoodKeys \subseteq CpsUnits
    /\ TitleCpsUnit \in [0 .. NumTitles + 1 -> CpsUnits]
    /\ ResetTitle \in Nat
    /\ {TitlesRead, Bus, SelectsTitles, Retries, Reorder} \subseteq BOOLEAN

VARIABLES
    current,    \* aacs->current_cps_unit
    selected,   \* aacs->cps_unit_selected
    loaded,     \* aacs->uk && aacs->uk->uk: did aacs_open_device() get unit keys?
    playing,    \* the CPS unit of the playlist that is being played
    pc,
    buf,        \* the buffer of each thread
    fresh,      \* was the buffer read from the disc for this call?
    todo,       \* shared fields the thread has still to load or to store
    seen,       \* what it loaded, or is about to store
    ret,        \* result of its last call, and which call that was
    calls

shared == <<current, selected>>
disc == <<loaded, playing>>
vars == <<current, selected, loaded, playing, pc, buf, fresh, todo, seen, ret, calls>>

FirstPlay == 65535
Fields == {"current", "selected"}
Idle == \A t \in Threads : pc[t] = "idle"

-----------------------------------------------------------------------------
(* Buffers *)

\* A unit of CPS unit c as the drive delivers it, and a unit that is not encrypted.
Cipher(c) == [cpi |-> TRUE, bus |-> IF Bus THEN 1 ELSE 0, key |-> c, data |-> "cipher"]
Plain == [cpi |-> FALSE, bus |-> 0, key |-> 0, data |-> "clear"]

\* _decrypt_unit_bus(): nothing tells the code whether the layer is still there.
RemoveBus(b) == IF Bus THEN [b EXCEPT !.bus = @ - 1] ELSE b

\* Does decryption with unit key k give the clear unit?
RightKey(b, k) == b.data = "cipher" /\ b.bus = 0 /\ b.key = k /\ k \in GoodKeys

\* _verify_ts() on the decrypted unit (mutant: the sync bytes are not looked at).
VerifiesAnything(b, k) == TRUE
Verifies(b, k) == RightKey(b, k)

\* What _decrypt_unit() leaves in its output buffer.  _verify_ts() clears the copy
\* permission bits packet by packet until a sync byte is wrong.  The first 16 bytes of
\* a unit are never encrypted, so the first packet always has its sync byte, and the
\* bits that mark the unit as encrypted are cleared whether decryption worked or not.
Decrypted(b, k) ==
    [b EXCEPT !.cpi = FALSE, !.data = IF RightKey(b, k) THEN "clear" ELSE "garbage"]

\* The key the autodetection loop finds: the first one that verifies, if there is one.
Found(b) == {k \in CpsUnits : Verifies(b, k) /\ \A j \in 0 .. k - 1 : ~Verifies(b, j)}

-----------------------------------------------------------------------------
(* aacs_select_title() *)

\* What aacs_select_title(title) stores, if it stores anything: <<current, selected>>.
\* Mutant: the reset is taken for a selection.
FirstPlaySelects(title) ==
    IF ~TitlesRead THEN {}
    ELSE IF title = FirstPlay THEN {<<TitleCpsUnit[0], TRUE>>}
    ELSE IF title <= NumTitles THEN {<<TitleCpsUnit[title + 1], TRUE>>}
    ELSE {}

SelectTitle(title) ==
    IF ~TitlesRead THEN {}
    ELSE IF title = FirstPlay THEN {<<TitleCpsUnit[0], FALSE>>}
    ELSE IF title <= NumTitles THEN {<<TitleCpsUnit[title + 1], TRUE>>}
    ELSE {}

\* The player starts a playlist of CPS unit c, as aacs.h describes it: with the title
\* if it knows it, otherwise after selecting the reset title.  The previous playlist
\* has been played to its end: no unit is being decrypted.  An unknown title number
\* changes nothing, and the player stays where it is.
StartPlaylist(c, title) ==
    /\ Idle
    /\ \/ title = ResetTitle
       \/ SelectsTitles /\ title \in 0 .. NumTitles /\ TitleCpsUnit[title + 1] = c
       \/ SelectsTitles /\ title = NumTitles + 1 /\ c = playing
    /\ playing' = c
    /\ IF SelectTitle(title) = {}
       THEN UNCHANGED shared
       ELSE \E s \in SelectTitle(title) : current' = s[1] /\ selected' = s[2]
    /\ calls' = [t \in Threads |-> 0]
    /\ ret' = [t \in Threads |-> [call |-> "none", val |-> 0]]
    /\ buf' = [t \in Threads |-> Plain]
    /\ fresh' = [t \in Threads |-> FALSE]
    /\ UNCHANGED <<loaded, pc, todo, seen>>

-----------------------------------------------------------------------------
(* aacs_decrypt_bus() and aacs_decrypt_unit() *)

Return(t, call, val) ==
    /\ pc' = [pc EXCEPT ![t] = "idle"]
    /\ ret' = [ret EXCEPT ![t] = [call |-> call, val |-> val]]

\* A thread reads a unit of the playlist into its buffer.
ReadUnit(t) ==
    /\ pc[t] = "idle" /\ calls[t] < MaxCalls
    /\ buf' = [buf EXCEPT ![t] = Cipher(playing)]
    /\ fresh' = [fresh EXCEPT ![t] = TRUE]
    /\ calls' = [calls EXCEPT ![t] = @ + 1]
    /\ pc' = [pc EXCEPT ![t] = "call"]
    /\ UNCHANGED <<shared, disc, todo, seen, ret>>

ReadPlainUnit(t) ==
    /\ pc[t] = "idle" /\ calls[t] < MaxCalls
    /\ buf' = [buf EXCEPT ![t] = Plain]
    /\ fresh' = [fresh EXCEPT ![t] = TRUE]
    /\ calls' = [calls EXCEPT ![t] = @ + 1]
    /\ pc' = [pc EXCEPT ![t] = "call"]
    /\ UNCHANGED <<shared, disc, todo, seen, ret>>

\* A thread calls again with the buffer of its last call.
CallAgain(t) ==
    /\ Retries /\ pc[t] = "idle" /\ calls[t] < MaxCalls /\ ret[t].call # "none"
    /\ fresh' = [fresh EXCEPT ![t] = FALSE]
    /\ calls' = [calls EXCEPT ![t] = @ + 1]
    /\ pc' = [pc EXCEPT ![t] = "call"]
    /\ UNCHANGED <<shared, disc, buf, todo, seen, ret>>

DecryptBus(t) ==
    /\ pc[t] = "call"
    /\ buf' = [buf EXCEPT ![t] = IF @.cpi THEN RemoveBus(@) ELSE @]
    /\ Return(t, "bus", 1)
    /\ UNCHANGED <<shared, disc, fresh, todo, seen, calls>>

\* The copy permission bits say that the unit is not encrypted.
DecryptPlain(t) ==
    /\ pc[t] = "call" /\ ~buf[t].cpi
    /\ Return(t, "unit", 1)
    /\ UNCHANGED <<shared, disc, buf, fresh, todo, seen, calls>>

DecryptWithoutKeys(t) ==
    /\ pc[t] = "call" /\ buf[t].cpi /\ ~loaded
    /\ Return(t, "unit", -1)
    /\ UNCHANGED <<shared, disc, buf, fresh, todo, seen, calls>>

\* An encrypted unit: the bus encryption is removed, then the shared fields are read.
DecryptStart(t) ==
    /\ pc[t] = "call" /\ buf[t].cpi /\ loaded
    /\ buf' = [buf EXCEPT ![t] = RemoveBus(@)]
    /\ todo' = [todo EXCEPT ![t] = Fields]
    /\ pc' = [pc EXCEPT ![t] = "load"]
    /\ UNCHANGED <<shared, disc, fresh, seen, ret, calls>>

\* Mutant: the key is read before the flag that makes it valid.
MayLoadCurrentFirst(t, f) == Reorder \/ f = "current" \/ "current" \notin todo[t]
MayLoad(t, f) == Reorder \/ f = "selected" \/ "selected" \notin todo[t]

Load(t, f) ==
    /\ pc[t] = "load" /\ f \in todo[t] /\ MayLoad(t, f)
    /\ todo' = [todo EXCEPT ![t] = @ \ {f}]
    /\ seen' = IF f = "current" THEN [seen EXCEPT ![t].current = current]
                                ELSE [seen EXCEPT ![t].selected = selected]
    /\ pc' = IF todo[t] = {f} THEN [pc EXCEPT ![t] = "decrypt"] ELSE pc
    /\ UNCHANGED <<shared, disc, buf, fresh, ret, calls>>

KnownKey(t) == seen[t].selected \/ NumUk = 1

\* The key is known: decrypt in place.
DecryptInPlace(t) ==
    /\ pc[t] = "decrypt" /\ KnownKey(t)
    /\ buf' = [buf EXCEPT ![t] = Decrypted(@, seen[t].current)]
    /\ Return(t, "unit", IF Verifies(buf[t], seen[t].current) THEN 1 ELSE 0)
    /\ UNCHANGED <<shared, disc, fresh, todo, seen, calls>>

\* The key is not known: try one after the other on a copy (k is the first that fits), and
\* remember which one it was.  The buffer gets the clear unit after the shared fields have
\* been stored.
Autodetect(t, k) ==
    /\ pc[t] = "decrypt" /\ ~KnownKey(t)
    /\ seen' = [seen EXCEPT ![t] = [current |-> k, selected |-> TRUE]]
    /\ todo' = [todo EXCEPT ![t] = Fields]
    /\ pc' = [pc EXCEPT ![t] = "store"]
    /\ UNCHANGED <<shared, disc, buf, fresh, ret, calls>>

AutodetectFails(t) ==
    /\ pc[t] = "decrypt" /\ ~KnownKey(t) /\ Found(buf[t]) = {}
    /\ Return(t, "unit", 0)
    /\ UNCHANGED <<shared, disc, buf, fresh, todo, seen, calls>>

\* Mutant: the flag is raised before the key it stands for is there.
MayStoreFlagFirst(t, f) == Reorder \/ f = "selected" \/ "selected" \notin todo[t]
MayStore(t, f) == Reorder \/ f = "current" \/ "current" \notin todo[t]

Store(t, f) ==
    /\ pc[t] = "store" /\ f \in todo[t] /\ MayStore(t, f)
    /\ todo' = [todo EXCEPT ![t] = @ \ {f}]
    /\ IF f = "current" THEN current' = seen[t].current /\ UNCHANGED selected
                        ELSE selected' = seen[t].selected /\ UNCHANGED current
    /\ UNCHANGED <<disc, pc, buf, fresh, seen, ret, calls>>

\* memcpy() of the clear unit into the buffer.
CopyBack(t) ==
    /\ pc[t] = "store" /\ todo[t] = {}
    /\ buf' = [buf EXCEPT ![t] = Decrypted(@, seen[t].current)]
    /\ Return(t, "unit", 1)
    /\ UNCHANGED <<shared, disc, fresh, todo, seen, calls>>

-----------------------------------------------------------------------------
\* The handle after aacs_open_device(): calloc() cleared the shared fields.
Init ==
    /\ current = 0 /\ selected = FALSE
    /\ loaded \in BOOLEAN /\ playing \in CpsUnits
    /\ pc = [t \in Threads |-> "idle"]
    /\ buf = [t \in Threads |-> Plain]
    /\ fresh = [t \in Threads |-> FALSE]
    /\ todo = [t \in Threads |-> {}]
    /\ seen = [t \in Threads |-> [current |-> 0, selected |-> FALSE]]
    /\ ret = [t \in Threads |-> [call |-> "none", val |-> 0]]
    /\ calls = [t \in Threads |-> 0]

\* The steps of a thread inside the library, and those of the player around them.
Serve(t) ==
    \/ DecryptBus(t) \/ DecryptPlain(t) \/ DecryptWithoutKeys(t) \/ DecryptStart(t)
    \/ \E f \in Fields : Load(t, f)
    \/ DecryptInPlace(t)
    \/ \E k \in Found(buf[t]) : Autodetect(t, k)
    \/ AutodetectFails(t)
    \/ \E f \in Fields : Store(t, f)
    \/ CopyBack(t)

ThreadStep(t) == ReadUnit(t) \/ ReadPlainUnit(t) \/ CallAgain(t) \/ Serve(t)

Titles == 0 .. NumTitles + 1 \cup {ResetTitle}

Next ==
    \/ \E c \in CpsUnits, title \in Titles : StartPlaylist(c, title)
    \/ \E t \in Threads : ThreadStep(t)

Spec == Init /\ [][Next]_vars

\* A thread that is inside the library goes on: nothing there waits for another thread.
FairSpec == Spec /\ \A t \in Threads : WF_vars(Serve(t))

-----------------------------------------------------------------------------
\* Every variable has its type; the index into aacs->uk->uk[] is always inside it.
TypeOK ==
    /\ current \in CpsUnits /\ selected \in BOOLEAN
    /\ loaded \in BOOLEAN /\ playing \in CpsUnits
    /\ pc \in [Threads -> {"idle", "call", "load", "decrypt", "store"}]
    /\ buf \in [Threads -> [cpi : BOOLEAN, bus : Int, key : CpsUnits,
                            data : {"cipher", "clear", "garbage"}]]
    /\ fresh \in [Threads -> BOOLEAN]
    /\ todo \in [Threads -> SUBSET Fields]
    /\ seen \in [Threads -> [current : CpsUnits, selected : BOOLEAN]]
    /\ ret \in [Threads -> [call : {"none", "bus", "unit"}, val : -1 .. 1]]
    /\ calls \in [Threads -> 0 .. MaxCalls]

Finished(t) == pc[t] = "idle" /\ ret[t].call = "unit"

\* aacs_decrypt_unit() called with a unit read from the disc returns 1 only when the buffer
\* holds the clear unit ("1 on success, 0 on error", aacs.h), whatever another thread has
\* stored in the handle meanwhile.
SuccessMeansClear ==
    \A t \in Threads : Finished(t) /\ fresh[t] /\ ret[t].val = 1 => buf[t].data = "clear"

\* The same of every call, also of one with the buffer of an earlier call.
AnySuccessMeansClear ==
    \A t \in Threads : Finished(t) /\ ret[t].val = 1 => buf[t].data = "clear"

\* Any number of threads may decrypt units of one CPS unit at the same time ("only units
\* from the same CPS unit may be decrypted in paraller", aacs.h): as long as the keys are
\* there, every unit of the playlist that was read from the disc is decrypted, whichever
\* playlists and titles were played and selected before.
UnitsAreDecrypted ==
    \A t \in Threads :
        Finished(t) /\ fresh[t] /\ loaded /\ playing \in GoodKeys => ret[t].val = 1

\* What is remembered about the CPS unit is about the playlist that is being played:
\* no CPS unit found for an earlier playlist is left over.
SelectionIsCurrent == selected /\ playing \in GoodKeys => current = playing

\* aacs_decrypt_unit() returns 1 or 0 ("1 on success, 0 on error", aacs.h).
ReturnsOneOrZero == \A t \in Threads : Finished(t) => ret[t].val \in {0, 1}

-----------------------------------------------------------------------------
(* The service of StreamService: a call and its answer as the player sees  *)
(* them.                                                                   *)

Request(t) ==
    CASE pc[t] = "idle" -> "none"
      [] pc[t] # "idle" /\ ~fresh[t] -> "again"
      [] pc[t] # "idle" /\ fresh[t] -> IF buf[t].cpi THEN "encrypted" ELSE "plain"

Reply(t) ==
    CASE pc[t] # "idle" -> "none"
      [] pc[t] = "idle" /\ ret[t].call # "unit" -> ret[t].call
      [] Finished(t) /\ ret[t].val # 1 -> "error"
      [] Finished(t) /\ ret[t].val = 1 -> IF buf[t].data = "clear" THEN "clear" ELSE "wrong"

Service == INSTANCE StreamService WITH
    keys <- loaded, request <- [t \in Threads |-> Request(t)], reply <- [t \in Threads |-> Reply(t)]

\* The threads and their shared fields together are the service without memory that
\* StreamService describes, although the handle remembers a CPS unit: no interleaving of
\* calls and no history of titles and playlists changes an answer, and every call gets one.
ServiceIsMemoryless == Service!Spec
=============================================================================
