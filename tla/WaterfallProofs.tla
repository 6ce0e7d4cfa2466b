-------------------------- MODULE WaterfallProofs --------------------------
(***************************************************************************)
(* Proofs about Waterfall for every set of discs, every configuration and  *)
(* every number of unit keys.                                              *)
(***************************************************************************)
EXTENDS Waterfall, WellFoundedInduction, TLAPS

Errors == {"success", "no_config", "no_pk", "corrupted", "mmc"}
Handles ==
    [id : Discs \cup {NoDisc}, vid : Keys, pmsn : Keys, mk : Keys, uk : Seq(Keys), num : Nat,
     bee : BOOLEAN, bec : {-1, 0, 1}, rdk : Keys, noCache : BOOLEAN]
Locals == [mk : Keys, vuk : Keys, err : Errors, caller : {"final", "count"}]

\* The steps of aacs_open_device() that look for the VUK.
Searching == {"calc_vuk", "calc_mk", "read_vid", "derive"}
Calculating == {"calc_uks", "units"} \cup Searching

\* A handle belongs to the disc in the drive; before it is opened to none.
TypeInv ==
    /\ pc \in {"none", "closed", "bus", "opened"} \cup Calculating
    /\ h \in Handles /\ loc \in Locals
    /\ result \in Errors /\ cached \in BOOLEAN /\ disturbed \subseteq Discs
    /\ cache \in [Types -> [Discs -> Keys]]
    /\ drive \in Discs
    /\ conf \in [named : Configs, default : DefaultConfigs]
    /\ h.id \in {NoDisc, drive}
    /\ pc \in Calculating => h.id = drive /\ h.num = NumUk[drive]
    /\ pc = "bus" => h.id = drive
    /\ pc = "none" => h = NewHandle(FALSE) /\ loc = NewLocals

LEMMA Initial ==
    /\ \A b \in BOOLEAN : NewHandle(b) \in Handles /\ NewHandle(b).id = NoDisc
    /\ NewLocals \in Locals
<1>1. <<>> \in Seq(Keys)
    OBVIOUS
<1>2. NoKey \in Keys /\ NoDisc \in Discs \cup {NoDisc} /\ 0 \in Nat /\ 0 \in {-1, 0, 1}
    BY DEF Keys
<1> QED BY <1>1, <1>2 DEF NewHandle, NewLocals, Handles, Locals, Errors

\* The entry of the disc in the configuration.
LEMMA EntryType ==
    ASSUME TypeInv, h.id = drive
    PROVE  cf \in ConfigFiles /\ entry \in Entries
<1>1. conf.named \in Configs
    BY DEF TypeInv
<1> QED BY <1>1, WaterfallAssumption DEF TypeInv, cf, entry, ConfigFiles

LEMMA ConfigKeysType ==
    ASSUME TypeInv, h.id = drive, NEW n \in Nat
    PROVE  /\ ConfigKeys(n) \in Seq(Keys) /\ DOMAIN ConfigKeys(n) = 1 .. n
           /\ \A i \in 1 .. n : i <= Len(entry.uk) /\ entry.uk[i] = i => ConfigKeys(n)[i] = drive
<1>1. entry.uk \in Seq(Nat) /\ Len(entry.uk) \in Nat
    BY EntryType DEF Entries
<1>2. \A i \in 1 .. n : (IF i > Len(entry.uk) THEN NoKey
                         ELSE IF entry.uk[i] = i THEN h.id ELSE BadKey) \in Keys
    BY DEF TypeInv, Keys
<1>3. ConfigKeys(n) \in [1 .. n -> Keys]
    BY <1>2 DEF ConfigKeys
<1>4. ConfigKeys(n) \in Seq(Keys)
    BY <1>3
<1> QED BY <1>1, <1>3, <1>4 DEF ConfigKeys

LEMMA SavedType ==
    ASSUME TypeInv, NEW type \in Types, NEW key \in Keys
    PROVE  Saved(type, key) \in [Types -> [Discs -> Keys]]
BY DEF TypeInv, Saved

LEMMA SavingType ==
    ASSUME TypeInv, NEW type \in Types, NEW key \in Keys
    PROVE  \A c \in Saving(type, key) : c \in [Types -> [Discs -> Keys]]
<1>1. NoKey \in Keys /\ cache \in [Types -> [Discs -> Keys]]
    BY DEF Keys, TypeInv
<1> QED BY <1>1, SavedType DEF Saving

LEMMA VukReturnsType ==
    ASSUME TypeInv, h.id = drive, NEW handle \in Handles, handle.id = drive,
           handle.num = NumUk[drive], NEW vuk \in Keys, NEW err \in Errors,
           VukReturns(handle, vuk, err)
    PROVE  /\ h' \in Handles /\ loc' \in Locals /\ pc' \in {"units", "bus"} /\ h'.id = drive
           /\ pc' = "units" => h'.num = NumUk[drive]
<1> DEFINE n == Larger(handle.num, Len(entry.uk))
<1>1. n \in Nat /\ Raised(handle.num) = n
    BY EntryType DEF Entries, Handles, Larger, Raised
<1>2. ConfigKeys(n) \in Seq(Keys)
    BY <1>1, ConfigKeysType
<1> HIDE DEF n
<1>3. CASE loc.caller = "count" /\ err # "success"
    <2>1. h' = [handle EXCEPT !.num = n, !.uk = ConfigKeys(n)] /\ loc' = NewLocals /\ pc' = "bus"
        BY <1>1, <1>3 DEF VukReturns, Goto, n
    <2> QED BY <1>1, <1>2, <2>1, Initial DEF Handles
<1>4. CASE ~(loc.caller = "count" /\ err # "success")
    <2>1. h' = handle /\ loc' = [loc EXCEPT !.vuk = vuk, !.err = err] /\ pc' = "units"
        BY <1>4 DEF VukReturns, Goto
    <2> QED BY <2>1 DEF TypeInv, Locals
<1> QED BY <1>3, <1>4

\* What the drive answers: only a data key can be wrong and accepted.
LEMMA ExchangeType ==
    ASSUME TypeInv, NEW c, NEW old \in Keys, NEW mac \in BOOLEAN, NEW a \in Exchange(c, old, mac)
    PROVE  /\ a.ok \in BOOLEAN /\ a.key \in Keys
           /\ a.ok => a.key = drive \/ (~mac /\ a.key = BadKey)
<1>1. drive \in Keys /\ BadKey \in Keys
    BY DEF TypeInv, Keys
<1>2. PICK ok \in BOOLEAN, key \in Keys :
        a = [ok |-> ok, key |-> key] /\ (ok => key = drive \/ (~mac /\ key = BadKey))
    <2>1. CASE a = [ok |-> FALSE, key |-> old]
        BY <2>1
    <2>2. CASE a = [ok |-> TRUE, key |-> drive]
        BY <1>1, <2>2
    <2>3. CASE a = [ok |-> ~mac, key |-> BadKey]
        <3>1. CASE mac
            BY <1>1, <2>3, <3>1
        <3>2. CASE ~mac
            BY <1>1, <2>3, <3>2
        <3> QED BY <3>1, <3>2
    <2> QED BY <2>1, <2>2, <2>3 DEF Exchange
<1> QED BY <1>2

LEMMA AnswerType ==
    ASSUME TypeInv, NEW c, NEW old \in Keys, NEW a \in Answers(c, old)
    PROVE  a.ok \in BOOLEAN /\ a.key \in Keys /\ (a.ok => a.key = drive)
<1>1. a \in Exchange(c, old, TRUE)
    BY DEF Answers
<1> QED BY <1>1, ExchangeType

LEMMA DataKeyType ==
    ASSUME TypeInv, NEW c, NEW old \in Keys, NEW a \in DataKeyAnswers(c, old)
    PROVE  a.ok \in BOOLEAN /\ a.key \in Keys /\ (a.ok => a.key \in {drive, BadKey})
<1>1. a \in Exchange(c, old, FALSE)
    BY DEF DataKeyAnswers
<1> QED BY <1>1, ExchangeType

\* Opening and closing.
LEMMA TypeOuter ==
    ASSUME TypeInv,
           (\E b \in BOOLEAN : AacsInit(b) \/ SetKeyCaching(b)) \/ OpenDevice \/ OpenFails
           \/ AacsClose \/ Crash \/ NewSetup
    PROVE  TypeInv'
<1> USE WaterfallAssumption, Initial
<1>1. ASSUME NEW b \in BOOLEAN, AacsInit(b) PROVE TypeInv'
    BY <1>1 DEF AacsInit, TypeInv, Goto, outside, Calculating, Searching
<1>2. ASSUME NEW b \in BOOLEAN, SetKeyCaching(b) PROVE TypeInv'
    <2>1. h' \in Handles /\ h'.id = h.id
        BY <1>2 DEF SetKeyCaching, TypeInv, Handles
    <2> QED BY <1>2, <2>1 DEF SetKeyCaching, TypeInv, outside, Calculating, Searching
<1>3. CASE OpenDevice
    <2>1. PICK bee \in BOOLEAN :
            h' = [h EXCEPT !.id = drive, !.uk = <<>>, !.num = NumUk[drive], !.bee = bee, !.bec = -1]
        BY <1>3 DEF OpenDevice
    <2>2. NumUk[drive] \in Nat /\ <<>> \in Seq(Keys) /\ drive \in Discs \cup {NoDisc}
        BY DEF TypeInv
    <2>3. h' \in Handles /\ h'.id = drive /\ h'.num = NumUk[drive]
        BY <2>1, <2>2 DEF TypeInv, Handles
    <2>4. cached' \in BOOLEAN
        BY <1>3 DEF OpenDevice, TypeInv
    <2> QED BY <1>3, <2>3, <2>4 DEF OpenDevice, TypeInv, Goto, outside, Errors, Calculating, Searching
<1>4. CASE OpenFails
    <2>1. h' \in Handles /\ h'.id = h.id
        BY <1>4 DEF OpenFails, TypeInv, Handles
    <2> QED BY <1>4, <2>1 DEF OpenFails, TypeInv, Goto, outside, Errors, Calculating, Searching
<1>5. CASE AacsClose \/ Crash
    <2>1. cache' \in [Types -> [Discs -> Keys]]
        <3>1. cache' = cache \/ \E type \in Types : cache' = Saved(type, NoKey)
            BY <1>5 DEF AacsClose, Crash
        <3>2. NoKey \in Keys
            BY DEF Keys
        <3>3. cache \in [Types -> [Discs -> Keys]]
            BY DEF TypeInv
        <3> QED BY <3>1, <3>2, <3>3, SavedType
    <2>2. /\ Reset /\ disturbed' = disturbed /\ conf' = conf /\ drive' = drive
        BY <1>5 DEF AacsClose, Crash, outside
    <2> QED BY <2>1, <2>2 DEF Reset, TypeInv, Goto, Errors, Calculating, Searching
<1>6. CASE NewSetup
    BY <1>6 DEF NewSetup, TypeInv, Calculating, Searching
<1> QED BY <1>1, <1>2, <1>3, <1>4, <1>5, <1>6

\* _calc_uks() and the search for the VUK.
LEMMA TypeSearch ==
    ASSUME TypeInv,
           NoUnitKeys \/ CachedVuk \/ NoConfig \/ FindConfigEntry \/ KnownVuk \/ VukNeedsMk
           \/ KnownMk \/ CalcMk \/ CalcMkFails \/ KnownVid \/ ReadVid \/ DeriveVuk
    PROVE  TypeInv'
<1>1. /\ pc \in Calculating /\ h.id = drive /\ h.num = NumUk[drive] /\ NumUk[drive] \in Nat
      /\ drive \in Discs /\ drive \in Keys /\ NoKey \in Keys /\ BadKey \in Keys
      /\ h \in Handles /\ loc \in Locals
      /\ conf' = conf /\ drive' = drive /\ cached' = cached /\ result' = result
      /\ disturbed' = disturbed
    BY WaterfallAssumption
       DEF NoUnitKeys, CachedVuk, NoConfig, FindConfigEntry, KnownVuk, VukNeedsMk, KnownMk,
           CalcMk, CalcMkFails, KnownVid, ReadVid, DeriveVuk, TypeInv, Calculating,
           Searching, outside, Keys
<1> SUFFICES /\ pc' \in {"bus"} \cup Calculating /\ h' \in Handles /\ loc' \in Locals
             /\ cache' \in [Types -> [Discs -> Keys]] /\ h'.id = drive
             /\ pc' \in Calculating => h'.num = NumUk[drive]
    BY <1>1 DEF TypeInv, Calculating, Searching
<1>2. \A type \in Types : cache[type][h.id] \in Keys
    BY <1>1 DEF TypeInv
<1>3. entry \in Entries
    BY <1>1, EntryType
<1>4. CASE NoUnitKeys \/ VukNeedsMk \/ KnownVid
    BY <1>1, <1>4 DEF NoUnitKeys, VukNeedsMk, KnownVid, TypeInv, Goto, Calculating, Searching
<1>5. CASE CachedVuk \/ NoConfig \/ KnownMk
    <2>1. loc' \in Locals
        BY <1>1, <1>2, <1>5 DEF CachedVuk, NoConfig, KnownMk, Locals, Errors, Types
    <2> QED BY <1>1, <1>5, <2>1
            DEF CachedVuk, NoConfig, KnownMk, TypeInv, Goto, Calculating, Searching
<1>6. CASE FindConfigEntry
    <2>1. Given(entry.mk, h.mk) \in Keys /\ Given(entry.vid, h.vid) \in Keys
        BY <1>1, <1>3 DEF Given, Entries, Handles
    <2>2. Given(entry.mk, loc.mk) \in Keys /\ Given(entry.vuk, loc.vuk) \in Keys
        BY <1>1, <1>3 DEF Given, Entries, Locals
    <2>3. ConfigKeys(h.num) \in Seq(Keys)
        BY <1>1, ConfigKeysType
    <2>4. h' \in Handles /\ h'.id = h.id /\ h'.num = h.num
        BY <1>1, <1>6, <2>1, <2>3 DEF FindConfigEntry, Handles
    <2>5. loc' \in Locals
        BY <1>1, <1>6, <2>2 DEF FindConfigEntry, Locals
    <2> QED BY <1>1, <1>6, <2>4, <2>5
            DEF FindConfigEntry, TypeInv, Goto, Calculating, Searching
<1>7. CASE KnownVuk
    <2>1. PICK vuk \in Keys : VukReturns(h, vuk, "success")
        BY <1>1, <1>2, <1>7 DEF KnownVuk, Locals, Types
    <2> QED BY <1>1, <1>7, <2>1, VukReturnsType
            DEF KnownVuk, TypeInv, Errors, Calculating, Searching
<1>8. CASE CalcMk
    <2>1. h' \in Handles /\ h'.id = h.id /\ h'.num = h.num
        BY <1>1, <1>8 DEF CalcMk, Handles
    <2>2. loc' \in Locals
        BY <1>1, <1>8 DEF CalcMk, Locals
    <2> QED BY <1>1, <1>8, <2>1, <2>2, SavingType
            DEF CalcMk, Goto, Types, Calculating, Searching
<1>9. CASE CalcMkFails
    <2>1. PICK err \in Errors : VukReturns(h, NoKey, err)
        BY <1>9 DEF CalcMkFails, Errors
    <2> QED BY <1>1, <1>9, <2>1, VukReturnsType
            DEF CalcMkFails, TypeInv, Calculating, Searching
<1>10. CASE ReadVid
    <2>1. PICK a \in Answers(cf, h.vid) :
            \/ /\ h' = [h EXCEPT !.vid = a.key]
               /\ cache' \in Saving("vid", a.key) /\ pc' = "derive" /\ loc' = loc
            \/ VukReturns([h EXCEPT !.vid = a.key], NoKey, "mmc") /\ cache' = cache
        BY <1>10 DEF ReadVid, Goto
    <2>2. a.key \in Keys
        BY <1>1, AnswerType DEF Handles
    <2> DEFINE read == [h EXCEPT !.vid = a.key]
    <2>3. read \in Handles /\ read.id = drive /\ read.num = NumUk[drive]
        BY <1>1, <2>2 DEF Handles
    <2> HIDE DEF read
    <2>4. CASE h' = read /\ cache' \in Saving("vid", a.key) /\ pc' = "derive" /\ loc' = loc
        BY <1>1, <2>2, <2>3, <2>4, SavingType DEF Types, Calculating, Searching
    <2>5. CASE VukReturns(read, NoKey, "mmc") /\ cache' = cache
        BY <1>1, <2>3, <2>5, VukReturnsType DEF TypeInv, Errors, Calculating, Searching
    <2> QED BY <2>1, <2>4, <2>5 DEF read
<1>11. CASE DeriveVuk
    <2>1. Derived(loc.mk, h.vid) \in Keys
        BY DEF Derived, Keys
    <2> QED BY <1>1, <1>11, <2>1, VukReturnsType, SavingType
            DEF DeriveVuk, Types, Errors, Calculating, Searching
<1> QED BY <1>4, <1>5, <1>6, <1>7, <1>8, <1>9, <1>10, <1>11

\* The end of aacs_open_device() and the getters.
LEMMA TypeEnd ==
    ASSUME TypeInv,
           CalcUnitKeys \/ BusNotEnabled \/ BusNeedsConfig \/ BusNotCapable \/ ReadDataKey
           \/ GetVid \/ GetPmsn \/ GetMk \/ GetBusEncryption
    PROVE  TypeInv'
<1>1. /\ drive \in Discs /\ drive \in Keys /\ NoKey \in Keys /\ BadKey \in Keys
      /\ h \in Handles /\ loc \in Locals /\ h.id \in {NoDisc, drive}
      /\ conf' = conf /\ drive' = drive /\ cached' = cached
      /\ pc' \in {"bus", "opened"} /\ disturbed' \subseteq Discs
    BY DEF CalcUnitKeys, BusNotEnabled, BusNeedsConfig, BusNotCapable, ReadDataKey, GetVid,
           GetPmsn, GetMk, GetBusEncryption, TypeInv, outside, Keys, Goto
<1> SUFFICES /\ h' \in Handles /\ h'.id = h.id /\ loc' \in Locals /\ result' \in Errors
             /\ cache' \in [Types -> [Discs -> Keys]]
             /\ pc' = "bus" => h.id = drive
    BY <1>1 DEF TypeInv, Calculating, Searching
<1>2. ASSUME NEW type \in Types, InCache(type) PROVE cache[type][h.id] \in Keys
    BY <1>1, <1>2 DEF TypeInv, InCache
<1>3. CASE CalcUnitKeys
    <2> DEFINE uks == [i \in 1 .. h.num |->
                         IF i <= UnitsDecrypted(loc.err) THEN Derived(loc.vuk, h.id) ELSE NoKey]
    <2>1. h.num \in Nat
        BY <1>1 DEF Handles
    <2>2. uks \in Seq(Keys)
        <3>1. Derived(loc.vuk, h.id) \in Keys
            BY DEF Derived, Keys
        <3>2. uks \in [1 .. h.num -> Keys]
            BY <1>1, <3>1
        <3> QED BY <2>1, <3>2
    <2>3. h' = [h EXCEPT !.uk = uks]
        BY <1>3 DEF CalcUnitKeys
    <2> HIDE DEF uks
    <2>4. h' \in Handles /\ h'.id = h.id
        BY <1>1, <2>2, <2>3 DEF Handles
    <2>5. result' \in Errors
        BY <1>1, <1>3 DEF CalcUnitKeys, Locals, Errors
    <2> QED BY <1>3, <2>4, <2>5, Initial DEF CalcUnitKeys, TypeInv, Calculating, Goto
<1>4. CASE BusNotEnabled \/ BusNeedsConfig
    BY <1>1, <1>4 DEF BusNotEnabled, BusNeedsConfig, TypeInv, Errors, Goto
<1>5. CASE BusNotCapable
    BY <1>1, <1>5 DEF BusNotCapable, TypeInv, Handles, Goto
<1>6. CASE ReadDataKey
    <2>1. PICK key \in Keys :
            /\ h' = [h EXCEPT !.bec = 1, !.rdk = key]
            /\ cache' \in {cache} \cup Saving("rdk", key) /\ result' \in {"success", "mmc"}
        <3>1. PICK a \in DataKeyAnswers(cf, h.rdk) :
                LET fallback == ~a.ok /\ InCache("rdk")
                    key == IF fallback THEN cache["rdk"][h.id] ELSE a.key
                IN  /\ h' = [h EXCEPT !.bec = 1, !.rdk = key]
                    /\ cache' \in {cache} \cup Saving("rdk", key) /\ result' \in {"success", "mmc"}
            BY <1>6 DEF ReadDataKey, RdkResult
        <3>2. a.key \in Keys
            BY <1>1, DataKeyType DEF Handles
        <3> QED BY <1>2, <3>1, <3>2 DEF Types
    <2>2. h' \in Handles /\ h'.id = h.id
        BY <1>1, <2>1 DEF Handles
    <2>3. cache' \in [Types -> [Discs -> Keys]]
        BY <2>1, SavingType DEF TypeInv, Types
    <2> QED BY <1>1, <1>6, <2>1, <2>2, <2>3 DEF ReadDataKey, TypeInv, Errors, Goto
<1>7. CASE GetVid
    <2>1. PICK key \in Keys :
            h' = [h EXCEPT !.vid = key] /\ cache' \in {cache} \cup Saving("vid", key)
        <3>1. CASE h' = h /\ cache' = cache
            BY <1>1, <3>1 DEF Handles
        <3>2. CASE InCache("vid") /\ h' = [h EXCEPT !.vid = cache["vid"][h.id]] /\ cache' = cache
            BY <1>2, <3>2 DEF Types
        <3>3. ASSUME NEW a \in Answers(conf.default, h.vid), h' = [h EXCEPT !.vid = a.key],
                     cache' \in {cache} \cup Saving("vid", a.key)
              PROVE  \E key \in Keys :
                        h' = [h EXCEPT !.vid = key] /\ cache' \in {cache} \cup Saving("vid", key)
            BY <1>1, <3>3, AnswerType DEF Handles
        <3> QED BY <1>7, <3>1, <3>2, <3>3 DEF GetVid
    <2>2. h' \in Handles /\ h'.id = h.id
        BY <1>1, <2>1 DEF Handles
    <2>3. cache' \in [Types -> [Discs -> Keys]]
        BY <2>1, SavingType DEF TypeInv, Types
    <2> QED BY <1>1, <1>7, <2>2, <2>3 DEF GetVid, TypeInv, Goto
<1>8. CASE GetPmsn
    <2>1. PICK key \in Keys : h' = [h EXCEPT !.pmsn = key]
        <3>1. CASE h' = h
            BY <1>1, <3>1 DEF Handles
        <3>2. ASSUME NEW a \in Answers(conf.default, h.pmsn), h' = [h EXCEPT !.pmsn = a.key]
              PROVE  \E key \in Keys : h' = [h EXCEPT !.pmsn = key]
            BY <1>1, <3>2, AnswerType DEF Handles
        <3> QED BY <1>8, <3>1, <3>2 DEF GetPmsn
    <2>2. h' \in Handles /\ h'.id = h.id
        BY <1>1, <2>1 DEF Handles
    <2> QED BY <1>1, <1>8, <2>2 DEF GetPmsn, TypeInv
<1>9. CASE GetMk
    <2>1. PICK key \in Keys :
            h' = [h EXCEPT !.mk = key] /\ cache' \in {cache} \cup Saving("mk", key)
        <3>1. CASE h' = h /\ cache' = cache
            BY <1>1, <3>1 DEF Handles
        <3>2. CASE InCache("mk") /\ h' = [h EXCEPT !.mk = cache["mk"][h.id]] /\ cache' = cache
            BY <1>2, <3>2 DEF Types
        <3>3. CASE h' = [h EXCEPT !.mk = drive] /\ cache' \in Saving("mk", drive)
            BY <1>1, <3>3
        <3> QED BY <1>9, <3>1, <3>2, <3>3 DEF GetMk
    <2>2. h' \in Handles /\ h'.id = h.id
        BY <1>1, <2>1 DEF Handles
    <2>3. cache' \in [Types -> [Discs -> Keys]]
        <3>1. "mk" \in Types
            BY DEF Types
        <3>2. \A c \in Saving("mk", key) : c \in [Types -> [Discs -> Keys]]
            BY <3>1, SavingType
        <3> QED BY <2>1, <3>2 DEF TypeInv
    <2> QED BY <1>1, <1>9, <2>2, <2>3 DEF GetMk, TypeInv
<1>10. CASE GetBusEncryption
    <2>1. BecAnswers \subseteq {-1, 0, 1}
        BY WaterfallAssumption DEF BecAnswers
    <2>2. h' \in Handles /\ h'.id = h.id
        BY <1>1, <1>10, <2>1 DEF GetBusEncryption, Handles
    <2> QED BY <1>1, <1>10, <2>2 DEF GetBusEncryption, TypeInv
<1> QED BY <1>3, <1>4, <1>5, <1>6, <1>7, <1>8, <1>9, <1>10

LEMMA TypeStep == TypeInv /\ [Next]_vars => TypeInv'
<1>1. TypeInv /\ UNCHANGED vars => TypeInv'
    BY DEF TypeInv, vars
<1> QED BY <1>1, TypeOuter, TypeSearch, TypeEnd DEF Next

LEMMA TypeInit == Init => TypeInv
<1> SUFFICES ASSUME Init PROVE TypeInv
    OBVIOUS
<1>1. cache \in [Types -> [Discs -> Keys]]
    BY DEF Init, Keys
<1> QED BY <1>1, Initial DEF Init, TypeInv, Errors, Calculating, Searching

LEMMA TypeOk == Spec => []TypeInv
BY TypeInit, TypeStep, PTL DEF Spec

-----------------------------------------------------------------------------
(* A cached VUK is enough                                                  *)

\* With a cached VUK the search for it is never begun.
EnoughInv ==
    /\ cached => pc \notin Searching
    /\ cached /\ pc = "calc_uks" => InCache("vuk")
    /\ cached /\ pc \in {"calc_uks", "units"} => loc.err = "success"
    /\ cached /\ pc \in {"calc_uks", "bus"} => result = "success"
    /\ CacheSuffices

LEMMA EnoughStep == ASSUME TypeInv, EnoughInv, Next PROVE EnoughInv'
<1> USE DEF EnoughInv, CacheSuffices, Searching, Goto
<1>1. ASSUME NEW b \in BOOLEAN, AacsInit(b) \/ SetKeyCaching(b) PROVE EnoughInv'
    BY <1>1 DEF AacsInit, SetKeyCaching, TypeInv, Handles
<1>2. CASE OpenDevice
    <2>1. h'.id = drive /\ h'.noCache = h.noCache /\ drive \in Discs
        BY <1>2 DEF OpenDevice, TypeInv, Handles
    <2>2. loc'.err = "success"
        BY <1>2 DEF OpenDevice, NewLocals
    <2>3. cached' => InCache("vuk")'
        BY <1>2, <2>1 DEF OpenDevice, InCache
    <2> QED BY <1>2, <2>2, <2>3 DEF OpenDevice
<1>3. CASE OpenFails \/ AacsClose \/ Crash \/ NewSetup
    BY <1>3 DEF OpenFails, AacsClose, Crash, NewSetup, Reset
<1>4. CASE NoUnitKeys \/ NoConfig \/ FindConfigEntry
    BY <1>4 DEF NoUnitKeys, NoConfig, FindConfigEntry
<1>5. CASE CachedVuk
    <2>1. loc'.err = loc.err
        BY <1>5 DEF CachedVuk, TypeInv, Locals
    <2> QED BY <1>5, <2>1 DEF CachedVuk
<1>6. CASE KnownVuk \/ VukNeedsMk \/ KnownMk \/ CalcMk \/ CalcMkFails \/ KnownVid \/ ReadVid \/ DeriveVuk
    BY <1>6 DEF KnownVuk, VukNeedsMk, KnownMk, CalcMk, CalcMkFails, KnownVid, ReadVid, DeriveVuk
<1>7. CASE CalcUnitKeys
    <2>1. loc.err = "success" => UnitsDecrypted(loc.err) = h.num
        BY DEF UnitsDecrypted
    <2>2. h.num \in Nat
        BY DEF TypeInv, Handles
    <2> QED BY <1>7, <2>1, <2>2 DEF CalcUnitKeys
<1>8. CASE BusNotEnabled \/ BusNeedsConfig \/ BusNotCapable \/ ReadDataKey
    <2>1. CASE BusNotEnabled
        BY <1>8, <2>1 DEF BusNotEnabled
    <2>2. CASE BusNeedsConfig \/ BusNotCapable \/ ReadDataKey
        <3>1. h.bee /\ h'.bee = h.bee /\ pc' = "opened"
            BY <2>2 DEF BusNeedsConfig, BusNotCapable, ReadDataKey, TypeInv, Handles
        <3> QED BY <3>1
    <2> QED BY <1>8, <2>1, <2>2
<1>9. CASE GetVid \/ GetPmsn \/ GetMk \/ GetBusEncryption
    BY <1>9 DEF GetVid, GetPmsn, GetMk, GetBusEncryption, TypeInv, Handles
<1> QED BY <1>1, <1>2, <1>3, <1>4, <1>5, <1>6, <1>7, <1>8, <1>9 DEF Next

\* A disc whose VUK is cached opens without configuration, certificate or drive, unless it
\* uses bus encryption, whatever else fails and whatever the files on disc and in the cache
\* hold.
THEOREM CacheIsEnough == Spec => []CacheSuffices
<1>1. Init => EnoughInv
    BY DEF Init, EnoughInv, CacheSuffices, Searching
<1>2. TypeInv /\ EnoughInv /\ [Next]_vars => EnoughInv'
    <2>1. EnoughInv /\ UNCHANGED vars => EnoughInv'
        BY DEF vars, EnoughInv, CacheSuffices, InCache
    <2> QED BY <2>1, EnoughStep
<1>3. EnoughInv => CacheSuffices
    BY DEF EnoughInv
<1> QED BY <1>1, <1>2, <1>3, TypeOk, PTL DEF Spec

-----------------------------------------------------------------------------
(* Bus encryption                                                          *)

HasDataKey == h.rdk # NoKey /\ (h.rdk = h.id \/ h.id \in disturbed)

\* aacs_open_device() that succeeds on a disc with bus encryption has asked the drive whether
\* it is capable of it, and if so has its data key.
BusInv ==
    /\ \A d \in Discs : cache["rdk"][d] \in {NoKey, d} \/ d \in disturbed
    /\ Opened /\ h.bee => h.bec \in {0, 1} /\ (h.bec = 1 => HasDataKey)

LEMMA OtherTypeSaved ==
    ASSUME TypeInv, NEW type \in Types, NEW other \in Types \ {type}, NEW key
    PROVE  Saved(type, key)[other] = cache[other]
BY DEF TypeInv, Saved

LEMMA OtherTypeSaving ==
    ASSUME TypeInv, NEW type \in Types, NEW other \in Types \ {type}, NEW key
    PROVE  \A c \in Saving(type, key) : c[other] = cache[other]
BY OtherTypeSaved DEF Saving

LEMMA BusStep == ASSUME TypeInv, BusInv, Next PROVE BusInv'
<1> USE DEF BusInv, HasDataKey, Opened, Goto
<1>1. ASSUME NEW b \in BOOLEAN, AacsInit(b) \/ SetKeyCaching(b) PROVE BusInv'
    BY <1>1 DEF AacsInit, SetKeyCaching, TypeInv, Handles
<1>2. CASE OpenDevice \/ OpenFails \/ AacsClose \/ Crash \/ NewSetup
    <2>1. CASE OpenDevice \/ OpenFails \/ AacsClose \/ NewSetup
        BY <2>1 DEF OpenDevice, OpenFails, AacsClose, NewSetup, Reset
    <2>2. CASE Crash
        <3>1. pc' = "none" /\ disturbed' = disturbed
            BY <2>2 DEF Crash, Reset
        <3>2. cache' = cache \/ \E type \in Types : cache' = Saved(type, NoKey)
            BY <2>2 DEF Crash
        <3>3. \A d \in Discs : cache'["rdk"][d] \in {NoKey, cache["rdk"][d]}
            BY <3>2 DEF Saved, TypeInv, Types
        <3> QED BY <3>1, <3>3
    <2> QED BY <1>2, <2>1, <2>2
<1>3. CASE NoUnitKeys \/ CachedVuk \/ NoConfig \/ FindConfigEntry \/ VukNeedsMk \/ KnownMk \/ KnownVid
    BY <1>3 DEF NoUnitKeys, CachedVuk, NoConfig, FindConfigEntry, VukNeedsMk, KnownMk, KnownVid
<1>4. CASE CalcMk \/ ReadVid \/ DeriveVuk \/ KnownVuk \/ CalcMkFails
    <2>1. cache'["rdk"] = cache["rdk"]
        <3>1. \/ cache' = cache
              \/ \E type \in {"mk", "vid", "vuk"} : \E key : cache' \in Saving(type, key)
            BY <1>4 DEF CalcMk, ReadVid, DeriveVuk, KnownVuk, CalcMkFails
        <3> QED BY <3>1, OtherTypeSaving DEF Types
    <2>2. pc' # "opened" /\ disturbed' = disturbed
        BY <1>4 DEF CalcMk, ReadVid, DeriveVuk, KnownVuk, CalcMkFails, VukReturns
    <2> QED BY <2>1, <2>2
<1>5. CASE CalcUnitKeys
    <2>1. h.num \in Nat
        BY DEF TypeInv, Handles
    <2>2. loc.err = "success" => UnitsDecrypted(loc.err) = h.num
        BY DEF UnitsDecrypted
    <2> QED BY <1>5, <2>1, <2>2 DEF CalcUnitKeys
<1>6. CASE BusNotEnabled \/ BusNeedsConfig \/ BusNotCapable
    BY <1>6 DEF BusNotEnabled, BusNeedsConfig, BusNotCapable, TypeInv, Handles
<1>7. CASE ReadDataKey
    <2>1. h \in Handles /\ h.id = drive /\ drive \in Discs
        BY <1>7 DEF ReadDataKey, TypeInv
    <2>2. PICK a \in DataKeyAnswers(cf, h.rdk) :
            LET fallback == ~a.ok /\ InCache("rdk")
                key == IF fallback THEN cache["rdk"][h.id] ELSE a.key
            IN  /\ h' = [h EXCEPT !.bec = 1, !.rdk = key]
                /\ IF a.ok THEN cache' \in Saving("rdk", key) ELSE UNCHANGED cache
                /\ result' = RdkResult(key, a.ok \/ fallback)
                /\ disturbed' = IF a.ok /\ key # drive THEN disturbed \cup {drive} ELSE disturbed
        BY <1>7 DEF ReadDataKey
    <2>3. a.ok \in BOOLEAN /\ (a.ok => a.key \in {drive, BadKey})
        BY <2>1, DataKeyType DEF Handles
    <2>4. CASE a.ok
        <3>1. /\ h' = [h EXCEPT !.bec = 1, !.rdk = a.key] /\ cache' \in Saving("rdk", a.key)
              /\ disturbed' = IF a.key # drive THEN disturbed \cup {drive} ELSE disturbed
            BY <2>2, <2>4
        <3>2. /\ h'.bec = 1 /\ h'.rdk = a.key /\ h'.id = drive
              /\ a.key # NoKey /\ (a.key = drive \/ drive \in disturbed')
            BY <2>1, <2>3, <2>4, <3>1, WaterfallAssumption DEF Handles
        <3>3. \A d \in Discs : cache'["rdk"][d] \in {NoKey, cache["rdk"][d]}
                                 \/ (d = drive /\ cache'["rdk"][d] = a.key)
            BY <2>1, <3>1 DEF Saving, Saved, TypeInv, Types
        <3>4. disturbed \subseteq disturbed'
            BY <3>1
        <3> QED BY <3>2, <3>3, <3>4
    <2>5. CASE ~a.ok /\ InCache("rdk")
        <3>1. /\ h' = [h EXCEPT !.bec = 1, !.rdk = cache["rdk"][h.id]] /\ cache' = cache
              /\ disturbed' = disturbed
            BY <2>2, <2>5
        <3>2. cache["rdk"][drive] # NoKey /\ (cache["rdk"][drive] = drive \/ drive \in disturbed)
            BY <2>1, <2>5 DEF InCache
        <3> QED BY <2>1, <3>1, <3>2 DEF Handles
    <2>6. CASE ~a.ok /\ ~InCache("rdk")
        BY <2>2, <2>6 DEF RdkResult
    <2> QED BY <2>3, <2>4, <2>5, <2>6
<1>8. CASE GetVid \/ GetMk \/ GetPmsn
    <2>1. cache'["rdk"] = cache["rdk"]
        BY <1>8, OtherTypeSaving DEF GetVid, GetMk, GetPmsn, Types
    <2>2. h'.id = h.id /\ h'.bee = h.bee /\ h'.bec = h.bec /\ h'.rdk = h.rdk
        BY <1>8 DEF GetVid, GetMk, GetPmsn, TypeInv, Handles
    <2> QED BY <1>8, <2>1, <2>2 DEF GetVid, GetMk, GetPmsn
<1>9. CASE GetBusEncryption
    BY <1>9 DEF GetBusEncryption, TypeInv, Handles
<1> QED BY <1>1, <1>2, <1>3, <1>4, <1>5, <1>6, <1>7, <1>8, <1>9 DEF Next

\* A successful open never switches bus decryption on without a data key, for every disc,
\* configuration and drive, and the key is the drive's answer, now or in the open that
\* filled the cache: it is wrong only if an exchange of the data keys was disturbed.
THEOREM BusKeyIsKnown == Spec => []BusKeyKnown
<1>1. Init => BusInv
    BY DEF Init, BusInv, Opened, Types
<1>2. TypeInv /\ BusInv /\ [Next]_vars => BusInv'
    <2>1. BusInv /\ UNCHANGED vars => BusInv'
        BY DEF vars, BusInv, HasDataKey, Opened
    <2> QED BY <2>1, BusStep
<1>3. BusInv => BusKeyKnown
    BY DEF BusInv, HasDataKey, BusKeyKnown
<1> QED BY <1>1, <1>2, <1>3, TypeOk, PTL DEF Spec

-----------------------------------------------------------------------------
(* The keys in the cache                                                   *)

\* The keys listed in the configuration are right.
RightConfigs ==
    \A c \in Configs, d \in Discs :
        LET e == c.entry[d] IN e.mk \in {NoKey, d} /\ e.vid \in {NoKey, d} /\ e.vuk \in {NoKey, d}

\* A VID with a wrong MAC stays in the handle: if the application opens it again, a VUK is
\* derived from it.
NoStaleVid == ~(Reopen /\ BadMac)

\* Until the VUK is derived every key in the handle belongs to the disc.
RightInv ==
    /\ CacheIsRight
    /\ pc \in Calculating => loc.mk \in {NoKey, drive} /\ loc.vuk \in {NoKey, drive}
    /\ pc \in {"read_vid", "derive"} => loc.mk = drive
    /\ pc \in {"closed", "calc_uks"} \cup Searching \/ ~BadMac => h.vid \in {NoKey, drive}
    /\ pc = "derive" => h.vid # NoKey
    /\ pc = "units" /\ loc.err = "success" => loc.vuk = drive

\* A key of the disc in the drive, or none, is saved.
LEMMA RightKeySaving ==
    ASSUME TypeInv, CacheIsRight, NEW type \in Types, NEW key \in {NoKey, drive},
           cache' \in {cache} \cup Saving(type, key), disturbed \subseteq disturbed'
    PROVE  CacheIsRight'
<1>1. ASSUME NEW k \in {NoKey, drive}, cache' = Saved(type, k) PROVE CacheIsRight'
    <2>1. CASE h.noCache \/ h.id = NoDisc
        BY <1>1, <2>1 DEF Saved, CacheIsRight
    <2>2. CASE ~(h.noCache \/ h.id = NoDisc)
        <3>1. cache' = [cache EXCEPT ![type][drive] = k] /\ drive \in Discs
            BY <1>1, <2>2 DEF Saved, TypeInv
        <3> QED BY <3>1 DEF CacheIsRight, TypeInv
    <2> QED BY <2>1, <2>2
<1>2. CASE cache' = cache
    BY <1>2 DEF CacheIsRight
<1> QED BY <1>1, <1>2 DEF Saving

LEMMA RightVukReturns ==
    ASSUME TypeInv, RightInv, pc \in Searching, NEW handle \in Handles, NEW vuk \in {NoKey, drive}, NEW err,
           VukReturns(handle, vuk, err), err = "success" => vuk = drive,
           ~BadMac => handle.vid \in {NoKey, drive},
           drive' = drive, CacheIsRight'
    PROVE  RightInv'
<1>1. CASE loc.caller = "count" /\ err # "success"
    <2>1. pc' = "bus" /\ h'.vid = handle.vid
        BY <1>1 DEF VukReturns, Goto, Handles
    <2> QED BY <2>1 DEF RightInv, Calculating, Searching
<1>2. CASE ~(loc.caller = "count" /\ err # "success")
    <2>1. h' = handle /\ loc' = [loc EXCEPT !.vuk = vuk, !.err = err] /\ pc' = "units"
        BY <1>2 DEF VukReturns, Goto
    <2>2. loc'.vuk = vuk /\ loc'.err = err /\ loc'.mk = loc.mk
        BY <2>1 DEF TypeInv, Locals
    <2> QED BY <2>1, <2>2 DEF RightInv, CacheIsRight, Calculating, Searching
<1> QED BY <1>1, <1>2

LEMMA RightStep == ASSUME RightConfigs, NoStaleVid, TypeInv, RightInv, Next PROVE RightInv'
<1>1. ASSUME NEW b \in BOOLEAN, AacsInit(b) PROVE RightInv'
    <2>1. h'.vid = NoKey /\ pc' = "closed" /\ cache' = cache /\ disturbed' = disturbed /\ drive' = drive
        BY <1>1 DEF AacsInit, NewHandle, Goto, outside
    <2> QED BY <2>1 DEF RightInv, CacheIsRight, Calculating, Searching
<1>2. ASSUME NEW b \in BOOLEAN, SetKeyCaching(b) PROVE RightInv'
    <2>1. /\ h'.vid = h.vid /\ pc' = pc /\ cache' = cache /\ disturbed' = disturbed /\ drive' = drive
          /\ pc \in {"closed", "opened"}
        BY <1>2 DEF SetKeyCaching, TypeInv, Handles, outside
    <2> QED BY <2>1 DEF RightInv, CacheIsRight, Calculating, Searching
<1>3. CASE OpenDevice
    <2>1. h'.vid = h.vid /\ h.vid \in {NoKey, drive}
        BY <1>3 DEF OpenDevice, TypeInv, Handles, RightInv, NoStaleVid
    <2>2. loc'.mk = NoKey /\ loc'.vuk = NoKey
        BY <1>3 DEF OpenDevice, NewLocals
    <2> QED BY <1>3, <2>1, <2>2 DEF OpenDevice, Goto, outside, RightInv, CacheIsRight, Calculating, Searching
<1>4. CASE OpenFails
    <2>1. h'.vid = h.vid /\ pc' = "opened" /\ cache' = cache /\ disturbed' = disturbed /\ drive' = drive
        BY <1>4 DEF OpenFails, TypeInv, Handles, Goto, outside
    <2> QED BY <2>1 DEF RightInv, CacheIsRight, Calculating, Searching
<1>5. CASE AacsClose \/ Crash
    <2>1. h'.vid = NoKey /\ pc' = "none" /\ disturbed' = disturbed
        BY <1>5 DEF AacsClose, Crash, Reset, Goto, NewHandle
    <2>2. CacheIsRight'
        <3>1. cache' = cache \/ \E type \in Types : cache' = Saved(type, NoKey)
            BY <1>5 DEF AacsClose, Crash
        <3>2. \E type \in Types : cache' \in {cache} \cup Saving(type, NoKey)
            BY <3>1 DEF Saving, Types
        <3> QED BY <2>1, <3>2, RightKeySaving DEF RightInv
    <2> QED BY <2>1, <2>2 DEF RightInv, Calculating, Searching
<1>6. CASE NewSetup
    <2>1. h'.vid = NoKey /\ pc' = "none" /\ cache' = cache /\ disturbed' = disturbed
        BY <1>6 DEF NewSetup, TypeInv, NewHandle
    <2> QED BY <2>1 DEF RightInv, CacheIsRight, Calculating, Searching
<1>7. ASSUME pc \in Calculating
      PROVE  h.id = drive /\ h \in Handles /\ loc \in Locals /\ drive \in Discs
             /\ \A type \in Types \ {"rdk"} : InCache(type) => cache[type][h.id] = drive
    BY <1>7 DEF TypeInv, InCache, RightInv, CacheIsRight
<1>8. CASE NoUnitKeys \/ VukNeedsMk \/ KnownVid
    BY <1>8 DEF NoUnitKeys, VukNeedsMk, KnownVid, Goto, outside, RightInv, CacheIsRight, Calculating, Searching
<1>9. CASE CachedVuk \/ NoConfig
    <2>1. pc = "calc_uks" /\ pc' = "units" /\ h' = h /\ cache' = cache /\ disturbed' = disturbed /\ drive' = drive
        BY <1>9 DEF CachedVuk, NoConfig, Goto, outside
    <2>2. /\ loc'.mk = loc.mk /\ loc'.vuk \in {NoKey, drive}
          /\ loc'.err = "success" => loc'.vuk = drive
        BY <1>7, <1>9, <2>1 DEF CachedVuk, NoConfig, Locals, RightInv, Calculating, Types
    <2> QED BY <2>1, <2>2 DEF RightInv, CacheIsRight, Calculating, Searching
<1>10. CASE FindConfigEntry
    <2>1. pc = "calc_uks" /\ pc' \in {"bus", "calc_vuk"} /\ cache' = cache /\ disturbed' = disturbed /\ drive' = drive
        BY <1>10 DEF FindConfigEntry, Goto, outside
    <2>2. entry.mk \in {NoKey, drive} /\ entry.vid \in {NoKey, drive} /\ entry.vuk \in {NoKey, drive}
        BY <1>7, <2>1 DEF RightConfigs, TypeInv, entry, cf, Calculating
    <2>3. h'.vid \in {NoKey, drive}
        BY <1>7, <1>10, <2>1, <2>2 DEF FindConfigEntry, Given, Handles, RightInv, Calculating
    <2>4. loc'.mk \in {NoKey, drive} /\ loc'.vuk \in {NoKey, drive}
        BY <1>7, <1>10, <2>1, <2>2 DEF FindConfigEntry, Given, Locals, RightInv, Calculating
    <2> QED BY <2>1, <2>3, <2>4 DEF RightInv, CacheIsRight, Calculating, Searching
<1>11. CASE KnownVuk
    <2>1. pc \in Searching /\ pc \in Calculating /\ cache' = cache /\ disturbed' = disturbed /\ drive' = drive
        BY <1>11 DEF KnownVuk, outside, Searching, Calculating
    <2>2. VukReturns(h, drive, "success")
        BY <1>7, <1>11, <2>1 DEF KnownVuk, RightInv, Types
    <2>3. ~BadMac => h.vid \in {NoKey, drive}
        BY DEF RightInv
    <2> QED BY <1>7, <2>1, <2>2, <2>3, RightVukReturns DEF RightInv, CacheIsRight
<1>12. CASE KnownMk
    <2>1. pc = "calc_mk" /\ pc' = "read_vid" /\ h' = h /\ cache' = cache /\ disturbed' = disturbed /\ drive' = drive
        BY <1>12 DEF KnownMk, Goto, outside
    <2>2. loc'.mk = drive /\ loc'.vuk = loc.vuk
        BY <1>7, <1>12, <2>1 DEF KnownMk, Locals, RightInv, Calculating, Searching, Types
    <2> QED BY <2>1, <2>2 DEF RightInv, CacheIsRight, Calculating, Searching
<1>13. CASE CalcMk
    <2>1. /\ pc = "calc_mk" /\ pc' = "read_vid" /\ cache' \in Saving("mk", drive)
          /\ drive' = drive /\ disturbed' = disturbed
        BY <1>13 DEF CalcMk, Goto, outside
    <2>2. loc'.mk = drive /\ loc'.vuk = loc.vuk /\ h'.vid = h.vid
        BY <1>7, <1>13, <2>1 DEF CalcMk, Locals, Handles, Calculating, Searching
    <2>3. CacheIsRight'
        BY <2>1, RightKeySaving DEF RightInv, Types
    <2> QED BY <2>1, <2>2, <2>3 DEF RightInv, Calculating, Searching
<1>14. CASE CalcMkFails
    <2>1. pc \in Searching /\ pc \in Calculating /\ cache' = cache /\ disturbed' = disturbed /\ drive' = drive
        BY <1>14 DEF CalcMkFails, outside, Searching, Calculating
    <2>2. PICK err \in {"no_pk", "corrupted"} : VukReturns(h, NoKey, err)
        BY <1>14 DEF CalcMkFails
    <2>3. ~BadMac => h.vid \in {NoKey, drive}
        BY DEF RightInv
    <2> QED BY <1>7, <2>1, <2>2, <2>3, RightVukReturns DEF RightInv, CacheIsRight
<1>15. CASE ReadVid
    <2>1. /\ pc = "read_vid" /\ pc \in Searching /\ pc \in Calculating /\ drive' = drive
          /\ disturbed' = disturbed
        BY <1>15 DEF ReadVid, outside, Searching, Calculating
    <2>2. PICK a \in Answers(cf, h.vid) :
            IF VidOk(a)
            THEN /\ h' = [h EXCEPT !.vid = a.key] /\ cache' \in Saving("vid", a.key)
                 /\ pc' = "derive" /\ loc' = loc
            ELSE VukReturns([h EXCEPT !.vid = a.key], NoKey, "mmc") /\ cache' = cache
        BY <1>15 DEF ReadVid, Goto
    <2>3. a.key \in Keys /\ (a.ok => a.key = drive)
        BY <1>7, <2>1, AnswerType DEF Handles
    <2>4. CASE a.ok
        <3>1. /\ h' = [h EXCEPT !.vid = drive] /\ cache' \in Saving("vid", drive)
              /\ pc' = "derive" /\ loc' = loc
            BY <2>2, <2>3, <2>4 DEF VidOk
        <3>2. h'.vid = drive /\ drive # NoKey
            BY <1>7, <2>1, <3>1, WaterfallAssumption DEF Handles
        <3>3. CacheIsRight'
            BY <2>1, <3>1, RightKeySaving DEF RightInv, Types
        <3> QED BY <2>1, <3>1, <3>2, <3>3 DEF RightInv, Calculating, Searching
    <2>5. CASE ~a.ok
        <3> DEFINE read == [h EXCEPT !.vid = a.key]
        <3>1. VukReturns(read, NoKey, "mmc") /\ cache' = cache
            BY <2>2, <2>5 DEF VidOk
        <3>2. read \in Handles /\ read.vid = a.key
            BY <1>7, <2>1, <2>3 DEF Handles
        <3>3. ~BadMac => a.key = h.vid
            BY <2>5 DEF Answers, Exchange
        <3> HIDE DEF read
        <3> QED BY <2>1, <3>1, <3>2, <3>3, RightVukReturns DEF RightInv, CacheIsRight
    <2> QED BY <2>4, <2>5
<1>16. CASE DeriveVuk
    <2>1. /\ pc = "derive" /\ pc \in Searching /\ pc \in Calculating /\ drive' = drive
          /\ cache' \in Saving("vuk", Derived(loc.mk, h.vid)) /\ disturbed' = disturbed
          /\ VukReturns(h, Derived(loc.mk, h.vid), "success")
        BY <1>16 DEF DeriveVuk, outside, Searching, Calculating
    <2>2. h.vid = drive /\ loc.mk = drive
        BY <2>1 DEF RightInv
    <2>3. Derived(loc.mk, h.vid) = drive
        BY <1>7, <2>1, <2>2 DEF Derived
    <2>4. CacheIsRight'
        BY <2>1, <2>3, RightKeySaving DEF RightInv, Types
    <2>5. VukReturns(h, drive, "success") /\ (~BadMac => h.vid \in {NoKey, drive})
        BY <2>1, <2>2, <2>3
    <2> QED BY <1>7, <2>1, <2>4, <2>5, RightVukReturns
<1>17. CASE CalcUnitKeys \/ BusNotEnabled \/ BusNeedsConfig \/ BusNotCapable
    <2>1. h'.vid = h.vid /\ cache' = cache /\ disturbed' = disturbed /\ drive' = drive /\ pc' \in {"bus", "opened"}
        BY <1>17 DEF CalcUnitKeys, BusNotEnabled, BusNeedsConfig, BusNotCapable, Goto, TypeInv, Handles, outside
    <2> QED BY <2>1 DEF RightInv, CacheIsRight, Calculating, Searching
<1>18. CASE ReadDataKey
    <2>1. h'.vid = h.vid /\ drive' = drive /\ pc' = "opened"
        BY <1>18 DEF ReadDataKey, Goto, TypeInv, Handles, outside
    <2>2. PICK key : /\ cache' \in {cache} \cup Saving("rdk", key) /\ disturbed \subseteq disturbed'
                     /\ cache' = cache \/ key = drive \/ drive \in disturbed'
        BY <1>18 DEF ReadDataKey
    <2>3. ASSUME drive \in disturbed', NEW k, cache' = Saved("rdk", k) PROVE CacheIsRight'
        <3>1. CASE h.noCache \/ h.id = NoDisc
            BY <2>2, <2>3, <3>1 DEF Saved, CacheIsRight, RightInv
        <3>2. CASE ~(h.noCache \/ h.id = NoDisc)
            <4>1. cache' = [cache EXCEPT !["rdk"][drive] = k] /\ drive \in Discs
                BY <2>3, <3>2 DEF Saved, TypeInv
            <4> QED BY <2>2, <2>3, <4>1 DEF CacheIsRight, RightInv, TypeInv, Types
        <3> QED BY <3>1, <3>2
    <2>4. CacheIsRight'
        <3>1. CASE cache' = cache
            BY <2>2, <3>1 DEF CacheIsRight, RightInv
        <3>2. CASE cache' # cache /\ key = drive
            BY <2>2, <3>2, RightKeySaving DEF RightInv, Types
        <3>3. CASE cache' # cache /\ drive \in disturbed'
            BY <2>2, <2>3, <3>3 DEF Saving
        <3> QED BY <2>2, <3>1, <3>2, <3>3
    <2> QED BY <2>1, <2>4 DEF RightInv, Calculating, Searching
<1>19. CASE GetVid
    <2>1. \A a \in Answers(conf.default, h.vid) : (a.ok => a.key = drive) /\ (~BadMac => a.key \in {h.vid, drive})
        <3>1. \A a \in Answers(conf.default, h.vid) : a.ok => a.key = drive
            BY AnswerType DEF TypeInv, Handles
        <3> QED BY <3>1 DEF Answers, Exchange
    <2>2. cache' \in {cache} \cup Saving("vid", drive) /\ disturbed' = disturbed
        BY <1>19, <2>1 DEF GetVid, VidOk
    <2>3. CacheIsRight'
        BY <2>2, RightKeySaving DEF RightInv, Types
    <2>4. InCache("vid") => cache["vid"][h.id] = drive
        BY WaterfallAssumption DEF InCache, TypeInv, RightInv, CacheIsRight, Types
    <2>5. ~BadMac => h'.vid \in {NoKey, drive}
        BY <1>19, <2>1, <2>4 DEF GetVid, TypeInv, Handles, RightInv
    <2> QED BY <1>19, <2>3, <2>5 DEF GetVid, outside, RightInv, Calculating, Searching
<1>20. CASE GetPmsn \/ GetMk \/ GetBusEncryption
    <2>1. h'.vid = h.vid /\ drive' = drive /\ pc = "opened" /\ pc' = "opened"
        BY <1>20 DEF GetPmsn, GetMk, GetBusEncryption, TypeInv, Handles, outside
    <2>2. cache' \in {cache} \cup Saving("mk", drive) /\ disturbed' = disturbed
        BY <1>20 DEF GetPmsn, GetMk, GetBusEncryption
    <2>3. CacheIsRight'
        BY <2>2, RightKeySaving DEF RightInv, Types
    <2> QED BY <2>1, <2>3 DEF RightInv, Calculating, Searching
<1> QED BY <1>1, <1>2, <1>3, <1>4, <1>5, <1>6, <1>8, <1>9, <1>10, <1>11, <1>12, <1>13, <1>14,
           <1>15, <1>16, <1>17, <1>18, <1>19, <1>20 DEF Next

LEMMA RightInvariant == ASSUME RightConfigs, NoStaleVid PROVE Spec => []RightInv
<1>1. Init => RightInv
    BY DEF Init, NewHandle, RightInv, CacheIsRight, Calculating, Searching
<1>2. TypeInv /\ RightInv /\ [Next]_vars => RightInv'
    <2>1. RightInv /\ UNCHANGED vars => RightInv'
        BY DEF vars, RightInv, CacheIsRight
    <2> QED BY <2>1, RightStep
<1> QED BY <1>1, <1>2, TypeOk, PTL DEF Spec

\* A key in the cache belongs to the disc it is filed under, whatever failed or was killed on
\* the way, if the configuration lists no wrong keys and a handle is not opened again after
\* a wrong MAC.
THEOREM CacheStaysRight == ASSUME RightConfigs, NoStaleVid PROVE Spec => []CacheIsRight
<1>1. RightInv => CacheIsRight
    BY DEF RightInv
<1> QED BY <1>1, RightInvariant, PTL

-----------------------------------------------------------------------------
(* The unit keys of a successful open                                      *)

HasKeys == \A i \in Encrypted[h.id] : FoundEncrypted(i) => KeyKnown(i) \/ ListLacks(i)

\* What the entry lists is known while the VUK is looked for; a list of the wrong length is
\* not used before the search has failed.
KeysInv ==
    /\ pc = "calc_uks" => loc.mk = NoKey /\ loc.vuk = NoKey
    /\ pc \in Searching =>
          /\ loc.caller = "count" => entry.uk # <<>>
          /\ entry.vuk # NoKey => loc.vuk # NoKey
          /\ entry.mk # NoKey => loc.mk # NoKey
          /\ entry.vid # NoKey => h.vid # NoKey
    /\ pc \in Searching \ {"calc_vuk"} => loc.vuk = NoKey
    /\ pc = "bus" \/ Opened => HasKeys

\* The least-number principle, from the well-foundedness of < on the naturals.
LEMMA NatOrder == \E R : IsWellFoundedOn(R, Nat) /\ \A x, y \in Nat : x < y => <<x, y>> \in R
<1>1. \A x, y \in Nat : x < y => <<x, y>> \in OpToRel(<, Nat)
    BY DEF OpToRel
<1> QED BY <1>1, NatLessThanWellFounded, Zenon

LEMMA LeastNatural ==
    ASSUME NEW T, T \subseteq Nat, T # {}
    PROVE  \E x \in T : \A y \in T : x <= y
<1>1. PICK R : IsWellFoundedOn(R, Nat) /\ \A x, y \in Nat : x < y => <<x, y>> \in R
    BY NatOrder
<1>2. IsWellFoundedOn(R, Nat)
    BY <1>1
<1>3. PICK x \in T : \A y \in T : ~(<<y, x>> \in R)
    BY <1>2, WFMin
<1>4. ASSUME NEW y \in T PROVE x <= y
    <2>1. x \in Nat /\ y \in Nat
        OBVIOUS
    <2>2. ~(y < x)
        BY <1>1, <1>3, <2>1
    <2> QED BY <2>1, <2>2
<1> QED BY <1>4

\* Without a VUK the loop over the units stops at the first encrypted one.
LEMMA StopsAtEncrypted ==
    ASSUME h.num \in Nat, NEW err, err # "success", NEW i \in 1 .. h.num, FoundEncrypted(i)
    PROVE  UnitsDecrypted(err) < h.num
<1> DEFINE T == {j \in 1 .. h.num : FoundEncrypted(j)}
           Stop(n) == FoundEncrypted(n + 1) /\ \A j \in 1 .. n : ~FoundEncrypted(j)
<1>1. PICK x \in T : \A y \in T : x <= y
    <2>1. T \subseteq Nat /\ T # {}
        OBVIOUS
    <2> HIDE DEF T
    <2> QED BY <2>1, LeastNatural
<1>2. x - 1 \in 0 .. h.num - 1 /\ x - 1 + 1 = x
    OBVIOUS
<1>3. \A j \in 1 .. x - 1 : ~FoundEncrypted(j)
    BY <1>1, <1>2
<1>4. \E n \in 0 .. h.num - 1 : Stop(n)
    BY <1>1, <1>2, <1>3
<1> HIDE DEF Stop
<1>5. (CHOOSE n \in 0 .. h.num - 1 : Stop(n)) \in 0 .. h.num - 1
    BY <1>4
<1>6. UnitsDecrypted(err) = CHOOSE n \in 0 .. h.num - 1 : Stop(n)
    BY DEF UnitsDecrypted, Stop
<1> QED BY <1>5, <1>6

\* The keys of a list: a unit has its key if it is in its place.
LEMMA ListGivesKeys ==
    ASSUME TypeInv, h.id = drive, NEW n \in Nat, NumUk[drive] <= n, NEW i \in Encrypted[drive]
    PROVE  \/ ConfigKeys(n) # <<>> /\ ConfigKeys(n)[i] = drive
           \/ i > Len(entry.uk) \/ entry.uk[i] # i
<1>1. i \in 1 .. NumUk[drive] /\ NumUk[drive] \in Nat
    BY WaterfallAssumption DEF TypeInv
<1>2. Len(entry.uk) \in Nat
    BY EntryType DEF Entries
<1>3. i \in 1 .. n
    BY <1>1
<1>4. ASSUME ConfigKeys(n) = <<>> PROVE FALSE
    BY <1>3, <1>4, ConfigKeysType
<1>5. i <= Len(entry.uk) /\ entry.uk[i] = i => ConfigKeys(n)[i] = drive
    BY <1>3, ConfigKeysType
<1>6. i > Len(entry.uk) \/ i <= Len(entry.uk)
    BY <1>2, <1>3
<1> QED BY <1>4, <1>5, <1>6

\* A list is used for a reason: it has the right length, or the entry does not lead to the VUK.
LEMMA ListIsUsed ==
    ASSUME TypeInv, h.id = drive, entry.uk # <<>>, NEW n \in Nat, NumUk[drive] <= n,
           \/ Len(entry.uk) = NumUk[drive]
           \/ entry.vuk = NoKey /\ (entry.mk = NoKey \/ entry.vid = NoKey),
           h'.id = drive, h'.num = n, h'.uk = ConfigKeys(n), conf' = conf
    PROVE  HasKeys'
<1>1. entry' = entry
    BY DEF entry, cf
<1>2. ConfigKeys(n)' = ConfigKeys(n)
    BY <1>1 DEF ConfigKeys
<1>3. ASSUME NEW i \in Encrypted[drive] PROVE KeyKnown(i)' \/ ListLacks(i)'
    <2>1. CASE ConfigKeys(n) # <<>> /\ ConfigKeys(n)[i] = drive
        BY <2>1 DEF KeyKnown
    <2>2. CASE i > Len(entry.uk) \/ entry.uk[i] # i
        BY <1>1, <1>2, <2>2 DEF ListLacks
    <2> QED BY <2>1, <2>2, ListGivesKeys
<1> QED BY <1>3 DEF HasKeys

LEMMA KeysVukReturns ==
    ASSUME TypeInv, KeysInv, pc \in Searching, NEW handle \in Handles,
           handle.id = drive, handle.num = NumUk[drive], NEW vuk, NEW err,
           err # "success" => entry.vuk = NoKey /\ (entry.mk = NoKey \/ entry.vid = NoKey),
           VukReturns(handle, vuk, err), conf' = conf
    PROVE  KeysInv'
<1>1. h.id = drive
    BY DEF TypeInv, Calculating
<1>2. CASE loc.caller = "count" /\ err # "success"
    <2> DEFINE n == Larger(handle.num, Len(entry.uk))
    <2>1. n \in Nat /\ NumUk[drive] <= n /\ entry.uk # <<>> /\ Raised(handle.num) = n
        BY <1>1, <1>2, EntryType DEF KeysInv, Larger, Raised, Entries, Handles
    <2>2. pc' = "bus" /\ h' = [handle EXCEPT !.num = n, !.uk = ConfigKeys(n)]
        BY <1>2, <2>1 DEF VukReturns, Goto
    <2> HIDE DEF n
    <2>3. h'.id = drive /\ h'.num = n /\ h'.uk = ConfigKeys(n)
        BY <2>2 DEF Handles
    <2>4. HasKeys'
        BY <1>1, <1>2, <2>1, <2>3, ListIsUsed
    <2> QED BY <2>2, <2>4 DEF KeysInv, Searching
<1>3. CASE ~(loc.caller = "count" /\ err # "success")
    <2>1. pc' = "units"
        BY <1>3 DEF VukReturns, Goto
    <2> QED BY <2>1 DEF KeysInv, Opened, Searching
<1> QED BY <1>2, <1>3

\* What is known of the unit keys stays true while they and the configuration do not change.
LEMMA SameKeys ==
    ASSUME h'.id = h.id, h'.uk = h.uk, h'.num = h.num, conf' = conf
    PROVE  HasKeys' <=> HasKeys
<1>1. entry' = entry
    BY DEF entry, cf
<1>2. ConfigKeys(h.num)' = ConfigKeys(h.num)
    BY <1>1 DEF ConfigKeys
<1> QED BY <1>1, <1>2 DEF HasKeys, FoundEncrypted, KeyKnown, ListLacks

LEMMA KeysStep ==
    ASSUME TypeInv, RightInv, KeysInv, Next
    PROVE  KeysInv'
<1>1. ASSUME NEW b \in BOOLEAN, AacsInit(b) PROVE KeysInv'
    BY <1>1 DEF AacsInit, Goto, KeysInv, Opened, Searching
<1>2. ASSUME NEW b \in BOOLEAN, SetKeyCaching(b) PROVE KeysInv'
    <2>1. h'.id = h.id /\ h'.uk = h.uk /\ h'.num = h.num /\ conf' = conf
        BY <1>2 DEF SetKeyCaching, TypeInv, Handles, outside
    <2>2. HasKeys => HasKeys'
        BY <2>1, SameKeys
    <2> QED BY <1>2, <2>1, <2>2 DEF SetKeyCaching, KeysInv, Opened, Searching
<1>3. CASE OpenDevice \/ OpenFails \/ AacsClose \/ Crash \/ NewSetup
    <2>1. OpenDevice => loc'.mk = NoKey /\ loc'.vuk = NoKey
        BY DEF OpenDevice, NewLocals
    <2> QED BY <1>3, <2>1 DEF OpenDevice, OpenFails, AacsClose, Crash, NewSetup, Reset, Goto, KeysInv,
            Opened, Searching
<1>4. ASSUME pc \in Calculating
      PROVE  /\ h.id = drive /\ h.num = NumUk[drive] /\ h.num \in Nat /\ h \in Handles
             /\ loc \in Locals /\ drive \in Discs /\ Encrypted[drive] \subseteq 1 .. h.num
    BY <1>4, WaterfallAssumption DEF TypeInv
<1>5. CASE NoUnitKeys
    <2>1. Encrypted[h.id] = {}
        BY <1>4, <1>5 DEF NoUnitKeys, Calculating
    <2> QED BY <1>5, <2>1 DEF NoUnitKeys, Goto, KeysInv, HasKeys, Searching
<1>6. CASE CachedVuk \/ NoConfig
    BY <1>6 DEF CachedVuk, NoConfig, Goto, KeysInv, Opened, Searching
<1>7. CASE FindConfigEntry
    <2>1. pc = "calc_uks" /\ conf' = conf
        BY <1>7 DEF FindConfigEntry, outside
    <2>2. h'.id = h.id
        BY <1>7 DEF FindConfigEntry, TypeInv, Handles
    <2>3. entry' = entry
        BY <2>1, <2>2 DEF entry, cf
    <2>4. CASE Len(entry.uk) = h.num
        <3>1. h' = [h EXCEPT !.mk = Given(entry.mk, @), !.vid = Given(entry.vid, @),
                              !.uk = ConfigKeys(h.num)] /\ pc' = "bus"
            BY <1>7, <2>4 DEF FindConfigEntry, Goto
        <3>2. h'.uk = ConfigKeys(h.num) /\ h'.num = h.num /\ h'.id = drive
            BY <1>4, <2>1, <3>1 DEF Handles, Calculating
        <3>3. entry.uk # <<>>
            BY <1>7, <2>4 DEF FindConfigEntry
        <3>4. HasKeys'
            BY <1>4, <2>1, <2>4, <3>2, <3>3, ListIsUsed DEF Calculating
        <3> QED BY <3>1, <3>4 DEF KeysInv, Searching
    <2>5. CASE Len(entry.uk) # h.num
        <3>1. pc' = "calc_vuk" /\ loc'.caller = IF entry.uk = <<>> THEN "final" ELSE "count"
            BY <1>7, <2>5 DEF FindConfigEntry, Goto, TypeInv, Locals
        <3>2. /\ loc'.mk = Given(entry.mk, loc.mk) /\ loc'.vuk = Given(entry.vuk, loc.vuk)
              /\ h'.vid = Given(entry.vid, h.vid)
            BY <1>4, <1>7, <2>1, <2>5 DEF FindConfigEntry, Locals, Handles, Calculating
        <3> QED BY <2>3, <3>1, <3>2 DEF KeysInv, Opened, Searching, Given
    <2> QED BY <2>4, <2>5
<1>8. CASE VukNeedsMk \/ KnownMk \/ CalcMk \/ KnownVid
    <2>1. /\ pc \in Searching /\ pc' \in Searching \ {"calc_vuk"} /\ conf' = conf
          /\ pc = "calc_vuk" => loc.vuk = NoKey
        BY <1>8 DEF VukNeedsMk, KnownMk, CalcMk, KnownVid, Goto, outside, Searching
    <2>2. h'.id = h.id /\ h'.vid = h.vid /\ loc'.caller = loc.caller /\ loc'.vuk = loc.vuk
        BY <1>8 DEF VukNeedsMk, KnownMk, CalcMk, KnownVid, TypeInv, Handles, Locals
    <2>3. loc.mk # NoKey => loc'.mk # NoKey
        BY <1>8 DEF VukNeedsMk, KnownMk, CalcMk, KnownVid, TypeInv, Locals
    <2>4. loc.vuk = NoKey
        BY <2>1 DEF KeysInv
    <2> QED BY <2>1, <2>2, <2>3, <2>4 DEF KeysInv, Opened, Searching, entry, cf
<1>9. CASE KnownVuk \/ CalcMkFails \/ DeriveVuk
    <2>1. pc \in Searching /\ pc \in Calculating /\ conf' = conf
        BY <1>9 DEF KnownVuk, CalcMkFails, DeriveVuk, Searching, Calculating, outside
    <2>2. PICK vuk, err : VukReturns(h, vuk, err) /\ (err # "success" => CalcMkFails)
        BY <1>9 DEF KnownVuk, CalcMkFails, DeriveVuk
    <2>3. CalcMkFails => entry.vuk = NoKey /\ entry.mk = NoKey
        BY DEF CalcMkFails, KeysInv, Searching
    <2> QED BY <1>4, <2>1, <2>2, <2>3, KeysVukReturns
<1>10. CASE ReadVid
    <2>1. pc \in Searching /\ pc \in Calculating /\ conf' = conf
        BY <1>10 DEF ReadVid, outside, Searching, Calculating
    <2>2. PICK a \in Answers(cf, h.vid) :
            \/ a.ok /\ h' = [h EXCEPT !.vid = a.key] /\ pc' = "derive" /\ loc' = loc
            \/ VukReturns([h EXCEPT !.vid = a.key], NoKey, "mmc")
        BY <1>10 DEF ReadVid, VidOk, Goto
    <2>3. a.key \in Keys /\ (a.ok => a.key = drive)
        BY <1>4, <2>1, AnswerType DEF Handles
    <2> DEFINE read == [h EXCEPT !.vid = a.key]
    <2>4. read \in Handles /\ read.id = drive /\ read.num = NumUk[drive]
        BY <1>4, <2>1, <2>3 DEF Handles
    <2> HIDE DEF read
    <2>5. CASE a.ok /\ h' = read /\ pc' = "derive" /\ loc' = loc
        <3>1. h'.vid = a.key /\ a.key # NoKey /\ h'.id = h.id
            BY <1>4, <2>1, <2>4, <2>3, <2>5, WaterfallAssumption DEF Handles, read
        <3> QED BY <1>10, <2>1, <2>5, <3>1 DEF ReadVid, KeysInv, Opened, Searching, entry, cf
    <2>6. CASE VukReturns(read, NoKey, "mmc")
        <3>1. entry.vuk = NoKey /\ entry.vid = NoKey
            BY <1>10 DEF ReadVid, KeysInv, Searching
        <3> QED BY <2>1, <2>4, <2>6, <3>1, KeysVukReturns
    <2> QED BY <2>2, <2>5, <2>6 DEF read
<1>11. CASE CalcUnitKeys
    <2> DEFINE n == UnitsDecrypted(loc.err)
               uks == [i \in 1 .. h.num |-> IF i <= n THEN Derived(loc.vuk, h.id) ELSE NoKey]
    <2>1. /\ h' = [h EXCEPT !.uk = uks] /\ result' = (IF n < h.num THEN loc.err ELSE "success")
          /\ pc' = (IF n < h.num THEN "opened" ELSE "bus") /\ pc \in Calculating /\ pc = "units"
        BY <1>11 DEF CalcUnitKeys, Goto, Calculating
    <2>2. h'.id = drive /\ h'.uk = uks
        BY <1>4, <2>1 DEF Handles
    <2>3. CASE loc.err = "success"
        <3>1. n = h.num /\ pc' = "bus"
            BY <1>4, <2>1, <2>3 DEF UnitsDecrypted
        <3>2. Derived(loc.vuk, h.id) = drive
            BY <1>4, <2>1, <2>3 DEF RightInv, Derived
        <3>3. ASSUME NEW i \in 1 .. h.num PROVE uks # <<>> /\ uks[i] = drive
            <4>1. uks[i] = drive
                BY <3>1, <3>2
            <4>2. i \in DOMAIN uks /\ DOMAIN <<>> = {}
                OBVIOUS
            <4> QED BY <4>1, <4>2
        <3> HIDE DEF uks
        <3> QED BY <1>4, <2>1, <2>2, <3>1, <3>3 DEF KeysInv, HasKeys, KeyKnown, Searching
    <2>4. CASE loc.err # "success" /\ n < h.num
        BY <2>1, <2>4 DEF KeysInv, Opened, Searching
    <2>5. CASE loc.err # "success" /\ ~(n < h.num)
        <3>1. \A i \in 1 .. h.num : ~FoundEncrypted(i)
            BY <1>4, <2>1, <2>5, StopsAtEncrypted
        <3>2. \A i \in Encrypted[h'.id] : ~FoundEncrypted(i)'
            BY <1>4, <2>1, <2>2, <3>1 DEF FoundEncrypted
        <3> QED BY <2>1, <2>5, <3>2 DEF KeysInv, HasKeys, Searching
    <2> QED BY <2>3, <2>4, <2>5
<1>12. CASE BusNotEnabled \/ BusNeedsConfig \/ BusNotCapable \/ ReadDataKey
    <2>1. h'.id = h.id /\ h'.uk = h.uk /\ h'.num = h.num /\ conf' = conf
        BY <1>12 DEF BusNotEnabled, BusNeedsConfig, BusNotCapable, ReadDataKey, TypeInv, Handles, outside
    <2>2. pc = "bus" /\ pc' = "opened"
        BY <1>12 DEF BusNotEnabled, BusNeedsConfig, BusNotCapable, ReadDataKey, Goto
    <2> QED BY <2>1, <2>2, SameKeys DEF KeysInv, Searching
<1>13. CASE GetVid \/ GetPmsn \/ GetMk \/ GetBusEncryption
    <2>1. h'.id = h.id /\ h'.uk = h.uk /\ h'.num = h.num /\ conf' = conf
        BY <1>13 DEF GetVid, GetPmsn, GetMk, GetBusEncryption, TypeInv, Handles, outside
    <2>2. pc' = "opened" /\ pc = "opened" /\ result' = result
        BY <1>13 DEF GetVid, GetPmsn, GetMk, GetBusEncryption
    <2> QED BY <2>1, <2>2, SameKeys DEF KeysInv, Opened, Searching
<1> QED BY <1>1, <1>2, <1>3, <1>5, <1>6, <1>7, <1>8, <1>9, <1>10, <1>11, <1>12, <1>13 DEF Next

\* When aacs_open_device() returns AACS_SUCCESS every CPS unit that is encrypted, and is found
\* to be by its usage file, has its key, for every disc and configuration: whether the VUK was
\* cached, listed or derived, and whatever failed before.  A list of unit keys of the right
\* length is taken as it is, any other only if the entry does not lead to the VUK.
THEOREM SuccessMeansKeys == ASSUME RightConfigs, NoStaleVid PROVE Spec => []SuccessGivesKeys
<1>1. Init => KeysInv
    BY DEF Init, KeysInv, Opened, Searching
<1>2. TypeInv /\ RightInv /\ KeysInv /\ [Next]_vars => KeysInv'
    <2>1. KeysInv /\ UNCHANGED vars => KeysInv'
        BY SameKeys DEF vars, KeysInv, Opened, entry, cf
    <2> QED BY <2>1, KeysStep
<1>3. KeysInv => SuccessGivesKeys
    BY DEF KeysInv, SuccessGivesKeys, HasKeys
<1> QED BY <1>1, <1>2, <1>3, TypeOk, RightInvariant, PTL DEF Spec
=============================================================================
