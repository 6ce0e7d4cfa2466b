----------------------------- MODULE Waterfall -----------------------------
(***************************************************************************)
(* How a handle gets its keys: aacs_open_device() of aacs.c with           *)
(* _calc_title_hash(), _calc_uks(), _find_config_entry(), _calc_vuk(),     *)
(* _calc_mk(), _read_vid() and _read_read_data_key(), the key getters an   *)
(* application calls later, and the key cache on disk (keycache_save() and *)
(* keycache_find() of keydbcfg.c), which outlives the process.             *)
(*                                                                         *)
(* A key is abstracted to the disc it belongs to: the media key, volume    *)
(* id, volume unique key or data key of disc d is d itself, a buffer that  *)
(* is all zero is NoKey and any other value is BadKey.  A key derived from *)
(* two keys of one disc belongs to that disc, any other result is BadKey.  *)
(* An exchange with the drive (module MmcAuth) ends in one of three ways:  *)
(* the key, a failure that leaves the output buffer alone, or another key: *)
(* that is a failure, noticed after the output buffer was written, where a *)
(* MAC is checked, and a success for the data keys, which have none.       *)
(***************************************************************************)
EXTENDS Integers, Sequences

CONSTANTS
    Discs, NoDisc,   \* disc ids; the id that is all zero
    NoKey, BadKey,
    NumUk,           \* unit keys in Unit_Key_RO.inf of each disc
    Encrypted,       \* CPS units (1 ..) of each disc that are really encrypted
    CciFile,         \* what CPSUnit%05d.cci of each unit says, or "missing"
    BeeDiscs,        \* discs whose content certificate enables bus encryption
    DriveBec,        \* 1 if the drive is capable of bus encryption, else 0
    Configs,         \* the configuration files the application may name
    DefaultConfigs,  \* what the default configuration files may hold
    BadMac,          \* TRUE: an exchange may be disturbed (bus errors, another host)
    DiscErrors,      \* TRUE: files on the disc may be unreadable
    Reopen           \* TRUE: the application may open a handle a second time

Keys == Discs \cup {NoKey, BadKey}
Types == {"mk", "vid", "vuk", "rdk"}

\* A title entry of a configuration file, and what is used of such a file: could it be
\* loaded, does it hold keys that fit and a host certificate, its title entries.
Entries == [mk : Keys, vid : Keys, vuk : Keys, uk : Seq(Nat)]
ConfigFiles == [ok : BOOLEAN, keys : BOOLEAN, certs : BOOLEAN, entry : [Discs -> Entries]]

ASSUME WaterfallAssumption ==
    /\ NoDisc \notin Discs /\ NoKey \notin Discs /\ BadKey \notin Discs /\ NoKey # BadKey
    /\ NumUk \in [Discs -> Nat]
    /\ \A d \in Discs : Encrypted[d] \subseteq 1 .. NumUk[d]
    /\ \A d \in Discs : CciFile[d] \in
           [1 .. NumUk[d] -> {"encrypted", "unencrypted", "missing"}]
    /\ BeeDiscs \subseteq Discs /\ DriveBec \in {0, 1}
    /\ Configs \subseteq ConfigFiles /\ DefaultConfigs \subseteq ConfigFiles
    /\ ~(Reopen /\ DiscErrors)

VARIABLES
    pc,
    h,        \* the AACS object
    loc,      \* locals of _calc_uks(): mk, vuk, vuk_error_code, and who called _calc_vuk()
    result,   \* error code of aacs_open_device()
    cached,   \* history: was the VUK of the disc in the cache when it was opened?
    got,      \* what a key getter returned last, NoKey for NULL
    disturbed,\* history: discs for which the exchange of the data keys was disturbed
    cache,    \* the files of the key cache
    conf,     \* configuration: the file given to aacs_open_device(), and the default ones
    drive     \* the disc that is in the drive

vars == <<pc, h, loc, result, cached, got, disturbed, cache, conf, drive>>
outside == <<conf, drive>>

NewHandle(noCache) ==
    [id |-> NoDisc, vid |-> NoKey, pmsn |-> NoKey, mk |-> NoKey, uk |-> <<>>, num |-> 0,
     bee |-> FALSE, bec |-> 0, rdk |-> NoKey, noCache |-> noCache]
NewLocals == [mk |-> NoKey, vuk |-> NoKey, err |-> "success", caller |-> "final"]

cf == conf.named
entry == cf.entry[h.id]
Goto(label) == pc' = label

\* keycache_find(): an empty or a short file counts as missing, NoKey stands for both
\* (mutant: the cache is used only when there is a configuration).
InCacheIfConfig(type) == cf.ok /\ ~h.noCache /\ h.id \in Discs /\ cache[type][h.id] # NoKey
InCache(type) == ~h.noCache /\ h.id \in Discs /\ cache[type][h.id] # NoKey

\* keycache_save(): the cache when the file of the type holds key (NoKey: it is truncated
\* and not yet written), and what the call can leave, whose result nobody looks at.
Saved(type, key) ==
    IF h.noCache \/ h.id = NoDisc THEN cache ELSE [cache EXCEPT ![type][h.id] = key]
Saving(type, key) == {cache, Saved(type, NoKey), Saved(type, key)}

\* Decryption of one key with another.
Derived(k1, k2) == IF k1 = k2 /\ k1 \in Discs THEN k1 ELSE BadKey

\* _mmc_read_auth(): the value of the output buffer, which held old, for each outcome.
\* Without a host certificate there is only failure.  A value from a disturbed exchange is
\* refused if it has a MAC, and accepted if it has not.
Exchange(c, old, mac) ==
    {[ok |-> FALSE, key |-> old]}
    \cup (IF c.certs THEN {[ok |-> TRUE, key |-> drive]} ELSE {})
    \cup (IF c.certs /\ BadMac THEN {[ok |-> ~mac, key |-> BadKey]} ELSE {})
Answers(c, old) == Exchange(c, old, TRUE)         \* MMC_READ_VID, MMC_READ_PMSN
DataKeyAnswers(c, old) == Exchange(c, old, FALSE) \* MMC_READ_DATA_KEYS

-----------------------------------------------------------------------------
(* aacs_init(), aacs_set_key_caching(), aacs_open_device() *)

AacsInit(noCache) ==
    /\ pc = "none"
    /\ h' = NewHandle(noCache)
    /\ Goto("closed")
    /\ UNCHANGED <<loc, result, cached, got, cache, disturbed, outside>>

SetKeyCaching(enable) ==
    /\ pc \in {"closed", "opened"}
    /\ h' = [h EXCEPT !.noCache = ~enable]
    /\ UNCHANGED <<pc, loc, result, cached, got, cache, disturbed, outside>>

\* The content certificate and the unit key file are read.  _read_cc_any() may fail:
\* then bus encryption counts as not enabled.
OpenDevice ==
    /\ pc = "closed" \/ (Reopen /\ pc = "opened")
    /\ \E bee \in {drive \in BeeDiscs} \cup (IF DiscErrors THEN {FALSE} ELSE {}) :
          h' = [h EXCEPT !.id = drive, !.uk = <<>>, !.num = NumUk[drive],
                         !.bee = bee, !.bec = -1]
    /\ loc' = NewLocals
    /\ cached' = (~h.noCache /\ cache["vuk"][drive] # NoKey)
    /\ result' = "success"
    /\ Goto("calc_uks")
    /\ UNCHANGED <<got, cache, disturbed, outside>>

\* _calc_title_hash() fails: neither copy of the unit key file is readable.
OpenFails ==
    /\ DiscErrors /\ pc = "closed"
    /\ h' = [h EXCEPT !.bec = -1]
    /\ result' = "corrupted" /\ cached' = FALSE
    /\ Goto("opened")
    /\ UNCHANGED <<loc, got, cache, disturbed, outside>>

-----------------------------------------------------------------------------
(* _calc_uks() *)

NoUnitKeys ==
    /\ pc = "calc_uks" /\ h.num < 1
    /\ Goto("bus")
    /\ UNCHANGED <<h, loc, result, cached, got, cache, disturbed, outside>>

\* The first _calc_vuk(), without config: only the cache is looked at.
CachedVuk ==
    /\ pc = "calc_uks" /\ h.num >= 1 /\ InCache("vuk")
    /\ loc' = [loc EXCEPT !.vuk = cache["vuk"][h.id]]
    /\ Goto("units")
    /\ UNCHANGED <<h, result, cached, got, cache, disturbed, outside>>

NoConfig ==
    /\ pc = "calc_uks" /\ h.num >= 1 /\ ~InCache("vuk") /\ ~cf.ok
    /\ loc' = [loc EXCEPT !.err = "no_config"]
    /\ Goto("units")
    /\ UNCHANGED <<h, result, cached, got, cache, disturbed, outside>>

Given(key, old) == IF key # NoKey THEN key ELSE old

\* The unit keys of the config entry are stored in the order they are listed.
\* Key i of a list is right for unit i if the list names unit i there.
ConfigKeys(n) ==
    [i \in 1 .. n |-> IF i > Len(entry.uk) THEN NoKey
                      ELSE IF entry.uk[i] = i THEN h.id ELSE BadKey]

\* _find_config_entry(): keys of the entry replace what is there.
FindConfigEntry ==
    /\ pc = "calc_uks" /\ h.num >= 1 /\ ~InCache("vuk") /\ cf.ok
    /\ IF Len(entry.uk) = h.num
       THEN /\ h' = [h EXCEPT !.mk = Given(entry.mk, @), !.vid = Given(entry.vid, @),
                              !.uk = ConfigKeys(h.num)]
            /\ UNCHANGED loc
            /\ Goto("bus")
       ELSE /\ h' = [h EXCEPT !.mk = Given(entry.mk, @), !.vid = Given(entry.vid, @)]
            /\ loc' = [loc EXCEPT !.mk = Given(entry.mk, @), !.vuk = Given(entry.vuk, @),
                                  !.caller = IF entry.uk = <<>> THEN "final" ELSE "count"]
            /\ Goto("calc_vuk")
    /\ UNCHANGED <<result, cached, got, cache, disturbed, outside>>

Larger(m, n) == IF m > n THEN m ELSE n

\* num_uk when the config entry lists more keys than the disc has.
Raised(n) == Larger(n, Len(entry.uk))

\* What follows _calc_vuk(): in _find_config_entry() a wrong number of unit keys is
\* tolerated only if there is no VUK; in _calc_uks() the unit keys are decrypted.
VukReturns(handle, vuk, err) ==
    IF loc.caller = "count" /\ err # "success"
    THEN /\ h' = [handle EXCEPT !.num = Raised(handle.num),
                               !.uk = ConfigKeys(Larger(handle.num, Len(entry.uk)))]
         /\ loc' = NewLocals
         /\ Goto("bus")
    ELSE /\ h' = handle
         /\ loc' = [loc EXCEPT !.vuk = vuk, !.err = err]
         /\ Goto("units")

-----------------------------------------------------------------------------
(* _calc_vuk(), _calc_mk(), _read_vid() *)

\* The VUK of the config entry, or one another process has cached since.
KnownVuk ==
    /\ pc = "calc_vuk"
    /\ \/ loc.vuk # NoKey /\ VukReturns(h, loc.vuk, "success")
       \/ loc.vuk = NoKey /\ InCache("vuk") /\ VukReturns(h, cache["vuk"][h.id], "success")
    /\ UNCHANGED <<result, cached, got, cache, disturbed, outside>>

VukNeedsMk ==
    /\ pc = "calc_vuk" /\ loc.vuk = NoKey /\ ~InCache("vuk")
    /\ Goto("calc_mk")
    /\ UNCHANGED <<h, loc, result, cached, got, cache, disturbed, outside>>

KnownMk ==
    /\ pc = "calc_mk" /\ (loc.mk # NoKey \/ InCache("mk"))
    /\ loc' = [loc EXCEPT !.mk = IF @ # NoKey THEN @ ELSE cache["mk"][h.id]]
    /\ Goto("read_vid")
    /\ UNCHANGED <<h, result, cached, got, cache, disturbed, outside>>

\* The media key block is opened and a device or processing key fits: _validate_pk()
\* accepts nothing but the media key.
CalcMk ==
    /\ pc = "calc_mk" /\ loc.mk = NoKey /\ ~InCache("mk") /\ cf.keys
    /\ loc' = [loc EXCEPT !.mk = drive]
    /\ h' = [h EXCEPT !.mk = drive]
    /\ cache' \in Saving("mk", drive)
    /\ Goto("read_vid")
    /\ UNCHANGED <<result, cached, got, disturbed, outside>>

\* No key fits, or the media key block is not readable.
CalcMkFails ==
    /\ pc = "calc_mk" /\ loc.mk = NoKey /\ ~InCache("mk")
    /\ \/ ~cf.keys /\ VukReturns(h, NoKey, "no_pk")
       \/ DiscErrors /\ VukReturns(h, NoKey, "corrupted")
    /\ UNCHANGED <<result, cached, got, cache, disturbed, outside>>

\* _read_vid(): a VID that is there is used, otherwise the drive is asked
\* (mutant: a failed exchange is not noticed).
VidFailureIgnored(a) == TRUE
VidOk(a) == a.ok

KnownVid ==
    /\ pc = "read_vid" /\ h.vid # NoKey
    /\ Goto("derive")
    /\ UNCHANGED <<h, loc, result, cached, got, cache, disturbed, outside>>

ReadVid ==
    /\ pc = "read_vid" /\ h.vid = NoKey
    /\ \E a \in Answers(cf, h.vid) :
          IF VidOk(a)
          THEN /\ h' = [h EXCEPT !.vid = a.key]
               /\ cache' \in Saving("vid", a.key)
               /\ Goto("derive") /\ UNCHANGED loc
          ELSE /\ VukReturns([h EXCEPT !.vid = a.key], NoKey, "mmc")
               /\ UNCHANGED cache
    /\ UNCHANGED <<result, cached, got, disturbed, outside>>

DeriveVuk ==
    /\ pc = "derive"
    /\ cache' \in Saving("vuk", Derived(loc.mk, h.vid))
    /\ VukReturns(h, Derived(loc.mk, h.vid), "success")
    /\ UNCHANGED <<result, cached, got, disturbed, outside>>

-----------------------------------------------------------------------------
(* The end of _calc_uks() and of aacs_open_device() *)

\* _check_cci_unencrypted(): 0 if the unit is encrypted, 1 if not, -1 if the file cannot
\* be read; the caller tests for 0.
FoundEncrypted(i) == CciFile[h.id][i] = "encrypted"

\* Units 1 .. n that are decrypted before the loop stops at an encrypted unit without
\* VUK (mutant: the VUK is not asked for).
UnitsWithoutVuk(err) == h.num
UnitsDecrypted(err) ==
    IF err = "success" \/ ~\E i \in 1 .. h.num : FoundEncrypted(i) THEN h.num
    ELSE CHOOSE n \in 0 .. h.num - 1 :
             FoundEncrypted(n + 1) /\ \A i \in 1 .. n : ~FoundEncrypted(i)

CalcUnitKeys ==
    /\ pc = "units"
    /\ LET n == UnitsDecrypted(loc.err) IN
       /\ h' = [h EXCEPT !.uk = [i \in 1 .. h.num |->
                                   IF i <= n THEN Derived(loc.vuk, h.id) ELSE NoKey]]
       /\ result' = IF n < h.num THEN loc.err ELSE "success"
       /\ Goto(IF n < h.num THEN "opened" ELSE "bus")
    /\ loc' = NewLocals
    /\ UNCHANGED <<cached, got, cache, disturbed, outside>>

\* The disc does not use bus encryption.
BusNotEnabled ==
    /\ pc = "bus" /\ ~h.bee
    /\ Goto("opened")
    /\ UNCHANGED <<h, loc, result, cached, got, cache, disturbed, outside>>

BusNeedsConfig ==
    /\ pc = "bus" /\ h.bee /\ ~cf.ok
    /\ result' = "no_config"
    /\ Goto("opened")
    /\ UNCHANGED <<h, loc, cached, got, cache, disturbed, outside>>

\* _get_bus_encryption_capable(): a drive that does not answer counts as not capable.
BecAnswers == {0, DriveBec}

BusNotCapable ==
    /\ pc = "bus" /\ h.bee /\ cf.ok
    /\ h' = [h EXCEPT !.bec = 0]
    /\ Goto("opened")
    /\ UNCHANGED <<loc, result, cached, got, cache, disturbed, outside>>

\* _read_read_data_key(): the cached key is the fallback when the drive does not answer
\* (mutant: success without any key).
RdkMissingIgnored(key, ok) == "success"
RdkResult(key, ok) == IF ok THEN "success" ELSE "mmc"

ReadDataKey ==
    /\ pc = "bus" /\ h.bee /\ cf.ok /\ DriveBec = 1
    /\ \E a \in DataKeyAnswers(cf, h.rdk) :
          LET fallback == ~a.ok /\ InCache("rdk")
              key == IF fallback THEN cache["rdk"][h.id] ELSE a.key
          IN /\ h' = [h EXCEPT !.bec = 1, !.rdk = key]
             /\ IF a.ok THEN cache' \in Saving("rdk", key) ELSE UNCHANGED cache
             /\ result' = RdkResult(key, a.ok \/ fallback)
             /\ disturbed' = IF a.ok /\ key # drive THEN disturbed \cup {drive} ELSE disturbed
    /\ Goto("opened")
    /\ UNCHANGED <<loc, cached, got, outside>>

-----------------------------------------------------------------------------
(* The getters.  They load the default configuration files. *)

GetVid ==
    /\ pc = "opened"
    /\ \/ /\ h.vid # NoKey
          /\ UNCHANGED <<h, cache>>
       \/ /\ h.vid = NoKey /\ InCache("vid")
          /\ h' = [h EXCEPT !.vid = cache["vid"][h.id]]
          /\ UNCHANGED cache
       \/ /\ h.vid = NoKey /\ ~InCache("vid") /\ conf.default.ok
          /\ \E a \in Answers(conf.default, h.vid) :
                /\ h' = [h EXCEPT !.vid = a.key]
                /\ IF VidOk(a) THEN cache' \in Saving("vid", a.key) ELSE UNCHANGED cache
       \/ /\ h.vid = NoKey /\ ~InCache("vid") /\ ~conf.default.ok
          /\ UNCHANGED <<h, cache>>
    /\ got' = h'.vid
    /\ UNCHANGED <<pc, loc, result, cached, disturbed, outside>>

\* aacs_get_pmsn(): not cached on disk.
GetPmsn ==
    /\ pc = "opened"
    /\ \/ /\ h.pmsn # NoKey \/ ~conf.default.ok
          /\ UNCHANGED h
       \/ /\ h.pmsn = NoKey /\ conf.default.ok
          /\ \E a \in Answers(conf.default, h.pmsn) : h' = [h EXCEPT !.pmsn = a.key]
    /\ got' = h'.pmsn
    /\ UNCHANGED <<pc, loc, result, cached, cache, disturbed, outside>>

\* aacs_get_mk(): _calc_mk() works on a local, which is copied only on success.
GetMk ==
    /\ pc = "opened"
    /\ \/ /\ h.mk # NoKey \/ ~conf.default.ok
          /\ UNCHANGED <<h, cache>>
       \/ /\ h.mk = NoKey /\ conf.default.ok /\ InCache("mk")
          /\ h' = [h EXCEPT !.mk = cache["mk"][h.id]]
          /\ UNCHANGED cache
       \/ /\ h.mk = NoKey /\ conf.default.ok /\ ~InCache("mk") /\ conf.default.keys
          /\ h' = [h EXCEPT !.mk = drive]
          /\ cache' \in Saving("mk", drive)
       \/ /\ h.mk = NoKey /\ conf.default.ok /\ ~InCache("mk")
          /\ ~conf.default.keys \/ DiscErrors
          /\ UNCHANGED <<h, cache>>
    /\ got' = h'.mk
    /\ UNCHANGED <<pc, loc, result, cached, disturbed, outside>>

\* aacs_get_bus_encryption(): the drive is asked if aacs_open_device() did not get so far.
GetBusEncryption ==
    /\ pc = "opened"
    /\ \E bec \in IF h.bec < 0 THEN BecAnswers ELSE {h.bec} : h' = [h EXCEPT !.bec = bec]
    /\ UNCHANGED <<pc, loc, result, cached, got, cache, disturbed, outside>>

-----------------------------------------------------------------------------
(* The end of a handle, and what happens around it *)

Reset ==
    /\ h' = NewHandle(FALSE) /\ loc' = NewLocals
    /\ result' = "success" /\ cached' = FALSE /\ got' = NoKey
    /\ Goto("none")

AacsClose == pc \in {"closed", "opened"} /\ Reset /\ UNCHANGED <<cache, disturbed, outside>>

\* The files keycache_save() may be about to write.
Writing(type) ==
    \/ type = "mk" /\ pc = "calc_mk" /\ loc.mk = NoKey /\ ~InCache("mk") /\ cf.keys
    \/ type = "vid" /\ pc = "read_vid" /\ h.vid = NoKey /\ cf.certs
    \/ type = "vuk" /\ pc = "derive"
    \/ type = "rdk" /\ pc = "bus" /\ h.bee /\ cf.ok /\ cf.certs /\ DriveBec = 1
    \/ type = "mk" /\ pc = "opened" /\ h.mk = NoKey /\ ~InCache("mk")
       /\ conf.default.ok /\ conf.default.keys
    \/ type = "vid" /\ pc = "opened" /\ h.vid = NoKey /\ ~InCache("vid")
       /\ conf.default.ok /\ conf.default.certs

\* The process is killed in the middle of a call; a file that is being written is
\* truncated by then.
Crash ==
    /\ pc \notin {"none", "closed"}
    /\ Reset
    /\ \/ UNCHANGED cache
       \/ \E type \in Types : Writing(type) /\ cache' = Saved(type, NoKey)
    /\ UNCHANGED <<disturbed, outside>>

\* Another disc is inserted, and the user edits the configuration.
NewSetup ==
    /\ pc = "none"
    /\ drive' \in Discs
    /\ conf' \in [named : Configs, default : DefaultConfigs]
    /\ UNCHANGED <<pc, h, loc, result, cached, got, disturbed, cache>>

Init ==
    /\ pc = "none" /\ h = NewHandle(FALSE) /\ loc = NewLocals
    /\ result = "success" /\ cached = FALSE /\ got = NoKey /\ disturbed = {}
    /\ cache = [type \in Types |-> [d \in Discs |-> NoKey]]
    /\ drive \in Discs
    /\ conf \in [named : Configs, default : DefaultConfigs]

Next ==
    \/ \E b \in BOOLEAN : AacsInit(b) \/ SetKeyCaching(b)
    \/ OpenDevice \/ OpenFails
    \/ NoUnitKeys \/ CachedVuk \/ NoConfig \/ FindConfigEntry
    \/ KnownVuk \/ VukNeedsMk \/ KnownMk \/ CalcMk \/ CalcMkFails
    \/ KnownVid \/ ReadVid \/ DeriveVuk
    \/ CalcUnitKeys \/ BusNotEnabled \/ BusNeedsConfig \/ BusNotCapable \/ ReadDataKey
    \/ GetVid \/ GetPmsn \/ GetMk \/ GetBusEncryption
    \/ AacsClose \/ Crash \/ NewSetup

Spec == Init /\ [][Next]_vars

-----------------------------------------------------------------------------
\* A key in the cache belongs to the disc it is filed under, whatever failed or was killed
\* on the way, as long as no config entry holds a wrong key: a bad key in the cache would
\* be used for every later open of the disc, before the configuration is looked at.  The
\* exception is a data key of a disturbed exchange: it has no MAC, is accepted and cached.
CacheIsRight ==
    \A type \in Types, d \in Discs :
        cache[type][d] \in {NoKey, d} \/ (type = "rdk" /\ d \in disturbed)

Opened == pc = "opened" /\ result = "success" /\ h.id # NoDisc

KeyKnown(i) == h.uk # <<>> /\ h.uk[i] = h.id

\* The unit keys are the ones listed in the config entry, and unit i is not in its place in
\* that list.  _find_config_entry() says of a list of the wrong length: "only discard
\* incorrect amount of UKs if VUK or MK+VID is available".
ListLacks(i) ==
    /\ entry.uk # <<>> /\ h.uk = ConfigKeys(h.num)
    /\ i > Len(entry.uk) \/ entry.uk[i] # i
    /\ \/ Len(entry.uk) = NumUk[h.id]
       \/ entry.vuk = NoKey /\ (entry.mk = NoKey \/ entry.vid = NoKey)

\* When aacs_open_device() returns AACS_SUCCESS, every CPS unit that is encrypted, and is
\* found to be by its usage file, has its key.  Only a list of unit keys in the config
\* entry is taken as it is, and one of the wrong length only if the entry does not lead to
\* the VUK.
SuccessGivesKeys ==
    Opened => \A i \in Encrypted[h.id] : FoundEncrypted(i) => KeyKnown(i) \/ ListLacks(i)

\* "error out if VUK calculation fails and encrypted CPS unit is found" (_calc_uks()), for
\* every encrypted unit.
EncryptedUnitsHaveKeys ==
    Opened => \A i \in Encrypted[h.id] : KeyKnown(i) \/ ListLacks(i)

\* A disc that was opened once with caching enabled needs neither configuration nor host
\* certificate nor an answer of the drive any more, unless it uses bus encryption.
CacheSuffices == pc = "opened" /\ cached /\ ~h.bee => result = "success"

\* Bus decryption is never switched on by a successful open without a data key, and it is
\* the drive's unless an exchange of the data keys of this disc was disturbed, now or in
\* the open that filled the cache.
BusKeyKnown ==
    Opened /\ h.bee /\ h.bec = 1 =>
        h.rdk # NoKey /\ (h.rdk = h.id \/ h.id \in disturbed)

\* aacs_get_vid(), aacs_get_pmsn() and aacs_get_mk() return the key of the disc or NULL.
\* mmc.c says of a VID with the wrong MAC: "this Volume ID is not correct".
GettersAreAuthentic == got \in {NoKey, drive}
=============================================================================
