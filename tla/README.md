# A TLA+ development of libaacs

libaacs opens an encrypted disc: it finds the keys of the disc, authenticates
with the drive to get what only the drive knows, decrypts the unit keys and
then the stream. It is a library without threads of its own; what makes it
hard is everything around it: several processes and threads use one drive, one
handle and the same files at the same time, commands fail half way, processes
are killed, and the keys found once are kept on disk and believed later.

All paths below are relative to the repository (`src/libaacs/aacs.c` is the
file `src/src/libaacs/aacs.c` of `PROJECT.json`).

## The system and its parts

| Part | State | Operations | Talks to |
|---|---|---|---|
| Drive authentication (`mmc.c`, `_mmc_read_auth()` of `aacs.c`) | an `MMC` object per call: host nonce and key, drive certificate; in the drive: one session per AGID | `mmc_open`, `mmc_read_auth`, `mmc_read_drive_cert`, `mmc_close` | the drive, by SCSI commands through `device_send_cmd()` |
| Key waterfall (`aacs.c`) | the `AACS` object: disc id, MK, VID, PMSN, read data key, unit keys, bus encryption flags | `aacs_init`, `aacs_set_key_caching`, `aacs_open_device`, `aacs_get_vid/pmsn/mk`, `aacs_get_bus_encryption`, `aacs_close` | drive authentication, configuration, key cache, parsers |
| Key cache (`keydbcfg.c`) | files `<type>/<disc id>` in the user's cache directory | `keycache_save`, `keycache_find` | the file system; shared by all processes of the user |
| Stream decryption (`aacs.c`) | `current_cps_unit`, `cps_unit_selected`, unit keys | `aacs_select_title`, `aacs_decrypt_unit`, `aacs_decrypt_bus` | the threads of the player |
| Revocation list cache (`aacs.c`, `keydbcfg.c`) | two files: version, length, signed list | `_update_rl`, `_save_rl`, `_get_rl`, `cache_save`, `cache_get` | the file system; shared by all processes |
| Device binding id (`aacs.c`, `keydbcfg.c`) | one file: length, 16 bytes | `aacs_get_device_binding_id`, `config_get`, `config_save` | the file system |
| Subset difference (`aacs.c`) | none | `_calc_mk_dks`, `_find_dk`, `_calc_pk`, `_calc_v_mask`, `_calc_mk_pks` | MKB parser, cryptography |
| MKB (`mkb.c`, `_mkb_open()`, `_read_mkb_file()` of `aacs.c`) | the buffer with the file | reading record by record, duplicate file, record walk | file access callbacks |
| Unit key file (`unit_key.c`) | unit keys, title map | `uk_parse`, `_cps_unit` | content certificate, which decides the layout; stream decryption, which uses the map |
| CCI and content certificate (`cci.c`, `content_cert.c`) | none | `cci_parse`, `cci_is_unencrypted`, `aacs_get_basic_cci`, `cc_parse` | unit keys: a unit without encryption needs none |
| Configuration (`keydbcfg.c`, parser, lexer) | lists of keys, certificates, disc entries; in a parse `celist`, `dkplist`, `hexkey`, the stack of the parser | `keydbcfg_config_load`, duplicates, builtin and PK/HC files | directories |
| Device backends (`mmc_device_*.c`) | a device handle; on Darwin a semaphore and the mount state | `device_open`, `device_send_cmd`, `device_close` | operating system, on Darwin DiskArbitration callbacks |
| Directories, paths, files (`dirs_*.c`, `path.c`, `file*.c`) | the list of the system's directories, built once; the directories on disk | search order, `file_mkdirs` | the file system; shared by all processes |
| Cryptography (`crypto.c`, `ec.c`) | none | AES, CMAC, ECDSA; points on the curve, key pair and bus key | libgcrypt |

What each part must get right:

* **Drive authentication**: what is reported as success is authentic; host and
  drive agree on the bus key; AGIDs are given back; a usable certificate is
  found; a call ends.
* **Key waterfall**: success means that the keys are there; a key that was not
  authenticated is neither returned nor cached; a cached disc opens without
  anything else; with caching off the cache is untouched.
* **Stream decryption**: every unit that has its key is decrypted, by any
  number of threads; a reported success is a clear unit; what was detected for
  one playlist is not used for the next.
* **Revocation lists**: version and list that are handed out belong together, a
  reader that meets an update gets no older list than the version it is told, and
  the latest one seen is the one that is kept.
* **Binding id**: there is one, and it stays.
* **Subset difference**: a device gets the media key exactly when the tree says
  that an entry of the block serves it, and the search ends.
* **MKB file**: no access outside the buffer whatever the file says; reader and
  record walk agree on where records start; every record of a well-formed file
  is found.
* **Configuration**: every line means what it says, whatever is wrong in the
  lines around it; no source hides or loses what another one gave; the text of a
  token is not used after the scanner has moved on; the parser ends.
* **Darwin backend**: a mount that was rejected is made up for, the device is not
  freed under a callback that uses it, and no wait is forever.
* **Unit key file, CCI, content certificate**: no access outside the buffer;
  every title gets the key and the usage file of its CPS unit; a unit counts as
  unencrypted only if its usage file says so for all its titles.
* **Directories**: the directory of a file is there when the file is written, and
  of several configuration files the first one is read.
* **Cryptography**: a multiple of a point is the multiple, and its bytes are its
  coordinates, for every scalar.

The hard behaviours are the interleaving of SCSI commands of several hosts on
the drive's session table, of system calls of several processes on files that
are rewritten in place without locks, and of plain loads and stores of several
threads on the handle; writes that fail and processes that die between any two
of these steps; replies that arrive wrong; values that stay in the handle after
the call that fetched them failed. `PROJECT.json` lists them one by one under
`hazards`, each with the line where it bites.

## Modules

| Module | Models | Checked by |
|---|---|---|
| `MmcAuth` | AACS-Auth: any number of hosts, one drive | `MCMmcAuth`, proofs in `MmcAuthProofs` |
| `Waterfall` | opening a disc, the getters, the key cache | `MCWaterfall`, proofs in `WaterfallProofs` |
| `StreamDecrypt` | decrypting units with several threads; implements `StreamService` | `MCStreamDecrypt`, proofs in `StreamDecryptProofs` |
| `StreamService` | abstract: a decryption service without memory | as a property of `StreamDecrypt`, refinement proved in `StreamDecryptProofs` |
| `RlCache` | cached revocation lists | `MCUserFiles`, proofs in `RlCacheProofs` |
| `BindingId` | the device binding id | `MCUserFiles`, proofs in `UserFilesProofs` |
| `Directories` | `file_mkdirs()` and the search of system configuration files | `MCUserFiles`, proofs in `UserFilesProofs` |
| `MkbFile` | reading MKB_RO.inf and finding records in it | `MCSequential`, proofs in `SequentialProofs` |
| `MediaKey` | the search for the media key with device and processing keys | `MCSequential`, proofs in `SequentialProofs` |
| `UnitKeyFile` | content certificate and unit key file | `MCSequential`, `MCUnitKeyFile`, proofs in `SequentialProofs` |
| `CciFile` | usage files and their two users | `MCSequential`, `MCCciFile`, proofs in `SequentialProofs` |
| `EcPoint` | points on the curve, key pair and bus key | `MCSequential`, proofs in `SequentialProofs` |
| `Powers` | powers of a number, for bits and bytes | used by `MediaKey` and `EcPoint` |
| `KeydbLines` | abstract: what the lines of a KEYDB.cfg mean | used by `ConfigLoad` |
| `KeydbParser` | scanner and parser of KEYDB.cfg | `MCConfigLoad`, proofs in `ConfigLoadProofs` |
| `ConfigLoad` | loading KEYDB.cfg, key files and built-in keys | `MCConfigLoad`, proofs in `ConfigLoadProofs` |
| `DarwinDevice` | opening and closing the drive on Darwin | `MCDarwinDevice`, proofs in `DarwinDeviceProofs` |

Modules meet at named interfaces. `ConfigLoad` executes the steps of
`KeydbParser` for each of its files and compares the result with `KeydbLines`.
`Waterfall` uses the outcome of `MmcAuth` (`Exchange`), of `MediaKey` and `MkbFile`
(`CalcMk`, `CalcMkFails`), of `ConfigLoad` (`Configs`) and of `CciFile`, and
`StreamDecrypt` the title map of `UnitKeyFile`; each establishes what the other
assumes of it. `MCSequential` and `MCUserFiles` put several components into one
run: a behaviour belongs to one of them (`part`), the others keep still.

### MmcAuth

One action per SCSI command, in the order in which `_mmc_read_auth()`,
`mmc_open()`, `mmc_read_auth()` and `_mmc_aacs_auth()` send them: `CheckAacs`
(GET CONFIGURATION), `OpenReadDriveCert`/`ReadDriveCert`, then for each host
certificate `NextCert`, the loop `InvalidateAgids`, `ReportAgid`,
`SendHostCert`, `ReadDriveCertChallenge`, `ReadDriveKey`, `SendHostKey`,
`ReadDiscStructure` and `Release`. What the code computes between two commands
(signature and MAC checks, the choice of the next certificate, error codes) is
part of the action of the command before it. `Command` is `device_send_cmd()`:
the drive accepts or refuses; on a `Lossy` bus a command may be reported as
failed whether it was executed or not; on a `Corrupting` bus any reply may
arrive with wrong bytes.

The drive is external. It is modelled from the commands `mmc.c` sends, keeps a
session per AGID (`sess`) and accepts a command as soon as the session has got
far enough. A drive that is stricter has fewer behaviours.

Cryptography is symbolic: a host nonce and key pair are the name of the
`mmc_open()` call that made them, a drive nonce and key pair are the number of
the drive session (`gen`), a bus key is the pair of both, and a signature or
MAC verifies exactly if it was made over the same values under the same key.

### Waterfall

`h` is the `AACS` object and `loc` the locals of `_calc_uks()`; `pc` names the
function the open has reached: `calc_uks`, `calc_vuk`, `calc_mk`, `read_vid`,
`derive` (the end of `_calc_vuk()`), `units` (the loop over the unit keys),
`bus`. A key is represented by the disc it belongs to, all-zero by `NoKey`,
anything else by `BadKey`. An exchange with the drive (`Exchange`) ends in one of
three ways: the key; a failure that leaves the buffer as it was; or another key,
when the exchange was disturbed by the bus or another host. For the volume id and
the PMSN that is a failure, noticed after the buffer was written, which is what
`_read_vid()` of `mmc.c` does when the MAC is wrong (`Answers`); data keys have no
MAC, and the wrong key is a success (`DataKeyAnswers`). `disturbed` remembers the
discs this has happened to.

`Saving` is what `keycache_save()` can leave, whose result nobody looks at: the old
file, the key, or a file that was truncated and not written. `NoKey` in the cache
stands for a missing, an empty and a short file, which `keycache_find()` does not
tell apart. `Crash` kills the process anywhere in an open or a getter, also between
the truncation and the write of a key file (`Writing`): the key that was there is
gone then. `NewSetup` changes disc and configuration between two handles.

### StreamDecrypt

`current` and `selected` are the two shared fields; each access to one of them
is an action (`Load`, `Store`), because nothing in the code makes the pair
atomic. With `Reorder` the two accesses become visible in either order, which
the C language allows for plain fields. A buffer is what the code tells apart:
the copy permission bits, the layers of bus encryption, and ciphertext, clear
text or garbage. `StartPlaylist` is the player: it follows `aacs.h` and selects
a title or the reset title before it plays a playlist of another CPS unit.

`StreamService` is what the player is promised: each call is answered from its
own unit, the playlist and the keys alone. `Service` maps a thread inside a call
to a request and the return value with its buffer to a reply; the two shared
fields are hidden. `ServiceIsMemoryless` is the specification of the service, its
liveness included, as a property of `FairSpec`; `Safety` of `StreamService` is the part
of it without fairness, for the proof. Of a call with a buffer that an
earlier call has already changed the service promises nothing.

### RlCache and BindingId

Every system call on a file is an action. A file is the fields the code reads
and writes: `Absent` behind the end of the file, zero in a hole left by a write
behind a truncation of another process. A list is the MKB version it came from;
torn or mixed bytes carry no valid signature. `overlap` says which calls of
different processes overlap: none; those of readers with everybody else's; all.
`Overlaps` is the set of the three a run tries. The length in the file of the binding id
is a number that `config_get()` compares with the size asked for (`IdSize`).

### Directories

Every `stat()` and `mkdir()` of `file_mkdirs()` is an action of a process: first
from the end of the path to the first directory that exists, then forward,
creating. `mk_len` counts the names in front of the first NUL in the buffer in
which the code cuts the path. `TryDir` is one turn of `_open_cfg_file_system()`
over the list of `file_get_config_system()`.

### MediaKey

A `uv` number names a node u (its low `u_mask_shift` bits cut off) and a node v
(everything up to its lowest 1 cut off). A mask of the code is represented by
its number of zeros, and a key by the label of a node in the tree of a u, so
that deriving a key from another one is walking down the tree. `NextDevice` and
`NoMoreDevices` are the outer loop of `_calc_mk_dks()`, `FindSubset` the search
for the entry that serves the device, `FindDeviceKey` is `_find_dk()`, `CalcPk`
one turn of the loop of `_calc_pk()`, `ValidateDk` the validation of the key
that was derived, and `TryPks` is `_calc_mk_pks()`. `NumUvs` is the length the
code computes, from the C-values and not from the subset-difference record: the
entries behind the record are an input (`Leftovers`, a sequence). When there is no
subset-difference record, `_calc_mk_pks()` uses a length that was never set, and
`TryPks` may crash instead of ending. `DeviceKeys` are the keys the
system gives to a device; `ServedDevicesGetMk` is about lists that hold all of them for
each device they name, and perhaps others, but none of a node above its own u
(`KeyIsBelowU`).

### MkbFile

A file is its size and, for each offset, what the four bytes there say when
they are read as a record header. `Open` and `ReadChunk` are `_read_mkb_file()`:
a chunk is the rest of one record and the header of the next one, and the
buffer grows for the record to come. With `faults` opening, reading and
allocating can fail (`ReadFails`). `Lookup` and `Walk` are `_record()`, asked for
the records the callers in `aacs.c` ask for, `mkb_mk_dv()` with its two types
included.

### UnitKeyFile, CciFile

Both are walks over a file whose numbers may contradict each other and its size;
`uk_reads` and `cci_reads` record the bytes that are looked at. In `UnitKeyFile`,
`ReadCc` is `_read_cc_any()` with `cc_parse()`; `ParseHeader`, `CheckUks`, `ReadUk`
and `AssignTitles` are the parts of `uk_parse()`, and the duplicate file is tried
when the first one is missing or rejected. A unit key is the offset it was read
from, so that a key taken from the wrong place is seen. In `CciFile` a call asks
for the usage file of a key (`CheckUnencrypted`, from `_calc_uks()`) or of a title
(`GetBasicCci`); the file or its duplicate is parsed entry by entry, with the
size as an unsigned number that wraps around (`SizeMod`). A usage file has the offsets
of its entries (`at`); `EntriesFit` says that they lie inside it. `InvalidTitle` is
`aacs_get_basic_cci()` for a title the disc does not have.

### EcPoint

`Dup`, `Add` and `MulStep` are the functions of `ec.c` in Jacobian coordinates, one
turn of the multiplication loop per step, over curves small enough that all
points and scalars are tried. `Printed` and the bus key are the conversions of
`crypto.c`, with bytes of `Base` values, so that leading zeros happen. `EcAssumption`
says that every number of the field but 0 has an inverse, that 2 is not 0, and that a
coordinate fits into `PointBytes` bytes.

### KeydbParser, KeydbLines and ConfigLoad

A KEYDB.cfg is a sequence of atoms, the pieces the rules of the scanner match
(blanks, bars, hex strings, comments, escaped newlines). `KeydbParser` has the
scanner with its start condition for titles, and `yyparse()` with the tables of
the generated parser in `SMP/src/file/keydbcfg-parser.c`: shift, reduce with the
action of each rule, default reductions, and the error recovery that pops states
and discards tokens. `hexkey`, `celist` and `dkplist` are those of `parser_state`;
`live` counts the strings that are allocated. `KeydbLines` says in a few lines what each
kind of line means by itself: a line that is wrong at its end keeps the items in front of
the error, as the grammar runs its actions while it reads, and what a disc line lists
belongs to the entry of that line. It knows nothing of `celist` and `dkplist`. `Separate`
names the two kinds of files in which lines run into each other in the code: a line
behind a disc without a title (`Eaten`), and a disc line behind one whose list of unit keys
broke off (`open`). `ConfigLoad` is
`keydbcfg_config_load()`: it parses the files the application and the system have,
then `LoadPkFiles`, `LoadCertFiles` and `ParseEmbedded`. A file has both its lines and its
text; `ConfigLoadAssumption` ties them where the proofs need it: a file that does not end
in the middle of a line has a text whose last token is NEWLINE (`EndsWhole`: behind the last
newline there are only blanks and comments, and it does not follow a `=` without a title).

### DarwinDevice

The calling thread (`Caller`), the serial queue that executes the callbacks
(`Queue`) and the system (`System`, `Ask`) interleave at every access to
`disk_state` and at every wait and signal of `sync_sem`. DiskArbitration is
external and modelled from how the backend uses it: callbacks and blocks run one
at a time on the queue; a request to unmount or mount is answered by a callback;
a mount asks for approval first; callbacks that have not been delivered when the
session is taken off its queue are dropped. `Ask` is the system mounting a disc
by itself once nobody has exclusive access.

## Runs

| Run | Instance | Shows |
|---|---|---|
| `mmc_shared` | 2 hosts, 2 AGIDs, lossy and corrupting bus, 1 call each (277 000 states) | `SuccessIsAuthentic`, `KeyAgreement` |
| `mmc_healthy` | 2 hosts, good bus, list invalid + revoked + mismatched + good (901 000 states) | `AgidsOwned`, `UsableCertIsFound`, `CallReturns` (liveness) |
| `user_files` | 2 processes: lists of MKB versions 1 and 2, without overlap or with readers overlapping updates, 2 calls each; binding id, 3 calls each, no overlap; directories, 2 calls each; search in lists of up to 3 directories; failures and kills (417 000 states) | `VersionMatchesList`, `ListIsNotOlder`, `LatestSeenIsCached`, `StoredIdStays` (action property), `DirsAreMade`, `FirstFileIsUsed` |
| `stream_parallel` | 2 threads, 3 CPS units of which one has a wrong key, bus encryption, 2 calls each per playlist (163 000 states) | `UnitsAreDecrypted`, `SelectionIsCurrent`, `SuccessMeansClear`, `ServiceIsMemoryless` (refinement, with liveness) |
| `waterfall` | 2 discs, one with 3 CPS units of which one is encrypted and readable as such and one is encrypted and has no usage file; configurations with keys, with complete, short, long and misordered lists of unit keys, also next to a VUK or MK and VID, and without anything; disturbed exchanges, unreadable files, failed writes, kills, any number of opens (2 441 000 states) | `SuccessGivesKeys`, `CacheSuffices`, `BusKeyKnown`, `CacheIsRight` |
| `sequential` | one call on each of thousands of inputs: MKB files of up to 3 records, 4-bit subset-difference records of up to 2 entries, certificates and unit key files at the limits of the checks, usage files of up to 2 entries and 1025 titles, all points and scalars below 32 on 3 curves | `ReadFits`, `WalkIsAligned`, `RecordIsWhole`, `PaddedFileIsFound`, `ServedDevicesGetMk`, `UkReadsFit`, `TitlesGetTheirKey`, `CciReadsFit`, `UnencryptedIsRight`, `MulIsMultiple`, `PointIsPrinted`, `EveryCallReturns` (liveness) |
| `config_load` | KEYDB.cfg files of up to 3 lines of 21 kinds with 3 line endings, whole or cut off; two files; key files and built-in keys | `LinesAreRead`, `KeysAreKept`, `NothingIsThrownAway`, `TextIsFresh`, `StringsAreFreed`, `Returns` (liveness) |
| `darwin` | the system asks up to 3 times (1 319 states) | `RejectedMountIsMadeUp`, `CloseWaitsForMount`, `CloseReturns` (liveness) |
| `stream_first_play`, `unit_keys_aacs2`, `cci_titles`, `cci_of_title` | violations, see below | `UnitsAreDecrypted`, `Aacs2KeysAreFound`, `TitlesAreBasic`, `CciIsOfTitle` |

Where the code does not do what is said of it, a passing run checks the property under the
condition that makes it hold, and the module also states it without the condition; the
table of disagreements below says how to see that fail. The three pairs are
`LatestSeenIsCached` and `LatestSeen`, `SuccessGivesKeys` and `EncryptedUnitsHaveKeys`,
`LinesAreRead` and `EveryLineIsRead`. `SuccessGivesKeys` has no
condition on the configuration: `ListLacks` lets a unit without its key pass only if its key
is not in its place in a list that the code takes by the rule at `aacs.c:919`, "only discard
incorrect amount of UKs if VUK or MK+VID is available". `FirstFileIsUsed` is about lists of
directories without an empty name, and `KeysAreKept` does not count the line behind a disc
without a title.

**Bounds.** Two hosts are enough for every interference the drive allows: a
host disturbs another one only through the session of one AGID, and two AGIDs
give one that both use and one that only one of them uses. One call per host is enough with two hosts,
since the second call of a host meets the same drive states as the first call
of another one; nonces never repeat. Two calls per process let a process
update, be overtaken by the other one and read; the lists have the same length, because
a reader that finds a longer one than it has memory for gives up; the binding id takes three, one that
creates it, one that fails and one that reads. Paths of four names, of which two
are missing for both processes and one differs, let them race at every level. Two calls per thread and playlist let a
thread autodetect first and use the remembered CPS unit then, while another one
is between its two stores; playlists follow each other without bound. The
waterfall has no bound at all: its state space is finite. Numbers of 4 bits give
trees in which u, v, the device and its keys lie in every relation to each
other, and both ends of the range; two entries let the first one not serve the
device and the second one serve it or end the record. Three records and a buffer
of 8 make the buffer grow between records and put a wanted record first, in the
middle and last. The unit key and usage files are
at both sides of every comparison the code makes: the last key ends with the file
or a few bytes behind it, the number of titles is 0, 1, around a multiple of 8 and
around 1024. `SizeMod` stands for 2^64 and is far above all sizes, so that a wrap
is as visible as in the code. The curves have 11, 13 and 17 as p, one of them with
an a other than p - 3, and all additions happen, the one of a point to itself and
to its inverse included. Two disc lines with something else between them are
what it takes to let an entry disturb the next one; error recovery discards at
most up to the next newline, so a third line shows where the parser goes on.
Three attempts of the system to
mount are the fewest after which every known early end of a wait happens, and
the waits are the same after a fourth. Most of the safety properties do not depend
on these bounds: they are proved for every value of the constants, see below.

**Deadlock** is checked where the system never stops (`stream_*`, `waterfall`),
and not where a behaviour ends by itself: a bound on calls (`mmc_*`,
`user_files`) or a function that returns (`sequential`, `config_load`, `darwin`). There the liveness properties say that it does not stop too early.

**Symmetry** is used only where no liveness is checked.

**Fairness.** In `mmc_healthy`: weak fairness of each host's `Step`, that is,
`device_send_cmd()` returns (the ioctl of the Linux backend has a timeout) and
the calling thread goes on. Nothing is assumed of `Call`. In
`stream_parallel`: weak fairness of the steps of each thread inside a call
(`Serve`), which never waits for another one; the player need not call. In
`sequential` and `config_load`: weak fairness of the next step, the thread that
executes the function goes on; nothing but its own loops could keep it from its
end. In `darwin`: weak
fairness of the caller (the application closes the device it has opened), of the
serial queue, and of the system's answers to requests, which DiskArbitration
owes to every request; none of `Ask`.

Every property has a mutant: a definition of the model changed the way a bug
in the code would change it, under which TLC finds the property violated.

## What is proved

Eight modules hold proofs. Each theorem is about all behaviours of the component's
specification and every value of its constants; what it assumes of them stands in the
`ASSUME` of the component's module, which TLC evaluates in every run, or in the
theorem's own hypotheses, which are listed here. All inductive invariants were checked
with TLC before they were proved.

### Drive authentication (`MmcAuthProofs`)

For every set of hosts, every number of AGIDs and calls and every certificate list:

| Theorem | States | Under |
|---|---|---|
| `TypeCorrect` | `[]TypeOK`: the index into the certificate list and the loop variable over the AGIDs are in range when they are used | any bus |
| `KeyAgreementHolds` | `[]KeyAgreement` | any bus |
| `SuccessIsAuthenticHolds` | `[]SuccessIsAuthentic` | any bus |
| `AgidsOwnedHolds` | `[]AgidsOwned` | `Quiet`: the bus loses and corrupts nothing |
| `UsableCertIsFoundHolds` | `[]UsableCertIsFound` | `Quiet`, a drive of AACS 1 |
| `DataKeysOfOneHost` | `[]DataKeysAuthentic` | one host, nothing corrupted; commands may be lost |

`KeyAgreement` is not inductive: it says nothing of the steps before the bus
key exists. The invariant behind it is `KeyInv = GenInv /\ HostKeyInv(h)` for
all `h`. `GenInv`: a session that is granted has a real generation, so it is
never mistaken for a nonce that arrived wrong. `HostKeyInv`: from the moment the
drive key has been accepted, if the drive's session under the host's AGID
carries this host's nonce and certificate, then the nonce and the key point the
host received are those of this very session; and the drive can only hold this
host's key point in such a session. The argument is the one that makes the
protocol work: the drive signs its key point together with the host's nonce, so
a point of another session does not verify, and a session that was invalidated
and granted again has lost the host's nonce. A step of another host can only
reset the session or replace its nonce by that host's own (`OthersKeyStep`,
from `DriveStep` and `HostFrame`); the host's own steps establish the invariant
at `ReadDriveKey` and keep it (`OwnKeyStep`).

`AuthInv` follows what is to be returned from the step that checked its MAC or
signature to the return. `SoloInv` says of a host that is alone that a usable
certificate is still ahead of it in the list and that the drive's session is its own.
Data keys carry no MAC. `DataKeysOfOneHost` is what can be said of them: with one
host nobody can have replaced the session. With two it is false.

### Stream decryption (`StreamDecryptProofs`)

For every number of threads, CPS units, titles and calls and every title map
(`StreamAssumption`: the map has an entry for First Play, the top menu and each title,
and each is a CPS unit of the disc):

| Theorem | States | Under |
|---|---|---|
| `TypeCorrect` | `[]TypeOK`: the index into the unit keys is in range | |
| `SuccessIsClear` | `[]SuccessMeansClear` | either order of the shared fields |
| `SelectionStaysCurrent` | `[]SelectionIsCurrent` | `Rules` |
| `EveryUnitIsDecrypted` | `[]UnitsAreDecrypted` | `Rules` |
| `ServiceRefined` | `Service!Safety`: each step is a step of `StreamService` or none | `Rules` |

`Rules`: the shared fields are accessed in program order, the title map was read, and
the player resets with the title number the code takes for First Play. Without any of
the three the properties fail (see below). That a playlist ends before the next one
starts is in the model (`StartPlaylist`), because `aacs.h` demands it of the player.

`ClearInv` (with `ThreadClear`): what a thread is about to store is the key that fits
its buffer, so the copy that follows is clear. `PlayInv` adds `ThreadCurrent` and
`ThreadDecrypts`: every ciphertext in a buffer is of the playlist, so whatever any
thread detects is the CPS unit of the playlist; a thread raises the flag only behind
the key, and one that has seen the flag raised reads a key that stays right until the
playlist ends, because all threads store the same one. The steps of other threads
(`OthersStay`, `SharedStep`, `PlayOthersStep`) change nothing but the shared fields.
The refinement needs nothing but `ServeInv`, which adds that a thread inside a call has
keys and a unit that is marked: its return is then the one reply the service may give.

### Key waterfall (`WaterfallProofs`)

For every set of discs and configurations, every number of unit keys and every answer
of the drive:

| Theorem | States | Under |
|---|---|---|
| `CacheIsEnough` | `[]CacheSuffices` | |
| `BusKeyIsKnown` | `[]BusKeyKnown` | |
| `CacheStaysRight` | `[]CacheIsRight` | `RightConfigs`, `NoStaleVid` |
| `SuccessMeansKeys` | `[]SuccessGivesKeys` | the same |

`RightConfigs`: a listed MK, VID or VUK is that of the disc. `NoStaleVid`: no handle is
opened again after a wrong MAC, a behaviour of the code that is described below. Lists of
unit keys and usage files may be anything. `EnoughInv`: with a cached
VUK the search for it never begins. `BusInv`: only the drive's answers are cached as
read data keys, so a wrong one is from a disturbed exchange. `RightInv`: until the VUK is
derived every key in the handle belongs to the disc in the drive. `KeysInv` carries the
keys of the config entry through the search for the VUK, so that a list of the wrong length
is taken only when the entry leads to none, and the unit keys from the loop over the units
to the return.

### Files of the user (`RlCacheProofs`, `UserFilesProofs`)

For every number of processes and calls:

| Theorem | States | Under |
|---|---|---|
| `VersionsMatch` | `[]VersionMatchesList` | (the property is about calls that do not overlap) |
| `LatestStays` | `[]LatestSeenIsCached` | (about updates that do not overlap, readers anywhere, none of which has failed) |
| `ReadersNotBehind` | `[]ListIsNotOlder` | (the same) |
| `StoredIdIsKept` | `StoredIdStays`, an action property | `OneAtATime`: calls do not overlap |
| `MkdirsWorks` | `[]DirsAreMade` | `PlainPaths`: no doubled slash in a path |
| `FirstFileFound` | `[]FirstFileIsUsed` | every list of directories |

`WriterInv`: at most one process updates (`OneUpdate`), version and list in a file belong
together (`Paired`), and a process in the middle of a write finds the file as it left it
(`ProcWrites`). `SerialInv` says the same of a reader that is alone (`ProcReads`). `CleanInv`:
a file that nobody is writing is missing or complete, and each version that an update has
passed, or a reader has read, is in it, in a newer one, or about to be replaced by a newer
one (`Covers`): so the list a reader gets in the end is not older than the version it read
before. `IdInv`: who writes an id has found none stored.
`MkInv`: the tree is closed under prefixes, a process that is creating knows that the
directories up to its position are there, and some process is `Confident`: it has
succeeded or was killed, or none of the directories it has yet to make is there. Whoever
makes one of them before it takes its place, which is why calls that overlap never all
fail.

### The sequential code (`SequentialProofs`)

Files of the disc, for every file, whatever its bytes say:

| Theorem | States |
|---|---|
| `ReadsFit` | `[]ReadFits`, for every initial buffer of at least 4 bytes and every failure |
| `WalksAreAligned` | `[]WalkIsAligned` |
| `RecordsAreWhole` | `[]RecordIsWhole` |
| `PaddedFilesAreFound` | `[]PaddedFileIsFound`, for any number of records |
| `UnitKeyReadsFit` | `[]UkReadsFit` |
| `TitlesHaveTheirKey` | `[]TitlesGetTheirKey` |
| `UsageReadsFit` | `[]CciReadsFit` |
| `UnencryptedMeansFree` | `[]UnencryptedIsRight` |

The first three rest on `IInv`. Its heart is `Chain`: the headers the reader of the MKB
has seen start at offset 0, each one but the last is followed by the one its length
points to, and the last one is the last four bytes read. `_record()` follows the same
lengths from the same start, so it stays on the chain until the next header is outside
the buffer. `ReadState` ties the size of the next chunk to the length in the last
header, which is what `ReadFits` needs when the buffer is enlarged.

`PaddedFileIsFound` compares with the layout of the file, which is defined by recursion
over its records (`Starts`). That this definition has a solution, and that its values
grow until the padding, is proved with the least-number principle instead of
induction: of a statement that fails somewhere, take the least number at which it fails
(`LeastNatural`, from the well-foundedness of `<`; `IteratesAgree`, `IteratesExist` and
`Iteration` for any definition that goes from one number to the next; `StartsFacts`,
`StartsGrow`). `PInv`: what the reader has followed and what the walk has
passed are the records of the layout (`OnRecords`), and the file in use is the right one.

`UkInv` says of every moment of `uk_parse()` which comparisons have been made and which
keys have been read from their places. `CciInv`: the parser is at the beginning of an
entry of the file, or behind all of them, and the number of bytes it has left is the
real one (`Aligned`), and what it has stored is what the file holds (`Stored`).
The assumptions (`MkbFileAssumption`, `UnitKeyAssumption`, `CciAssumption`) are the types
of sizes and fields; a usage file is smaller than `SizeMod`.

The media key, for numbers of every width `W`, every record and every list of keys:
`ServedDevicesGetTheMk`, `MkSpec => []ServedDevicesGetMk`. Masks become divisions by powers
of two, and the lemmas about these (`CutOneMore`, `CutsAgree`, `OddMultiples`, `MaskNode`)
say that nodes lie on one path exactly if they agree where both are defined. The lowest 1 of
a number exists and gives its v (`MaskExists`, `VMaskFacts`). From there: a device that an
entry serves leaves the path to v at one node, whose sibling it has the key of
(`ServedDeviceHasKey`); `_find_dk()` finds that key or another one on the same path, from
wherever the loop over the devices has reached (`SearchFinds`, `KeyIsFound`,
`FoundKeyIsOnPath`). `MkInv` follows the label that `_calc_pk()` has reached down that path
(`LabelIsOnPath`), so that it meets v and is accepted, and says of the devices that were
given up that no entry serves them (`GivenUp`). An entry read behind the record comes after
all that serve a device, and its key is accepted by none.

The bytes of points, over the field of every prime, for bytes of every base and points of
every length: `PointsArePrinted`, `EcSpec => []PointIsPrinted`. The digits of a number
spell it (`DigitsSpell`, from `DivideTwice` and `DigitStep`), a number below a power of the
base has at most that many digits (`PrintedFacts`), zeros in front of it change nothing
(`PaddedFacts`), and its last digits are the remainder (`LastBytes`). Besides, each point of
the multiplication has its coordinates below p (`DupType`, `AddType`, `AffineType`), which
is what makes them fit.

### Loading KEYDB.cfg (`ConfigLoadProofs`)

For every text of every file, syntax errors and error recovery included, and every other
source of keys:

| Theorem | States |
|---|---|
| `TextStaysFresh` | `[]TextIsFresh` |
| `EveryStringIsFreed` | `[]StringsAreFreed` |
| `StackStaysSmall` | `[]StackFits`: the stack of `yyparse()` stays in the array of 200 entries it starts in, no reduction reaches below its bottom, and the parse never ends for lack of memory |
| `NothingGetsLost` | `[]NothingIsThrownAway` |

All four are about the tables of the generated parser, which the provers go through entry
by entry. `ConfigLoadAssumption` says that a text is a sequence of tokens of the scanner and
how it ends when its last line is complete; `TextStaysFresh` needs neither.

Behind a hex string the parser is in one of four states (`HexStates`). They are entered only
by shifting a hex string (`HexShift`, `GotoState`, `ErrorState`), they reduce without a
lookahead (`HexReduce`), and no other state reduces by a rule that uses the text
(`HexDefault`). So the value on top of the stack in such a state is of the last `yylex()`
(`Fresh`), whatever is below it.

For the strings and the stack it must be known what is below. `SInv` says that the
stack is linked: next to each state stands one that may be there, and the right-hand side
that is being read began in a state where its nonterminal may begin (`Linked`). The tables
`under`, `phrase`, `dot`, `level`, `held` and `begins` name these for each of the 147 states;
the lemmas from `UnderStates` to `EndCompletes` check them against the tables of the parser,
so nothing rests on how they were found. The grammar has no right recursion, hence `level`: no state is ever
deeper than 13. `held` is the number of strings that the values of a stack with this state on
top own; `Counted` says that so many strings are allocated, and with errors or forgotten
lists perhaps more.

For `NothingGetsLost` the parser must accept every text that ends with NEWLINE, whatever its
errors. `EndStates` are the states a NEWLINE can lead to, and those reached from them; in none of
them is the end of the file an error (`EndTable`, `EndGoto`). An error leads to state 1,
which takes NEWLINE (`AfterError`), so a NEWLINE never is the second error in a row and is
not discarded; the bottom of the stack takes the error token (`BottomTakesError`), so
recovery never gives up earlier. `Titles` says where the scanner waits for a title, and with
it that the last newline is a NEWLINE. `Collected`: until a file was accepted, or one of the
other sources had a key, the configuration is empty.

### Darwin (`DarwinDeviceProofs`)

For every number of attempts of the system to mount the disc: `RejectionIsMadeUp`,
`Spec => []RejectedMountIsMadeUp`, and `FreedBehindMount`, `Spec => []CloseWaitsForMount`.
`DInv` follows the one answer that can be under way (`OneAnswer`), says what a rejection
leaves behind (`Rejections`), bounds the signals of the semaphore by those that are
accounted for (`Signals`): one for the unmount, one for the rejected mount, one for our
own; and concludes that the wait for our mount ends only with its own signal (`Mounting`).

### Only model-checked

* Liveness under fairness, which the provers cannot do: `CallReturns`,
  `EveryCallReturns`, `Returns`, `CloseReturns`, and that every request to
  `StreamService` is answered (the other half of `ServiceIsMemoryless`).
* `LinesAreRead` and `KeysAreKept`: they compare the parser with what `KeydbLines` computes
  by folding over all lines, and need an induction over the lines together with the whole
  automaton. Half of the last part of `LinesAreRead`, that the parser fails only when the file
  ends in the middle of a line, is `Accepted` in the proof of `NothingGetsLost`.
* `MulIsMultiple`: it needs the group law of an elliptic curve, associativity first of
  all, which is far beyond these provers.

## Disagreements between the code and what is said of it

Four have runs of their own and are described under `findings`:

* `stream_first_play`: `AACS_TITLE_FIRST_PLAY` and `AACS_TITLE_TOP_MENU` are
  exchanged in `aacs.h`, so that a player that uses them switches autodetection
  off for good.
* `unit_keys_aacs2`: the layout of an AACS2 unit key file is guessed from bytes at
  offset 112 of the file instead of the key area.
* `cci_titles`: `_bitcpy()` takes the number of bits modulo 4, and enhanced titles
  are not seen.
* `cci_of_title`: `aacs_get_basic_cci()` numbers usage files from 0, `_calc_uks()`
  from 1.

The following were met with the same models; each is reproduced by changing the
named configuration or definition.

| What happens | Reproduce with |
|---|---|
| `cache_save()` writes the version first and `_update_rl()` compares nothing else: a file that has lost its list is not repaired by discs of that version or older ones. | `MCUserFiles.cfg`, property `UpdateLeavesList` |
| Two processes check the cached version before either writes; the older list overwrites the newer one, although ChangeLog:93 says "Check host certificates against latest seen revocation list". | `MCUserFiles.cfg`, `Overlaps = {"all"}`, property `LatestSeen` |
| Two processes each create and return a binding id of their own. | `MCUserFiles.cfg`, `OneAtATime <- FALSE` in `B`, `CanFail = FALSE`, property `B!OneBindingId` |
| A binding id that could not be written is returned all the same; the next call returns another one. | `MCUserFiles.cfg`, property `B!OneBindingId` |
| The flag `cps_unit_selected` becomes visible before `current_cps_unit`, and a thread decrypts in place with the wrong key. | `MCStreamParallel.cfg`, `Reorder = TRUE`, property `UnitsAreDecrypted` |
| Without a title map `aacs_select_title()` returns before it resets the autodetected CPS unit. | `MCStreamParallel.cfg`, `TitlesRead = FALSE`, property `UnitsAreDecrypted` |
| In-place decryption fails and has cleared the marks of encryption; a second call with the buffer returns 1. | `MCStreamParallel.cfg`, property `AnySuccessMeansClear` |
| Without unit keys `aacs_decrypt_unit()` returns -1, where `aacs.h` says "1 on success, 0 on error". | `MCStreamParallel.cfg`, property `ReturnsOneOrZero` |
| An unreadable usage file counts as "unencrypted" (-1 passes the test with `!`), and success is reported without the VUK; `aacs.c:1066` says "error out if VUK calculation fails and encrypted CPS unit is found". | `MCWaterfallKeys.cfg`, `CciFile <- UsageFilesLost`, property `EncryptedUnitsHaveKeys` |
| A volume id with a wrong MAC stays in the handle and is returned by `aacs_get_vid()`. | `MCWaterfallKeys.cfg`, property `GettersAreAuthentic` |
| The same volume id is taken for one of the config file when the handle is opened again, and the VUK derived from it is cached. | `MCWaterfallKeys.cfg`, `Reopen = TRUE`, `DiscErrors = FALSE`, property `CacheIsRight` |
| A config entry that lists its unit keys out of order: they are stored by position, their numbers are ignored. | `MCWaterfallKeys.cfg`, `SuccessGivesKeys` without `ListLacks` |
| Any failure of SEND KEY (host certificate) is reported as a revoked certificate. | `MCMmcShared.cfg`, property `RevokedMeansRevoked` |
| After a syntax error inside a list of unit keys, `dkplist` still points into the old entry and takes the unit keys of the next disc line. | `MCConfigLoad.cfg`, `Setups <- BrokenLists`, property `EveryLineIsRead` |
| A disc id without a title, or with one blank for a title: the scanner does not return the newline, and the next line is lost. | `MCConfigLoad.cfg`, `Setups <- UntitledDiscs`, property `EveryLineIsRead` |
| Strings of `hexstring_list` are not freed after a syntax error, nor those of the lists of binding nonces, PAKs and title keys. | `MCConfigLoad.cfg`, `StringsAreFreed` without its conditions |
| The size of an AACS2 unit key file is checked with `uk->num_uk`, which is still 0: its keys are read behind the end of the buffer. | `MCSequential.cfg`, `UkReadsFit` without its condition on `aacs2` |
| `cci_parse_entry()` compares the length of an entry with `size + 6`; the bytes left wrap around. | `MCSequential.cfg`, `CciReadsFit` without its condition |
| `_gcry_mpi_ec_add_points()` with z1 = 1 takes x1 for x2 z1^2; on the curve of AACS a multiplication meets that with a probability of about 2^-152 only. | `MCSequential.cfg`, `MulIsMultiple` without `ec_short` |
| An x of the bus key point of less than 16 bytes is copied from in front of the array. | `MCSequential.cfg`, `PointIsPrinted` without its condition on the length |
| A directory that two processes make at the same time: the second gets EEXIST and does not save its file. | `MCUserFiles.cfg`, `DirsAreMade` without `mk_alone` |
| A doubled slash in `XDG_CONFIG_HOME` or `XDG_CACHE_HOME` (one at its end is enough) makes `file_mkdirs()` create a directory twice and fail. | `MCUserFiles.cfg` with an empty name in a path of `SomePaths`, property `DirsAreMade` |
| An empty name in `XDG_CONFIG_DIRS` ends the list. | `MCUserFiles.cfg`, `FirstFileIsUsed` without its condition |
| A KEYDB.cfg whose last line has no newline makes the parser fail; if it is the only source, the keys read from it are thrown away. | `MCConfigLoad.cfg`, `NothingIsThrownAway` without its condition on `cut` |
| A second rejected mount leaves a signal behind that ends the wait for our own mount: the device is freed while the mount is under way. | `MCDarwinDevice.cfg`, `CloseWaitsForMount` without its condition on `rejections` |
| When the system asks again while `disk_mounting` is being set, the approval callback rejects our own mount. | `MCDarwinDevice.cfg`, invariant `cb # "ask_us"` |

Noted while reading, each at the edge of what the models cover:

* A bad unit key in a list is skipped, and the ones behind it move up by one.
* The entry of the system's KEYDB.cfg, read last, comes before the user's.
* `_is_duplicate_dk()` compares whole list nodes with their `next` pointers and
  recognises only the last node of the list; a duplicate device key is harmless.
* A MKB file without padding behind its last record cannot be read, because the
  reader wants the header of a next one; and a file that is cut off later counts
  as read, so the duplicate is not tried.
* `num_uvs` is computed from the length of the C-values; the entries behind the
  record that are looked at because of this change no result in `sequential`.
* A configured device key whose `uv` lies beside or below the v of an entry keeps
  `_calc_pk()` in its loop for ever. The keys of real devices do not.
* A configured device key of a node above its own u that stands in front of the right one is
  taken by `_find_dk()`, and the device is given up.
* `uk_parse()` frees nothing when it fails after its first allocation.
* With the scalar 0 the counter of the loop of `_gcry_mpi_ec_mul_point()` starts at
  2^32 - 2; a random scalar is never 0 in practice.
* The scanner ends the process when reading KEYDB.cfg fails (`YY_FATAL_ERROR`).
* The list of `file_get_config_system()` is static and published before it is
  filled in; two threads that load a configuration may see it half made.

## What is not modelled and why

* AES, CMAC, hashes and ECDSA of `crypto.c`: calls of libgcrypt, ideal in the
  models. Reading and writing of key files by its callers is in the models.
* The buffer and the automaton of the generated scanner: flex makes them from the
  rules, which `KeydbParser` has; they add nothing of this program.
* The Linux and Windows backends: they pass one command to the operating system
  and keep no state; their outcome is `Command` of `MmcAuth`.
* Shifts by 32 to 63 (`u_mask_shift` of a malformed record), which C leaves
  undefined, and allocation failures outside `_read_mkb_file()`.
* `mmc_read_mkb()`, `mkb_data_size()` and the revocation tests of `mkb.c`, which
  nothing in the library calls, and the developer tools.
* The names of the user's directories, logging and strings, which format text; the
  developer tools and examples, which print what the library returns.

## Plan

What can be modelled faithfully of the library's own logic is modelled, and of the 34
invariants that the passing runs check 31 are proved for every value of the constants. What is left
would be new mathematics rather than more of the same: a theory of the curve's group for
`MulIsMultiple`, and for `LinesAreRead` and `KeysAreKept` an induction principle that can be
applied to a run of the parser over one line.
