------------------------------ MODULE RlCache ------------------------------
(***************************************************************************)
(* The cached revocation lists: _update_rl(), _save_rl() and _get_rl() of  *)
(* aacs.c on top of cache_save() and cache_get() of keydbcfg.c.            *)
(*                                                                         *)
(* A cache file is a version (4 bytes), a length (4 bytes) and the signed  *)
(* list; the version is outside the signature.  Every system call on the   *)
(* file is one step.  Processes that opened different discs share the      *)
(* files, nothing is locked, and a file is rewritten in place (O_TRUNC).   *)
(*                                                                         *)
(* A list is represented by the MKB version it was taken from.  Bytes that *)
(* are a mixture of lists, or zeros of a hole, carry no valid signature.   *)
(***************************************************************************)
EXTENDS Integers, Sequences, FiniteSets

CONSTANTS
    Procs,        \* processes
    RlNames,      \* <<"drl", "hrl">>, in the order of _update_rl()
    DiscVersion,  \* MKB version of the disc each process has opened
    HasRl,        \* the processes whose MKB holds non-empty signed lists
    RlLen,        \* length of the list of each version
    CanFail,      \* TRUE: open(), write() can fail (disk full)
    CanCrash,     \* TRUE: a process can be killed
    Overlaps,     \* which calls of different processes overlap (see overlap)
    MaxCalls      \* bound: calls one process makes

Versions == {DiscVersion[p] : p \in Procs}
Absent == -1          \* the file ends before this field
Unsigned == 0        \* list bytes whose signature does not verify

ASSUME RlAssumption ==
    /\ RlNames \in Seq({"drl", "hrl"}) /\ Len(RlNames) > 0
    /\ DiscVersion \in [Procs -> Nat \ {0}]
    /\ RlLen \in [Versions -> Nat \ {0}]
    /\ HasRl \subseteq Procs
    /\ Overlaps \subseteq {"none", "reads", "all"}
    /\ MaxCalls \in Nat

VARIABLES
    overlap,  \* the calls of different processes do not overlap ("none"); readers overlap
              \* with everybody, but updates not with each other ("reads"); all calls do ("all")
    file,   \* the cache files
    pc, op, \* next system call, and "update" or "get"
    calls,
    li,     \* index of the list being handled
    rver, rlen, rmax,  \* version, len and malloc'ed size of _get_rl()
    result, \* what the last call returned
    clean   \* history: no call of the process has failed or been killed so far

proc == <<pc, op, calls, li, rver, rlen, rmax, result, clean>>
vars == <<overlap, file, proc>>

NoFile == [ver |-> Absent, len |-> Absent, list |-> Absent, size |-> 0]
Null   == [ver |-> 0, list |-> Unsigned, len |-> 0]
Name(p) == RlNames[li[p]]
File(p) == file[Name(p)]
SetFile(p, f) == file' = [file EXCEPT ![Name(p)] = f]

Goto(p, label) == pc' = [pc EXCEPT ![p] = label]
MaxOf(a, b) == IF a > b THEN a ELSE b

-----------------------------------------------------------------------------
(* System calls on the file.                                               *)

\* What is read from a field: a hole reads as zero, and a field behind the end of the file
\* leaves the zero in place the caller initialised it with.
FillHole(x) == IF x = Absent THEN 0 ELSE x

\* open(O_TRUNC) (the mutant lacks O_TRUNC).
KeepFile(f) == f
Truncated(f) == NoFile

\* write() at offset 0, 4 and 8.  Bytes skipped by an earlier truncation of
\* another process become a hole.
VersionWritten(f, v) == [f EXCEPT !.ver = v]
LenWritten(f, v)     == [f EXCEPT !.ver = FillHole(@), !.len = RlLen[v]]
ListWritten(f, v)    == [ver |-> FillHole(f.ver), len |-> FillHole(f.len),
                         list |-> v, size |-> MaxOf(f.size, RlLen[v])]
\* A write() of the list that stopped half way.
ListTorn(f, v)       == [ver |-> FillHole(f.ver), len |-> FillHole(f.len),
                         list |-> Unsigned, size |-> MaxOf(f.size, RlLen[v] - 1)]

\* _rl_verify_signature() on the first len bytes of the list area: the length of
\* the list is taken from its own header and must fit.
SignatureOk(f, len) == f.list # Unsigned /\ RlLen[f.list] <= len

-----------------------------------------------------------------------------
(* _update_rl()                                                            *)

Updating(p) == pc[p] \in {"check", "open", "version", "len", "list"}

MayStart(p, o) ==
    /\ pc[p] = "idle" /\ calls[p] < MaxCalls
    /\ overlap = "none" => \A q \in Procs : pc[q] = "idle"
    /\ overlap = "reads" /\ o = "update" => \A q \in Procs : ~Updating(q)

Start(p, o, label) ==
    /\ MayStart(p, o)
    /\ calls' = [calls EXCEPT ![p] = @ + 1]
    /\ op' = [op EXCEPT ![p] = o]
    /\ Goto(p, label)

StartUpdate(p) ==
    /\ Start(p, "update", "check")
    /\ li' = [li EXCEPT ![p] = 1]
    /\ UNCHANGED <<file, rver, rlen, rmax, result, clean>>

\* On to the next list, or return.
NextList(p) ==
    IF li[p] < Len(RlNames)
    THEN li' = [li EXCEPT ![p] = @ + 1] /\ Goto(p, "check")
    ELSE UNCHANGED li /\ Goto(p, "idle")

\* cache_get(name, &cache_version, NULL, NULL, 0) fails, or finds an older
\* version (the mutant also replaces a newer one).
OutdatedAlways(p) == TRUE
Outdated(p) == File(p).ver = Absent \/ File(p).ver < DiscVersion[p]

\* The version check, and the checks of _save_rl() on the record of the MKB.
CheckVersion(p) ==
    /\ pc[p] = "check"
    /\ IF Outdated(p) /\ p \in HasRl
       THEN Goto(p, "open") /\ UNCHANGED li
       ELSE NextList(p)
    /\ UNCHANGED <<file, op, calls, rver, rlen, rmax, result, clean>>

\* A system call of cache_save(): done, then `label`; or failed, then the file
\* is left as it is (or as `partly` says) and the error is ignored.
SaveCall(p, f, label, partly) ==
    /\ \/ /\ SetFile(p, f)
          /\ IF label = "next" THEN NextList(p) ELSE Goto(p, label) /\ UNCHANGED li
          /\ UNCHANGED clean
       \/ /\ CanFail
          /\ SetFile(p, partly)
          /\ NextList(p)
          /\ clean' = [clean EXCEPT ![p] = FALSE]
    /\ UNCHANGED <<op, calls, rver, rlen, rmax, result>>

OpenForWriting(p) == pc[p] = "open"    /\ SaveCall(p, Truncated(File(p)), "version", File(p))
WriteVersion(p)   == pc[p] = "version" /\ SaveCall(p, VersionWritten(File(p), DiscVersion[p]), "len", File(p))
WriteLen(p)       == pc[p] = "len"     /\ SaveCall(p, LenWritten(File(p), DiscVersion[p]), "list", File(p))
WriteList(p)      == pc[p] = "list"    /\ SaveCall(p, ListWritten(File(p), DiscVersion[p]), "next",
                                                   ListTorn(File(p), DiscVersion[p]))

-----------------------------------------------------------------------------
(* _get_rl()                                                               *)

StartGet(p) ==
    /\ Start(p, "get", "get_version")
    /\ \E i \in 1 .. Len(RlNames) : li' = [li EXCEPT ![p] = i]
    /\ UNCHANGED <<file, rver, rlen, rmax, result, clean>>

ReturnList(p, r) ==
    /\ result' = [result EXCEPT ![p] = r]
    /\ Goto(p, "idle")

\* First cache_get(): the version ...
GetVersion(p) ==
    /\ pc[p] = "get_version"
    /\ IF FillHole(File(p).ver) = 0
       THEN ReturnList(p, Null)
       ELSE Goto(p, "get_len") /\ UNCHANGED result
    /\ UNCHANGED <<file, op, calls, li, rver, rlen, rmax, clean>>

\* ... and the length; the buffer for the list is allocated.
GetLen(p) ==
    /\ pc[p] = "get_len"
    /\ rmax' = [rmax EXCEPT ![p] = FillHole(File(p).len)]
    /\ IF FillHole(File(p).len) = 0
       THEN ReturnList(p, Null)
       ELSE Goto(p, "reread_version") /\ UNCHANGED result
    /\ UNCHANGED <<file, op, calls, li, rver, rlen, clean>>

\* Second cache_get(): version and length are read again ...
RereadVersion(p) ==
    /\ pc[p] = "reread_version"
    /\ rver' = [rver EXCEPT ![p] = FillHole(File(p).ver)]
    /\ IF File(p).ver = Absent
       THEN ReturnList(p, Null)
       ELSE Goto(p, "reread_len") /\ UNCHANGED result
    /\ UNCHANGED <<file, op, calls, li, rlen, rmax, clean>>

RereadLen(p) ==
    /\ pc[p] = "reread_len"
    /\ rlen' = [rlen EXCEPT ![p] = FillHole(File(p).len)]
    /\ IF File(p).len = Absent \/ FillHole(File(p).len) = 0 \/ FillHole(File(p).len) > rmax[p]
       THEN ReturnList(p, Null)
       ELSE Goto(p, "read_list") /\ UNCHANGED result
    /\ UNCHANGED <<file, op, calls, li, rver, rmax, clean>>

\* ... then the list, whose signature is verified.
ReadList(p) ==
    /\ pc[p] = "read_list"
    /\ IF File(p).list # Absent /\ File(p).size >= rlen[p] /\ SignatureOk(File(p), rlen[p])
       THEN ReturnList(p, [ver |-> rver[p], list |-> File(p).list, len |-> rlen[p]])
       ELSE ReturnList(p, Null)
    /\ UNCHANGED <<file, op, calls, li, rver, rlen, rmax, clean>>

-----------------------------------------------------------------------------
\* The process is killed; what it wrote stays.
Crash(p) ==
    /\ CanCrash /\ pc[p] # "idle"
    /\ Goto(p, "idle")
    /\ clean' = [clean EXCEPT ![p] = FALSE]
    /\ UNCHANGED <<file, op, calls, li, rver, rlen, rmax, result>>

Init ==
    /\ overlap \in Overlaps
    /\ file = [n \in {RlNames[i] : i \in 1 .. Len(RlNames)} |-> NoFile]
    /\ pc = [p \in Procs |-> "idle"]
    /\ op = [p \in Procs |-> "get"]
    /\ calls = [p \in Procs |-> 0]
    /\ li = [p \in Procs |-> 1]
    /\ rver = [p \in Procs |-> 0]
    /\ rlen = [p \in Procs |-> 0]
    /\ rmax = [p \in Procs |-> 0]
    /\ result = [p \in Procs |-> Null]
    /\ clean = [p \in Procs |-> TRUE]

Step(p) ==
    \/ StartUpdate(p) \/ CheckVersion(p) \/ OpenForWriting(p)
    \/ WriteVersion(p) \/ WriteLen(p) \/ WriteList(p)
    \/ StartGet(p) \/ GetVersion(p) \/ GetLen(p) \/ RereadVersion(p) \/ RereadLen(p) \/ ReadList(p)
    \/ Crash(p)

Next == (\E p \in Procs : Step(p)) /\ UNCHANGED overlap

Spec == Init /\ [][Next]_vars

-----------------------------------------------------------------------------
(* Properties.                                                             *)

Quiet == \A p \in Procs : pc[p] = "idle"
Complete(f) == f.list \in Versions /\ f.len \in Nat /\ f.size >= f.len /\ RlLen[f.list] <= f.len

AllClean == \A p \in Procs : clean[p]

\* When calls do not overlap, mkb_version and list returned together belong together, also
\* after failures and kills, although the version is stored outside the signature.
VersionMatchesList ==
    overlap = "none" => \A p \in Procs : result[p] # Null => result[p].ver = result[p].list

\* A reader of _get_rl() can meet a file that an update truncates and writes again between
\* its five reads, and hand out the version of one list with the bytes of another.  As long
\* as updates do not overlap each other and nothing has failed, the list is then the newer
\* of the two: the application never gets an older list than the version says.
ListIsNotOlder ==
    overlap # "all" /\ AllClean =>
        \A p \in Procs : result[p] # Null => result[p].ver <= result[p].list

\* Once no call is under way and none has failed or been killed, the cache holds whole lists
\* at least as new as every disc that was opened: the application can check host
\* certificates "against latest seen revocation list" (ChangeLog, version 0.4.0).
LatestSeen ==
    Quiet /\ AllClean =>
        \A p \in HasRl : op[p] = "update" /\ calls[p] > 0 =>
           \A n \in DOMAIN file : Complete(file[n]) /\ file[n].list >= DiscVersion[p]

\* The latest list seen is in the cache as long as updates do not overlap each other; readers
\* may be anywhere.
LatestSeenIsCached == overlap # "all" => LatestSeen

\* An update by a process whose calls never failed leaves a whole list in the cache,
\* whatever happened to the file before: one left incomplete by a failure of another
\* process is repaired.
UpdateLeavesList ==
    [][\A p \in HasRl : pc[p] # "idle" /\ pc'[p] = "idle" /\ op[p] = "update" /\ clean'[p]
          => \A n \in DOMAIN file : Complete(file'[n])]_vars
=============================================================================
