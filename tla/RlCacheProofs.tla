--------------------------- MODULE RlCacheProofs ---------------------------
(***************************************************************************)
(* Proofs about RlCache for every number of processes, discs and lists.    *)
(***************************************************************************)
EXTENDS RlCache, TLAPS

Names == {RlNames[i] : i \in 1 .. Len(RlNames)}
Labels == {"idle", "check", "open", "version", "len", "list",
           "get_version", "get_len", "reread_version", "reread_len", "read_list"}
Files == [ver : Nat \cup {Absent}, len : Nat \cup {Absent},
          list : Versions \cup {Absent, Unsigned}, size : Nat]
Answers == [ver : Nat, list : Versions \cup {Unsigned}, len : Nat]

TypeInv ==
    /\ overlap \in {"none", "reads", "all"}
    /\ file \in [Names -> Files]
    /\ pc \in [Procs -> Labels] /\ op \in [Procs -> {"update", "get"}]
    /\ calls \in [Procs -> Nat]
    /\ li \in [Procs -> 1 .. Len(RlNames)]
    /\ rver \in [Procs -> Nat] /\ rlen \in [Procs -> Nat] /\ rmax \in [Procs -> Nat]
    /\ result \in [Procs -> Answers]
    /\ clean \in [Procs -> BOOLEAN]

-----------------------------------------------------------------------------
(* Files                                                                   *)

LEMMA VersionType ==
    ASSUME NEW p \in Procs
    PROVE  DiscVersion[p] \in Versions /\ Versions \subseteq Nat \ {0}
BY RlAssumption DEF Versions

LEMMA NameType ==
    ASSUME TypeInv, NEW p \in Procs
    PROVE  Name(p) \in Names /\ File(p) \in Files
BY DEF TypeInv, Name, Names, File

\* What the system calls leave in a file is a file.
LEMMA FileTypes ==
    ASSUME NEW f \in Files, NEW v \in Versions
    PROVE  /\ Truncated(f) \in Files
           /\ VersionWritten(f, v) \in Files
           /\ LenWritten(f, v) \in Files
           /\ ListWritten(f, v) \in Files
           /\ ListTorn(f, v) \in Files
<1>1. v \in Nat \ {0} /\ RlLen[v] \in Nat \ {0} /\ RlLen[v] - 1 \in Nat
    BY RlAssumption DEF Versions
<1>2. /\ FillHole(f.ver) \in Nat /\ FillHole(f.len) \in Nat
      /\ MaxOf(f.size, RlLen[v]) \in Nat /\ MaxOf(f.size, RlLen[v] - 1) \in Nat
    BY <1>1 DEF Files, FillHole, MaxOf, Absent
<1>3. Truncated(f) \in Files
    BY DEF Truncated, NoFile, Files
<1>4. VersionWritten(f, v) \in Files
    BY <1>1 DEF VersionWritten, Files
<1>5. LenWritten(f, v) \in Files
    BY <1>1, <1>2 DEF LenWritten, Files
<1>6. ListWritten(f, v) \in Files /\ ListTorn(f, v) \in Files
    BY <1>1, <1>2 DEF ListWritten, ListTorn, Files
<1> QED BY <1>3, <1>4, <1>5, <1>6

\* The system calls of cache_save(): what each makes of the file, where it goes on, and
\* what is left when it fails.
Saves(p, f, label, partly) ==
    \/ pc[p] = "open" /\ f = Truncated(File(p)) /\ label = "version" /\ partly = File(p)
    \/ pc[p] = "version" /\ f = VersionWritten(File(p), DiscVersion[p]) /\ label = "len" /\ partly = File(p)
    \/ pc[p] = "len" /\ f = LenWritten(File(p), DiscVersion[p]) /\ label = "list" /\ partly = File(p)
    \/ /\ pc[p] = "list" /\ f = ListWritten(File(p), DiscVersion[p]) /\ label = "next"
       /\ partly = ListTorn(File(p), DiscVersion[p])

SaveStep(p) ==
    OpenForWriting(p) \/ WriteVersion(p) \/ WriteLen(p) \/ WriteList(p)

LEMMA SaveForm ==
    ASSUME TypeInv, NEW p \in Procs, SaveStep(p)
    PROVE  \E f \in Files, partly \in Files, label \in {"version", "len", "list", "next"} :
              Saves(p, f, label, partly) /\ SaveCall(p, f, label, partly)
<1>1. File(p) \in Files /\ DiscVersion[p] \in Versions
    BY NameType, VersionType
<1>2. CASE OpenForWriting(p)
    BY <1>1, <1>2, FileTypes DEF OpenForWriting, Saves
<1>3. CASE WriteVersion(p)
    BY <1>1, <1>3, FileTypes DEF WriteVersion, Saves
<1>4. CASE WriteLen(p)
    BY <1>1, <1>4, FileTypes DEF WriteLen, Saves
<1>5. CASE WriteList(p)
    BY <1>1, <1>5, FileTypes DEF WriteList, Saves
<1> QED BY <1>2, <1>3, <1>4, <1>5 DEF SaveStep

GetStep(p) ==
    GetVersion(p) \/ GetLen(p) \/ RereadVersion(p) \/ RereadLen(p) \/ ReadList(p)

-----------------------------------------------------------------------------
(* Types                                                                   *)

LEMMA TypeInit == Init => TypeInv
<1> SUFFICES ASSUME Init PROVE TypeInv
    OBVIOUS
<1>1. Null \in Answers /\ NoFile \in Files
    BY DEF Null, NoFile, Answers, Files
<1>2. 1 \in 1 .. Len(RlNames) /\ overlap \in {"none", "reads", "all"}
    BY RlAssumption DEF Init
<1> QED BY <1>1, <1>2 DEF Init, TypeInv, Names, Labels

LEMMA NextListType ==
    ASSUME TypeInv, NEW p \in Procs, NextList(p)
    PROVE  pc' \in [Procs -> Labels] /\ li' \in [Procs -> 1 .. Len(RlNames)]
<1>1. /\ pc \in [Procs -> Labels] /\ li \in [Procs -> 1 .. Len(RlNames)]
      /\ Len(RlNames) \in Nat
    BY RlAssumption DEF TypeInv
<1>2. li[p] < Len(RlNames) => li[p] + 1 \in 1 .. Len(RlNames)
    BY <1>1
<1>3. pc' \in [Procs -> Labels]
    BY <1>1 DEF NextList, Goto, Labels
<1>4. li' \in [Procs -> 1 .. Len(RlNames)]
    BY <1>1, <1>2 DEF NextList
<1> QED BY <1>3, <1>4

\* What ReadList() returns.
LEMMA ReadListType ==
    ASSUME TypeInv, NEW p \in Procs, ReadList(p)
    PROVE  \E r \in Answers : result' = [result EXCEPT ![p] = r]
<1>1. File(p) \in Files /\ rver[p] \in Nat /\ rlen[p] \in Nat
    BY NameType DEF TypeInv
<1>2. Null \in Answers
    BY DEF Null, Answers
<1> DEFINE r == [ver |-> rver[p], list |-> File(p).list, len |-> rlen[p]]
<1>3. CASE result' = [result EXCEPT ![p] = Null]
    BY <1>2, <1>3
<1>4. CASE /\ result' = [result EXCEPT ![p] = r]
           /\ File(p).list # Absent /\ SignatureOk(File(p), rlen[p])
    <2>1. File(p).list \in Versions
        BY <1>1, <1>4 DEF Files, SignatureOk
    <2>2. r \in Answers
        BY <1>1, <2>1 DEF Answers
    <2> QED BY <1>4, <2>2
<1> QED BY <1>3, <1>4 DEF ReadList, ReturnList

LEMMA TypeStep ==
    ASSUME TypeInv, NEW p \in Procs, Step(p), UNCHANGED overlap
    PROVE  TypeInv'
<1>0. File(p) \in Files /\ Null \in Answers
    BY NameType DEF Null, Answers
<1>1. CASE StartUpdate(p) \/ StartGet(p)
    <2>0. /\ li \in [Procs -> 1 .. Len(RlNames)] /\ 1 \in 1 .. Len(RlNames)
          /\ pc \in [Procs -> Labels] /\ op \in [Procs -> {"update", "get"}]
          /\ calls \in [Procs -> Nat]
        BY RlAssumption DEF TypeInv
    <2>1. li' \in [Procs -> 1 .. Len(RlNames)]
        BY <1>1, <2>0 DEF StartUpdate, StartGet
    <2>2. pc' \in [Procs -> Labels]
        BY <1>1, <2>0 DEF StartUpdate, StartGet, Start, Goto, Labels
    <2>3. op' \in [Procs -> {"update", "get"}]
        BY <1>1, <2>0 DEF StartUpdate, StartGet, Start
    <2>5. calls' \in [Procs -> Nat]
        <3>1. calls' = [calls EXCEPT ![p] = calls[p] + 1]
            BY <1>1 DEF StartUpdate, StartGet, Start
        <3> QED BY <2>0, <3>1
    <2>4. UNCHANGED <<file, rver, rlen, rmax, result, clean>>
        BY <1>1 DEF StartUpdate, StartGet
    <2> QED BY <2>1, <2>2, <2>3, <2>4, <2>5 DEF TypeInv
<1>2. CASE CheckVersion(p)
    <2>1. pc' \in [Procs -> Labels] /\ li' \in [Procs -> 1 .. Len(RlNames)]
        BY <1>2, NextListType DEF CheckVersion, Goto, TypeInv, Labels
    <2> QED BY <1>2, <2>1 DEF CheckVersion, TypeInv
<1>3. CASE SaveStep(p)
    <2>1. PICK f \in Files, partly \in Files, label \in {"version", "len", "list", "next"} :
              SaveCall(p, f, label, partly)
        BY <1>3, SaveForm
    <2>2. pc' \in [Procs -> Labels] /\ li' \in [Procs -> 1 .. Len(RlNames)]
        BY <2>1, NextListType DEF SaveCall, Goto, TypeInv, Labels
    <2>3. file' \in [Names -> Files]
        BY <2>1, NameType DEF SaveCall, SetFile, TypeInv
    <2>4. clean' \in [Procs -> BOOLEAN]
        BY <2>1 DEF SaveCall, TypeInv
    <2> QED BY <2>1, <2>2, <2>3, <2>4 DEF SaveCall, TypeInv
<1>4. CASE GetVersion(p)
    BY <1>0, <1>4 DEF GetVersion, ReturnList, Goto, TypeInv, Labels
<1>5. CASE GetLen(p)
    <2>1. FillHole(File(p).len) \in Nat
        BY <1>0 DEF FillHole, Files, Absent
    <2> QED BY <1>0, <1>5, <2>1 DEF GetLen, ReturnList, Goto, TypeInv, Labels
<1>6. CASE RereadVersion(p)
    <2>1. FillHole(File(p).ver) \in Nat
        BY <1>0 DEF FillHole, Files, Absent
    <2> QED BY <1>0, <1>6, <2>1 DEF RereadVersion, ReturnList, Goto, TypeInv, Labels
<1>7. CASE RereadLen(p)
    <2>1. FillHole(File(p).len) \in Nat
        BY <1>0 DEF FillHole, Files, Absent
    <2> QED BY <1>0, <1>7, <2>1 DEF RereadLen, ReturnList, Goto, TypeInv, Labels
<1>8. CASE ReadList(p)
    <2>2. result' \in [Procs -> Answers]
        BY <1>8, ReadListType DEF TypeInv
    <2>3. pc' = [pc EXCEPT ![p] = "idle"]
        BY <1>8 DEF ReadList, ReturnList, Goto
    <2>4. pc' \in [Procs -> Labels]
        BY <2>3 DEF TypeInv, Labels
    <2> QED BY <1>8, <2>2, <2>4 DEF ReadList, TypeInv
<1>9. CASE Crash(p)
    BY <1>9 DEF Crash, Goto, TypeInv, Labels
<1> QED BY <1>1, <1>2, <1>3, <1>4, <1>5, <1>6, <1>7, <1>8, <1>9 DEF Step, SaveStep

LEMMA TypeInvariant == Spec => []TypeInv
<1>1. TypeInv /\ [Next]_vars => TypeInv'
    <2> SUFFICES ASSUME TypeInv, [Next]_vars PROVE TypeInv'
        OBVIOUS
    <2>1. CASE UNCHANGED vars
        BY <2>1 DEF vars, proc, TypeInv
    <2> QED BY <2>1, TypeStep DEF Next
<1> QED BY <1>1, TypeInit, PTL DEF Spec
-----------------------------------------------------------------------------
(* Updates that do not overlap each other                                  *)

\* At most one update is under way.
OneUpdate == \A p, q \in Procs : Updating(p) /\ Updating(q) => p = q

\* The version stands in front of the list it belongs to.
Paired(n) == file[n].list \in Versions => file[n].ver = file[n].list

\* The file a process writes is as it has left it.
ProcWrites(p) ==
    /\ pc[p] = "open" => File(p).ver < DiscVersion[p]
    /\ pc[p] = "version" => File(p) = NoFile
    /\ pc[p] \in {"len", "list"} => File(p).ver = DiscVersion[p] /\ File(p).list = Absent

WriterInv == OneUpdate /\ (\A n \in Names : Paired(n)) /\ (\A p \in Procs : ProcWrites(p))

\* A step of p leaves the locals of the others alone.
LEMMA OthersStay ==
    ASSUME TypeInv, NEW p \in Procs, Step(p), NEW q \in Procs, q # p
    PROVE  /\ pc'[q] = pc[q] /\ op'[q] = op[q] /\ calls'[q] = calls[q] /\ li'[q] = li[q]
           /\ rver'[q] = rver[q] /\ result'[q] = result[q]
<1> USE DEF TypeInv, Goto
<1>1. CASE StartUpdate(p) \/ StartGet(p)
    BY <1>1 DEF StartUpdate, StartGet, Start
<1>2. CASE CheckVersion(p)
    BY <1>2 DEF CheckVersion, NextList
<1>3. CASE SaveStep(p)
    BY <1>3 DEF SaveStep, OpenForWriting, WriteVersion, WriteLen, WriteList, SaveCall, NextList
<1>4. CASE GetStep(p)
    BY <1>4 DEF GetStep, GetVersion, GetLen, RereadVersion, RereadLen, ReadList, ReturnList
<1>5. CASE Crash(p)
    BY <1>5 DEF Crash
<1> QED BY <1>1, <1>2, <1>3, <1>4, <1>5 DEF Step, SaveStep, GetStep

\* While p makes a step of an update, nobody else is in one.
LEMMA OthersDoNotUpdate ==
    ASSUME OneUpdate, overlap \in {"none", "reads"}, NEW p \in Procs,
           StartUpdate(p) \/ CheckVersion(p) \/ SaveStep(p), NEW q \in Procs, q # p
    PROVE  ~Updating(q)
<1>1. Updating(p) \/ MayStart(p, "update")
    BY DEF StartUpdate, Start, CheckVersion, SaveStep, OpenForWriting, WriteVersion, WriteLen,
           WriteList, Updating
<1> QED BY <1>1 DEF OneUpdate, MayStart, Updating

\* The steps that do not touch the files, and where they lead.
LEMMA ReadOnly ==
    ASSUME TypeInv, NEW p \in Procs, StartGet(p) \/ GetStep(p) \/ Crash(p)
    PROVE  file' = file /\ ~Updating(p)'
<1>1. pc \in [Procs -> Labels]
    BY DEF TypeInv
<1> QED BY <1>1 DEF StartGet, Start, GetStep, GetVersion, GetLen, RereadVersion, RereadLen, ReadList,
                    ReturnList, Crash, Goto, Updating

\* What the successful system calls of cache_save() make of the file, one after the other.
LEMMA SavedFile ==
    ASSUME TypeInv, NEW p \in Procs, ProcWrites(p), NEW f, NEW label, NEW partly,
           Saves(p, f, label, partly)
    PROVE  /\ label = "version" => f = NoFile
           /\ label \in {"len", "list"} => f.ver = DiscVersion[p] /\ f.list = Absent
           /\ label = "next" => f.ver = DiscVersion[p] /\ f.list = DiscVersion[p]
<1>0. /\ DiscVersion[p] \in Nat \ {0} /\ Absent \notin Nat
      /\ File(p) \in Files
    BY RlAssumption, NameType DEF Absent
<1>1. CASE pc[p] = "open"
    BY <1>1 DEF Saves, Truncated
<1>2. CASE pc[p] = "version"
    <2>1. f = [NoFile EXCEPT !.ver = DiscVersion[p]] /\ label = "len"
        BY <1>2 DEF Saves, VersionWritten, ProcWrites
    <2> QED BY <2>1 DEF NoFile
<1>3. CASE pc[p] = "len"
    <2>1. FillHole(File(p).ver) = DiscVersion[p] /\ File(p).list = Absent
        BY <1>0, <1>3 DEF FillHole, ProcWrites
    <2>2. f = LenWritten(File(p), DiscVersion[p]) /\ label = "list"
        BY <1>3 DEF Saves
    <2>3. LenWritten(File(p), DiscVersion[p]).ver = FillHole(File(p).ver)
        BY <1>0 DEF LenWritten, Files
    <2>4. LenWritten(File(p), DiscVersion[p]).list = File(p).list
        BY <1>0 DEF LenWritten, Files
    <2> QED BY <2>1, <2>2, <2>3, <2>4
<1>4. CASE pc[p] = "list"
    <2>1. FillHole(File(p).ver) = DiscVersion[p]
        BY <1>0, <1>4 DEF FillHole, ProcWrites
    <2>2. f = ListWritten(File(p), DiscVersion[p]) /\ label = "next"
        BY <1>4 DEF Saves
    <2> QED BY <2>1, <2>2 DEF ListWritten
<1> QED BY <1>1, <1>2, <1>3, <1>4 DEF Saves

\* The step of cache_save() as a whole.
LEMMA WriterSave ==
    ASSUME TypeInv, WriterInv, NEW p \in Procs, SaveStep(p)
    PROVE  (\A n \in Names : Paired(n)') /\ ProcWrites(p)'
<1>0. /\ ProcWrites(p) /\ Paired(Name(p)) /\ Name(p) \in Names /\ File(p) \in Files
      /\ file \in [Names -> Files] /\ pc \in [Procs -> Labels] /\ li \in [Procs -> 1 .. Len(RlNames)]
    BY NameType DEF WriterInv, TypeInv
<1>1. PICK f \in Files, partly \in Files, label \in {"version", "len", "list", "next"} :
          Saves(p, f, label, partly) /\ SaveCall(p, f, label, partly)
    BY SaveForm
<1>2. /\ label = "version" => f = NoFile
      /\ label \in {"len", "list"} => f.ver = DiscVersion[p] /\ f.list = Absent
      /\ label = "next" => f.ver = DiscVersion[p] /\ f.list = DiscVersion[p]
    BY <1>0, <1>1, SavedFile
<1>3. partly = File(p) \/ partly.list = Unsigned
    BY <1>1 DEF Saves, ListTorn
<1>4. Absent \notin Versions /\ Unsigned \notin Versions
    BY VersionType DEF Absent, Unsigned
<1>5. ASSUME NEW n \in Names PROVE Paired(n)'
    <2>1. CASE n # Name(p)
        <3>1. file'[n] = file[n]
            BY <1>0, <1>1, <2>1 DEF SaveCall, SetFile
        <3> QED BY <3>1 DEF WriterInv, Paired
    <2>2. CASE n = Name(p)
        <3>1. file'[n] = f \/ file'[n] = partly
            BY <1>0, <1>1, <2>2 DEF SaveCall, SetFile
        <3>2. f.list \in Versions => f.ver = f.list
            BY <1>2, <1>4 DEF NoFile
        <3>3. partly.list \in Versions => partly.ver = partly.list
            BY <1>0, <1>3, <1>4 DEF Paired, File
        <3> QED BY <3>1, <3>2, <3>3 DEF Paired
    <2> QED BY <2>1, <2>2
<1>6. ProcWrites(p)'
    <2>1. CASE pc'[p] \in {"check", "idle"}
        BY <1>0, <1>1, <2>1 DEF ProcWrites, SaveCall
    <2>2. CASE pc'[p] \notin {"check", "idle"}
        <3>1. /\ file' = [file EXCEPT ![Name(p)] = f]
              /\ label # "next" /\ pc'[p] = label /\ li' = li
            BY <1>0, <1>1, <2>2 DEF SaveCall, SetFile, NextList, Goto
        <3>2. File(p)' = f
            BY <1>0, <3>1 DEF File, Name
        <3> QED BY <1>0, <1>1, <1>2, <3>1, <3>2 DEF ProcWrites, SaveCall
    <2> QED BY <2>1, <2>2
<1> QED BY <1>5, <1>6

LEMMA WriterStep ==
    ASSUME TypeInv, WriterInv, overlap \in {"none", "reads"}, NEW p \in Procs, Step(p)
    PROVE  WriterInv'
<1>0. ASSUME NEW q \in Procs, q # p
      PROVE  pc'[q] = pc[q] /\ li'[q] = li[q] /\ ProcWrites(q)
    BY <1>0, OthersStay DEF WriterInv
<1>1. ASSUME file' = file, NEW q \in Procs, q # p
      PROVE  ProcWrites(q)'
    BY <1>0, <1>1 DEF ProcWrites, File, Name
<1>2. /\ ProcWrites(p) /\ pc \in [Procs -> Labels] /\ File(p) \in Files
    BY NameType DEF WriterInv, TypeInv
<1>3. ASSUME file' = file PROVE \A n \in Names : Paired(n)'
    BY <1>3 DEF Paired, WriterInv
<1>4. CASE StartUpdate(p) \/ CheckVersion(p) \/ SaveStep(p)
    <2>0. ASSUME NEW q \in Procs, q # p
          PROVE  ~Updating(q)' /\ ProcWrites(q)'
        BY <1>0, <1>4, <2>0, OthersDoNotUpdate DEF WriterInv, Updating, ProcWrites
    <2>1. OneUpdate'
        BY <2>0 DEF OneUpdate
    <2>2. CASE StartUpdate(p)
        <3>1. file' = file /\ pc'[p] = "check"
            BY <1>2, <2>2 DEF StartUpdate, Start, Goto
        <3>2. ProcWrites(p)'
            BY <3>1 DEF ProcWrites
        <3> QED BY <1>3, <2>0, <2>1, <3>1, <3>2 DEF WriterInv
    <2>3. CASE CheckVersion(p)
        <3>1. file' = file /\ pc'[p] \in {"open", "check", "idle"}
            BY <1>2, <2>3 DEF CheckVersion, NextList, Goto
        <3>2. pc'[p] = "open" => File(p)' = File(p) /\ Outdated(p)
            BY <1>2, <2>3 DEF CheckVersion, NextList, Goto, File, Name
        <3>3. pc'[p] = "open" => File(p)'.ver < DiscVersion[p]
            BY <1>2, <3>2, RlAssumption DEF Outdated, Files, Absent
        <3>4. ProcWrites(p)'
            BY <3>1, <3>3 DEF ProcWrites
        <3> QED BY <1>3, <2>0, <2>1, <3>1, <3>4 DEF WriterInv
    <2>4. CASE SaveStep(p)
        BY <2>0, <2>1, <2>4, WriterSave DEF WriterInv
    <2> QED BY <1>4, <2>2, <2>3, <2>4
<1>5. CASE StartGet(p) \/ GetStep(p) \/ Crash(p)
    <2>1. file' = file /\ ~Updating(p)'
        BY <1>5, ReadOnly
    <2>2. ProcWrites(p)'
        BY <2>1 DEF ProcWrites, Updating
    <2>3. OneUpdate'
        BY <1>0, <2>1 DEF WriterInv, OneUpdate, Updating
    <2> QED BY <1>1, <1>3, <2>1, <2>2, <2>3 DEF WriterInv
<1> QED BY <1>4, <1>5 DEF Step, SaveStep, GetStep

LEMMA WriterInvariant == Spec => [](overlap # "all" => WriterInv)
<1>1. Init => WriterInv
    <2> SUFFICES ASSUME Init PROVE WriterInv
        OBVIOUS
    <2>1. ASSUME NEW n \in Names PROVE Paired(n)
        <3>1. file[n].list = Absent /\ Absent \notin Versions
            BY RlAssumption DEF Init, Names, NoFile, Versions, Absent
        <3> QED BY <3>1 DEF Paired
    <2>2. OneUpdate /\ \A p \in Procs : ProcWrites(p)
        BY DEF Init, OneUpdate, Updating, ProcWrites
    <2> QED BY <2>1, <2>2 DEF WriterInv
<1>2. TypeInv /\ (overlap # "all" => WriterInv) /\ [Next]_vars => (overlap # "all" => WriterInv)'
    <2> SUFFICES ASSUME TypeInv, overlap # "all" => WriterInv, [Next]_vars, overlap' # "all"
                 PROVE  WriterInv'
        OBVIOUS
    <2>1. CASE UNCHANGED vars
        BY <2>1 DEF vars, proc, WriterInv, OneUpdate, Updating, Paired, ProcWrites, File, Name
    <2>2. CASE Next
        BY <2>2, WriterStep DEF Next, TypeInv
    <2> QED BY <2>1, <2>2
<1> QED BY <1>1, <1>2, TypeInvariant, PTL DEF Spec
-----------------------------------------------------------------------------
(* Calls that do not overlap                                               *)

\* At most one call is under way.
Serial == \A p, q \in Procs : pc[p] # "idle" /\ pc[q] # "idle" => p = q

\* The version a process has read is still the one in the file, and a result is a pair that
\* belongs together.
ProcReads(p) ==
    /\ pc[p] \in {"reread_len", "read_list"} => rver[p] = File(p).ver
    /\ result[p] # Null => result[p].ver = result[p].list

SerialInv == Serial /\ (\A p \in Procs : ProcReads(p))

\* While p makes a step, nobody else is at work.
LEMMA OthersIdle ==
    ASSUME Serial, overlap = "none", NEW p \in Procs, Step(p), NEW q \in Procs, q # p
    PROVE  pc[q] = "idle"
<1>1. pc[p] # "idle" \/ \E o : MayStart(p, o)
    BY DEF Step, StartUpdate, StartGet, Start, CheckVersion, OpenForWriting, WriteVersion, WriteLen,
           WriteList, GetVersion, GetLen, RereadVersion, RereadLen, ReadList, Crash
<1> QED BY <1>1 DEF Serial, MayStart

\* A list that ReadList() hands out is in the file then.
LEMMA ListRead ==
    ASSUME TypeInv, NEW p \in Procs, ReadList(p), result'[p] # Null
    PROVE  /\ File(p).list \in Versions /\ pc[p] = "read_list"
           /\ result'[p] = [ver |-> rver[p], list |-> File(p).list, len |-> rlen[p]]
<1>0. File(p) \in Files /\ result \in [Procs -> Answers]
    BY NameType DEF TypeInv
<1>1. File(p).list # Absent /\ SignatureOk(File(p), rlen[p])
    BY <1>0 DEF ReadList, ReturnList
<1> QED BY <1>0, <1>1 DEF Files, SignatureOk, ReadList, ReturnList

\* A reader's step, when calls do not overlap.
LEMMA SerialGet ==
    ASSUME TypeInv, WriterInv, SerialInv, NEW p \in Procs, GetStep(p)
    PROVE  ProcReads(p)'
<1>0. /\ ProcReads(p) /\ Paired(Name(p)) /\ Name(p) \in Names /\ File(p) \in Files
      /\ pc \in [Procs -> Labels] /\ rver \in [Procs -> Nat] /\ result \in [Procs -> Answers]
    BY NameType DEF WriterInv, SerialInv, TypeInv
<1>1. File(p)' = File(p) /\ pc'[p] \in {"idle", "get_len", "reread_version", "reread_len", "read_list"}
    BY <1>0 DEF GetStep, GetVersion, GetLen, RereadVersion, RereadLen, ReadList, ReturnList, Goto, File, Name
<1>2. CASE GetVersion(p) \/ GetLen(p)
    BY <1>0, <1>1, <1>2 DEF GetVersion, GetLen, ReturnList, Goto, ProcReads
<1>3. CASE RereadVersion(p)
    <2>1. pc'[p] = "reread_len" => rver'[p] = File(p).ver
        BY <1>0, <1>3 DEF RereadVersion, ReturnList, Goto, FillHole
    <2>2. result'[p] = result[p] \/ result'[p] = Null
        BY <1>0, <1>3 DEF RereadVersion, ReturnList
    <2>3. pc'[p] \in {"idle", "reread_len"}
        BY <1>0, <1>3 DEF RereadVersion, ReturnList, Goto
    <2> QED BY <1>0, <1>1, <2>1, <2>2, <2>3 DEF ProcReads
<1>4. CASE RereadLen(p)
    BY <1>0, <1>1, <1>4 DEF RereadLen, ReturnList, Goto, ProcReads
<1>5. CASE ReadList(p)
    <2>1. pc'[p] = "idle"
        BY <1>0, <1>5 DEF ReadList, ReturnList, Goto
    <2>2. ASSUME result'[p] # Null PROVE result'[p].ver = result'[p].list
        <3>1. /\ File(p).list \in Versions /\ pc[p] = "read_list"
              /\ result'[p] = [ver |-> rver[p], list |-> File(p).list, len |-> rlen[p]]
            BY <1>5, <2>2, ListRead
        <3>2. File(p).ver = File(p).list /\ rver[p] = File(p).ver
            BY <1>0, <3>1 DEF Paired, File, ProcReads
        <3> QED BY <3>1, <3>2
    <2> QED BY <2>1, <2>2 DEF ProcReads
<1> QED BY <1>2, <1>3, <1>4, <1>5 DEF GetStep

LEMMA SerialStep ==
    ASSUME TypeInv, WriterInv, SerialInv, overlap = "none", NEW p \in Procs, Step(p)
    PROVE  SerialInv'
<1>0. ASSUME NEW q \in Procs, q # p
      PROVE  pc'[q] = "idle" /\ ProcReads(q)'
    <2>1. pc[q] = "idle" /\ pc'[q] = "idle" /\ result'[q] = result[q]
        BY <1>0, OthersIdle, OthersStay DEF SerialInv
    <2> QED BY <2>1 DEF ProcReads, SerialInv
<1>1. Serial'
    BY <1>0 DEF Serial
<1>2. ProcReads(p) /\ pc \in [Procs -> Labels]
    BY DEF SerialInv, TypeInv
<1>3. CASE GetStep(p)
    BY <1>0, <1>1, <1>3, SerialGet DEF SerialInv
<1>4. CASE ~GetStep(p)
    <2>1. result' = result /\ pc'[p] \notin {"reread_len", "read_list"}
        <3>1. CASE StartUpdate(p) \/ StartGet(p) \/ Crash(p)
            BY <1>2, <3>1 DEF StartUpdate, StartGet, Start, Crash, Goto
        <3>2. CASE CheckVersion(p)
            BY <1>2, <3>2 DEF CheckVersion, NextList, Goto
        <3>3. CASE SaveStep(p)
            <4>1. PICK f \in Files, partly \in Files, label \in {"version", "len", "list", "next"} :
                      SaveCall(p, f, label, partly)
                BY <3>3, SaveForm
            <4> QED BY <1>2, <4>1 DEF SaveCall, NextList, Goto
        <3> QED BY <1>4, <3>1, <3>2, <3>3 DEF Step, SaveStep, GetStep
    <2>2. ProcReads(p)'
        BY <1>2, <2>1 DEF ProcReads
    <2> QED BY <1>0, <1>1, <2>2 DEF SerialInv
<1> QED BY <1>3, <1>4

\* When calls do not overlap, the MKB version and the list that are handed out together
\* belong together, whatever write failed and whoever was killed before.
THEOREM VersionsMatch == Spec => []VersionMatchesList
<1> DEFINE Inv == overlap = "none" => SerialInv
<1>1. Init => Inv
    BY DEF Init, SerialInv, Serial, ProcReads
<1>2. TypeInv /\ (overlap # "all" => WriterInv) /\ Inv /\ [Next]_vars => Inv'
    <2> SUFFICES ASSUME TypeInv, overlap # "all" => WriterInv, Inv, [Next]_vars, overlap' = "none"
                 PROVE  SerialInv'
        OBVIOUS
    <2>1. CASE UNCHANGED vars
        BY <2>1 DEF vars, proc, SerialInv, Serial, ProcReads, File, Name
    <2>2. CASE Next
        BY <2>2, SerialStep DEF Next
    <2> QED BY <2>1, <2>2
<1>3. Inv => VersionMatchesList
    BY DEF SerialInv, ProcReads, VersionMatchesList
<1> QED BY <1>1, <1>2, <1>3, TypeInvariant, WriterInvariant, PTL DEF Spec
-----------------------------------------------------------------------------
(* Updates that do not overlap each other and do not fail                  *)

Writing(q, n) == pc[q] \in {"version", "len", "list"} /\ Name(q) = n

\* The file holds a whole list at least as new as v, or is being replaced by one.
Covers(n, v) ==
    \/ Complete(file[n]) /\ file[n].list >= v
    \/ \E q \in Procs : Writing(q, n) /\ DiscVersion[q] >= v

\* The lists that an update is done with cover its disc; the list a reader is about to read
\* covers the version it has read.
ProcClean(p) ==
    /\ Updating(p) => op[p] = "update"
    /\ pc[p] \in {"get_version", "get_len", "reread_version", "reread_len", "read_list"}
          => op[p] = "get"
    /\ pc[p] = "list" => File(p).len = RlLen[DiscVersion[p]]
    /\ p \in HasRl /\ op[p] = "update" /\ calls[p] > 0 =>
          \A i \in 1 .. Len(RlNames) :
              pc[p] = "idle" \/ i < li[p] => Covers(RlNames[i], DiscVersion[p])
    /\ pc[p] \in {"reread_len", "read_list"} => Covers(Name(p), rver[p])
    /\ result[p] # Null => result[p].ver <= result[p].list

FileClean(n) == file[n] = NoFile \/ Complete(file[n]) \/ \E q \in Procs : Writing(q, n)

CleanInv == (\A n \in Names : FileClean(n)) /\ (\A p \in Procs : ProcClean(p))

\* NextList() leaves no list behind that it does not count as done.
LEMMA NextListDone ==
    ASSUME TypeInv, NEW p \in Procs, NextList(p), NEW i \in 1 .. Len(RlNames),
           pc'[p] = "idle" \/ i < li'[p]
    PROVE  i < li[p] \/ i = li[p]
<1>1. li \in [Procs -> 1 .. Len(RlNames)] /\ pc \in [Procs -> Labels] /\ Len(RlNames) \in Nat
    BY RlAssumption DEF TypeInv
<1>2. CASE li[p] < Len(RlNames)
    <2>1. li'[p] = li[p] + 1 /\ pc'[p] = "check"
        BY <1>1, <1>2 DEF NextList, Goto
    <2> QED BY <1>1, <2>1
<1>3. CASE ~(li[p] < Len(RlNames))
    BY <1>1, <1>3
<1> QED BY <1>2, <1>3

\* Without a failure or a kill a step of cache_save() succeeds.
LEMMA CleanSave ==
    ASSUME TypeInv, AllClean', NEW p \in Procs, SaveStep(p)
    PROVE  \E f \in Files, label \in {"version", "len", "list", "next"} :
              /\ \E partly : Saves(p, f, label, partly)
              /\ SetFile(p, f)
              /\ IF label = "next" THEN NextList(p) ELSE Goto(p, label) /\ UNCHANGED li
              /\ UNCHANGED <<op, calls, rver, result>>
<1>1. PICK f \in Files, partly \in Files, label \in {"version", "len", "list", "next"} :
          Saves(p, f, label, partly) /\ SaveCall(p, f, label, partly)
    BY SaveForm
<1>2. clean'[p] /\ clean \in [Procs -> BOOLEAN]
    BY DEF AllClean, TypeInv
<1>3. ~(clean' = [clean EXCEPT ![p] = FALSE])
    BY <1>2
<1> QED BY <1>1, <1>3 DEF SaveCall

\* The whole list that the last system call of cache_save() leaves.
LEMMA SavedComplete ==
    ASSUME TypeInv, NEW p \in Procs, ProcWrites(p), ProcClean(p), NEW f, NEW partly,
           Saves(p, f, "next", partly)
    PROVE  Complete(f) /\ f.list = DiscVersion[p]
<1>1. pc[p] = "list" /\ f = ListWritten(File(p), DiscVersion[p])
    BY DEF Saves
<1>2. /\ DiscVersion[p] \in Versions /\ RlLen[DiscVersion[p]] \in Nat \ {0}
      /\ File(p) \in Files
    BY VersionType, NameType, RlAssumption
<1>3. File(p).len = RlLen[DiscVersion[p]] /\ FillHole(File(p).len) = RlLen[DiscVersion[p]]
    BY <1>1, <1>2 DEF ProcClean, FillHole, Absent
<1>4. File(p).size \in Nat
    BY <1>2 DEF Files
<1>5. /\ f.list = DiscVersion[p] /\ f.len = RlLen[DiscVersion[p]]
      /\ f.size = MaxOf(File(p).size, RlLen[DiscVersion[p]])
    BY <1>1, <1>3 DEF ListWritten
<1> QED BY <1>2, <1>4, <1>5 DEF Complete, MaxOf

\* What a file covers it goes on to cover while it is being replaced.
LEMMA SaveCovers ==
    ASSUME TypeInv, WriterInv, CleanInv, AllClean', NEW p \in Procs, SaveStep(p),
           \A q \in Procs : q # p => ~Updating(q) /\ pc'[q] = pc[q] /\ li'[q] = li[q],
           NEW n \in Names
    PROVE  /\ FileClean(n)'
           /\ \A v \in Nat : Covers(n, v) => Covers(n, v)'
           /\ NextList(p) /\ n = Name(p) => Covers(n, DiscVersion[p])'
<1>1. PICK f \in Files, label \in {"version", "len", "list", "next"} :
          /\ \E partly : Saves(p, f, label, partly)
          /\ SetFile(p, f)
          /\ IF label = "next" THEN NextList(p) ELSE Goto(p, label) /\ UNCHANGED li
    BY CleanSave
<1>2. PICK partly : Saves(p, f, label, partly)
    BY <1>1
<1>3. /\ ProcWrites(p) /\ ProcClean(p) /\ Paired(n) /\ Name(p) \in Names
      /\ file \in [Names -> Files] /\ pc \in [Procs -> Labels] /\ li \in [Procs -> 1 .. Len(RlNames)]
      /\ DiscVersion[p] \in Nat
    BY NameType, RlAssumption DEF WriterInv, CleanInv, TypeInv
<1>4. ASSUME NEW q \in Procs, Writing(q, n) PROVE q = p
    BY <1>4 DEF Writing, Updating
<1>5. CASE n # Name(p)
    <2>1. file'[n] = file[n]
        BY <1>1, <1>3, <1>5 DEF SetFile
    <2>2. ~\E q \in Procs : Writing(q, n)
        BY <1>4, <1>5 DEF Writing
    <2>3. FileClean(n)
        BY DEF CleanInv
    <2> QED BY <1>5, <2>1, <2>2, <2>3 DEF FileClean, Covers, Complete
<1>6. CASE n = Name(p) /\ label = "next"
    <2>1. Complete(f) /\ f.list = DiscVersion[p]
        BY <1>2, <1>3, <1>6, SavedComplete
    <2>2. file'[n] = f
        BY <1>1, <1>3, <1>6 DEF SetFile
    <2>3. Complete(file[n])' /\ file'[n].list = DiscVersion[p]
        BY <2>1, <2>2 DEF Complete
    <2>4. file[n].list = Absent /\ Absent \notin Versions
        BY <1>2, <1>3, <1>6, VersionType DEF Saves, ProcWrites, File, Absent
    <2>5. ASSUME NEW v \in Nat, Covers(n, v) PROVE DiscVersion[p] >= v
        BY <1>4, <2>4, <2>5 DEF Covers, Complete
    <2>6. DiscVersion[p] >= DiscVersion[p]
        BY <1>3
    <2> QED BY <2>3, <2>5, <2>6 DEF FileClean, Covers
<1>7. CASE n = Name(p) /\ label # "next"
    <2>1. pc'[p] = label /\ Name(p)' = n /\ pc'[p] \in {"version", "len", "list"}
        BY <1>1, <1>3, <1>7 DEF Goto, Name
    <2>2. Writing(p, n)'
        BY <2>1 DEF Writing
    <2>3. ASSUME NEW v \in Nat, Covers(n, v) PROVE DiscVersion[p] >= v
        <3>1. CASE pc[p] = "open"
            <4>1. Complete(file[n]) /\ file[n].list >= v
                BY <1>4, <2>3, <3>1 DEF Covers, Writing
            <4>2. file[n].ver = file[n].list /\ file[n].list \in Nat /\ file[n].ver < DiscVersion[p]
                BY <1>3, <1>7, <3>1, <4>1, VersionType DEF Complete, Paired, ProcWrites, File
            <4> QED BY <1>3, <4>1, <4>2
        <3>2. CASE pc[p] # "open"
            <4>1. file[n].list = Absent /\ Absent \notin Versions
                BY <1>2, <1>3, <1>7, <3>2, VersionType DEF Saves, ProcWrites, File, Absent, NoFile
            <4> QED BY <1>4, <2>3, <4>1 DEF Covers, Complete
        <3> QED BY <3>1, <3>2
    <2>4. DiscVersion[p] >= DiscVersion[p]
        BY <1>3
    <2> QED BY <2>2, <2>3, <2>4 DEF FileClean, Covers
<1> QED BY <1>5, <1>6, <1>7
\* The step of a process that does not touch the files.
LEMMA KeepCovers ==
    ASSUME CleanInv, NEW p \in Procs,
           \A q \in Procs : q # p => pc'[q] = pc[q] /\ li'[q] = li[q],
           pc[p] \notin {"version", "len", "list"}, file' = file, NEW n \in Names
    PROVE  /\ FileClean(n)'
           /\ \A v \in Nat : Covers(n, v) => Covers(n, v)'
<1>1. ASSUME NEW q \in Procs, Writing(q, n) PROVE Writing(q, n)'
    BY <1>1 DEF Writing, Name
<1>2. FileClean(n)
    BY DEF CleanInv
<1> QED BY <1>1, <1>2 DEF FileClean, Covers, Complete

\* The version in a file belongs to a list that the file covers.
LEMMA VersionCovers ==
    ASSUME TypeInv, WriterInv, CleanInv, NEW n \in Names, file[n].ver # Absent
    PROVE  Covers(n, file[n].ver)
<1>0. FileClean(n) /\ Paired(n) /\ file[n] \in Files
    BY DEF CleanInv, WriterInv, TypeInv
<1>1. file[n].ver \in Nat
    BY <1>0 DEF Files
<1>2. CASE Complete(file[n])
    BY <1>0, <1>1, <1>2 DEF Complete, Paired, Covers
<1>3. CASE \E q \in Procs : Writing(q, n)
    <2>1. PICK q \in Procs : Writing(q, n)
        BY <1>3
    <2>2. ProcWrites(q) /\ File(q) = file[n]
        BY <2>1 DEF WriterInv, Writing, File
    <2>3. file[n].ver = DiscVersion[q]
        BY <2>1, <2>2 DEF ProcWrites, Writing, NoFile
    <2> QED BY <1>1, <2>1, <2>3 DEF Covers
<1>4. file[n] # NoFile
    BY DEF NoFile
<1> QED BY <1>0, <1>2, <1>3, <1>4 DEF FileClean

\* The list that a reader hands out is at least as new as the version it has read: the file
\* covers the version, and while it is being written it holds no list.
LEMMA ListCovers ==
    ASSUME TypeInv, WriterInv, NEW p \in Procs, NEW v \in Nat, Covers(Name(p), v),
           File(p).list \in Versions
    PROVE  v <= File(p).list
<1>1. Absent \notin Versions /\ File(p).list \in Nat
    BY VersionType DEF Absent
<1>2. ASSUME NEW q \in Procs, Writing(q, Name(p)) PROVE FALSE
    <2>1. File(q) = File(p) /\ ProcWrites(q)
        BY <1>2 DEF Writing, File, WriterInv
    <2> QED BY <1>1, <1>2, <2>1 DEF Writing, ProcWrites, NoFile
<1> QED BY <1>1, <1>2 DEF Covers, File

\* A process that makes no step keeps what it knows, as long as files cover what they covered.
LEMMA OthersClean ==
    ASSUME TypeInv, CleanInv, NEW p \in Procs, Step(p), NEW q \in Procs, q # p,
           \A n \in Names, v \in Nat : Covers(n, v) => Covers(n, v)',
           file' = file \/ ~Updating(q)
    PROVE  ProcClean(q)'
<1>0. ProcClean(q) /\ DiscVersion[q] \in Nat /\ rver[q] \in Nat /\ Name(q) \in Names
    BY RlAssumption, NameType DEF CleanInv, TypeInv
<1>1. /\ pc'[q] = pc[q] /\ op'[q] = op[q] /\ calls'[q] = calls[q] /\ li'[q] = li[q]
      /\ rver'[q] = rver[q] /\ result'[q] = result[q]
    BY OthersStay
<1>2. ASSUME NEW i \in 1 .. Len(RlNames), Covers(RlNames[i], DiscVersion[q])
      PROVE  Covers(RlNames[i], DiscVersion[q])'
    BY <1>0, <1>2 DEF Names
<1>3. Name(q)' = Name(q)
    BY <1>1 DEF Name
<1>4. Covers(Name(q), rver[q]) => Covers(Name(q), rver[q])'
    <2>1. Covers(Name(q), rver[q]) => \E v \in Nat, n \in Names : v = rver[q] /\ n = Name(q) /\ Covers(n, v)
        BY <1>0
    <2>2. ASSUME NEW v \in Nat, NEW n \in Names, v = rver[q], n = Name(q), Covers(n, v)'
          PROVE  Covers(Name(q), rver[q])'
        BY <1>1, <1>3, <2>2 DEF Covers
    <2> QED BY <2>1, <2>2
<1>5. pc[q] = "list" => File(q)'.len = RlLen[DiscVersion[q]]
    BY <1>0, <1>3 DEF ProcClean, Updating, File
<1> QED BY <1>0, <1>1, <1>2, <1>4, <1>5 DEF ProcClean, Updating

\* The version check of an update.
LEMMA CleanCheck ==
    ASSUME TypeInv, WriterInv, CleanInv, NEW p \in Procs, CheckVersion(p),
           \A q \in Procs : q # p => ~Updating(q),
           \A n \in Names, v \in Nat : Covers(n, v) => Covers(n, v)'
    PROVE  ProcClean(p)'
<1>2. /\ ProcClean(p) /\ DiscVersion[p] \in Nat /\ Name(p) \in Names /\ File(p) \in Files
      /\ pc \in [Procs -> Labels] /\ li \in [Procs -> 1 .. Len(RlNames)]
    BY NameType, RlAssumption DEF CleanInv, TypeInv
<1>3. ASSUME NEW i \in 1 .. Len(RlNames) PROVE RlNames[i] \in Names
    BY DEF Names
<1>4. file' = file /\ pc[p] = "check" /\ op' = op /\ calls' = calls /\ result' = result
    BY DEF CheckVersion
<1>5. op[p] = "update" /\ pc'[p] \in {"open", "check", "idle"}
    BY <1>2 DEF CheckVersion, NextList, Goto, ProcClean, Updating
<1>6. ASSUME p \in HasRl, calls[p] > 0, NEW i \in 1 .. Len(RlNames), pc'[p] = "idle" \/ i < li'[p]
      PROVE  Covers(RlNames[i], DiscVersion[p])'
    <2>1. CASE i < li[p]
        BY <1>2, <1>3, <1>5, <1>6, <2>1 DEF ProcClean
    <2>2. CASE i = li[p] /\ ~Outdated(p)
        <3>1. ~\E q \in Procs : Writing(q, Name(p))
            BY <1>4 DEF Writing, Updating
        <3>2. File(p).ver # Absent /\ ~(File(p).ver < DiscVersion[p])
            BY <2>2 DEF Outdated
        <3>3. Complete(File(p))
            BY <1>2, <3>1, <3>2 DEF NoFile, CleanInv, FileClean, File
        <3>4. File(p).list \in Versions /\ File(p).ver = File(p).list
            BY <1>2, <3>3 DEF WriterInv, Paired, Complete, File
        <3>5. File(p).list \in Nat
            BY <3>4, VersionType
        <3>6. File(p).list >= DiscVersion[p]
            BY <1>2, <3>2, <3>4, <3>5
        <3>7. Covers(Name(p), DiscVersion[p])
            BY <3>3, <3>6 DEF Covers, File
        <3> QED BY <1>2, <2>2, <3>7 DEF Name
    <2>3. CASE Outdated(p)
        <3>1. pc'[p] = "open" /\ li' = li
            BY <1>2, <1>6, <2>3 DEF CheckVersion, Goto
        <3> QED BY <1>6, <2>1, <3>1
    <2>4. ~Outdated(p) => i < li[p] \/ i = li[p]
        BY <1>6, NextListDone DEF CheckVersion
    <2> QED BY <2>1, <2>2, <2>3, <2>4
<1> QED BY <1>2, <1>4, <1>5, <1>6 DEF ProcClean, Updating

\* A system call of cache_save().
LEMMA CleanSaveStep ==
    ASSUME TypeInv, WriterInv, CleanInv, AllClean', NEW p \in Procs, SaveStep(p),
           \A n \in Names, v \in Nat : Covers(n, v) => Covers(n, v)',
           \A n \in Names : NextList(p) /\ n = Name(p) => Covers(n, DiscVersion[p])'
    PROVE  ProcClean(p)'
<1>2. /\ ProcClean(p) /\ DiscVersion[p] \in Nat /\ Name(p) \in Names /\ File(p) \in Files
      /\ pc \in [Procs -> Labels] /\ li \in [Procs -> 1 .. Len(RlNames)]
    BY NameType, RlAssumption DEF CleanInv, TypeInv
<1>3. ASSUME NEW i \in 1 .. Len(RlNames) PROVE RlNames[i] \in Names
    BY DEF Names
<1>4. PICK f \in Files, label \in {"version", "len", "list", "next"} :
          /\ \E partly : Saves(p, f, label, partly)
          /\ SetFile(p, f)
          /\ IF label = "next" THEN NextList(p) ELSE Goto(p, label) /\ UNCHANGED li
          /\ UNCHANGED <<op, calls, rver, result>>
    BY CleanSave
<1>5. op[p] = "update"
    BY <1>2, <1>4 DEF Saves, ProcClean, Updating
<1>6. /\ pc'[p] \in {"version", "len", "list", "check", "idle"}
      /\ pc'[p] = "list" => label = "list"
      /\ pc'[p] = "idle" \/ li'[p] # li[p] => NextList(p)
    BY <1>2, <1>4 DEF NextList, Goto
<1>7. pc'[p] = "list" => File(p)'.len = RlLen[DiscVersion[p]]
    <2>1. SUFFICES ASSUME pc'[p] = "list" PROVE File(p)'.len = RlLen[DiscVersion[p]]
        OBVIOUS
    <2>2. f = LenWritten(File(p), DiscVersion[p]) /\ li' = li
        BY <1>4, <1>6, <2>1 DEF Saves
    <2>3. File(p)' = f
        BY <1>2, <1>4, <2>2 DEF SetFile, File, Name, TypeInv
    <2> QED BY <1>2, <2>2, <2>3 DEF LenWritten, Files
<1>8. ASSUME p \in HasRl, calls[p] > 0, NEW i \in 1 .. Len(RlNames), pc'[p] = "idle" \/ i < li'[p]
      PROVE  Covers(RlNames[i], DiscVersion[p])'
    <2>1. CASE i < li[p]
        BY <1>2, <1>3, <1>5, <1>8, <2>1 DEF ProcClean
    <2>2. CASE ~(i < li[p])
        <3>1. NextList(p)
            BY <1>6, <1>8, <2>2
        <3>2. i = li[p]
            BY <1>8, <2>2, <3>1, NextListDone
        <3> QED BY <1>3, <3>1, <3>2 DEF Name
    <2> QED BY <2>1, <2>2
<1> QED BY <1>2, <1>4, <1>5, <1>6, <1>7, <1>8 DEF ProcClean, Updating

\* A reader's step.
LEMMA CleanGet ==
    ASSUME TypeInv, WriterInv, CleanInv, NEW p \in Procs, GetStep(p),
           \A n \in Names, v \in Nat : Covers(n, v) => Covers(n, v)'
    PROVE  ProcClean(p)'
<1>0. /\ ProcClean(p) /\ Name(p) \in Names /\ File(p) \in Files /\ rver \in [Procs -> Nat]
      /\ pc \in [Procs -> Labels] /\ result \in [Procs -> Answers]
    BY NameType DEF CleanInv, TypeInv
<1>1. /\ op' = op /\ op[p] = "get" /\ li' = li /\ Name(p)' = Name(p)
      /\ pc'[p] \in {"idle", "get_len", "reread_version", "reread_len", "read_list"}
    BY <1>0 DEF GetStep, GetVersion, GetLen, RereadVersion, RereadLen, ReadList, ReturnList, Goto, ProcClean,
                Name
<1>2. ASSUME NEW v \in Nat, rver'[p] = v, Covers(Name(p), v) PROVE Covers(Name(p), rver[p])'
    <2>1. Covers(Name(p), v)'
        <3>1. \E n \in Names : n = Name(p) /\ Covers(n, v)
            BY <1>0, <1>2
        <3>2. ASSUME NEW n \in Names, n = Name(p), Covers(n, v)' PROVE Covers(Name(p), v)'
            BY <1>1, <3>2 DEF Covers
        <3> QED BY <3>1, <3>2
    <2> QED BY <1>2, <2>1 DEF Covers
<1>3. pc'[p] \in {"reread_len", "read_list"} => Covers(Name(p), rver[p])'
    <2> SUFFICES ASSUME pc'[p] \in {"reread_len", "read_list"} PROVE Covers(Name(p), rver[p])'
        OBVIOUS
    <2>1. CASE RereadVersion(p)
        <3>1. File(p).ver # Absent /\ rver'[p] = File(p).ver /\ File(p).ver \in Nat
            BY <1>0, <2>1 DEF RereadVersion, ReturnList, Goto, FillHole, Files
        <3>2. Covers(Name(p), File(p).ver)
            BY <1>0, <3>1, VersionCovers DEF File
        <3> QED BY <1>2, <3>1, <3>2
    <2>2. CASE RereadLen(p)
        <3>1. rver'[p] = rver[p] /\ pc[p] = "reread_len"
            BY <2>2 DEF RereadLen
        <3> QED BY <1>0, <1>2, <3>1 DEF ProcClean
    <2>3. CASE GetVersion(p) \/ GetLen(p) \/ ReadList(p)
        BY <1>0, <2>3 DEF GetVersion, GetLen, ReadList, ReturnList, Goto
    <2> QED BY <2>1, <2>2, <2>3 DEF GetStep
<1>4. result'[p] # Null => result'[p].ver <= result'[p].list
    <2>1. CASE ReadList(p)
        <3> SUFFICES ASSUME result'[p] # Null PROVE result'[p].ver <= result'[p].list
            OBVIOUS
        <3>1. /\ File(p).list \in Versions /\ pc[p] = "read_list"
              /\ result'[p] = [ver |-> rver[p], list |-> File(p).list, len |-> rlen[p]]
            BY <2>1, ListRead
        <3>2. rver[p] <= File(p).list
            BY <1>0, <3>1, ListCovers DEF ProcClean
        <3> QED BY <3>1, <3>2
    <2>2. CASE ~ReadList(p)
        <3>1. result'[p] = result[p] \/ result'[p] = Null
            BY <1>0, <2>2 DEF GetStep, GetVersion, GetLen, RereadVersion, RereadLen, ReturnList
        <3> QED BY <1>0, <3>1 DEF ProcClean
    <2> QED BY <2>1, <2>2
<1> QED BY <1>1, <1>3, <1>4 DEF ProcClean, Updating

LEMMA CleanStep ==
    ASSUME TypeInv, WriterInv, CleanInv, overlap \in {"none", "reads"}, AllClean', NEW p \in Procs, Step(p)
    PROVE  CleanInv'
<1>0. ASSUME NEW q \in Procs, q # p PROVE pc'[q] = pc[q] /\ li'[q] = li[q]
    BY <1>0, OthersStay
<1>1. ASSUME StartUpdate(p) \/ CheckVersion(p) \/ SaveStep(p), NEW q \in Procs, q # p
      PROVE  ~Updating(q)
    BY <1>1, OthersDoNotUpdate DEF WriterInv
<1>2. /\ ProcClean(p) /\ pc \in [Procs -> Labels] /\ op \in [Procs -> {"update", "get"}]
      /\ li \in [Procs -> 1 .. Len(RlNames)]
    BY DEF CleanInv, TypeInv
<1>3. ASSUME file' = file, pc[p] \notin {"version", "len", "list"}
      PROVE  /\ \A n \in Names : FileClean(n)'
             /\ \A n \in Names, v \in Nat : Covers(n, v) => Covers(n, v)'
             /\ \A q \in Procs : q # p => ProcClean(q)'
    <2>1. /\ \A n \in Names : FileClean(n)'
          /\ \A n \in Names, v \in Nat : Covers(n, v) => Covers(n, v)'
        BY <1>0, <1>3, KeepCovers
    <2> QED BY <1>3, <2>1, OthersClean
<1>4. CASE StartUpdate(p) \/ StartGet(p)
    <2>1. file' = file /\ pc[p] = "idle" /\ result' = result
        BY <1>4 DEF StartUpdate, StartGet, Start, MayStart
    <2>3. \/ pc'[p] = "check" /\ op'[p] = "update" /\ li'[p] = 1
          \/ pc'[p] = "get_version" /\ op'[p] = "get"
        BY <1>2, <1>4 DEF StartUpdate, StartGet, Start, Goto
    <2>4. ProcClean(p)'
        BY <1>2, <2>1, <2>3, RlAssumption DEF ProcClean, Updating
    <2> QED BY <1>3, <2>1, <2>4 DEF CleanInv
<1>5. CASE CheckVersion(p)
    <2>1. file' = file /\ pc[p] = "check"
        BY <1>5 DEF CheckVersion
    <2>2. ProcClean(p)'
        BY <1>1, <1>3, <1>5, <2>1, CleanCheck
    <2> QED BY <1>3, <2>1, <2>2 DEF CleanInv
<1>6. CASE SaveStep(p)
    <2>1. /\ \A n \in Names : FileClean(n)'
          /\ \A n \in Names, v \in Nat : Covers(n, v) => Covers(n, v)'
          /\ \A n \in Names : NextList(p) /\ n = Name(p) => Covers(n, DiscVersion[p])'
        BY <1>0, <1>1, <1>6, SaveCovers
    <2>2. ProcClean(p)'
        BY <1>6, <2>1, CleanSaveStep
    <2>3. \A q \in Procs : q # p => ProcClean(q)'
        BY <1>1, <1>6, <2>1, OthersClean
    <2> QED BY <2>1, <2>2, <2>3 DEF CleanInv
<1>7. CASE GetStep(p)
    <2>1. file' = file /\ pc[p] \notin {"version", "len", "list"}
        BY <1>7 DEF GetStep, GetVersion, GetLen, RereadVersion, RereadLen, ReadList
    <2>2. ProcClean(p)'
        BY <1>3, <1>7, <2>1, CleanGet
    <2> QED BY <1>3, <2>1, <2>2 DEF CleanInv
<1>8. CASE Crash(p)
    BY <1>8 DEF Crash, AllClean, TypeInv
<1> QED BY <1>4, <1>5, <1>6, <1>7, <1>8 DEF Step, SaveStep, GetStep

\* A call that has failed or been killed is not forgotten.
LEMMA CleanBefore ==
    ASSUME TypeInv, NEW p \in Procs, Step(p), AllClean'
    PROVE  AllClean
<1>1. clean' = clean \/ clean' = [clean EXCEPT ![p] = FALSE]
    BY DEF Step, StartUpdate, StartGet, CheckVersion, OpenForWriting, WriteVersion, WriteLen, WriteList,
           SaveCall, GetVersion, GetLen, RereadVersion, RereadLen, ReadList, Crash
<1> QED BY <1>1 DEF AllClean, TypeInv

LEMMA CleanInvariant == Spec => [](overlap # "all" /\ AllClean => CleanInv)
<1> DEFINE Inv == overlap # "all" /\ AllClean => CleanInv
<1>1. Init => Inv
    <2> SUFFICES ASSUME Init PROVE CleanInv
        OBVIOUS
    <2>1. \A n \in Names : FileClean(n)
        BY DEF Init, Names, FileClean
    <2>2. \A p \in Procs : ProcClean(p)
        BY DEF Init, ProcClean, Updating
    <2> QED BY <2>1, <2>2 DEF CleanInv
<1>2. TypeInv /\ (overlap # "all" => WriterInv) /\ Inv /\ [Next]_vars => Inv'
    <2> SUFFICES ASSUME TypeInv, overlap # "all" => WriterInv, Inv, [Next]_vars,
                        overlap' # "all", AllClean'
                 PROVE  CleanInv'
        OBVIOUS
    <2>1. CASE UNCHANGED vars
        BY <2>1 DEF vars, proc, AllClean, CleanInv, FileClean, ProcClean, Updating, Covers, Writing, Complete,
                    File, Name
    <2>2. CASE Next
        BY <2>2, CleanStep, CleanBefore DEF Next, TypeInv
    <2> QED BY <2>1, <2>2
<1> QED BY <1>1, <1>2, TypeInvariant, WriterInvariant, PTL DEF Spec

\* As long as updates do not overlap each other and nothing fails or is killed, every update
\* leaves whole lists in the cache that are at least as new as its disc, and no later update
\* of any number of processes with any discs takes that back.
THEOREM LatestStays == Spec => []LatestSeenIsCached
<1>1. TypeInv /\ (overlap # "all" /\ AllClean => CleanInv) => LatestSeenIsCached
    <2> SUFFICES ASSUME TypeInv, CleanInv, Quiet, NEW p \in HasRl, op[p] = "update", calls[p] > 0,
                        NEW n \in DOMAIN file
                 PROVE  Complete(file[n]) /\ file[n].list >= DiscVersion[p]
        BY DEF LatestSeenIsCached, LatestSeen
    <2>1. p \in Procs /\ pc[p] = "idle" /\ ProcClean(p)
        BY RlAssumption DEF Quiet, CleanInv
    <2>2. PICK i \in 1 .. Len(RlNames) : n = RlNames[i]
        BY DEF TypeInv, Names
    <2>3. Covers(n, DiscVersion[p])
        BY <2>1, <2>2 DEF ProcClean
    <2> QED BY <2>3 DEF Covers, Writing, Quiet
<1> QED BY <1>1, TypeInvariant, CleanInvariant, PTL

\* Under the same conditions any number of readers, each between any two system calls of the
\* update, get a list that is at least as new as the MKB version they get with it.
THEOREM ReadersNotBehind == Spec => []ListIsNotOlder
<1>1. (overlap # "all" /\ AllClean => CleanInv) => ListIsNotOlder
    BY DEF ListIsNotOlder, CleanInv, ProcClean
<1> QED BY <1>1, CleanInvariant, PTL
=============================================================================
