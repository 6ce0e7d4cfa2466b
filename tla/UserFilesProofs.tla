-------------------------- MODULE UserFilesProofs --------------------------
(***************************************************************************)
(* Proofs about the binding id (BindingId) and the directories             *)
(* (Directories) for every number of processes, paths and calls.           *)
(***************************************************************************)
EXTENDS BindingId, Directories, SequenceTheorems, TLAPS

(* The binding id                                                          *)

IdFiles == [len : {0, IdSize}, id : Nat]
Stored == file.len = IdSize /\ file.id # 0

\* What a process that is alone knows of the file: it creates an id only when none is
\* stored, and while it writes none is.
IdProc(p) ==
    /\ pc[p] = "create" => ~Stored
    /\ pc[p] \in {"write_len", "write_id"} => file.id = 0

IdInv ==
    /\ file \in IdFiles /\ created \in Nat
    /\ pc \in [Procs -> {"idle", "read_len", "read_id", "create", "write_len", "write_id"}]
    /\ id \in [Procs -> Nat]
    /\ \A p, q \in Procs : pc[p] # "idle" /\ pc[q] # "idle" => p = q
    /\ \A p \in Procs : IdProc(p)

IdStep(p) ==
    Call(p) \/ ReadLen(p) \/ ReadId(p) \/ Create(p) \/ WriteLen(p) \/ WriteId(p) \/ Crash(p)

LEMMA IdStepInv ==
    ASSUME OneAtATime, IdInv, NEW p \in Procs, IdStep(p)
    PROVE  IdInv'
<1> USE DEF IdInv, Goto
<1>1. ASSUME NEW q \in Procs, q # p PROVE pc[q] = "idle" /\ pc'[q] = "idle"
    <2>1. pc[q] = "idle"
        BY <1>1 DEF IdStep, Call, ReadLen, ReadId, Create, WriteLen, WriteId, Crash
    <2>2. pc'[q] = pc[q]
        BY <1>1 DEF IdStep, Call, ReadLen, ReadId, Create, WriteLen, WriteId, Crash, Return
    <2> QED BY <2>1, <2>2
<1>2. \A q, r \in Procs : pc'[q] # "idle" /\ pc'[r] # "idle" => q = r
    BY <1>1
<1>3. ASSUME NEW q \in Procs, q # p PROVE IdProc(q)'
    BY <1>1, <1>3 DEF IdProc
<1>4. IdProc(p)
    OBVIOUS
<1>5. CASE Call(p)
    BY <1>2, <1>3, <1>5 DEF Call, IdProc
<1>6. CASE ReadLen(p)
    <2>1. /\ UNCHANGED <<file, id, created>>
          /\ pc' = [pc EXCEPT ![p] = IF IdSize <= file.len THEN "read_id" ELSE "create"]
        BY <1>6 DEF ReadLen
    <2>2. Stored => IdSize <= file.len
        BY DEF Stored, IdSize
    <2>3. IdProc(p)'
        BY <2>1, <2>2 DEF IdProc, Stored
    <2> QED BY <1>2, <1>3, <2>1, <2>3
<1>7. CASE ReadId(p)
    <2>1. /\ file' = file /\ created' = created
          /\ pc' \in [Procs -> {"idle", "read_len", "read_id", "create", "write_len", "write_id"}]
          /\ id' \in [Procs -> Nat]
        BY <1>7 DEF ReadId, Return, IdFiles
    <2>2. IdProc(p)'
        BY <1>7, <2>1 DEF ReadId, Return, IdProc, Stored, IdComplete
    <2> QED BY <1>2, <1>3, <2>1, <2>2
<1>8. CASE Create(p)
    <2>1. created' \in Nat /\ created + 1 \in Nat
        BY <1>8 DEF Create
    <2>2. file' \in IdFiles
        <3>1. CASE file' = file
            BY <3>1
        <3>2. CASE file' = NoFile
            BY <3>2 DEF NoFile, IdFiles
        <3> QED BY <1>8, <3>1, <3>2 DEF Create
    <2>3. /\ pc' \in [Procs -> {"idle", "read_len", "read_id", "create", "write_len", "write_id"}]
          /\ id' \in [Procs -> Nat]
        BY <1>8, <2>1 DEF Create, Return
    <2>4. IdProc(p)'
        BY <1>8 DEF Create, Return, IdProc, Stored, NoFile
    <2> QED BY <1>2, <1>3, <2>1, <2>2, <2>3, <2>4
<1>9. CASE WriteLen(p)
    <2>1. CASE file' = [file EXCEPT !.len = IdSize] /\ pc' = [pc EXCEPT ![p] = "write_id"]
        <3>1. file' \in IdFiles /\ file'.id = file.id
            BY <2>1 DEF IdFiles
        <3>2. file.id = 0
            BY <1>4, <1>9 DEF WriteLen, IdProc
        <3> QED BY <1>2, <1>3, <1>9, <2>1, <3>1, <3>2 DEF WriteLen, IdProc
    <2>2. CASE file' = file /\ pc' = [pc EXCEPT ![p] = "idle"]
        BY <1>2, <1>3, <1>9, <2>2 DEF WriteLen, IdProc
    <2> QED BY <1>9, <2>1, <2>2 DEF WriteLen, Return
<1>10. CASE WriteId(p)
    <2>1. file' \in IdFiles
        BY <1>10 DEF WriteId, IdWritten, IdFiles
    <2> QED BY <1>2, <1>3, <1>10, <2>1 DEF WriteId, Return, IdProc
<1>11. CASE Crash(p)
    BY <1>2, <1>3, <1>11 DEF Crash, IdProc
<1> QED BY <1>5, <1>6, <1>7, <1>8, <1>9, <1>10, <1>11 DEF IdStep

LEMMA IdInvariant == ASSUME OneAtATime PROVE Spec => []IdInv
<1>1. Init => IdInv
    BY DEF Init, IdInv, IdProc, NoFile, IdFiles
<1>2. IdInv /\ [Next]_vars => IdInv'
    <2> SUFFICES ASSUME IdInv, [Next]_vars PROVE IdInv'
        OBVIOUS
    <2>1. CASE UNCHANGED vars
        BY <2>1 DEF vars, IdInv, IdProc, Stored
    <2> QED BY <2>1, IdStepInv DEF Next, IdStep
<1> QED BY <1>1, <1>2, PTL DEF Spec

\* As long as calls do not overlap, a binding id that is stored completely is never
\* replaced and no other id is handed out any more, whatever failed or was killed before.
THEOREM StoredIdIsKept == ASSUME OneAtATime PROVE Spec => StoredIdStays
<1>1. ASSUME IdInv, [Next]_vars, Stored
      PROVE  file' = file /\ returned' \subseteq returned \cup {file.id}
    <2>1. ASSUME NEW p \in Procs, IdStep(p)
          PROVE  file' = file /\ returned' \subseteq returned \cup {file.id}
        <3>1. pc[p] \notin {"create", "write_len", "write_id"}
            BY <1>1 DEF IdInv, IdProc, Stored
        <3> QED BY <2>1, <3>1 DEF IdStep, Call, ReadLen, ReadId, Create, WriteLen, WriteId, Crash, Return
    <2>2. CASE UNCHANGED vars
        BY <2>2 DEF vars
    <2> QED BY <1>1, <2>1, <2>2 DEF Next, IdStep
<1>2. IdInv /\ [Next]_vars =>
        [file.len = IdSize /\ file.id # 0 => file' = file /\ returned' \subseteq returned \cup {file.id}]_vars
    BY <1>1 DEF Stored
<1> QED BY <1>2, IdInvariant, PTL DEF Spec, StoredIdStays

-----------------------------------------------------------------------------
(* The search in the system's directories                                  *)

\* While the search runs, none of the directories it has left behind holds the file.
SysInv ==
    /\ sys_pc \in {"try", "done"}
    /\ sys_dirs \in SystemDirs
    /\ sys_at \in 1 .. Len(DirList)
    /\ sys_files \subseteq 1 .. Len(DirList)
    /\ sys_pc = "try" => sys_found = 0 /\ \A i \in sys_files : sys_at <= i
    /\ FirstFileIsUsed

LEMMA DirListNotEmpty ==
    ASSUME sys_dirs \in SystemDirs
    PROVE  Len(DirList) \in Nat \ {0} /\ DOMAIN DirList = 1 .. Len(DirList)
<1>1. sys_dirs \in Seq(Names)
    BY DirAssumption
<1>2. ASSUME NEW name PROVE Len(<<name>>) = 1 /\ DOMAIN <<name>> = 1 .. 1
    OBVIOUS
<1>3. ASSUME NEW S, NEW s \in Seq(S), s # <<>>
      PROVE  Len(s) \in Nat \ {0} /\ DOMAIN s = 1 .. Len(s)
    BY <1>3
<1>4. CASE sys_dirs = <<>>
    BY <1>2, <1>4 DEF DirList
<1>5. CASE sys_dirs # <<>>
    BY <1>1, <1>3, <1>5 DEF DirList
<1> QED BY <1>4, <1>5

LEMMA SysStep == ASSUME SysInv, TryDir PROVE SysInv'
<1>1. /\ Len(DirList) \in Nat \ {0} /\ DOMAIN DirList = 1 .. Len(DirList)
      /\ DirList' = DirList /\ sys_dirs' = sys_dirs /\ sys_files' = sys_files
    BY DirListNotEmpty DEF SysInv, TryDir, DirList
<1> USE <1>1 DEF SysInv, TryDir
<1>2. CASE sys_at \in sys_files
    BY <1>2 DEF FirstFileIsUsed
<1>3. CASE sys_at \notin sys_files /\ EndOfList(sys_at)
    <2>1. ASSUME \A i \in DOMAIN DirList : i > 1 => DirList[i] # NoName PROVE sys_files = {}
        <3>1. ASSUME sys_at + 1 <= Len(DirList) PROVE FALSE
            <4>1. sys_at + 1 \in DOMAIN DirList /\ sys_at + 1 > 1
                BY <3>1
            <4> QED BY <1>3, <2>1, <3>1, <4>1 DEF EndOfList
        <3> QED BY <1>3, <3>1
    <2> QED BY <1>3, <2>1 DEF FirstFileIsUsed
<1>4. CASE sys_at \notin sys_files /\ ~EndOfList(sys_at)
    <2>1. sys_at + 1 \in 1 .. Len(DirList)
        BY <1>4 DEF EndOfList
    <2>2. \A i \in sys_files : sys_at + 1 <= i
        BY <1>4
    <2>3. sys_pc' = "try" /\ sys_at' = sys_at + 1 /\ sys_found' = sys_found
        BY <1>4
    <2> QED BY <2>1, <2>2, <2>3 DEF FirstFileIsUsed
<1> QED BY <1>2, <1>3, <1>4

\* The file that is read is the one in the first directory of the list that has it, for
\* every list of directories and every set of directories with such a file.
THEOREM FirstFileFound == SysSpec => []FirstFileIsUsed
<1>1. SysInit => SysInv
    <2> SUFFICES ASSUME SysInit PROVE SysInv
        OBVIOUS
    <2>1. Len(DirList) \in Nat \ {0}
        BY DirListNotEmpty DEF SysInit
    <2> QED BY <2>1 DEF SysInit, SysInv, FirstFileIsUsed
<1>2. SysInv /\ [TryDir]_sys_vars => SysInv'
    <2>1. SysInv /\ UNCHANGED sys_vars => SysInv'
        BY DEF sys_vars, SysInv, FirstFileIsUsed, DirList
    <2> QED BY <2>1, SysStep
<1>3. SysInv => FirstFileIsUsed
    BY DEF SysInv
<1> QED BY <1>1, <1>2, <1>3, PTL DEF SysSpec

-----------------------------------------------------------------------------
(* file_mkdirs()                                                           *)

\* No path has a doubled slash: then DirOf(p, n) is the path of the first n names.
PlainPaths ==
    \A path \in DirPaths : \A n \in 0 .. Len(path) : Named(SubSeq(path, 1, n)) = SubSeq(path, 1, n)

Prefix(p, n) == SubSeq(mk_path[p], 1, n)

\* None of the directories that p has yet to make is there.
Unmade(p) == \A m \in mk_len[p] + 1 .. Len(mk_path[p]) : Prefix(p, m) \notin tree

\* A call that is not going to fail, as long as no other process makes a directory.
Confident(p) ==
    IF mk_pc[p] = "idle" THEN mk_result[p] \in {"made", "killed"} ELSE Unmade(p)

MkTypes ==
    /\ tree \subseteq Seq(Names)
    /\ mk_pc \in [MkProcs -> {"idle", "look", "make"}]
    /\ mk_calls \in [MkProcs -> Nat]
    /\ mk_path \in [MkProcs -> Seq(Names)]
    /\ mk_len \in [MkProcs -> Nat]
    /\ mk_result \in [MkProcs -> {"none", "made", "error", "killed"}]
    /\ mk_alone \in [MkProcs -> BOOLEAN]

Closed == <<>> \in tree /\ \A d \in tree : \A k \in 0 .. Len(d) : SubSeq(d, 1, k) \in tree

Running(p) == 
    mk_pc[p] # "idle" =>
        mk_calls[p] > 0 /\ mk_path[p] \in DirPaths /\ mk_len[p] <= Len(mk_path[p])
InTree(p) == mk_pc[p] = "make" => Prefix(p, mk_len[p]) \in tree
Alone(p) ==
    mk_pc[p] # "idle" /\ mk_alone[p] => Unmade(p) /\ \A q \in MkProcs \ {p} : mk_pc[q] = "idle"
Ended(p) ==
    mk_pc[p] = "idle" =>
        /\ mk_alone[p] => mk_result[p] # "error"
        /\ mk_result[p] = "made" => mk_path[p] \in DirPaths /\ mk_path[p] \in tree
MkProc(p) == Running(p) /\ InTree(p) /\ Alone(p) /\ Ended(p)

SomeoneConfident ==
    (\E p \in MkProcs : mk_calls[p] > 0) => \E p \in MkProcs : mk_calls[p] > 0 /\ Confident(p)

MkInv == MkTypes /\ Closed /\ (\A p \in MkProcs : MkProc(p)) /\ SomeoneConfident

LEMMA PrefixFacts ==
    ASSUME NEW S, NEW s \in Seq(S), NEW n \in 0 .. Len(s)
    PROVE  /\ SubSeq(s, 1, n) \in Seq(S) /\ Len(SubSeq(s, 1, n)) = n
           /\ \A k \in 0 .. n : SubSeq(SubSeq(s, 1, n), 1, k) = SubSeq(s, 1, k)
<1>1. \A i \in 1 .. n : s[i] \in S
    OBVIOUS
<1>2. \A k \in 0 .. n :
        /\ SubSeq(s, 1, k) \in Seq(S) /\ Len(SubSeq(s, 1, k)) = k
        /\ \A i \in 1 .. k : SubSeq(s, 1, k)[i] = s[i]
    <2> TAKE k \in 0 .. n
    <2>1. k \in Int /\ \A i \in 1 .. k : s[i] \in S
        BY <1>1
    <2>2. /\ SubSeq(s, 1, k) \in Seq(S)
          /\ Len(SubSeq(s, 1, k)) = IF 1 <= k THEN k - 1 + 1 ELSE 0
          /\ \A i \in 1 .. k - 1 + 1 : SubSeq(s, 1, k)[i] = s[1 + i - 1]
        BY <2>1, SubSeqProperties
    <2> QED BY <2>2
<1>3. ASSUME NEW k \in 0 .. n PROVE SubSeq(SubSeq(s, 1, n), 1, k) = SubSeq(s, 1, k)
    <2> DEFINE t == SubSeq(s, 1, n)
    <2>1. t \in Seq(S) /\ Len(t) = n /\ \A i \in 1 .. n : t[i] = s[i]
        BY <1>2
    <2> HIDE DEF t
    <2>2. k \in Int /\ \A i \in 1 .. k : t[i] \in S
        BY <1>1, <2>1
    <2>3. /\ SubSeq(t, 1, k) \in Seq(S)
          /\ Len(SubSeq(t, 1, k)) = IF 1 <= k THEN k - 1 + 1 ELSE 0
          /\ \A i \in 1 .. k - 1 + 1 : SubSeq(t, 1, k)[i] = t[1 + i - 1]
        BY <2>2, SubSeqProperties
    <2>4. /\ Len(SubSeq(t, 1, k)) = Len(SubSeq(s, 1, k))
          /\ \A i \in 1 .. Len(SubSeq(t, 1, k)) : SubSeq(t, 1, k)[i] = SubSeq(s, 1, k)[i]
        BY <1>2, <2>1, <2>3
    <2>5. SubSeq(t, 1, k) = SubSeq(s, 1, k)
        BY <1>2, <2>3, <2>4, SeqEqual
    <2> QED BY <2>5 DEF t
<1> QED BY <1>2, <1>3

LEMMA PlainDir ==
    ASSUME PlainPaths, MkInv, NEW p \in MkProcs, mk_pc[p] # "idle", NEW n \in 0 .. Len(mk_path[p])
    PROVE  /\ DirOf(p, n) = Prefix(p, n) /\ Prefix(p, n) \in Seq(Names)
           /\ Len(Prefix(p, n)) = n
           /\ \A k \in 0 .. n : SubSeq(Prefix(p, n), 1, k) = Prefix(p, k)
<1>1. mk_path[p] \in DirPaths /\ mk_path[p] \in Seq(Names)
    BY DEF MkInv, MkTypes, MkProc, Running
<1> QED BY <1>1, PrefixFacts DEF PlainPaths, DirOf, Prefix

\* A step of p leaves everything about the other processes alone but the tree, and
\* whether they are alone.
Apart(p) ==
    \A q \in MkProcs \ {p} :
        /\ mk_pc'[q] = mk_pc[q] /\ mk_calls'[q] = mk_calls[q] /\ mk_path'[q] = mk_path[q]
        /\ mk_len'[q] = mk_len[q] /\ mk_result'[q] = mk_result[q]
        /\ mk_alone'[q] => mk_alone[q]

LEMMA MkOthers ==
    ASSUME MkInv, NEW p \in MkProcs, Apart(p), tree \subseteq tree', NEW q \in MkProcs \ {p},
           mk_pc[q] # "idle" /\ mk_alone'[q] =>
               tree' = tree /\ \A r \in MkProcs : mk_pc[r] = "idle" => mk_pc'[r] = "idle"
    PROVE  MkProc(q)'
<1>1. /\ mk_pc'[q] = mk_pc[q] /\ mk_path'[q] = mk_path[q] /\ mk_len'[q] = mk_len[q]
      /\ mk_result'[q] = mk_result[q] /\ mk_calls'[q] = mk_calls[q]
      /\ mk_alone'[q] => mk_alone[q]
    BY DEF Apart
<1>2. MkProc(q)
    BY DEF MkInv
<1>3. Running(q)' /\ InTree(q)' /\ Ended(q)'
    BY <1>1, <1>2 DEF MkProc, Running, InTree, Ended, Prefix
<1>4. Alone(q)'
    BY <1>1, <1>2 DEF MkProc, Alone, Unmade, Prefix
<1> QED BY <1>3, <1>4 DEF MkProc

\* Somebody is confident after a step that adds no directory and after which p is, if it was.
LEMMA StillConfident ==
    ASSUME MkInv, NEW p \in MkProcs, Apart(p), tree' = tree, mk_calls' = mk_calls,
           Confident(p) => Confident(p)'
    PROVE  SomeoneConfident'
<1> SUFFICES ASSUME \E q \in MkProcs : mk_calls'[q] > 0
             PROVE  \E q \in MkProcs : mk_calls'[q] > 0 /\ Confident(q)'
    BY DEF SomeoneConfident
<1>1. PICK q \in MkProcs : mk_calls[q] > 0 /\ Confident(q)
    BY DEF MkInv, SomeoneConfident
<1>2. Confident(q)'
    <2>1. CASE q = p
        BY <1>1, <2>1
    <2>2. CASE q # p
        BY <1>1, <2>2 DEF Apart, Confident, Unmade, Prefix
    <2> QED BY <2>1, <2>2
<1> QED BY <1>1, <1>2

LEMMA MkdirsStep == ASSUME MkInv, NEW p \in MkProcs, Mkdirs(p) PROVE MkInv'
<1>1. PICK path \in DirPaths :
        mk_path' = [mk_path EXCEPT ![p] = path] /\ mk_len' = [mk_len EXCEPT ![p] = Len(path)]
    BY DEF Mkdirs
<1>2. path \in Seq(Names) /\ Len(path) \in Nat
    BY DirAssumption
<1>3. /\ mk_pc[p] = "idle" /\ tree' = tree /\ mk_result' = mk_result
      /\ mk_calls' = [mk_calls EXCEPT ![p] = @ + 1]
      /\ mk_pc' = [mk_pc EXCEPT ![p] = "look"]
    BY DEF Mkdirs, MkGoto
<1>4. /\ mk_alone' \in [MkProcs -> BOOLEAN]
      /\ mk_alone'[p] = \A q \in MkProcs \ {p} : mk_pc[q] = "idle"
      /\ \A q \in MkProcs \ {p} : mk_alone'[q] <=> mk_pc[q] = "idle" /\ mk_alone[q]
    BY DEF Mkdirs, MkInv, MkTypes
<1>5. MkTypes'
    <2>1. mk_path' \in [MkProcs -> Seq(Names)] /\ mk_len' \in [MkProcs -> Nat]
        BY <1>1, <1>2 DEF MkInv, MkTypes
    <2>2. mk_calls' \in [MkProcs -> Nat]
        BY <1>3 DEF MkInv, MkTypes
    <2>3. mk_pc' \in [MkProcs -> {"idle", "look", "make"}]
        BY <1>3 DEF MkInv, MkTypes
    <2> QED BY <1>3, <1>4, <2>1, <2>2, <2>3 DEF MkInv, MkTypes
<1>6. Closed'
    BY <1>3 DEF MkInv, Closed
<1>7. /\ mk_pc'[p] = "look" /\ mk_path'[p] = path /\ mk_len'[p] = Len(path)
      /\ mk_calls'[p] = mk_calls[p] + 1 /\ mk_calls[p] \in Nat
    BY <1>1, <1>3 DEF MkInv, MkTypes
<1>8. Apart(p)
    BY <1>1, <1>3, <1>4 DEF Apart, MkInv, MkTypes
<1>9. Unmade(p)'
    BY <1>2, <1>7 DEF Unmade
<1>10. MkProc(p)'
    <2>1. Running(p)' /\ InTree(p)' /\ Ended(p)'
        BY <1>2, <1>7 DEF Running, InTree, Ended
    <2>2. Alone(p)'
        BY <1>4, <1>8, <1>9 DEF Alone, Apart
    <2> QED BY <2>1, <2>2 DEF MkProc
<1>11. \A q \in MkProcs : MkProc(q)'
    BY <1>3, <1>4, <1>8, <1>10, MkOthers
<1>12. SomeoneConfident'
    BY <1>7, <1>9 DEF SomeoneConfident, Confident
<1> QED BY <1>5, <1>6, <1>11, <1>12 DEF MkInv

LEMMA LookStep == ASSUME PlainPaths, MkInv, NEW p \in MkProcs, LookForExisting(p) PROVE MkInv'
<1>1. /\ mk_pc[p] = "look" /\ tree' = tree /\ mk_calls' = mk_calls /\ mk_path' = mk_path
      /\ mk_result' = mk_result /\ mk_alone' = mk_alone
    BY DEF LookForExisting
<1>2. /\ MkTypes /\ mk_len[p] \in 0 .. Len(mk_path[p]) /\ Len(mk_path[p]) \in Nat
      /\ mk_path[p] \in DirPaths
    BY <1>1 DEF MkInv, MkTypes, MkProc, Running
<1>3. /\ DirOf(p, mk_len[p]) = Prefix(p, mk_len[p])
      /\ mk_len[p] = 0 => Prefix(p, mk_len[p]) \in tree
    <2>1. mk_len[p] = 0 => Prefix(p, mk_len[p]) = <<>>
        BY SubSeqEmpty DEF Prefix
    <2>2. <<>> \in tree
        BY DEF MkInv, Closed
    <2> QED BY <1>1, <1>2, <2>1, <2>2, PlainDir
<1>4. Closed'
    BY <1>1 DEF MkInv, Closed
<1>5. CASE mk_len[p] = 0 \/ IsThere(DirOf(p, mk_len[p]))
    <2>1. mk_pc' = [mk_pc EXCEPT ![p] = "make"] /\ mk_len' = mk_len
        BY <1>5 DEF LookForExisting, MkGoto
    <2>2. MkTypes' /\ Apart(p)
        BY <1>1, <1>2, <2>1 DEF MkTypes, Apart
    <2>3. Unmade(p)' <=> Unmade(p)
        BY <1>1, <2>1 DEF Unmade, Prefix
    <2>4. MkProc(p) /\ mk_pc'[p] = "make"
        BY <1>2, <2>1 DEF MkInv, MkTypes
    <2>5. Running(p)' /\ Ended(p)'
        BY <1>1, <1>2, <2>1, <2>4 DEF MkProc, Running, Ended
    <2>6. InTree(p)'
        BY <1>1, <1>3, <1>5, <2>1 DEF InTree, Prefix, IsThere
    <2>7. Alone(p)'
        BY <1>1, <1>2, <2>1, <2>2, <2>3, <2>4 DEF Alone, MkProc, Apart
    <2>8. \A q \in MkProcs : MkProc(q)'
        BY <1>1, <2>1, <2>2, <2>5, <2>6, <2>7, MkOthers DEF MkProc, Apart
    <2>9. SomeoneConfident'
        BY <1>1, <2>2, <2>3, <2>4, StillConfident DEF Confident
    <2> QED BY <1>4, <2>2, <2>8, <2>9 DEF MkInv
<1>6. CASE ~(mk_len[p] = 0 \/ IsThere(DirOf(p, mk_len[p])))
    <2>1. mk_pc' = mk_pc /\ mk_len' = [mk_len EXCEPT ![p] = mk_len[p] - 1]
        BY <1>6 DEF LookForExisting
    <2>2. mk_len'[p] = mk_len[p] - 1 /\ mk_len[p] - 1 \in Nat
        BY <1>2, <1>6, <2>1 DEF MkTypes
    <2>3. MkTypes' /\ Apart(p)
        BY <1>1, <1>2, <2>1, <2>2 DEF MkTypes, Apart
    <2>4. Unmade(p) => Unmade(p)'
        BY <1>1, <1>2, <1>3, <1>6, <2>2 DEF Unmade, Prefix, IsThere
    <2>5. MkProc(p)
        BY DEF MkInv
    <2>6. MkProc(p)'
        BY <1>1, <1>2, <2>1, <2>2, <2>4, <2>5 DEF MkProc, Running, InTree, Ended, Alone
    <2>7. \A q \in MkProcs : MkProc(q)'
        BY <1>1, <2>1, <2>3, <2>6, MkOthers
    <2>8. SomeoneConfident'
        BY <1>1, <2>1, <2>3, <2>4, StillConfident DEF Confident
    <2> QED BY <1>4, <2>3, <2>7, <2>8 DEF MkInv
<1> QED BY <1>5, <1>6

\* Whoever makes a directory finds all the longer ones unmade: a directory that is there
\* has its parents.
LEMMA MakeStep == ASSUME PlainPaths, MkInv, NEW p \in MkProcs, MakeNext(p) PROVE MkInv'
<1> DEFINE n == mk_len[p] + 1
           dir == Prefix(p, n)
<1>1. /\ mk_pc[p] = "make" /\ mk_calls' = mk_calls /\ mk_path' = mk_path /\ mk_alone' = mk_alone
      /\ MkTypes /\ Closed /\ MkProc(p)
    BY DEF MakeNext, MkInv
<1>2. /\ mk_len[p] \in Nat /\ Len(mk_path[p]) \in Nat /\ n \in 1 .. Len(mk_path[p])
      /\ mk_path[p] \in DirPaths
    BY <1>1 DEF MkTypes, MkProc, Running, MakeNext
<1>3. Prefix(p, mk_len[p]) \in tree
    BY <1>1 DEF MkProc, InTree
<1>4. /\ DirOf(p, n) = dir /\ Len(dir) = n /\ dir \in Seq(Names)
      /\ \A k \in 0 .. n : SubSeq(dir, 1, k) = Prefix(p, k)
    <2>1. n \in 0 .. Len(mk_path[p]) /\ mk_pc[p] # "idle"
        BY <1>1, <1>2
    <2> QED BY <2>1, PlainDir
<1> HIDE DEF dir
<1>5. dir # <<>> /\ Front(dir) \in tree
    <2>1. Front(dir) = SubSeq(dir, 1, mk_len[p])
        BY <1>2, <1>4 DEF Front
    <2>2. SubSeq(dir, 1, mk_len[p]) = Prefix(p, mk_len[p])
        BY <1>2, <1>4
    <2>3. dir # <<>>
        BY <1>2, <1>4
    <2> QED BY <1>3, <2>1, <2>2, <2>3
<1>6. CASE CanMake(dir)
    <2>1. /\ tree' = tree \cup {dir} /\ mk_pc' = mk_pc /\ mk_result' = mk_result
          /\ mk_len' = [mk_len EXCEPT ![p] = n]
        BY <1>4, <1>6 DEF MakeNext
    <2>2. MkTypes' /\ Apart(p) /\ mk_len'[p] = n
        BY <1>1, <1>2, <1>4, <2>1 DEF MkTypes, Apart
    <2>3. Closed'
        <3>1. ASSUME NEW k \in 0 .. n PROVE SubSeq(dir, 1, k) \in tree'
            <4>1. CASE k = n
                BY <1>4, <2>1, <4>1 DEF dir
            <4>2. CASE k # n
                <5>1. k \in 0 .. mk_len[p] /\ mk_len[p] \in 0 .. Len(mk_path[p])
                    BY <1>2, <4>2
                <5>2. /\ Prefix(p, k) = SubSeq(Prefix(p, mk_len[p]), 1, k)
                      /\ Len(Prefix(p, mk_len[p])) = mk_len[p]
                    BY <1>1, <5>1, PlainDir
                <5>3. Prefix(p, k) \in tree
                    BY <1>1, <1>3, <5>1, <5>2 DEF Closed
                <5> QED BY <1>4, <2>1, <5>3
            <4> QED BY <4>1, <4>2
        <3> QED BY <1>1, <1>4, <2>1, <3>1 DEF Closed
    <2>4. Unmade(p)'
        <3> SUFFICES ASSUME NEW m \in n + 1 .. Len(mk_path[p]) PROVE Prefix(p, m) \notin tree \cup {dir}
            BY <1>1, <2>1, <2>2 DEF Unmade, Prefix
        <3>1. m \in 0 .. Len(mk_path[p]) /\ n \in 0 .. m /\ m # n
            BY <1>2
        <3>2. Len(Prefix(p, m)) = m /\ SubSeq(Prefix(p, m), 1, n) = dir
            BY <1>1, <3>1, PlainDir DEF dir
        <3>3. Prefix(p, m) \notin tree
            BY <1>1, <1>6, <3>1, <3>2 DEF Closed, CanMake
        <3> QED BY <1>4, <3>1, <3>2, <3>3
    <2>5. MkProc(p)'
        <3>1. InTree(p)'
            <4>1. Prefix(p, mk_len[p])' = dir
                BY <1>1, <2>2 DEF Prefix, dir
            <4> QED BY <2>1, <4>1 DEF InTree
        <3>2. Alone(p)'
            BY <1>1, <2>1, <2>4 DEF MkProc, Alone
        <3> QED BY <1>1, <1>2, <2>1, <2>2, <3>1, <3>2 DEF MkProc, Running, Ended
    <2>6. \A q \in MkProcs \ {p} : mk_pc[q] # "idle" => ~mk_alone'[q]
        BY <1>1 DEF MkInv, MkProc, Alone
    <2>7. \A q \in MkProcs : MkProc(q)'
        BY <2>1, <2>2, <2>5, <2>6, MkOthers
    <2>8. SomeoneConfident'
        <3>1. Confident(p)'
            BY <1>1, <2>1, <2>4 DEF Confident
        <3> SUFFICES ASSUME NEW q \in MkProcs, mk_calls[q] > 0 PROVE mk_calls[p] > 0
            BY <1>1, <3>1 DEF SomeoneConfident
        <3> QED BY <1>1, <1>2 DEF MkProc, Running
    <2> QED BY <2>2, <2>3, <2>7, <2>8 DEF MkInv
<1>7. CASE ~CanMake(dir)
    <2>1. dir \in tree
        BY <1>5, <1>7 DEF CanMake
    <2>2. ~Unmade(p)
        BY <1>2, <2>1 DEF Unmade, dir
    <2>3. /\ tree' = tree /\ mk_len' = mk_len
          /\ mk_pc' = [mk_pc EXCEPT ![p] = "idle"]
          /\ mk_result' = [mk_result EXCEPT ![p] = "error"]
        BY <1>4, <1>7 DEF MakeNext, MkReturn, MkGoto
    <2>4. MkTypes' /\ Apart(p) /\ mk_pc'[p] = "idle" /\ mk_result'[p] = "error"
        BY <1>1, <2>3 DEF MkTypes, Apart
    <2>5. ~mk_alone'[p]
        BY <1>1, <2>2 DEF MkProc, Alone
    <2>6. MkProc(p)'
        BY <2>4, <2>5 DEF MkProc, Running, InTree, Alone, Ended
    <2>7. \A q \in MkProcs : MkProc(q)'
        BY <2>3, <2>4, <2>6, MkOthers DEF Apart
    <2>8. SomeoneConfident'
        BY <1>1, <2>2, <2>3, <2>4, StillConfident DEF Confident
    <2> QED BY <1>1, <2>3, <2>4, <2>7, <2>8 DEF MkInv, Closed
<1> QED BY <1>6, <1>7

LEMMA EndStep ==
    ASSUME PlainPaths, MkInv, NEW p \in MkProcs, AllMade(p) \/ MkKilled(p)
    PROVE  MkInv'
<1>1. /\ mk_pc[p] # "idle" /\ tree' = tree /\ mk_len' = mk_len /\ mk_calls' = mk_calls
      /\ mk_path' = mk_path /\ mk_alone' = mk_alone /\ mk_pc' = [mk_pc EXCEPT ![p] = "idle"]
      /\ MkTypes /\ MkProc(p)
    BY DEF AllMade, MkKilled, MkReturn, MkGoto, MkInv
<1>2. PICK r \in {"made", "killed"} :
        /\ mk_result' = [mk_result EXCEPT ![p] = r]
        /\ r = "made" => mk_pc[p] = "make" /\ mk_len[p] = Len(mk_path[p])
    BY DEF AllMade, MkKilled, MkReturn
<1>3. MkTypes' /\ Apart(p) /\ mk_pc'[p] = "idle" /\ mk_result'[p] = r
    BY <1>1, <1>2 DEF MkTypes, Apart
<1>4. r = "made" => mk_path[p] \in tree
    <2>1. mk_path[p] \in Seq(Names)
        BY <1>1 DEF MkTypes
    <2>2. Prefix(p, Len(mk_path[p])) = mk_path[p]
        BY <2>1, SubSeqFull DEF Prefix
    <2> QED BY <1>1, <1>2, <2>2 DEF MkProc, InTree
<1>5. MkProc(p)'
    BY <1>1, <1>3, <1>4 DEF MkProc, Running, InTree, Alone, Ended
<1>6. \A q \in MkProcs : MkProc(q)'
    BY <1>1, <1>3, <1>5, MkOthers DEF Apart
<1>7. SomeoneConfident'
    BY <1>1, <1>3, StillConfident DEF Confident
<1>8. Closed'
    BY <1>1 DEF MkInv, Closed
<1> QED BY <1>3, <1>6, <1>7, <1>8 DEF MkInv

\* file_mkdirs() makes the directory, for any number of processes, calls and paths without
\* doubled slashes: a call that meets no other one succeeds, calls that overlap never all
\* fail, and a success always means that the directory is there.
THEOREM MkdirsWorks == ASSUME PlainPaths PROVE MkSpec => []DirsAreMade
<1>1. MkInit => MkInv
    <2> SUFFICES ASSUME MkInit PROVE MkInv
        OBVIOUS
    <2>1. <<>> \in Seq(Names)
        BY DirAssumption
    <2>2. MkTypes
        BY <2>1, DirAssumption DEF MkInit, MkTypes
    <2>3. Closed
        BY DirAssumption DEF MkInit, Closed
    <2>4. \A p \in MkProcs : MkProc(p)
        BY DEF MkInit, MkProc, Running, InTree, Alone, Ended
    <2>5. SomeoneConfident
        BY DEF MkInit, SomeoneConfident
    <2> QED BY <2>2, <2>3, <2>4, <2>5 DEF MkInv
<1>2. MkInv /\ [MkNext]_mk_vars => MkInv'
    <2>1. MkInv /\ UNCHANGED mk_vars => MkInv'
        BY DEF mk_vars, MkInv, MkTypes, Closed, MkProc, Running, InTree, Alone, Ended,
               SomeoneConfident, Confident, Unmade, Prefix
    <2> QED BY <2>1, MkdirsStep, LookStep, MakeStep, EndStep DEF MkNext
<1>3. MkInv => DirsAreMade
    <2> SUFFICES ASSUME MkInv PROVE DirsAreMade
        OBVIOUS
    <2>1. ASSUME NEW p \in MkProcs, mk_pc[p] = "idle"
          PROVE  /\ mk_alone[p] => mk_result[p] # "error"
                 /\ mk_result[p] = "made" => Named(mk_path[p]) \in tree
        <3>1. Ended(p) /\ mk_path[p] \in Seq(Names)
            BY DEF MkInv, MkTypes, MkProc
        <3>2. ASSUME mk_path[p] \in DirPaths PROVE Named(mk_path[p]) = mk_path[p]
            <4>1. SubSeq(mk_path[p], 1, Len(mk_path[p])) = mk_path[p] /\ Len(mk_path[p]) \in Nat
                BY <3>1, SubSeqFull
            <4>2. Len(mk_path[p]) \in 0 .. Len(mk_path[p])
                BY <4>1
            <4> QED BY <3>2, <4>1, <4>2 DEF PlainPaths
        <3> QED BY <2>1, <3>1, <3>2 DEF Ended
    <2>2. ASSUME NEW p \in MkProcs, mk_calls[p] > 0,
                 \A q \in MkProcs : mk_pc[q] = "idle" /\ mk_result[q] # "killed"
          PROVE  \E q \in MkProcs : mk_calls[q] > 0 /\ mk_result[q] = "made"
        BY <2>2 DEF MkInv, SomeoneConfident, Confident
    <2> QED BY <2>1, <2>2 DEF DirsAreMade
<1> QED BY <1>1, <1>2, <1>3, PTL DEF MkSpec
=============================================================================
