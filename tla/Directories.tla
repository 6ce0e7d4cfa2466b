---------------------------- MODULE Directories ----------------------------
(***************************************************************************)
(* The directories of the user's files: file_mkdirs() of file.c, with      *)
(* which keycache_save(), cache_save() and config_save() of keydbcfg.c     *)
(* make the directory of the file they are about to write, and the search  *)
(* of a configuration file in the system's directories                     *)
(* (_open_cfg_file_system() on top of file_get_config_system()).           *)
(*                                                                         *)
(* A directory is the sequence of its names below the root; a doubled      *)
(* slash in a path is an empty name.  Every stat() and every mkdir() is    *)
(* one step: all processes of the user share the tree and nothing is       *)
(* locked.                                                                 *)
(***************************************************************************)
EXTENDS Naturals, Sequences, SequencesExt

CONSTANTS
    MkProcs,     \* processes
    DirPaths,    \* directories of the files they write, as names below the root
    Existing,    \* directories that are there at the beginning
    SystemDirs,  \* values of XDG_CONFIG_DIRS; <<>> when it is not set
    MkCalls      \* bound: calls one process makes

\* NoName is the name between two separators that follow each other.
Names == STRING
NoName == ""

\* The root is there, and a directory is in one that is there.
ASSUME DirAssumption ==
    /\ MkCalls \in Nat
    /\ DirPaths \subseteq Seq(Names) /\ SystemDirs \subseteq Seq(Names)
    /\ Existing \subseteq Seq(Names) /\ <<>> \in Existing
    /\ \A d \in Existing : \A k \in 0 .. Len(d) : SubSeq(d, 1, k) \in Existing

VARIABLES
    tree,        \* the directories that exist
    mk_pc, mk_calls,
    mk_path,     \* the directory to be made
    mk_len,      \* number of names in front of the first NUL in `dir`
    mk_result,   \* result of the last file_mkdirs(), "killed" when it did not return
    mk_alone,    \* history: no other call was under way during the last one
    sys_dirs, sys_files, sys_pc, sys_at, sys_found

mk_vars  == <<tree, mk_pc, mk_calls, mk_path, mk_len, mk_result, mk_alone>>
sys_vars == <<sys_dirs, sys_files, sys_pc, sys_at, sys_found>>
dir_vars == <<mk_vars, sys_vars>>

\* The directory that a path names: slashes that follow each other count as one.
Named(path) == SelectSeq(path, LAMBDA n : n # NoName)
DirOf(p, n) == Named(SubSeq(mk_path[p], 1, n))

MkGoto(p, label) == mk_pc' = [mk_pc EXCEPT ![p] = label]
MkReturn(p, r) ==
    /\ MkGoto(p, "idle")
    /\ mk_result' = [mk_result EXCEPT ![p] = r]

-----------------------------------------------------------------------------
(* file_mkdirs()                                                           *)

\* The call, for a file in the directory `path`; the name of the file is cut off.
Mkdirs(p) ==
    /\ mk_pc[p] = "idle" /\ mk_calls[p] < MkCalls
    /\ mk_calls' = [mk_calls EXCEPT ![p] = @ + 1]
    /\ \E path \in DirPaths :
          /\ mk_path' = [mk_path EXCEPT ![p] = path]
          /\ mk_len' = [mk_len EXCEPT ![p] = Len(path)]
    /\ LET others == {q \in MkProcs \ {p} : mk_pc[q] # "idle"}
       IN  mk_alone' = [q \in MkProcs |-> IF q = p THEN others = {}
                                          ELSE q \notin others /\ mk_alone[q]]
    /\ MkGoto(p, "look")
    /\ UNCHANGED <<tree, mk_result>>

\* file_path_exists() returns 0 for a path that exists (the mutant takes it for a truth value).
SeemsThere(dir) == dir \notin tree
IsThere(dir) == dir \in tree

\* "tokenize, stop to first existing dir": one turn of the loop.
LookForExisting(p) ==
    /\ mk_pc[p] = "look"
    /\ IF mk_len[p] = 0 \/ IsThere(DirOf(p, mk_len[p]))
       THEN MkGoto(p, "make") /\ UNCHANGED mk_len
       ELSE mk_len' = [mk_len EXCEPT ![p] = @ - 1] /\ UNCHANGED mk_pc
    /\ UNCHANGED <<tree, mk_calls, mk_path, mk_result, mk_alone>>

\* mkdir() succeeds if the parent is there and the directory is not.
CanMake(dir) == dir # <<>> /\ Front(dir) \in tree /\ dir \notin tree

\* "create missing dirs": one turn of the loop.  The first error ends it.
MakeNext(p) ==
    /\ mk_pc[p] = "make" /\ mk_len[p] < Len(mk_path[p])
    /\ LET dir == DirOf(p, mk_len[p] + 1)
       IN  IF CanMake(dir)
           THEN /\ tree' = tree \cup {dir}
                /\ mk_len' = [mk_len EXCEPT ![p] = @ + 1]
                /\ UNCHANGED <<mk_pc, mk_result>>
           ELSE MkReturn(p, "error") /\ UNCHANGED <<tree, mk_len>>
    /\ UNCHANGED <<mk_calls, mk_path, mk_alone>>

AllMade(p) ==
    /\ mk_pc[p] = "make" /\ mk_len[p] = Len(mk_path[p])
    /\ MkReturn(p, "made")
    /\ UNCHANGED <<tree, mk_calls, mk_path, mk_len, mk_alone>>

\* The process is killed; the directories it made stay.
MkKilled(p) ==
    /\ mk_pc[p] # "idle"
    /\ MkReturn(p, "killed")
    /\ UNCHANGED <<tree, mk_calls, mk_path, mk_len, mk_alone>>

-----------------------------------------------------------------------------
(* _open_cfg_file_system()                                                 *)

\* The static list of file_get_config_system().
DirList == IF sys_dirs = <<>> THEN <<"/etc/xdg">> ELSE sys_dirs

\* Behind the last directory, and at an empty name, the next byte is a NUL (the mutant
\* stops one short).
StopsEarly(i) == i + 1 >= Len(DirList)
EndOfList(i) == i + 1 > Len(DirList) \/ DirList[i + 1] = NoName

\* file_open() of the file in directory sys_at; then the next one, or the end of the list.
TryDir ==
    /\ sys_pc = "try"
    /\ IF sys_at \in sys_files
       THEN sys_found' = sys_at /\ sys_pc' = "done" /\ UNCHANGED sys_at
       ELSE IF EndOfList(sys_at)
       THEN sys_pc' = "done" /\ UNCHANGED <<sys_at, sys_found>>
       ELSE sys_at' = sys_at + 1 /\ UNCHANGED <<sys_pc, sys_found>>
    /\ UNCHANGED <<sys_dirs, sys_files>>

-----------------------------------------------------------------------------
MkInit ==
    /\ tree = Existing
    /\ mk_pc = [p \in MkProcs |-> "idle"]
    /\ mk_calls = [p \in MkProcs |-> 0]
    /\ mk_path = [p \in MkProcs |-> <<>>]
    /\ mk_len = [p \in MkProcs |-> 0]
    /\ mk_result = [p \in MkProcs |-> "none"]
    /\ mk_alone = [p \in MkProcs |-> TRUE]

\* sys_files: the directories of the list that hold a file of that name.
SysInit ==
    /\ sys_dirs \in SystemDirs
    /\ sys_files \in SUBSET (1 .. Len(DirList))
    /\ sys_pc = "try" /\ sys_at = 1 /\ sys_found = 0

MkNext == \E p \in MkProcs :
    Mkdirs(p) \/ LookForExisting(p) \/ MakeNext(p) \/ AllMade(p) \/ MkKilled(p)

MkSpec == MkInit /\ [][MkNext]_mk_vars
SysSpec == SysInit /\ [][TryDir]_sys_vars

-----------------------------------------------------------------------------
\* file_mkdirs() makes the directory.  A call that meets no other one succeeds, whatever
\* earlier ones have left that failed or were killed half way.  Of calls that
\* overlap all but one may fail: two processes find the same directory missing, and
\* the second mkdir() ends with EEXIST, which is an error to file_mkdirs(); but they never
\* all fail.  And a success always means that the directory is there.
DirsAreMade ==
    LET called == {p \in MkProcs : mk_calls[p] > 0}
    IN  /\ \A p \in MkProcs : mk_pc[p] = "idle" =>
              /\ mk_alone[p] => mk_result[p] # "error"
              /\ mk_result[p] = "made" => Named(mk_path[p]) \in tree
        /\ (/\ called # {}
            /\ \A p \in MkProcs : mk_pc[p] = "idle"
            /\ \A p \in MkProcs : mk_result[p] # "killed")
           => \E p \in called : mk_result[p] = "made"

\* The file that is read is the one in the first directory of XDG_CONFIG_DIRS that has it,
\* and one is found if there is any, in a list without empty names.  (An
\* empty name ends the list of file_get_config_system(), unless it is the first.)
FirstFileIsUsed ==
    sys_pc = "done" /\ (\A i \in DOMAIN DirList : i > 1 => DirList[i] # NoName) =>
        IF sys_files = {} THEN sys_found = 0
        ELSE sys_found \in sys_files /\ \A i \in sys_files : sys_found <= i
=============================================================================
