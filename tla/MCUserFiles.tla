---------------------------- MODULE MCUserFiles ----------------------------
(***************************************************************************)
(* The files in the user's directories for TLC: the cached revocation      *)
(* lists, shared by two processes with discs of MKB versions 1 and 2 (both *)
(* lists of one length, so that a reader can take one for the other), the  *)
(* device binding id, the directories of all of them, and the search in    *)
(* the system's directories.                                               *)
(* A behaviour is about one of the four; the others keep still.            *)
(***************************************************************************)
EXTENDS RlCache, Directories, TLC

CONSTANTS p1, p2, BindingCalls

TwoLists == <<"drl", "hrl">>
TwoDiscs == p1 :> 1 @@ p2 :> 2
SameLen  == 1 :> 2 @@ 2 :> 2

\* The directories of two kinds of cached keys, of the cached lists and of the configuration;
\* only the home directory is there.
Cache == <<"home", ".cache">>
SomePaths == {Cache \o <<"aacs", "vid">>, Cache \o <<"aacs", "vuk">>, Cache \o <<"aacs">>,
              <<"home", ".config", "aacs">>}
HomeOnly == {<<>>, <<"home">>}
SomeSystemDirs == {<<>>, <<"a">>, <<"a", "b", "c">>, <<"", "b">>, <<"a", "", "c">>, <<"a", "">>}

VARIABLES part, id_file, id_pc, id_calls, id, created, returned

B == INSTANCE BindingId WITH OneAtATime <- TRUE, MaxCalls <- BindingCalls,
                             file <- id_file, pc <- id_pc, calls <- id_calls

id_vars == <<id_file, id_pc, id_calls, id, created, returned>>

FilesInit ==
    /\ Init /\ B!Init /\ MkInit /\ SysInit
    /\ part \in {"lists", "binding_id", "directories", "search"}
    /\ part # "lists" => overlap = "none"
    /\ part # "search" => sys_dirs = <<>> /\ sys_files = {}

FilesNext ==
    \/ part = "lists" /\ Next /\ UNCHANGED <<part, id_vars, dir_vars>>
    \/ part = "binding_id" /\ B!Next /\ UNCHANGED <<part, vars, dir_vars>>
    \/ part = "directories" /\ MkNext /\ UNCHANGED <<part, vars, id_vars, sys_vars>>
    \/ part = "search" /\ TryDir /\ UNCHANGED <<part, vars, id_vars, mk_vars>>

FilesSpec == FilesInit /\ [][FilesNext]_<<part, vars, id_vars, dir_vars>>

\* A binding id that is stored completely is never replaced, and no other is handed out
\* any more (BindingId).
StoredIdStays == B!StoredIdStays
=============================================================================
