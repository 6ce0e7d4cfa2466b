----------------------------- MODULE BindingId -----------------------------
(***************************************************************************)
(* aacs_get_device_binding_id() of aacs.c with config_get() and            *)
(* config_save() of keydbcfg.c: the identity that online content is bound  *)
(* to is read from a file, or created and written on first use.  Every     *)
(* system call on the file is one step of the calling process.             *)
(***************************************************************************)
EXTENDS Naturals, FiniteSets

CONSTANTS
    Procs,       \* processes (or handles of one process)
    OneAtATime,  \* TRUE: calls do not overlap
    CanCrash,    \* TRUE: a process can be killed
    CanFail,     \* TRUE: open() and write() can fail (disk full, read-only home)
    MaxCalls     \* bound: calls one process makes

VARIABLES
    file,     \* contents: the length field (0: missing, cut or a hole) and the id (0: none)
    pc, calls,
    id,       \* aacs->device_binding_id, 0 when all-zero
    created,  \* ids created so far: crypto_create_nonce() never repeats one
    returned  \* ids that were handed to an application

vars == <<file, pc, calls, id, created, returned>>

IdSize == 16   \* sizeof(aacs->device_binding_id)
NoFile == [len |-> 0, id |-> 0]
Goto(p, label) == pc' = [pc EXCEPT ![p] = label]
Return(p, i) == Goto(p, "idle") /\ returned' = returned \cup {i}

Call(p) ==
    /\ pc[p] = "idle" /\ calls[p] < MaxCalls
    /\ OneAtATime => \A q \in Procs : pc[q] = "idle"
    /\ calls' = [calls EXCEPT ![p] = @ + 1]
    /\ Goto(p, "read_len")
    /\ UNCHANGED <<file, id, created, returned>>

\* config_get(): open the file and read the length, which must not be below the size asked
\* for; a missing file, a short one or a hole (length 0) makes it fail.
ReadLen(p) ==
    /\ pc[p] = "read_len"
    /\ Goto(p, IF IdSize <= file.len THEN "read_id" ELSE "create")
    /\ UNCHANGED <<file, calls, id, created, returned>>

\* Whether as many bytes as the length says could be read, and they are an id (mutant: the
\* stored id is never accepted).  A length above IdSize is in no file that config_save() wrote.
NeverAccepted(f) == FALSE
IdComplete(f) == f.id # 0 /\ f.len = IdSize

\* config_get(): read the id.
ReadId(p) ==
    /\ pc[p] = "read_id"
    /\ IF IdComplete(file)
       THEN id' = [id EXCEPT ![p] = file.id] /\ Return(p, file.id)
       ELSE UNCHANGED <<id, returned>> /\ Goto(p, "create")
    /\ UNCHANGED <<file, calls, created>>

\* crypto_create_nonce(), and open(O_TRUNC) of config_save().  The result of config_save()
\* is ignored: when a system call of it fails, the new id is returned all the same.
Create(p) ==
    /\ pc[p] = "create"
    /\ created' = created + 1
    /\ id' = [id EXCEPT ![p] = created + 1]
    /\ \/ file' = NoFile /\ Goto(p, "write_len") /\ UNCHANGED returned
       \/ CanFail /\ UNCHANGED file /\ Return(p, created + 1)
    /\ UNCHANGED calls

WriteLen(p) ==
    /\ pc[p] = "write_len"
    /\ \/ /\ file' = [file EXCEPT !.len = IdSize]
          /\ Goto(p, "write_id") /\ UNCHANGED returned
       \/ CanFail /\ UNCHANGED file /\ Return(p, id[p])
    /\ UNCHANGED <<calls, id, created>>

\* The file after the second write of config_save().
IdWritten(f, i) == [f EXCEPT !.id = i]

\* The last write; then the id is returned.  If another process truncated the
\* file in between, the length is a hole now.
WriteId(p) ==
    /\ pc[p] = "write_id"
    /\ \/ file' = IdWritten(file, id[p])
       \/ CanFail /\ UNCHANGED file
    /\ Return(p, id[p])
    /\ UNCHANGED <<calls, id, created>>

\* The process is killed; what it wrote stays.
Crash(p) ==
    /\ CanCrash /\ pc[p] # "idle"
    /\ Goto(p, "idle")
    /\ UNCHANGED <<file, calls, id, created, returned>>

Init ==
    /\ file = NoFile
    /\ pc = [p \in Procs |-> "idle"]
    /\ calls = [p \in Procs |-> 0]
    /\ id = [p \in Procs |-> 0]
    /\ created = 0
    /\ returned = {}

Next == \E p \in Procs :
    \/ Call(p) \/ ReadLen(p) \/ ReadId(p) \/ Create(p) \/ WriteLen(p) \/ WriteId(p) \/ Crash(p)

Spec == Init /\ [][Next]_vars

-----------------------------------------------------------------------------
\* There is one binding id: every call returns the same one, also when calls overlap
\* or earlier ones were killed half way ("It needs to be cached so that downloaded content
\* can be played later", aacs.c).
OneBindingId == Cardinality(returned) <= 1

\* Once an id is stored completely it is never replaced and no other id is handed out any
\* more, whatever failed or was killed before or fails later, as long as calls do not
\* overlap.
StoredIdStays ==
    [][file.len = IdSize /\ file.id # 0 => file' = file /\ returned' \subseteq returned \cup {file.id}]_vars
=============================================================================
