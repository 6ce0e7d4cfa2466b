---------------------------- MODULE DarwinDevice ----------------------------
(***************************************************************************)
(* device_open() and device_close() of mmc_device_darwin.c: the disc is    *)
(* unmounted to get exclusive access to the drive, and mounted again when  *)
(* the device is closed.                                                   *)
(*                                                                         *)
(* The calling thread shares disk_state and the semaphore sync_sem with    *)
(* callbacks, which run one after another on a serial queue.  The system   *)
(* (DiskArbitration) is external: it carries out requests to unmount and   *)
(* to mount, asks for approval before it mounts, and tries to mount a disc *)
(* by itself when nobody has exclusive access.                             *)
(***************************************************************************)
EXTENDS Naturals, Sequences

CONSTANTS
    MaxAsks        \* how often the system tries to mount the disc by itself

ASSUME DarwinDeviceAssumption == MaxAsks \in Nat

VARIABLES
    pc,
    disk_state, sem,      \* sem: the value of sync_sem
    has_sem,              \* sync_sem exists
    registered,           \* the session delivers callbacks
    queue,                \* callbacks and blocks waiting on background_queue
    cb,                   \* the callback that is running
    mounted, exclusive,   \* the disc and the drive
    request,              \* the request the system is working on
    asks,                 \* attempts of the system to mount the disc
    \* history
    rejections,           \* mounts the approval callback has rejected
    owed,                 \* the last rejection has not been followed by a mount
    timed_out,            \* device_close() has waited for 20 seconds in vain
    unfinished            \* a mount was requested and its completion has not been seen

shared == <<disk_state, sem>>
drive == <<mounted, exclusive, request, asks>>
history == <<rejections, owed, timed_out, unfinished>>
vars == <<pc, shared, has_sem, registered, queue, cb, drive, history>>

-----------------------------------------------------------------------------
(* device_open() *)

\* dispatch_semaphore_create() (mutant: a semaphore that is free).
NewLock == 1
NewSem == 0

\* Interfaces and the session; without them there is no semaphore to wait for.
InitSession ==
    /\ pc = "init"
    /\ \/ /\ registered' = TRUE /\ has_sem' = TRUE /\ sem' = NewSem /\ pc' = "unmount"
       \/ /\ pc' = "close" /\ UNCHANGED <<registered, has_sem, sem>>
    /\ UNCHANGED <<disk_state, queue, cb, drive, history>>

\* disk_state is still what mmc_open_iokit() set it to, disk_mounted.
RequestUnmount ==
    /\ pc = "unmount"
    /\ request' = "unmount" /\ pc' = "wait_unmount"
    /\ UNCHANGED <<shared, has_sem, registered, queue, cb, mounted, exclusive, asks, history>>

WaitUnmount ==
    /\ pc = "wait_unmount" /\ sem > 0
    /\ sem' = sem - 1 /\ pc' = "check_unmount"
    /\ UNCHANGED <<disk_state, has_sem, registered, queue, cb, drive, history>>

CheckUnmount ==
    /\ pc = "check_unmount"
    /\ pc' = IF disk_state = "unmounted" THEN "obtain" ELSE "close"
    /\ UNCHANGED <<shared, has_sem, registered, queue, cb, drive, history>>

\* A mounted disc, or another program, keeps the drive.
ObtainExclusiveAccess ==
    /\ pc = "obtain"
    /\ \/ ~mounted /\ exclusive' = TRUE /\ pc' = "opened"
       \/ pc' = "close" /\ UNCHANGED exclusive
    /\ UNCHANGED <<shared, has_sem, registered, queue, cb, mounted, request, asks, history>>

-----------------------------------------------------------------------------
(* device_close(), called by the application or by device_open() *)

Release ==
    /\ pc \in {"opened", "close"}
    /\ exclusive' = FALSE
    /\ pc' = IF has_sem THEN "wait_disc" ELSE "freed"
    /\ UNCHANGED <<shared, has_sem, registered, queue, cb, mounted, request, asks, history>>

WaitDisc ==
    /\ pc = "wait_disc" /\ pc' = "sync"
    /\ IF sem > 0 THEN sem' = sem - 1 /\ UNCHANGED timed_out
                  ELSE timed_out' = TRUE /\ UNCHANGED sem
    /\ UNCHANGED <<disk_state, has_sem, registered, queue, cb, drive, rejections, owed,
                   unfinished>>

\* dispatch_sync(): the block runs behind what is on the queue.
DispatchSync ==
    /\ pc = "sync" /\ pc' = "wait_sync"
    /\ queue' = Append(queue, "check")
    /\ UNCHANGED <<shared, has_sem, registered, cb, drive, history>>

\* What the block goes by (mutant: the result of the wait).
SignalSeen == ~timed_out
Appeared == disk_state = "appeared"

\* iokit_da_destroy(): what is left on the queue is not delivered.
Destroy == registered' = FALSE /\ queue' = <<>>

Check ==
    /\ cb = "none" /\ queue # <<>> /\ Head(queue) = "check"
    /\ IF Appeared
       THEN pc' = "mount" /\ queue' = Tail(queue) /\ UNCHANGED registered
       ELSE pc' = "free" /\ Destroy
    /\ UNCHANGED <<shared, has_sem, cb, drive, history>>

\* The disc is not mounted here: only our own request could have changed that.
SetMounting ==
    /\ pc = "mount" /\ disk_state # "mounted"
    /\ disk_state' = "mounting" /\ pc' = "request"
    /\ UNCHANGED <<sem, has_sem, registered, queue, cb, drive, history>>

RequestMount ==
    /\ pc = "request"
    /\ request' = "mount" /\ owed' = FALSE /\ unfinished' = TRUE
    /\ pc' = "wait_mount"
    /\ UNCHANGED <<shared, has_sem, registered, queue, cb, mounted, exclusive, asks,
                   rejections, timed_out>>

WaitMount ==
    /\ pc = "wait_mount" /\ sem > 0
    /\ sem' = sem - 1 /\ pc' = "destroy"
    /\ UNCHANGED <<disk_state, has_sem, registered, queue, cb, drive, history>>

DestroySession ==
    /\ pc = "destroy" /\ pc' = "free"
    /\ Destroy
    /\ UNCHANGED <<shared, has_sem, cb, drive, history>>

Free ==
    /\ pc = "free" /\ pc' = "freed"
    /\ UNCHANGED <<shared, has_sem, registered, queue, cb, drive, history>>

-----------------------------------------------------------------------------
(* The callbacks.  One that has to change something runs in two steps, between which *)
(* the other thread can do something.                                                *)

\* A callback is put on the queue, if the session still exists.
Deliver(kind) == queue' = IF registered THEN Append(queue, kind) ELSE queue

Pending(kinds) == cb = "none" /\ queue # <<>> /\ Head(queue) \in kinds

\* A mount that the approval callback lets pass.
Passes == disk_state \in {"mounted", "mounting"}

\* The system mounts the disc, or does not succeed.
Approved ==
    /\ mounted' \in BOOLEAN /\ (mounted => mounted')
    /\ IF Head(queue) = "ask_os" THEN queue' = Tail(queue) /\ UNCHANGED request
       ELSE /\ queue' = Append(Tail(queue), IF mounted' THEN "mount_ok" ELSE "mount_no")
            /\ request' = "none"
    /\ UNCHANGED <<cb, exclusive, asks>>

MountApproval ==
    /\ Pending({"ask_os", "ask_us"})
    /\ \/ Passes /\ Approved /\ UNCHANGED <<rejections, owed>>
       \/ /\ ~Passes /\ cb' = Head(queue) /\ queue' = Tail(queue)
          /\ rejections' = rejections + 1 /\ owed' = TRUE
          /\ UNCHANGED drive
    /\ UNCHANGED <<pc, shared, has_sem, registered, timed_out, unfinished>>

RejectMount ==
    /\ cb \in {"ask_os", "ask_us"} /\ pc # "freed"
    /\ disk_state' = "appeared" /\ sem' = sem + 1
    /\ cb' = "none"
    /\ IF cb = "ask_us" THEN Deliver("mount_no") /\ request' = "none"
                        ELSE UNCHANGED <<queue, request>>
    /\ UNCHANGED <<pc, has_sem, registered, mounted, exclusive, asks, history>>

StartComplete ==
    /\ Pending({"unmount_ok", "unmount_no", "mount_ok", "mount_no"})
    /\ cb' = Head(queue) /\ queue' = Tail(queue)
    /\ UNCHANGED <<pc, shared, has_sem, registered, drive, history>>

\* disk_state after a request is complete.
StateAfter ==
    CASE cb \in {"unmount_ok", "mount_no"} -> "unmounted"
      [] cb = "unmount_no" -> disk_state
      [] cb = "mount_ok" -> "mounted"

\* The waiting thread is woken up (mutant: only if the request succeeded).
SignalOk == IF cb \in {"unmount_ok", "mount_ok"} THEN sem + 1 ELSE sem
Signal == sem + 1

Complete ==
    /\ cb \in {"unmount_ok", "unmount_no", "mount_ok", "mount_no"} /\ pc # "freed"
    /\ disk_state' = StateAfter /\ sem' = Signal /\ cb' = "none"
    /\ unfinished' = (unfinished /\ cb \notin {"mount_ok", "mount_no"})
    /\ UNCHANGED <<pc, has_sem, registered, queue, drive, rejections, owed, timed_out>>

-----------------------------------------------------------------------------
(* The system *)

Unmount ==
    /\ request = "unmount" /\ request' = "none"
    /\ \/ mounted' = FALSE /\ Deliver("unmount_ok")
       \/ mounted' = mounted /\ Deliver("unmount_no")
    /\ UNCHANGED <<pc, shared, has_sem, registered, cb, exclusive, asks, history>>

\* Our own mount is not possible (kDAReturnBadArgument, kDAReturnBusy), or approval is
\* asked for; nobody is asked when the session is gone.
Mount ==
    /\ request = "mount"
    /\ \/ request' = "none" /\ Deliver("mount_no") /\ UNCHANGED mounted
       \/ registered /\ request' = "asking" /\ Deliver("ask_us") /\ UNCHANGED mounted
       \/ ~registered /\ request' = "none" /\ mounted' = TRUE /\ UNCHANGED queue
    /\ UNCHANGED <<pc, shared, has_sem, registered, cb, exclusive, asks, history>>

\* The system wants to mount the disc by itself.
Ask ==
    /\ ~mounted /\ ~exclusive /\ request # "unmount" /\ asks < MaxAsks
    /\ asks' = asks + 1
    /\ \/ registered /\ Deliver("ask_os") /\ UNCHANGED mounted
       \/ ~registered /\ mounted' = TRUE /\ UNCHANGED queue
    /\ UNCHANGED <<pc, shared, has_sem, registered, cb, exclusive, request, history>>

-----------------------------------------------------------------------------
Init ==
    /\ pc = "init"
    /\ disk_state = "mounted" /\ sem = 0 /\ has_sem = FALSE /\ registered = FALSE
    /\ queue = <<>> /\ cb = "none"
    /\ mounted = TRUE /\ exclusive = FALSE /\ request = "none" /\ asks = 0
    /\ rejections = 0 /\ owed = FALSE /\ timed_out = FALSE /\ unfinished = FALSE

Caller ==
    \/ InitSession \/ RequestUnmount \/ WaitUnmount \/ CheckUnmount \/ ObtainExclusiveAccess
    \/ Release \/ WaitDisc \/ DispatchSync \/ SetMounting \/ RequestMount \/ WaitMount
    \/ DestroySession \/ Free
Queue == Check \/ MountApproval \/ RejectMount \/ StartComplete \/ Complete
System == Unmount \/ Mount

Next == Caller \/ Queue \/ System \/ Ask

\* The thread and the queue run, the application closes the device, and the system
\* answers every request.  It need not try to mount the disc by itself.
Spec == Init /\ [][Next]_vars /\ WF_vars(Caller) /\ WF_vars(Queue) /\ WF_vars(System)

-----------------------------------------------------------------------------
\* When device_close() has returned, the mount that the approval callback rejected has been
\* made up for by a mount of our own, even if the system asked after the 20 seconds.  (Not
\* so for a second rejection: our own mount may be the one that is rejected.)
RejectedMountIsMadeUp == pc = "freed" /\ rejections <= 1 => ~owed

\* A device_close() that saw the disc within the 20 seconds frees the device only after its
\* mount is complete and when no callback is using it any more, if not more than one
\* mount was rejected: further signals would end the wait for the mount.
CloseWaitsForMount ==
    pc = "freed" /\ rejections <= 1 /\ ~timed_out => ~unfinished /\ cb = "none"

\* device_open() and device_close() return: each wait is ended by a callback, however often
\* the system asks.
CloseReturns == <>(pc = "freed")
=============================================================================
