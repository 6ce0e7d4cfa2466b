------------------------- MODULE DarwinDeviceProofs -------------------------
(***************************************************************************)
(* For every number of attempts of the system to mount the disc: what      *)
(* device_close() promises about the mount it has rejected.                *)
(*                                                                         *)
(* The argument follows the one answer that is under way (of the unmount,  *)
(* then of the mount), from the request over the queue to the callback,    *)
(* and counts the signals that can have been sent: one for the unmount,    *)
(* one for the rejected mount, one for the mount.                          *)
(***************************************************************************)
EXTENDS DarwinDevice, SequenceTheorems, TLAPS

Asks == {"ask_os", "ask_us"}
UnmountDone == {"unmount_ok", "unmount_no"}
\* Our own mount, from the question for approval on.
MountDone == {"mount_ok", "mount_no", "ask_us"}
Kinds == {"ask_os", "ask_us", "unmount_ok", "unmount_no", "mount_ok", "mount_no", "check"}

In(q, kinds) == \E i \in 1 .. Len(q) : q[i] \in kinds
Single(q, kinds) == \A i, j \in 1 .. Len(q) : q[i] \in kinds /\ q[j] \in kinds => i = j

UnmountDue == request = "unmount" \/ cb \in UnmountDone \/ In(queue, UnmountDone)
MountDue == request = "mount" \/ cb \in MountDone \/ In(queue, MountDone)

\* The caller before the session exists, before the mount is requested, and behind it.
Before == {"init", "unmount"}
Early == {"wait_unmount", "check_unmount", "obtain", "opened", "close", "wait_disc", "sync",
          "wait_sync", "mount"}
Late == {"wait_mount", "destroy", "free", "freed"}

TypeOK ==
    /\ pc \in Before \cup Early \cup {"request"} \cup Late
    /\ disk_state \in {"mounted", "unmounted", "appeared", "mounting"} /\ sem \in Nat
    /\ has_sem \in BOOLEAN /\ registered \in BOOLEAN /\ queue \in Seq(Kinds)
    /\ cb \in {"none"} \cup Asks \cup UnmountDone \cup MountDone
    /\ request \in {"none", "unmount", "mount", "asking"}
    /\ rejections \in Nat /\ owed \in BOOLEAN /\ timed_out \in BOOLEAN /\ unfinished \in BOOLEAN

\* At most one answer is under way, and it is the one the caller has asked for.
OneAnswer ==
    /\ Single(queue, UnmountDone) /\ Single(queue, MountDone)
    /\ cb \in UnmountDone => ~In(queue, UnmountDone)
    /\ cb \in MountDone => ~In(queue, MountDone)
    /\ request = "unmount" => cb \notin UnmountDone /\ ~In(queue, UnmountDone)
    /\ request = "mount" => cb \notin MountDone /\ ~In(queue, MountDone)
    /\ UnmountDue => pc = "wait_unmount" /\ sem = 0 /\ disk_state = "mounted" /\ rejections = 0
    /\ MountDue => pc \in Late
    /\ Single(queue, {"check"}) /\ (In(queue, {"check"}) => pc = "wait_sync")

\* Without a session nothing is delivered, and the system asks for nothing while the disc is
\* still mounted.
Session ==
    /\ pc \in Before => mounted
    /\ pc \in Before \/ ~has_sem =>
           /\ queue = <<>> /\ cb = "none" /\ sem = 0 /\ disk_state = "mounted" /\ rejections = 0
           /\ request = "none"
    /\ ~has_sem => pc \in {"init", "close", "freed"} /\ ~registered
    /\ pc \in {"free", "freed"} => queue = <<>> /\ ~registered

Rejecting == cb \in Asks
Rejected == rejections = 1 /\ cb \notin Asks

\* What a rejection leaves behind.
Rejections ==
    /\ owed \/ Rejecting \/ disk_state = "appeared" => rejections >= 1
    /\ pc \in {"mount", "request", "wait_mount", "destroy"} => rejections >= 1
    /\ Rejected /\ pc \in Early => disk_state = "appeared"
    /\ rejections <= 1 /\ pc \in {"mount", "request"} \cup Late => ~Rejecting
    /\ rejections <= 1 /\ pc \in Late => ~owed

\* The signals that can be there.
Signals ==
    rejections <= 1 =>
        /\ pc = "wait_unmount" =>
               sem <= (IF UnmountDue THEN 0 ELSE 1) + (IF Rejected THEN 1 ELSE 0)
        /\ pc \in {"check_unmount", "obtain", "opened", "close", "wait_disc"} =>
               sem <= (IF Rejected THEN 1 ELSE 0)
        /\ ~timed_out /\ pc \in {"sync", "wait_sync", "mount", "request"} => sem = 0 /\ Rejected
        /\ ~timed_out /\ pc = "wait_mount" => (sem > 0 => ~unfinished)

\* The mount is unfinished until its completion has signalled the caller.
Mounting ==
    /\ pc \notin Late => ~unfinished
    /\ pc = "wait_mount" /\ MountDue => unfinished
    /\ rejections <= 1 /\ ~timed_out =>
           /\ pc = "destroy" => ~unfinished /\ ~MountDue
           /\ pc \in {"free", "freed"} => ~unfinished /\ cb = "none"

DInv == TypeOK /\ OneAnswer /\ Session /\ Rejections /\ Signals /\ Mounting

-----------------------------------------------------------------------------
(* The queue *)

LEMMA TailFacts ==
    ASSUME queue \in Seq(Kinds), queue # <<>>, NEW K
    PROVE  /\ Tail(queue) \in Seq(Kinds) /\ Head(queue) \in Kinds
           /\ In(Tail(queue), K) => In(queue, K)
           /\ Single(queue, K) => Single(Tail(queue), K)
           /\ Head(queue) \in K => In(queue, K)
           /\ Single(queue, K) /\ Head(queue) \in K => ~In(Tail(queue), K)
<1>1. /\ Len(queue) \in Nat \ {0} /\ Len(Tail(queue)) = Len(queue) - 1 /\ Tail(queue) \in Seq(Kinds)
      /\ Head(queue) = queue[1] /\ Head(queue) \in Kinds
      /\ \A i \in 1 .. Len(queue) - 1 : Tail(queue)[i] = queue[i + 1]
    BY EmptySeq
<1>2. \A i \in 1 .. Len(queue) - 1 : i + 1 \in 1 .. Len(queue) /\ i + 1 # 1
    BY <1>1
<1>3. \A i, j \in 1 .. Len(queue) - 1 : i + 1 = j + 1 => i = j
    BY <1>1
<1>4. 1 \in 1 .. Len(queue)
    BY <1>1
<1>5. In(Tail(queue), K) => In(queue, K)
    BY <1>1, <1>2 DEF In
<1>6. Single(queue, K) => Single(Tail(queue), K)
    BY <1>1, <1>2, <1>3 DEF Single
<1>7. Head(queue) \in K => In(queue, K)
    BY <1>1, <1>4 DEF In
<1>8. Single(queue, K) /\ Head(queue) \in K => ~In(Tail(queue), K)
    BY <1>1, <1>2, <1>4 DEF Single, In
<1> QED BY <1>1, <1>5, <1>6, <1>7, <1>8

LEMMA AppendFacts ==
    ASSUME NEW q \in Seq(Kinds), NEW x \in Kinds, NEW K
    PROVE  /\ Append(q, x) \in Seq(Kinds) /\ Append(q, x) # <<>>
           /\ In(Append(q, x), K) <=> In(q, K) \/ x \in K
           /\ Single(q, K) /\ ~(In(q, K) /\ x \in K) => Single(Append(q, x), K)
<1>1. /\ Append(q, x) \in Seq(Kinds) /\ Len(q) \in Nat /\ Len(Append(q, x)) = Len(q) + 1
      /\ Append(q, x)[Len(q) + 1] = x /\ \A i \in 1 .. Len(q) : Append(q, x)[i] = q[i]
    OBVIOUS
<1>2. /\ \A i \in 1 .. Len(q) + 1 : i \in 1 .. Len(q) \/ i = Len(q) + 1
      /\ \A i \in 1 .. Len(q) : i \in 1 .. Len(q) + 1
      /\ Len(q) + 1 \in 1 .. Len(q) + 1
    BY <1>1
<1>3. In(Append(q, x), K) <=> In(q, K) \/ x \in K
    BY <1>1, <1>2 DEF In
<1>4. Single(q, K) /\ ~(In(q, K) /\ x \in K) => Single(Append(q, x), K)
    BY <1>1, <1>2 DEF In, Single
<1>5. Append(q, x) # <<>>
    BY <1>1
<1> QED BY <1>1, <1>3, <1>4, <1>5

LEMMA EmptyFacts == ASSUME NEW K PROVE ~In(<<>>, K) /\ Single(<<>>, K) /\ <<>> \in Seq(Kinds)
BY DEF In, Single

\* Something put on the queue of a session that exists.
LEMMA DeliverFacts ==
    ASSUME queue \in Seq(Kinds), NEW x \in Kinds, Deliver(x), NEW K
    PROVE  /\ queue' \in Seq(Kinds) /\ (~registered => queue' = queue)
           /\ In(queue', K) => In(queue, K) \/ x \in K
           /\ Single(queue, K) /\ ~(In(queue, K) /\ x \in K) => Single(queue', K)
BY AppendFacts DEF Deliver

LEMMA DInit == Init => DInv
<1> SUFFICES ASSUME Init PROVE DInv
    OBVIOUS
<1>1. /\ queue = <<>> /\ queue \in Seq(Kinds)
      /\ ~In(queue, UnmountDone) /\ ~In(queue, MountDone) /\ ~In(queue, {"check"})
      /\ Single(queue, UnmountDone) /\ Single(queue, MountDone) /\ Single(queue, {"check"})
    BY EmptyFacts DEF Init
<1>2. cb = "none" /\ cb \notin UnmountDone /\ cb \notin MountDone /\ cb \notin Asks
    BY DEF Init, UnmountDone, MountDone, Asks
<1> QED BY <1>1, <1>2 DEF Init, DInv, TypeOK, OneAnswer, Session, Rejections, Signals, Mounting,
                UnmountDue, MountDue, Rejected, Rejecting, Before, Early, Late

-----------------------------------------------------------------------------
(* The caller *)

LEMMA OpenStep ==
    ASSUME DInv,
           InitSession \/ RequestUnmount \/ WaitUnmount \/ CheckUnmount \/ ObtainExclusiveAccess
    PROVE  DInv'
<1> USE DEF DInv, TypeOK, OneAnswer, Session, Rejections, Signals, Mounting, UnmountDue, MountDue,
            Rejected, Rejecting, Before, Early, Late, shared, drive, history
<1>1. CASE InitSession
    <2>1. CASE registered' = TRUE /\ has_sem' = TRUE /\ sem' = 0 /\ pc' = "unmount"
        BY <1>1, <2>1 DEF InitSession
    <2>2. CASE pc' = "close" /\ UNCHANGED <<registered, has_sem, sem>>
        BY <1>1, <2>2 DEF InitSession
    <2> QED BY <1>1, <2>1, <2>2 DEF InitSession, NewSem
<1>2. CASE RequestUnmount
    BY <1>2, EmptyFacts DEF RequestUnmount, UnmountDone, MountDone
<1>3. CASE WaitUnmount
    BY <1>3 DEF WaitUnmount
<1>4. CASE CheckUnmount
    BY <1>4 DEF CheckUnmount
<1>5. CASE ObtainExclusiveAccess
    BY <1>5 DEF ObtainExclusiveAccess
<1> QED BY <1>1, <1>2, <1>3, <1>4, <1>5

LEMMA CloseStep ==
    ASSUME DInv, Release \/ WaitDisc \/ DispatchSync \/ SetMounting \/ RequestMount
    PROVE  DInv'
<1> USE DEF DInv, TypeOK, OneAnswer, Session, Rejections, Signals, Mounting, UnmountDue, MountDue,
            Rejected, Rejecting, Before, Early, Late, shared, drive, history
<1>1. CASE Release
    BY <1>1 DEF Release
<1>2. CASE WaitDisc
    <2>1. CASE sem > 0
        <3>1. sem' = sem - 1 /\ timed_out' = timed_out
            BY <1>2, <2>1 DEF WaitDisc
        <3>2. rejections <= 1 => Rejected /\ sem' = 0
            BY <1>2, <2>1, <3>1 DEF WaitDisc
        <3>3. sem' \in Nat
            BY <2>1, <3>1
        <3> QED BY <1>2, <3>1, <3>2, <3>3 DEF WaitDisc
    <2>2. CASE ~(sem > 0)
        <3>1. sem' = sem /\ timed_out' = TRUE
            BY <1>2, <2>2 DEF WaitDisc
        <3> QED BY <1>2, <3>1 DEF WaitDisc
    <2> QED BY <2>1, <2>2
<1>3. CASE DispatchSync
    <2>1. "check" \in Kinds /\ "check" \notin UnmountDone /\ "check" \notin MountDone
        BY DEF Kinds, UnmountDone, MountDone
    <2>2. /\ queue' \in Seq(Kinds)
          /\ In(queue', UnmountDone) => In(queue, UnmountDone)
          /\ In(queue', MountDone) => In(queue, MountDone)
          /\ Single(queue', UnmountDone) /\ Single(queue', MountDone) /\ Single(queue', {"check"})
        BY <1>3, <2>1, AppendFacts DEF DispatchSync
    <2> QED BY <1>3, <2>2 DEF DispatchSync
<1>4. CASE SetMounting
    BY <1>4 DEF SetMounting
<1>5. CASE RequestMount
    <2>1. ~UnmountDue /\ ~MountDue /\ pc = "request" /\ rejections >= 1
        BY <1>5 DEF RequestMount
    <2>2. rejections <= 1 /\ ~timed_out => sem = 0
        BY <1>5 DEF RequestMount
    <2>3. has_sem /\ (rejections <= 1 => ~Rejecting)
        BY <1>5 DEF RequestMount
    <2>4. /\ pc' = "wait_mount" /\ request' = "mount" /\ owed' = FALSE /\ unfinished' = TRUE
          /\ queue' = queue /\ cb' = cb /\ sem' = sem /\ rejections' = rejections
          /\ timed_out' = timed_out /\ has_sem' = has_sem /\ registered' = registered
          /\ disk_state' = disk_state
        BY <1>5 DEF RequestMount
    <2>5. TypeOK'
        BY <2>4
    <2>6. OneAnswer' /\ Session'
        BY <2>1, <2>3, <2>4
    <2>7. Rejections'
        BY <2>1, <2>3, <2>4
    <2>8. Signals' /\ Mounting'
        BY <2>2, <2>4
    <2> QED BY <2>5, <2>6, <2>7, <2>8
<1> QED BY <1>1, <1>2, <1>3, <1>4, <1>5

LEMMA DestroyStep == ASSUME DInv, WaitMount \/ DestroySession \/ Free PROVE DInv'
<1> USE DEF DInv, TypeOK, OneAnswer, Session, Rejections, Signals, Mounting, UnmountDue, MountDue,
            Rejected, Rejecting, Before, Early, Late, shared, drive, history
<1>1. CASE WaitMount
    BY <1>1 DEF WaitMount
<1>2. CASE DestroySession
    <2>1. /\ queue' = <<>> /\ queue' \in Seq(Kinds)
          /\ ~In(queue', UnmountDone) /\ ~In(queue', MountDone) /\ ~In(queue', {"check"})
          /\ Single(queue', UnmountDone) /\ Single(queue', MountDone) /\ Single(queue', {"check"})
        BY <1>2, EmptyFacts DEF DestroySession, Destroy
    <2> QED BY <1>2, <2>1 DEF DestroySession, Destroy
<1>3. CASE Free
    BY <1>3 DEF Free
<1> QED BY <1>1, <1>2, <1>3

-----------------------------------------------------------------------------
(* The callbacks *)

LEMMA CheckStep == ASSUME DInv, Check PROVE DInv'
<1>1. /\ queue # <<>> /\ queue \in Seq(Kinds) /\ Head(queue) \in {"check"}
      /\ Single(queue, UnmountDone) /\ Single(queue, MountDone) /\ Single(queue, {"check"})
    BY DEF Check, DInv, TypeOK, OneAnswer
<1>2. pc = "wait_sync"
    BY <1>1, TailFacts DEF DInv, OneAnswer
<1> USE DEF DInv, TypeOK, OneAnswer, Session, Rejections, Signals, Mounting, UnmountDue, MountDue,
            Rejected, Rejecting, Before, Early, Late, shared, drive, history
<1>3. CASE Appeared
    <2>1. /\ Tail(queue) \in Seq(Kinds) /\ ~In(Tail(queue), {"check"})
          /\ In(Tail(queue), UnmountDone) => In(queue, UnmountDone)
          /\ In(Tail(queue), MountDone) => In(queue, MountDone)
          /\ Single(Tail(queue), UnmountDone) /\ Single(Tail(queue), MountDone)
          /\ Single(Tail(queue), {"check"})
        BY <1>1, TailFacts
    <2>2. cb = "none" /\ cb \notin Asks
        BY DEF Check, Asks
    <2> QED BY <1>2, <1>3, <2>1, <2>2 DEF Check, Appeared
<1>4. CASE ~Appeared
    <2>1. /\ queue' = <<>> /\ queue' \in Seq(Kinds)
          /\ ~In(queue', UnmountDone) /\ ~In(queue', MountDone) /\ ~In(queue', {"check"})
          /\ Single(queue', UnmountDone) /\ Single(queue', MountDone) /\ Single(queue', {"check"})
        BY <1>4, EmptyFacts DEF Check, Destroy
    <2>2. cb = "none" /\ cb \notin Asks
        BY DEF Check, Asks
    <2>3. rejections <= 1 => rejections = 0
        BY <1>2, <1>4, <2>2 DEF Appeared
    <2>4. /\ pc' = "free" /\ registered' = FALSE /\ cb' = cb /\ sem' = sem
          /\ rejections' = rejections /\ timed_out' = timed_out /\ has_sem' = has_sem
          /\ disk_state' = disk_state /\ request' = request /\ owed' = owed
          /\ unfinished' = unfinished
        BY <1>4 DEF Check, Destroy
    <2>5. TypeOK' /\ Session'
        BY <1>2, <2>1, <2>4
    <2>6. OneAnswer'
        BY <1>2, <2>1, <2>4
    <2>7. Rejections' /\ Signals'
        BY <1>2, <2>2, <2>3, <2>4
    <2>8. Mounting'
        BY <1>2, <2>2, <2>4
    <2> QED BY <2>5, <2>6, <2>7, <2>8
<1> QED BY <1>3, <1>4

\* A callback that is taken from the queue.
LEMMA TakenFacts ==
    ASSUME DInv, queue # <<>>
    PROVE  /\ Tail(queue) \in Seq(Kinds) /\ Head(queue) \in Kinds
           /\ In(Tail(queue), {"check"}) => In(queue, {"check"})
           /\ In(Tail(queue), UnmountDone) => In(queue, UnmountDone)
           /\ In(Tail(queue), MountDone) => In(queue, MountDone)
           /\ Head(queue) \in UnmountDone => In(queue, UnmountDone) /\ ~In(Tail(queue), UnmountDone)
           /\ Head(queue) \in MountDone => In(queue, MountDone) /\ ~In(Tail(queue), MountDone)
           /\ Single(Tail(queue), UnmountDone) /\ Single(Tail(queue), MountDone)
           /\ Single(Tail(queue), {"check"})
<1>1. queue \in Seq(Kinds) /\ Single(queue, UnmountDone) /\ Single(queue, MountDone) /\ Single(queue, {"check"})
    BY DEF DInv, TypeOK, OneAnswer
<1> QED BY <1>1, TailFacts

LEMMA ApprovalStep == ASSUME DInv, MountApproval PROVE DInv'
<1>1. queue # <<>> /\ cb = "none" /\ Head(queue) \in Asks /\ cb \notin Asks /\ cb \notin UnmountDone
      /\ cb \notin MountDone
    BY DEF MountApproval, Pending, Asks, UnmountDone, MountDone
<1>2. Head(queue) = "ask_os" => Head(queue) \notin UnmountDone /\ Head(queue) \notin MountDone
    BY DEF UnmountDone, MountDone
<1>3. Head(queue) = "ask_us" => Head(queue) \notin UnmountDone /\ Head(queue) \in MountDone
    BY DEF UnmountDone, MountDone
<1>4. Head(queue) \in {"ask_os", "ask_us"}
    BY <1>1 DEF Asks
<1>5. pc \notin {"init", "unmount", "free", "freed"} /\ has_sem
    BY <1>1 DEF DInv, TypeOK, Session, Before
<1> USE DEF DInv, TypeOK, OneAnswer, Session, Rejections, Signals, Mounting, UnmountDue, MountDue,
            Rejected, Rejecting, Before, Early, Late, shared, drive, history
<1>6. CASE Passes /\ Approved /\ UNCHANGED <<rejections, owed>>
    <2>1. CASE Head(queue) = "ask_os"
        <3>1. queue' = Tail(queue) /\ cb' = cb /\ request' = request
            BY <1>6, <2>1 DEF Approved
        <3> QED BY <1>1, <1>5, <1>6, <3>1, TakenFacts DEF MountApproval
    <2>2. CASE Head(queue) = "ask_us"
        <3>1. PICK x \in {"mount_ok", "mount_no"} : queue' = Append(Tail(queue), x)
            BY <1>6, <2>2 DEF Approved
        <3>2. request' = "none" /\ cb' = cb
            BY <1>6, <2>2 DEF Approved
        <3>3. x \in Kinds /\ x \in MountDone /\ x \notin UnmountDone /\ x \notin {"check"}
            BY DEF Kinds, MountDone, UnmountDone
        <3>4. In(queue, MountDone) /\ ~In(Tail(queue), MountDone) /\ Tail(queue) \in Seq(Kinds)
            BY <1>1, <1>3, <2>2, TakenFacts
        <3>5. /\ queue' \in Seq(Kinds) /\ Single(queue', UnmountDone) /\ Single(queue', MountDone)
              /\ Single(queue', {"check"})
              /\ In(queue', UnmountDone) => In(queue, UnmountDone)
              /\ In(queue', {"check"}) => In(queue, {"check"})
            <4>1. queue' \in Seq(Kinds) /\ Single(queue', UnmountDone)
                  /\ (In(queue', UnmountDone) => In(queue, UnmountDone))
                BY <1>1, <3>1, <3>3, <3>4, TakenFacts, AppendFacts
            <4>2. Single(queue', MountDone)
                BY <1>1, <3>1, <3>3, <3>4, TakenFacts, AppendFacts
            <4>3. Single(queue', {"check"}) /\ (In(queue', {"check"}) => In(queue, {"check"}))
                <5> DEFINE K == {"check"}
                <5>1. Single(Tail(queue), K) /\ (In(Tail(queue), K) => In(queue, K)) /\ x \notin K
                    BY <1>1, <3>3, TakenFacts
                <5> HIDE DEF K
                <5>2. Single(queue', K) /\ (In(queue', K) => In(queue, K))
                    BY <3>1, <3>3, <3>4, <5>1, AppendFacts
                <5> QED BY <5>2 DEF K
            <4> QED BY <4>1, <4>2, <4>3
        <3> QED BY <1>1, <1>5, <1>6, <3>2, <3>4, <3>5 DEF MountApproval
    <2> QED BY <1>4, <2>1, <2>2
<1>7. CASE /\ ~Passes /\ cb' = Head(queue) /\ queue' = Tail(queue)
           /\ rejections' = rejections + 1 /\ owed' = TRUE /\ UNCHANGED drive
    <2>1. ~UnmountDue /\ disk_state # "mounted"
        BY <1>7 DEF Passes
    <2>2. cb' \in Asks /\ cb' \notin UnmountDone
        BY <1>1, <1>2, <1>3, <1>4, <1>7
    <2>3. cb' \in MountDone => In(queue, MountDone) /\ ~In(queue', MountDone)
        BY <1>1, <1>7, TakenFacts
    <2>4. rejections' <= 1 => rejections = 0
        BY <1>7
    <2> QED BY <1>1, <1>5, <1>7, <2>1, <2>2, <2>3, <2>4, TakenFacts DEF MountApproval
<1> QED BY <1>6, <1>7 DEF MountApproval

\* The queue when something is delivered for our own mount, for the unmount, or by the system.
LEMMA DeliveredFacts ==
    ASSUME DInv, NEW x \in Kinds \ {"check"}, Deliver(x)
    PROVE  /\ queue' \in Seq(Kinds) /\ (~registered => queue' = queue)
           /\ In(queue', {"check"}) => In(queue, {"check"})
           /\ In(queue', UnmountDone) => In(queue, UnmountDone) \/ x \in UnmountDone
           /\ In(queue', MountDone) => In(queue, MountDone) \/ x \in MountDone
           /\ Single(queue', {"check"})
           /\ ~(In(queue, UnmountDone) /\ x \in UnmountDone) => Single(queue', UnmountDone)
           /\ ~(In(queue, MountDone) /\ x \in MountDone) => Single(queue', MountDone)
<1> DEFINE K == {"check"}
<1>1. /\ queue \in Seq(Kinds) /\ Single(queue, UnmountDone) /\ Single(queue, MountDone) /\ Single(queue, K)
      /\ x \notin K /\ x \in Kinds
    BY DEF DInv, TypeOK, OneAnswer
<1> HIDE DEF K
<1>2. In(queue', K) => In(queue, K)
    BY <1>1, DeliverFacts
<1>3. Single(queue', K)
    BY <1>1, DeliverFacts
<1>4. /\ queue' \in Seq(Kinds) /\ (~registered => queue' = queue)
      /\ In(queue', UnmountDone) => In(queue, UnmountDone) \/ x \in UnmountDone
      /\ ~(In(queue, UnmountDone) /\ x \in UnmountDone) => Single(queue', UnmountDone)
    BY <1>1, DeliverFacts
<1>5. /\ In(queue', MountDone) => In(queue, MountDone) \/ x \in MountDone
      /\ ~(In(queue, MountDone) /\ x \in MountDone) => Single(queue', MountDone)
    BY <1>1, DeliverFacts
<1> QED BY <1>2, <1>3, <1>4, <1>5 DEF K

LEMMA RejectStep == ASSUME DInv, RejectMount PROVE DInv'
<1>1. /\ cb \in Asks /\ pc # "freed" /\ rejections >= 1 /\ cb' = "none" /\ disk_state' = "appeared"
      /\ sem' = sem + 1 /\ cb' \notin Asks /\ cb' \notin UnmountDone /\ cb' \notin MountDone
      /\ pc' = pc /\ has_sem' = has_sem /\ registered' = registered /\ rejections' = rejections
      /\ owed' = owed /\ timed_out' = timed_out /\ unfinished' = unfinished /\ mounted' = mounted
    BY DEF RejectMount, history, Asks, UnmountDone, MountDone, DInv, Rejections, Rejecting
<1>2. cb = "ask_us" => cb \in MountDone
    BY DEF MountDone
<1>3. /\ queue' \in Seq(Kinds) /\ (~registered => queue' = queue)
      /\ In(queue', {"check"}) => In(queue, {"check"})
      /\ In(queue', UnmountDone) => In(queue, UnmountDone)
      /\ In(queue', MountDone) => MountDue
      /\ Single(queue', {"check"}) /\ Single(queue', UnmountDone) /\ Single(queue', MountDone)
      /\ request' = request \/ request' = "none"
      /\ request' = "mount" => ~In(queue', MountDone)
    <2>1. CASE cb = "ask_us"
        <3>1. Deliver("mount_no") /\ request' = "none"
            BY <2>1 DEF RejectMount
        <3>2. "mount_no" \in Kinds \ {"check"} /\ "mount_no" \notin UnmountDone
            BY DEF Kinds, UnmountDone
        <3>3. ~In(queue, MountDone) /\ MountDue
            BY <1>2, <2>1 DEF DInv, OneAnswer, MountDue
        <3> QED BY <3>1, <3>2, <3>3, DeliveredFacts
    <2>2. CASE cb # "ask_us"
        <3>1. queue' = queue /\ request' = request
            BY <2>2 DEF RejectMount
        <3> QED BY <3>1 DEF DInv, TypeOK, OneAnswer, MountDue
    <2> QED BY <2>1, <2>2
<1> USE DEF DInv, TypeOK, OneAnswer, Session, Rejections, Signals, Mounting, UnmountDue, MountDue,
            Rejected, Rejecting, Before, Early, Late
<1>4. cb # "none"
    BY <1>1 DEF Asks
<1>5. pc \notin Before /\ has_sem /\ ~UnmountDue
    BY <1>1, <1>4
<1>6. TypeOK' /\ Session'
    BY <1>1, <1>3, <1>5
<1>7. OneAnswer'
    BY <1>1, <1>3, <1>5
<1>8. Rejections' /\ Mounting'
    BY <1>1, <1>3, <1>5
<1>9. Signals'
    <2>1. ASSUME rejections <= 1 PROVE pc \notin {"mount", "request"} \cup Late /\ ~Rejected /\ Rejected'
        BY <1>1, <2>1
    <2> QED BY <1>1, <1>3, <1>5, <2>1
<1> QED BY <1>6, <1>7, <1>8, <1>9

LEMMA StartStep == ASSUME DInv, StartComplete PROVE DInv'
<1>1. /\ queue # <<>> /\ cb = "none" /\ cb' = Head(queue) /\ queue' = Tail(queue)
      /\ Head(queue) \in {"unmount_ok", "unmount_no", "mount_ok", "mount_no"}
    BY DEF StartComplete, Pending
<1>2. cb' \notin Asks /\ (cb' \in UnmountDone \/ cb' \in MountDone) /\ cb \notin Asks
    BY <1>1 DEF Asks, UnmountDone, MountDone
<1>3. pc \notin {"init", "unmount", "free", "freed"} /\ has_sem
    BY <1>1 DEF DInv, TypeOK, Session, Before
<1>4. (UnmountDue' <=> UnmountDue) /\ (MountDue' => MountDue)
    <2>1. cb \notin UnmountDone /\ cb \notin MountDone /\ request' = request
        BY <1>1 DEF UnmountDone, MountDone, StartComplete, drive
    <2>2. In(queue, UnmountDone) => Head(queue) \in UnmountDone \/ In(Tail(queue), UnmountDone)
        <3>1. SUFFICES ASSUME NEW i \in 1 .. Len(queue), queue[i] \in UnmountDone
                       PROVE  Head(queue) \in UnmountDone \/ In(Tail(queue), UnmountDone)
            BY DEF In
        <3>2. queue \in Seq(Kinds)
            BY DEF DInv, TypeOK
        <3>3. i = 1 \/ (i - 1 \in 1 .. Len(Tail(queue)) /\ Tail(queue)[i - 1] = queue[i])
            BY <1>1, <3>2
        <3>4. Head(queue) = queue[1]
            BY <1>1, <3>2
        <3> QED BY <3>1, <3>3, <3>4 DEF In
    <2> QED BY <1>1, <2>1, <2>2, TakenFacts DEF UnmountDue, MountDue
<1> USE DEF DInv, TypeOK, OneAnswer, Session, Rejections, Signals, Mounting,
            Rejected, Rejecting, Before, Early, Late, shared, drive, history
<1>5. TypeOK' /\ Session'
    BY <1>1, <1>2, <1>3, TakenFacts DEF StartComplete
<1>6. OneAnswer'
    BY <1>1, <1>2, <1>4, TakenFacts DEF StartComplete, UnmountDue, MountDue
<1>7. Rejections' /\ Signals' /\ Mounting'
    BY <1>1, <1>2, <1>3, <1>4 DEF StartComplete
<1> QED BY <1>5, <1>6, <1>7

LEMMA CompleteStep == ASSUME DInv, Complete PROVE DInv'
<1>1. /\ cb \in {"unmount_ok", "unmount_no", "mount_ok", "mount_no"} /\ pc # "freed"
      /\ sem' = sem + 1 /\ cb' = "none" /\ disk_state' = StateAfter
      /\ unfinished' = (unfinished /\ cb \notin {"mount_ok", "mount_no"})
      /\ pc' = pc /\ has_sem' = has_sem /\ registered' = registered /\ queue' = queue
      /\ request' = request /\ rejections' = rejections /\ owed' = owed /\ timed_out' = timed_out
    BY DEF Complete, Signal, drive
<1>2. cb \notin Asks /\ cb' \notin Asks /\ cb' \notin UnmountDone /\ cb' \notin MountDone /\ cb # "none"
    BY <1>1 DEF Asks, UnmountDone, MountDone
<1> USE DEF DInv, TypeOK, OneAnswer, Session, Rejections, Signals, Mounting, UnmountDue, MountDue,
            Rejected, Rejecting, Before, Early, Late
<1>3. pc \notin Before /\ has_sem
    BY <1>2
<1>4. CASE cb \in UnmountDone
    <2>1. disk_state' \in {"unmounted", disk_state}
        BY <1>1, <1>4, Zenon DEF StateAfter, UnmountDone
    <2>2. cb \notin {"mount_ok", "mount_no"}
        BY <1>4 DEF UnmountDone
    <2>3. pc = "wait_unmount" /\ sem = 0 /\ disk_state = "mounted" /\ rejections = 0 /\ ~UnmountDue'
        BY <1>1, <1>2, <1>4
    <2>4. ~MountDue /\ ~MountDue'
        BY <1>1, <1>2, <2>3
    <2>5. unfinished' = FALSE
        BY <1>1, <2>3
    <2> QED BY <1>1, <1>2, <1>3, <2>1, <2>3, <2>4, <2>5
<1>5. CASE cb \in {"mount_ok", "mount_no"}
    <2>1. disk_state' \in {"unmounted", "mounted"}
        BY <1>1, <1>5, Zenon DEF StateAfter
    <2>2. cb \in MountDone
        BY <1>5 DEF MountDone
    <2>3. pc \in {"wait_mount", "destroy", "free"} /\ ~MountDue' /\ unfinished' = FALSE
        BY <1>1, <1>2, <1>5, <2>2
    <2>4. ~UnmountDue /\ ~UnmountDue'
        BY <1>1, <1>2, <2>3
    <2> QED BY <1>1, <1>2, <1>3, <2>1, <2>3, <2>4
<1> QED BY <1>1, <1>4, <1>5 DEF UnmountDone

-----------------------------------------------------------------------------
(* The system *)

LEMMA UnmountStep == ASSUME DInv, Unmount PROVE DInv'
<1>1. PICK x \in {"unmount_ok", "unmount_no"} : Deliver(x)
    BY DEF Unmount
<1>2. x \in Kinds \ {"check"} /\ x \in UnmountDone /\ x \notin MountDone
    BY DEF Kinds, UnmountDone, MountDone
<1>3. /\ request = "unmount" /\ request' = "none" /\ pc' = pc /\ cb' = cb /\ sem' = sem
      /\ disk_state' = disk_state /\ has_sem' = has_sem /\ registered' = registered
      /\ rejections' = rejections /\ owed' = owed /\ timed_out' = timed_out /\ unfinished' = unfinished
    BY DEF Unmount, shared, history
<1> USE DEF DInv, TypeOK, OneAnswer, Session, Rejections, Signals, Mounting, UnmountDue, MountDue,
            Rejected, Rejecting, Before, Early, Late
<1>4. UnmountDue /\ cb \notin UnmountDone /\ ~In(queue, UnmountDone) /\ pc = "wait_unmount" /\ has_sem
    BY <1>3
<1> QED BY <1>1, <1>2, <1>3, <1>4, DeliveredFacts

LEMMA MountStep == ASSUME DInv, Mount PROVE DInv'
<1>1. /\ request = "mount" /\ pc' = pc /\ cb' = cb /\ sem' = sem
      /\ disk_state' = disk_state /\ has_sem' = has_sem /\ registered' = registered
      /\ rejections' = rejections /\ owed' = owed /\ timed_out' = timed_out /\ unfinished' = unfinished
      /\ request' \in {"none", "asking"} /\ (mounted => mounted')
    BY DEF Mount, shared, history
<1>2. queue' = queue \/ \E x \in {"mount_no", "ask_us"} : Deliver(x)
    BY DEF Mount
<1> USE DEF DInv, TypeOK, OneAnswer, Session, Rejections, Signals, Mounting, UnmountDue, MountDue,
            Rejected, Rejecting, Before, Early, Late
<1>3. MountDue /\ cb \notin MountDone /\ ~In(queue, MountDone) /\ pc \in Late /\ has_sem /\ ~UnmountDue
    BY <1>1
<1>4. CASE queue' = queue
    BY <1>1, <1>3, <1>4
<1>5. CASE \E x \in {"mount_no", "ask_us"} : Deliver(x)
    <2>1. PICK x \in {"mount_no", "ask_us"} : Deliver(x)
        BY <1>5
    <2>2. x \in Kinds \ {"check"} /\ x \notin UnmountDone /\ x \in MountDone
        BY DEF Kinds, UnmountDone, MountDone
    <2> QED BY <1>1, <1>3, <2>1, <2>2, DeliveredFacts
<1> QED BY <1>2, <1>4, <1>5

LEMMA AskStep == ASSUME DInv, Ask PROVE DInv'
<1>1. /\ request' = request /\ pc' = pc /\ cb' = cb /\ sem' = sem
      /\ disk_state' = disk_state /\ has_sem' = has_sem /\ registered' = registered
      /\ rejections' = rejections /\ owed' = owed /\ timed_out' = timed_out /\ unfinished' = unfinished
    BY DEF Ask, shared, history
<1>2. (queue' = queue /\ (mounted => mounted')) \/ (registered /\ ~mounted /\ Deliver("ask_os"))
    BY DEF Ask
<1> USE DEF DInv, TypeOK, OneAnswer, Session, Rejections, Signals, Mounting, UnmountDue, MountDue,
            Rejected, Rejecting, Before, Early, Late
<1>3. CASE queue' = queue /\ (mounted => mounted')
    BY <1>1, <1>3
<1>4. CASE registered /\ ~mounted /\ Deliver("ask_os")
    <2>1. "ask_os" \in Kinds \ {"check"} /\ "ask_os" \notin UnmountDone /\ "ask_os" \notin MountDone
        BY DEF Kinds, UnmountDone, MountDone
    <2> QED BY <1>1, <1>4, <2>1, DeliveredFacts
<1> QED BY <1>2, <1>3, <1>4

-----------------------------------------------------------------------------
(* The theorems *)

LEMMA DInvariant == Spec => []DInv
<1>1. DInv /\ [Next]_vars => DInv'
    <2> SUFFICES ASSUME DInv, [Next]_vars PROVE DInv'
        OBVIOUS
    <2>1. CASE Caller
        BY <2>1, OpenStep, CloseStep, DestroyStep DEF Caller
    <2>2. CASE Queue
        BY <2>2, CheckStep, ApprovalStep, RejectStep, StartStep, CompleteStep DEF Queue
    <2>3. CASE System \/ Ask
        BY <2>3, UnmountStep, MountStep, AskStep DEF System
    <2>4. CASE UNCHANGED vars
        BY <2>4 DEF vars, shared, drive, history, DInv, TypeOK, OneAnswer, Session, Rejections, Signals,
                    Mounting, UnmountDue, MountDue, Rejected, Rejecting
    <2> QED BY <2>1, <2>2, <2>3, <2>4 DEF Next
<1> QED BY <1>1, DInit, PTL DEF Spec

\* However often the system tries to mount the disc: when device_close() has returned, a mount
\* that the approval callback rejected has been made up for, if it was the only one.
THEOREM RejectionIsMadeUp == Spec => []RejectedMountIsMadeUp
<1>1. DInv => RejectedMountIsMadeUp
    BY DEF DInv, Rejections, Late, RejectedMountIsMadeUp
<1> QED BY <1>1, DInvariant, PTL

\* However often the system tries: a device_close() that saw the disc in time frees the device
\* only behind the completion of its mount, with no callback running, unless a second mount
\* was rejected.
THEOREM FreedBehindMount == Spec => []CloseWaitsForMount
<1>1. DInv => CloseWaitsForMount
    BY DEF DInv, Mounting, CloseWaitsForMount
<1> QED BY <1>1, DInvariant, PTL
=============================================================================
