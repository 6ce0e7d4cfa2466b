--------------------------- MODULE StreamService ---------------------------
(***************************************************************************)
(* What the stream side of an opened handle promises its player: a service *)
(* without memory.  A call is answered in one step, from the unit it was   *)
(* given, the CPS unit of the playlist and the keys alone.  No other       *)
(* thread and no earlier title, playlist or call has any influence.        *)
(***************************************************************************)
CONSTANTS
    Threads, CpsUnits,
    GoodKeys    \* the CPS units whose key is right

VARIABLES
    keys,       \* the handle has unit keys
    playing,    \* the CPS unit of the playlist
    request,    \* what each thread has asked for
    reply       \* the answer it got

vars == <<keys, playing, request, reply>>

\* A unit of the playlist, one that is not encrypted, or a buffer used before.
Requests == {"encrypted", "plain", "again"}

\* The answers of aacs_decrypt_unit(): the clear unit or an error.  About a buffer that an
\* earlier call has changed nothing is promised ("wrong" is a success without a clear unit).
\* aacs_decrypt_bus() tells nothing.
Answers(r) ==
    {"bus"} \cup
    CASE r = "plain" -> {"clear"}
      [] r = "encrypted" -> IF keys /\ playing \in GoodKeys THEN {"clear"} ELSE {"error"}
      [] r = "again" -> {"clear", "error", "wrong"}

Ask(t) ==
    /\ request[t] = "none"
    /\ \E r \in Requests : request' = [request EXCEPT ![t] = r]
    /\ reply' = [reply EXCEPT ![t] = "none"]
    /\ UNCHANGED <<keys, playing>>

Answer(t) ==
    /\ request[t] # "none"
    /\ \E a \in Answers(request[t]) : reply' = [reply EXCEPT ![t] = a]
    /\ request' = [request EXCEPT ![t] = "none"]
    /\ UNCHANGED <<keys, playing>>

\* The player starts a playlist when no call is under way.
StartPlaylist(c) ==
    /\ \A t \in Threads : request[t] = "none"
    /\ playing' = c
    /\ reply' = [t \in Threads |-> "none"]
    /\ UNCHANGED <<keys, request>>

Init ==
    /\ keys \in BOOLEAN /\ playing \in CpsUnits
    /\ request = [t \in Threads |-> "none"]
    /\ reply = [t \in Threads |-> "none"]

Next == (\E t \in Threads : Ask(t) \/ Answer(t)) \/ (\E c \in CpsUnits : StartPlaylist(c))

\* What is answered, and in which order.
Safety == Init /\ [][Next]_vars

\* Every call is answered.
Spec == Safety /\ \A t \in Threads : WF_vars(Answer(t))
=============================================================================
