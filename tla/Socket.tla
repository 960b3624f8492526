------------------------------- MODULE Socket --------------------------------
(***************************************************************************)
(* The client's end of the socket: shared/hooks/useGlobalWebSocket.ts, as  *)
(* the chats page mounts it.  A browser socket is "connecting", "open",    *)
(* "closing" or gone; `old` counts sockets the hook has replaced whose     *)
(* close event is still to come.  The delays of the back-off are not       *)
(* modelled, its limit is.  connectionInProgress adds nothing: it is true  *)
(* only while the current socket is connecting, which connect checks too.  *)
(***************************************************************************)
EXTENDS Session

CONSTANT
    MaxAttempts     \* 20 in the code

ASSUME SocketAssumption == MaxAttempts \in Nat

VARIABLE sock

NoSock == [mounted |-> FALSE, ws |-> "none", old |-> 0, connected |-> FALSE,
           first |-> FALSE, timer |-> FALSE, stable |-> FALSE, attempts |-> 0]
SocketInit == sock = NoSock

\* The effect of the hook, which connects after 100 ms, and its cleanup; a page that is
\* mounted anew has a hook of its own.
Mount == /\ ~sock.mounted
         /\ sock' = [NoSock EXCEPT !.mounted = TRUE, !.first = TRUE]
Unmount == sock.mounted /\ sock' = NoSock

Connect(s) == IF s.ws \in {"open", "connecting"} THEN s
              ELSE [s EXCEPT !.ws = "connecting", !.old = @ + IF s.ws = "closing" THEN 1 ELSE 0]

\* Mutant: one attempt too many.
ScheduleOnceMore(s) ==
    IF s.attempts > MaxAttempts \/ phase # "front" THEN s
    ELSE [s EXCEPT !.attempts = @ + 1, !.timer = TRUE]

\* A hidden page does not reconnect, nor does one that has used up its attempts.
ScheduleReconnect(s) ==
    IF s.attempts >= MaxAttempts \/ phase # "front" THEN s
    ELSE [s EXCEPT !.attempts = @ + 1, !.timer = TRUE]

FirstFires == /\ sock.first
              /\ sock' = [Connect(sock) EXCEPT !.first = FALSE]
TimerFires == /\ sock.timer
              /\ sock' = [Connect(sock) EXCEPT !.timer = FALSE]

Opens == /\ sock.ws = "connecting"
         /\ sock' = [sock EXCEPT !.ws = "open", !.connected = TRUE, !.stable = TRUE]

\* onclose, of the current socket or of one that was replaced.
Closed(s) == ScheduleReconnect([s EXCEPT !.connected = FALSE, !.stable = FALSE])
Closes == /\ sock.ws \in {"connecting", "closing"}
          /\ sock' = Closed([sock EXCEPT !.ws = "none"])
OldCloses == /\ sock.old > 0
             /\ sock' = Closed([sock EXCEPT !.old = @ - 1])

\* The line breaks: the close event comes at once, or the closing handshake takes its time.
Breaks(atOnce) ==
    /\ sock.ws = "open"
    /\ sock' = IF atOnce THEN Closed([sock EXCEPT !.ws = "none"])
               ELSE [sock EXCEPT !.ws = "closing"]

\* Five seconds after it opened.
StableFires == /\ sock.stable
               /\ sock' = [sock EXCEPT !.stable = FALSE, !.attempts = 0]

\* Mutant: a page that becomes visible only resets the counter.
BecomesVisibleIdle ==
    sock' = IF ~sock.mounted \/ sock.ws = "open" THEN sock
            ELSE [sock EXCEPT !.attempts = 0, !.timer = FALSE]

\* handleVisibilityChange: the back-off is given up.
BecomesVisible ==
    sock' = IF ~sock.mounted \/ sock.ws = "open" THEN sock
            ELSE Connect([sock EXCEPT !.attempts = 0, !.timer = FALSE])

SocketReacts == FirstFires \/ TimerFires \/ Opens \/ Closes \/ OldCloses \/ StableFires

\* A visible page is never without a socket and without anything that will open one,
\* whatever order close events, timers and changes of visibility come in, unless it has
\* used up its attempts (useGlobalWebSocket.ts scheduleReconnect).
NeverStranded ==
    sock.mounted /\ phase = "front"
        => \/ sock.ws # "none" \/ sock.first \/ sock.timer
           \/ sock.attempts = MaxAttempts
=============================================================================
