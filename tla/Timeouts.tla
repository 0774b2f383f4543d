----------------------------- MODULE Timeouts -----------------------------
(***************************************************************************)
(* 11sysutil/sysutil.c (the same file in 13epoll): read_timeout,           *)
(* write_timeout, accept_timeout and connect_timeout, which wait with      *)
(* select for at most wait_seconds, and the O_NONBLOCK flag that           *)
(* connect_timeout sets and clears.                                        *)
(*                                                                         *)
(* One process makes one call after another: reads, writes and accepts on  *)
(* a socket where an event may happen, connects on a socket of their own,  *)
(* again after a connect that failed or timed out.  read_timeout and       *)
(* write_timeout differ only in the set they give to select, and are one   *)
(* here.  Time is counted in seconds.                                      *)
(*                                                                         *)
(* A definition named Bug... is the one after it with a plausible mistake; *)
(* no specification uses it, it serves to see a property fail.             *)
(***************************************************************************)
EXTENDS Integers

CONSTANT MaxWait      \* bound on wait_seconds

ASSUME MaxWaitAssumption == MaxWait \in Nat \ {0}

VARIABLES tpc,        \* "idle" between calls; in a call "select", "accept",
                      \* "connecting" or "getsockopt"; "exit" after ERR_EXIT
          call,       \* the call being made, or the last one
          seconds,    \* its wait_seconds
          left,       \* select's timeval
          waited,     \* how long it has been in select (history)
          ret,        \* what the last call returned; "none" until it does
          event,      \* a read, a write or an accept would not block
          link,       \* the connecting socket: "none", "trying", "up" (the
                      \* handshake is done), "refused", "done" (and reported)
          nonblock    \* O_NONBLOCK on the connecting socket

timeoutsVars == <<tpc, call, seconds, left, waited, ret, event, link, nonblock>>

Calls == {"read", "accept", "connect"}

TimeoutsInit == /\ tpc = "idle"
                /\ call = "read"
                /\ seconds = 0
                /\ left = 0
                /\ waited = 0
                /\ ret = "none"
                /\ event = FALSE
                /\ link = "none"
                /\ nonblock = FALSE

\* A call returns: a socket or 0 ("ok"), -1 with an error ("error"), or -1
\* with ETIMEDOUT set by the call itself ("timeout").
Return(result) == tpc' = "idle" /\ ret' = result

----------------------------------------------------------------------------
(* The kernel and the peers                                                *)

Happens == /\ ~ event
           /\ event' = TRUE
           /\ UNCHANGED <<tpc, call, seconds, left, waited, ret, link, nonblock>>

Handshake == /\ link = "trying"
             /\ link' \in {"up", "refused"}
             /\ UNCHANGED <<tpc, call, seconds, left, waited, ret, event, nonblock>>

\* A second passes in select.
Second == /\ tpc = "select"
          /\ left > 0
          /\ left' = left - 1
          /\ waited' = waited + 1
          /\ UNCHANGED <<tpc, call, seconds, ret, event, link, nonblock>>

----------------------------------------------------------------------------
(* Starting a call                                                         *)

Begin(c, s) == /\ tpc = "idle"
               /\ call' = c
               /\ seconds' = s
               /\ left' = s
               /\ waited' = 0

\* read_timeout and write_timeout do not wait at all when wait_seconds is 0.
ReadTimeout(s) == /\ Begin("read", s)
                  /\ IF s = 0 THEN Return("ok") ELSE tpc' = "select" /\ ret' = "none"
                  /\ UNCHANGED <<event, link, nonblock>>

AcceptTimeout(s) == /\ Begin("accept", s)
                    /\ tpc' = IF s = 0 THEN "accept" ELSE "select"
                    /\ ret' = "none"
                    /\ UNCHANGED <<event, link, nonblock>>

\* At the start of connect_timeout.
FlagDuring(s) == nonblock \/ s > 0

\* At the end of connect_timeout: back to blocking, if it was this call that
\* left it.
BugFlagKept(s, flag) == flag
FlagAfter(s, flag) == IF s > 0 THEN FALSE ELSE flag

\* connect_timeout up to what connect returns.  On a socket left from a call
\* that timed out, connect tells how that attempt went, or EALREADY.
ConnectTimeout(s) ==
    LET flag == FlagDuring(s) IN
    /\ link # "done"
    /\ Begin("connect", s)
    /\ CASE link = "none" ->           \* EINPROGRESS, unless the socket blocks
              \/ /\ tpc' = IF flag THEN "select" ELSE "connecting"
                 /\ link' = "trying"
                 /\ nonblock' = flag
                 /\ ret' = "none"
              \/ /\ Return("error")     \* or it fails at once
                 /\ nonblock' = FlagAfter(s, flag)
                 /\ UNCHANGED link
         [] link = "trying" /\ ~ flag ->
              /\ tpc' = "connecting"
              /\ ret' = "none"
              /\ UNCHANGED <<link, nonblock>>
         [] link = "trying" /\ flag ->
              /\ Return("error")
              /\ nonblock' = FlagAfter(s, flag)
              /\ UNCHANGED link
         [] link = "up" ->
              /\ Return("ok")
              /\ link' = "done"
              /\ nonblock' = FlagAfter(s, flag)
         [] link = "refused" ->
              /\ Return("error")
              /\ link' = "none"
              /\ nonblock' = FlagAfter(s, flag)
    /\ UNCHANGED event

\* A blocking connect returns.
Connected == /\ tpc = "connecting"
             /\ link \in {"up", "refused"}
             /\ IF link = "up" THEN Return("ok") /\ link' = "done"
                               ELSE Return("error") /\ link' = "none"
             /\ UNCHANGED <<call, seconds, left, waited, event, nonblock>>

\* A signal interrupts it; the attempt goes on.
ConnectInterrupted == /\ tpc = "connecting"
                      /\ Return("error")
                      /\ UNCHANGED <<call, seconds, left, waited, event, link, nonblock>>

----------------------------------------------------------------------------
(* select                                                                  *)

\* What select waits for.
Ready == IF call = "connect" THEN link \in {"up", "refused"} ELSE event

\* It returns 1: the call goes on.
SelectReady ==
    /\ tpc = "select"
    /\ Ready
    /\ CASE call = "read" -> Return("ok")
         [] call = "accept" -> tpc' = "accept" /\ UNCHANGED ret
         [] call = "connect" -> tpc' = "getsockopt" /\ UNCHANGED ret
    /\ UNCHANGED <<call, seconds, left, waited, event, link, nonblock>>

\* It returns 0.  connect_timeout returns without clearing O_NONBLOCK.
BugPolls == tpc = "select" /\ ~ Ready
BugRetriesAtZero == FALSE
TimeIsUp == tpc = "select" /\ ~ Ready /\ left = 0

SelectTimesOut == /\ TimeIsUp
                  /\ Return("timeout")
                  /\ UNCHANGED <<call, seconds, left, waited, event, link, nonblock>>

\* A signal interrupts it: the loop calls it again with the timeval that
\* Linux has reduced to the time left.
BugWaitsAnew == seconds
TimeLeft == left

Interrupted == /\ tpc = "select"
               /\ left' = TimeLeft
               /\ UNCHANGED <<tpc, call, seconds, waited, ret, event, link, nonblock>>

\* It fails otherwise: every call returns -1, connect_timeout also here
\* without clearing O_NONBLOCK.
SelectFails == /\ tpc = "select"
               /\ Return("error")
               /\ UNCHANGED <<call, seconds, left, waited, event, link, nonblock>>

----------------------------------------------------------------------------
(* After select                                                            *)

\* accept takes the connection, or fails and ends the process.
Accept == /\ tpc = "accept"
          /\ event
          /\ \/ Return("ok") /\ event' = FALSE
             \/ tpc' = "exit" /\ UNCHANGED <<ret, event>>
          /\ UNCHANGED <<call, seconds, left, waited, link, nonblock>>

\* getsockopt(SO_ERROR) tells a connection from a refusal: both are writable.
BugWritableIsUp == "ok"
SoError == IF link = "up" THEN "ok" ELSE "error"

GetSockOpt == /\ tpc = "getsockopt"
              /\ Return(SoError)
              /\ link' = IF SoError = "ok" THEN "done" ELSE link
              /\ nonblock' = FlagAfter(seconds, nonblock)
              /\ UNCHANGED <<call, seconds, left, waited, event>>

----------------------------------------------------------------------------
Start == \E s \in 0 .. MaxWait : ReadTimeout(s) \/ AcceptTimeout(s) \/ ConnectTimeout(s)

Caller == Connected \/ SelectReady \/ SelectTimesOut \/ Accept \/ GetSockOpt

TimeoutsNext == \/ Start \/ Caller \/ ConnectInterrupted
                \/ Interrupted \/ SelectFails \/ Happens \/ Handshake \/ Second

\* Time passes, the process runs, and a signal cannot stop either.
TimeoutsSpec == /\ TimeoutsInit /\ [][TimeoutsNext]_timeoutsVars
                /\ WF_timeoutsVars(Caller) /\ WF_timeoutsVars(Second)

----------------------------------------------------------------------------
(* Properties                                                              *)

\* However often signals interrupt select, a call waits no longer in it than
\* it was told to.
WaitBounded == waited + left <= seconds

\* A call reports ETIMEDOUT only after the whole time and only if what it
\* waited for had not happened by then.
TimeoutHonest ==
    [][tpc = "select" /\ tpc' = "idle" /\ ret' = "timeout"
          => waited = seconds /\ ~ Ready]_timeoutsVars

\* A socket that connect_timeout with a timeout reports connected blocks again,
\* whatever calls went before.  (With wait_seconds 0 it keeps the O_NONBLOCK
\* that an earlier call, timed out, left on it.)
ConnectedBlocks ==
    tpc = "idle" /\ call = "connect" /\ ret = "ok" /\ seconds > 0 => ~ nonblock

\* A refused connection is never reported as one: the socket that a call
\* reports connected had completed its handshake.
RefusalReported == [][link # "done" /\ link' = "done" => link = "up"]_timeoutsVars

\* Every wait ends: a call in select returns, or goes on to an accept that
\* does not block.
WaitsEnd == tpc = "select" ~> tpc \in {"idle", "exit"}

\* wait_seconds 0 is documented as the normal mode, without a timeout.
ZeroNeverTimesOut == ret = "timeout" => seconds > 0
=============================================================================
