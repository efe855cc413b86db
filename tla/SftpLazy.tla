------------------------------ MODULE SftpLazy ------------------------------
(***************************************************************************)
(* ssh/sftp_lazy.go: the one SSH connection all clones of an ssh storage   *)
(* share.  The first Client call connects, later calls reuse the outcome,  *)
(* Close tears it down.  Callers wait for each other on a channel used as  *)
(* a lock, give up when their own ctx is done, and an attempt is bounded   *)
(* by the caller's ctx and by ConnectTimeout: context.AfterFunc closes the *)
(* TCP connection under the handshake, in a goroutine of its own that may  *)
(* outlive the call.                                                       *)
(***************************************************************************)
EXTENDS Naturals, FiniteSets

CONSTANTS
  Callers,     \* goroutines that call Client, again and again
  Closers,     \* goroutines that call Close
  Conns,       \* the TCP connections the host will accept
  Nil

Users == Callers \cup Closers

ASSUME SftpDisjoint == Callers \cap Closers = {} /\ Nil \notin Users \cup Conns

VARIABLES
  holder,     \* who has sent on lock
  timed,      \* config.Timeout > 0
  closed, attempted, connErr, sftp, ssh,   \* the other fields of sftpLazy
  lpc,        \* lpc[p]: where p is in Client, connect and openSFTP, or in Close
  ctx,        \* ctx[p]: the ctx of p's call
  cause,      \* cause[p]: why connect's ctx (with the timeout) is done
  cur,        \* cur[p]: the connection p's attempt has dialled
  err,        \* err[p]: the error of the attempt, and of the call
  conn,       \* conn[c]: the socket
  after,      \* after[c]: the function context.AfterFunc registered for c
  owner       \* owner[c]: who dialled c

lazyVars == <<timed, closed, attempted, connErr, sftp, ssh>>
connVars == <<conn, after, owner>>
clientVars == <<holder, lazyVars, lpc, ctx, cause, cur, err, connVars>>

\* The values of an error: none, the host's, a ConnectTimeout, a cancelled ctx,
\* and ErrStorageClosed.
Errs == {"nil", "host", "timeout", "cancel", "closed"}
Connecting == {"dial", "handshake", "init", "stop"}

LazyTypeOK ==
  /\ holder \in Users \cup {Nil}
  /\ timed \in BOOLEAN /\ closed \in BOOLEAN /\ attempted \in BOOLEAN
  /\ connErr \in Errs
  /\ sftp \in Conns \cup {Nil} /\ ssh \in Conns \cup {Nil}
  /\ lpc \in [Users -> {"idle", "wait", "locked", "record", "unlock"} \cup Connecting]
  /\ ctx \in [Callers -> {"live", "done"}]
  /\ cause \in [Callers -> {"nil", "timeout", "cancel"}]
  /\ cur \in [Callers -> Conns \cup {Nil}]
  /\ err \in [Callers -> Errs]
  /\ conn \in [Conns -> {"new", "open", "closed"}]
  /\ after \in [Conns -> {"none", "armed", "running", "stopped"}]
  /\ owner \in [Conns -> Callers \cup {Nil}]

LazyInit ==
  /\ holder = Nil
  /\ timed \in BOOLEAN
  /\ closed = FALSE /\ attempted = FALSE /\ connErr = "nil"
  /\ sftp = Nil /\ ssh = Nil
  /\ lpc = [p \in Users |-> "idle"]
  /\ ctx = [p \in Callers |-> "live"]
  /\ cause = [p \in Callers |-> "nil"]
  /\ cur = [p \in Callers |-> Nil]
  /\ err = [p \in Callers |-> "nil"]
  /\ conn = [c \in Conns |-> "new"]
  /\ after = [c \in Conns |-> "none"]
  /\ owner = [c \in Conns |-> Nil]

-----------------------------------------------------------------------------
\* Client.

\* p returns; its next call comes with a ctx of its own.
ClientReturn(p) ==
  /\ lpc' = [lpc EXCEPT ![p] = "idle"]
  /\ ctx' = [q \in Callers |-> IF q = p THEN "live" ELSE ctx[q]]
  /\ cause' = [q \in Callers |-> IF q = p THEN "nil" ELSE cause[q]]
  /\ err' = [q \in Callers |-> IF q = p THEN "nil" ELSE err[q]]

Call(p) ==
  /\ lpc[p] = "idle"
  /\ lpc' = [lpc EXCEPT ![p] = "wait"]
  /\ UNCHANGED <<holder, lazyVars, ctx, cause, cur, err, connVars>>

\* The caller's ctx ends; with it connect's, unless the timeout came first.
Cancel(p) ==
  /\ lpc[p] # "idle" /\ ctx[p] = "live"
  /\ ctx' = [ctx EXCEPT ![p] = "done"]
  /\ cause' = [cause EXCEPT ![p] = IF @ = "nil" THEN "cancel" ELSE @]
  /\ UNCHANGED <<holder, lazyVars, lpc, cur, err, connVars>>

\* select: case l.lock <- struct{}{}
Acquire(p) ==
  /\ lpc[p] = "wait" /\ holder = Nil
  /\ holder' = p
  /\ lpc' = [lpc EXCEPT ![p] = "locked"]
  /\ UNCHANGED <<lazyVars, ctx, cause, cur, err, connVars>>

\* Mutant: the lock is waited for unconditionally, ctx is looked at afterwards.
GiveUpLate(p) ==
  /\ lpc[p] = "wait" /\ ctx[p] = "done" /\ holder = Nil
  /\ ClientReturn(p)
  /\ UNCHANGED <<holder, lazyVars, cur, connVars>>

\* select: case <-ctx.Done()
GiveUp(p) ==
  /\ lpc[p] = "wait" /\ ctx[p] = "done"
  /\ ClientReturn(p)
  /\ UNCHANGED <<holder, lazyVars, cur, connVars>>

\* Mutant: attempted is not looked at.
DecideAgain(p) ==
  /\ lpc[p] = "locked"
  /\ \/ closed /\ err' = [err EXCEPT ![p] = "closed"] /\ lpc' = [lpc EXCEPT ![p] = "unlock"]
     \/ ~closed /\ lpc' = [lpc EXCEPT ![p] = "dial"] /\ UNCHANGED err
  /\ UNCHANGED <<holder, lazyVars, ctx, cause, cur, connVars>>

\* A closed storage and a cached outcome end the call; otherwise it connects.
Decide(p) ==
  /\ lpc[p] = "locked"
  /\ \/ closed /\ err' = [err EXCEPT ![p] = "closed"] /\ lpc' = [lpc EXCEPT ![p] = "unlock"]
     \/ /\ ~closed /\ attempted
        /\ err' = [err EXCEPT ![p] = connErr]
        /\ lpc' = [lpc EXCEPT ![p] = "unlock"]
     \/ ~closed /\ ~attempted /\ lpc' = [lpc EXCEPT ![p] = "dial"] /\ UNCHANGED err
  /\ UNCHANGED <<holder, lazyVars, ctx, cause, cur, connVars>>

\* context.WithTimeout runs out, while connect has not returned.
Timeout(p) ==
  /\ timed /\ lpc[p] \in Connecting /\ cause[p] = "nil"
  /\ cause' = [cause EXCEPT ![p] = "timeout"]
  /\ UNCHANGED <<holder, lazyVars, lpc, ctx, cur, err, connVars>>

\* DialContext succeeds, and AfterFunc is registered on the new connection.
DialOK(p) ==
  /\ lpc[p] = "dial"
  /\ \E c \in Conns :
       /\ conn[c] = "new"
       /\ conn' = [conn EXCEPT ![c] = "open"]
       /\ after' = [after EXCEPT ![c] = "armed"]
       /\ owner' = [owner EXCEPT ![c] = p]
       /\ cur' = [cur EXCEPT ![p] = c]
  /\ lpc' = [lpc EXCEPT ![p] = "handshake"]
  /\ UNCHANGED <<holder, lazyVars, ctx, cause, err>>

\* DialContext fails: the host refuses, or connect's ctx is done.
DialFail(p, e) ==
  /\ lpc[p] = "dial"
  /\ err' = [err EXCEPT ![p] = e]
  /\ lpc' = [lpc EXCEPT ![p] = "record"]
  /\ UNCHANGED <<holder, lazyVars, ctx, cause, cur, connVars>>

DialRefused(p) == DialFail(p, "host")
DialCut(p) == cause[p] # "nil" /\ DialFail(p, cause[p])

\* Mutant: AfterFunc is registered on the caller's ctx, not on the one that
\* carries the timeout.
FireOnCallerOnly(c) ==
  /\ after[c] = "armed"
  /\ cause[owner[c]] = "cancel"
  /\ after' = [after EXCEPT ![c] = "running"]
  /\ UNCHANGED <<holder, lazyVars, lpc, ctx, cause, cur, err, conn, owner>>

\* connect's ctx is done: AfterFunc starts its function, in a goroutine.  When
\* connect returns, its deferred cancel ends the ctx that carries the timeout.
Fire(c) ==
  /\ after[c] = "armed"
  /\ \/ cause[owner[c]] # "nil"
     \/ timed /\ lpc[owner[c]] \notin Connecting
  /\ after' = [after EXCEPT ![c] = "running"]
  /\ UNCHANGED <<holder, lazyVars, lpc, ctx, cause, cur, err, conn, owner>>

\* That goroutine closes the connection.
AfterClose(c) ==
  /\ after[c] = "running" /\ conn[c] = "open"
  /\ conn' = [conn EXCEPT ![c] = "closed"]
  /\ UNCHANGED <<holder, lazyVars, lpc, ctx, cause, cur, err, after, owner>>

\* openSFTP: the SSH handshake, then the SFTP session, each on an open connection.
OpenStep(p) ==
  /\ lpc[p] \in {"handshake", "init"} /\ conn[cur[p]] = "open"
  /\ lpc' = [lpc EXCEPT ![p] = IF @ = "handshake" THEN "init" ELSE "stop"]
  /\ UNCHANGED <<holder, lazyVars, ctx, cause, cur, err, connVars>>

\* Mutant: a failed SFTP handshake leaves the SSH connection open.
OpenFailLeaks(p, socket) ==
  /\ lpc[p] \in {"handshake", "init"} /\ conn[cur[p]] = socket
  /\ err' = [err EXCEPT ![p] = "host"]
  /\ lpc' = [lpc EXCEPT ![p] = "stop"]
  /\ UNCHANGED <<holder, lazyVars, ctx, cause, cur, connVars>>

\* Either fails: the host refuses, or the connection was closed under it.  Both
\* error paths close the connection.
OpenFail(p, socket) ==
  /\ lpc[p] \in {"handshake", "init"} /\ conn[cur[p]] = socket
  /\ conn' = [conn EXCEPT ![cur[p]] = "closed"]
  /\ err' = [err EXCEPT ![p] = "host"]
  /\ lpc' = [lpc EXCEPT ![p] = "stop"]
  /\ UNCHANGED <<holder, lazyVars, ctx, cause, cur, after, owner>>

OpenRefused(p) == OpenFail(p, "open")
OpenCut(p) == OpenFail(p, "closed")

\* Mutant: AfterFunc's function stays registered when connect returns, and the
\* deferred cancel starts it.
StopForgotten(p) ==
  /\ lpc[p] = "stop"
  /\ lpc' = [lpc EXCEPT ![p] = "record"]
  /\ UNCHANGED <<holder, lazyVars, ctx, cause, cur, err, connVars>>

\* stop() reports whether it kept AfterFunc's function from starting; if not, the
\* attempt has failed with context.Cause, even if openSFTP succeeded.
Stop(p) ==
  /\ lpc[p] = "stop"
  /\ \/ /\ after[cur[p]] = "armed"
        /\ after' = [after EXCEPT ![cur[p]] = "stopped"]
        /\ UNCHANGED err
     \/ /\ after[cur[p]] = "running"
        /\ err' = [err EXCEPT ![p] = cause[p]]
        /\ UNCHANGED after
  /\ lpc' = [lpc EXCEPT ![p] = "record"]
  /\ UNCHANGED <<holder, lazyVars, ctx, cause, cur, conn, owner>>

\* Mutant: every outcome is kept.
RecordAlways(p) ==
  /\ lpc[p] = "record"
  /\ attempted' = TRUE /\ connErr' = err[p]
  /\ \/ err[p] = "nil" /\ sftp' = cur[p] /\ ssh' = cur[p]
     \/ err[p] # "nil" /\ UNCHANGED <<sftp, ssh>>
  /\ cur' = [cur EXCEPT ![p] = Nil]
  /\ lpc' = [lpc EXCEPT ![p] = "unlock"]
  /\ UNCHANGED <<holder, timed, closed, ctx, cause, err, connVars>>

\* Client keeps the outcome, except a failure of a caller whose ctx is done.
Record(p) ==
  /\ lpc[p] = "record"
  /\ \/ /\ err[p] = "nil"
        /\ attempted' = TRUE /\ sftp' = cur[p] /\ ssh' = cur[p]
        /\ UNCHANGED connErr
     \/ /\ err[p] # "nil" /\ ctx[p] = "live"
        /\ attempted' = TRUE /\ connErr' = err[p]
        /\ UNCHANGED <<sftp, ssh>>
     \/ /\ err[p] # "nil" /\ ctx[p] = "done"
        /\ UNCHANGED <<attempted, connErr, sftp, ssh>>
  /\ cur' = [cur EXCEPT ![p] = Nil]
  /\ lpc' = [lpc EXCEPT ![p] = "unlock"]
  /\ UNCHANGED <<holder, timed, closed, ctx, cause, err, connVars>>

-----------------------------------------------------------------------------
\* Close waits for the lock unconditionally, then closes what there is.

CallClose(p) ==
  /\ lpc[p] = "idle"
  /\ lpc' = [lpc EXCEPT ![p] = "wait"]
  /\ UNCHANGED <<holder, lazyVars, ctx, cause, cur, err, connVars>>

\* Mutant: the fields are cleared, the connection is not closed.
CloseForgets(p) ==
  /\ lpc[p] = "locked"
  /\ closed' = TRUE
  /\ ssh' = Nil /\ sftp' = Nil
  /\ lpc' = [lpc EXCEPT ![p] = "unlock"]
  /\ UNCHANGED <<holder, timed, attempted, connErr, ctx, cause, cur, err, connVars>>

Close(p) ==
  /\ lpc[p] = "locked"
  /\ closed' = TRUE
  /\ conn' = [c \in Conns |-> IF c = ssh THEN "closed" ELSE conn[c]]
  /\ ssh' = Nil
  /\ sftp' = IF ssh = Nil THEN sftp ELSE Nil
  /\ lpc' = [lpc EXCEPT ![p] = "unlock"]
  /\ UNCHANGED <<holder, timed, attempted, connErr, ctx, cause, cur, err, after, owner>>

\* The deferred receive gives the lock back as the call returns.
Unlock(p) ==
  /\ lpc[p] = "unlock"
  /\ holder' = Nil
  /\ ClientReturn(p)
  /\ UNCHANGED <<lazyVars, cur, connVars>>

-----------------------------------------------------------------------------
ClientStep(p) ==
  \/ Call(p) \/ Cancel(p) \/ GiveUp(p) \/ Decide(p) \/ Timeout(p)
  \/ DialOK(p) \/ DialRefused(p) \/ DialCut(p)
  \/ OpenStep(p) \/ OpenRefused(p) \/ OpenCut(p) \/ Stop(p) \/ Record(p)

LazyNext ==
  \/ \E p \in Callers : ClientStep(p)
  \/ \E p \in Closers : CallClose(p) \/ Close(p)
  \/ \E p \in Users : Acquire(p) \/ Unlock(p)
  \/ \E c \in Conns : Fire(c) \/ AfterClose(c)

\* Every goroutine that can run does run, and the senders blocked on a channel
\* are served in turn.  Nothing is assumed of the host, which may stall for ever,
\* of the callers' ctx, nor of how many calls are made.
Running(p) == GiveUp(p) \/ Decide(p) \/ Timeout(p) \/ DialCut(p) \/ OpenCut(p)
                \/ Stop(p) \/ Record(p) \/ Unlock(p)

Fairness ==
  /\ \A p \in Users : SF_clientVars(Acquire(p))
  /\ \A p \in Callers : WF_clientVars(Running(p))
  /\ \A p \in Closers : WF_clientVars(Close(p) \/ Unlock(p))
  /\ \A c \in Conns : WF_clientVars(Fire(c) \/ AfterClose(c))

LazySpec == LazyInit /\ [][LazyNext]_clientVars
FairLazySpec == LazySpec /\ Fairness

-----------------------------------------------------------------------------
\* The cached client's connection is open, and no AfterFunc of the attempt that
\* made it can close it any more: a ctx that ends late never breaks a client that
\* was handed out.
CachedClientIsLive ==
  ssh # Nil => /\ conn[ssh] = "open" /\ after[ssh] = "stopped"
                /\ sftp = ssh /\ attempted /\ connErr = "nil"

\* Every open connection is the cached one, that of the attempt holding the lock,
\* or about to be closed by its AfterFunc: no error path leaks a socket.
NoSocketLeaks == \A c \in Conns : conn[c] = "open" =>
  \/ c = ssh
  \/ after[c] = "running"
  \/ holder \in Callers /\ cur[holder] = c

\* An attempt cut short by its caller's ctx is not cached: it says nothing about
\* the host.
CancelIsNotCached == connErr \notin {"cancel", "closed"}

\* There is one connection: a second is dialled only when the first attempt has
\* failed and its connection is closed or being closed.
OneConnection == \A c, d \in Conns :
  conn[c] = "open" /\ conn[d] = "open" /\ c # d
    => "running" \in {after[c], after[d]}

\* Once Close has run, every socket is closed for good.
CloseReleasesAll == closed ~> [](\A c \in Conns : conn[c] # "open")

\* Every Client call and every Close call returns, also against a host that
\* stalls, when ConnectTimeout is set.
CallsReturn == \A p \in Users : timed /\ lpc[p] = "wait" ~> lpc[p] = "idle"

\* Without a ConnectTimeout, a caller whose ctx ends still returns, whether it
\* waits for the lock or is connecting.
CancelledCallsReturn == \A p \in Callers : ctx[p] = "done" ~> lpc[p] = "idle"
=============================================================================
