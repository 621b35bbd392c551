------------------------------ MODULE Sessions ------------------------------
(***************************************************************************)
(* The sessions of one user: the rows of refresh_tokens, the version the   *)
(* user's tokens must carry, and the context of the user that each worker  *)
(* process caches.  A bump of the version is to end every token issued     *)
(* before it; each worker then drops its context, at once in the worker    *)
(* that bumps and on a published message, which may be lost, in the        *)
(* others, and every context expires by itself.                            *)
(*                                                                         *)
(* A handler is a step per statement that other requests can see; `req'    *)
(* holds the handlers that are between two of them.                        *)
(***************************************************************************)
EXTENDS Naturals, Sequences

CONSTANTS Devices, Workers, Requests, None,
          MaxVersion,   \* cap on users.token_version
          MaxRows       \* cap on the tokens issued

ASSUME SessionAssumptions ==
  None \notin Devices /\ MaxVersion \in Nat /\ MaxRows \in Nat

VARIABLES
  version,   \* users.token_version
  rows,      \* refresh_tokens, in the order of issue
  context,   \* the version in the context each worker caches, or None
  notices,   \* the workers with an invalidation still to come
  req        \* the handlers in flight

vars == <<version, rows, context, notices, req>>

Versions == 0..MaxVersion

\* `login' is history: the version that the login of the token's chain read.
Row == [device : Devices \cup {None}, version : Versions, live : BOOLEAN, login : Versions]

Idle == [step |-> "idle", row |-> None, device |-> None, version |-> 0, worker |-> None]
Handler ==
  [step : {"idle", "login", "refresh", "rotate", "bump", "invalidate", "load"},
   row : (1..MaxRows) \cup {None}, device : Devices \cup {None},
   version : Versions, worker : Workers \cup {None}]

Usable(k) == rows[k].live /\ rows[k].version = version

Go(r, step) == req' = [req EXCEPT ![r].step = step]
Done(r) == req' = [req EXCEPT ![r] = Idle]

Revoked(rs, S) == [k \in 1..Len(rs) |-> IF k \in S THEN [rs[k] EXCEPT !.live = FALSE] ELSE rs[k]]

\* issueRefreshTokenForDevice: a device keeps one live token.
Issue(rs, device, v, login) ==
  LET prior == {k \in 1..Len(rs) : device # None /\ rs[k].device = device} IN
  Append(Revoked(rs, prior), [device |-> device, version |-> v, live |-> TRUE, login |-> login])
-----------------------------------------------------------------------------
(* Login and refresh. *)

CurrentVersion(r) == version                                \* a mutant
\* A token is signed with the version its handler read.
Carried(r) == req[r].version

\* The user is read, then the password is compared, then the token is issued.
LoginRead(r, d) ==
  /\ req[r] = Idle
  /\ req' = [req EXCEPT ![r] = [Idle EXCEPT !.step = "login", !.device = d, !.version = version]]
  /\ UNCHANGED <<version, rows, context, notices>>

LoginTx(r) ==
  /\ req[r].step = "login"
  /\ Len(rows) < MaxRows
  /\ rows' = Issue(rows, req[r].device, Carried(r), req[r].version)
  /\ Done(r)
  /\ UNCHANGED <<version, context, notices>>

LiveOnly(k) == rows[k].live                                 \* a mutant
Refreshable(k) == Usable(k)

\* The row is read before the version, which only grows: a token that passes
\* both reads was usable at the first.
RefreshRead(r, k) ==
  /\ req[r] = Idle
  /\ Refreshable(k)
  /\ req' = [req EXCEPT ![r] = [Idle EXCEPT !.step = "refresh", !.row = k, !.version = version]]
  /\ UNCHANGED <<version, rows, context, notices>>

\* The transaction reads the device from the row if it is live still,
RefreshCarry(r) ==
  LET k == req[r].row IN
  /\ req[r].step = "refresh"
  /\ req' = [req EXCEPT ![r].step = "rotate",
                        ![r].device = IF rows[k].live THEN rows[k].device ELSE None]
  /\ UNCHANGED <<version, rows, context, notices>>

\* then revokes the row, whoever revoked it before, and issues the next.
RefreshTx(r) ==
  LET k == req[r].row IN
  /\ req[r].step = "rotate"
  /\ Len(rows) < MaxRows
  /\ rows' = Issue(Revoked(rows, {k}), req[r].device, Carried(r), rows[k].login)
  /\ Done(r)
  /\ UNCHANGED <<version, context, notices>>

\* revokeUserSession
RevokeSession(k) ==
  /\ rows[k].live
  /\ rows' = Revoked(rows, {k})
  /\ UNCHANGED <<version, context, notices, req>>
-----------------------------------------------------------------------------
(* Logout and change of password. *)

\* The web revokes every token, a phone the one it sends or every one.
LogoutRows(r, S) ==
  /\ req[r] = Idle
  /\ rows' = Revoked(rows, S)
  /\ Go(r, "bump")
  /\ UNCHANGED <<version, context, notices>>

\* A new password starts here.
Bump(r) ==
  /\ req[r] = Idle \/ req[r].step = "bump"
  /\ version < MaxVersion
  /\ version' = version + 1
  /\ Go(r, "invalidate")
  /\ UNCHANGED <<rows, context, notices>>

\* invalidateAuthContextCache, in worker w
Invalidate(r, w) ==
  /\ req[r].step = "invalidate"
  /\ context' = [context EXCEPT ![w] = None]
  /\ notices' = notices \cup (Workers \ {w})
  /\ Done(r)
  /\ UNCHANGED <<version, rows>>

Deliver(w) ==
  /\ w \in notices
  /\ context' = [context EXCEPT ![w] = None]
  /\ notices' = notices \ {w}
  /\ UNCHANGED <<version, rows, req>>

\* Redis is down, or the worker does not subscribe.
Lose(w) ==
  /\ w \in notices
  /\ notices' = notices \ {w}
  /\ UNCHANGED <<version, rows, context, req>>
-----------------------------------------------------------------------------
(* The context of a worker. *)

\* loadUserAuthContext: a miss reads the user, and fills the cache later.
LoadRead(r, w) ==
  /\ req[r] = Idle
  /\ context[w] = None
  /\ req' = [req EXCEPT ![r] = [Idle EXCEPT !.step = "load", !.worker = w, !.version = version]]
  /\ UNCHANGED <<version, rows, context, notices>>

LoadFill(r) ==
  /\ req[r].step = "load"
  /\ context' = [context EXCEPT ![req[r].worker] = req[r].version]
  /\ Done(r)
  /\ UNCHANGED <<version, rows, notices>>

Kept(w) == FALSE                                            \* a mutant
\* AUTH_CONTEXT_CACHE_TTL_MS
Outlived(w) == context[w] # None

Expire(w) ==
  /\ Outlived(w)
  /\ context' = [context EXCEPT ![w] = None]
  /\ UNCHANGED <<version, rows, notices, req>>

\* A handler fails between two of its statements.
GiveUp(r) ==
  /\ req[r] # Idle
  /\ Done(r)
  /\ UNCHANGED <<version, rows, context, notices>>
-----------------------------------------------------------------------------
Init ==
  /\ version = 0
  /\ rows = <<>>
  /\ context = [w \in Workers |-> None]
  /\ notices = {}
  /\ req = [r \in Requests |-> Idle]

Live == {k \in 1..Len(rows) : rows[k].live}

Start(r) ==
  \/ \E d \in Devices \cup {None} : LoginRead(r, d)
  \/ \E k \in 1..Len(rows) : RefreshRead(r, k)
  \/ \E S \in {Live} \cup {{k} : k \in Live} : LogoutRows(r, S)
  \/ \E w \in Workers : LoadRead(r, w)

Continue(r) ==
  \/ LoginTx(r) \/ RefreshCarry(r) \/ RefreshTx(r) \/ LoadFill(r)
  \/ \E w \in Workers : Invalidate(r, w)

Next ==
  \/ \E r \in Requests : Start(r) \/ Bump(r) \/ Continue(r) \/ GiveUp(r)
  \/ \E k \in 1..Len(rows) : RevokeSession(k)
  \/ \E w \in Workers : Deliver(w) \/ Lose(w) \/ Expire(w)

Spec == Init /\ [][Next]_vars

\* A query of a handler answers or fails, and a context has a time to live.
FairSpec ==
  /\ Spec
  /\ \A r \in Requests : WF_vars(Continue(r) \/ GiveUp(r))
  /\ \A w \in Workers : WF_vars(Expire(w))
-----------------------------------------------------------------------------
TypeOK ==
  /\ version \in Versions
  /\ rows \in Seq(Row) /\ Len(rows) <= MaxRows
  /\ context \in [Workers -> Versions \cup {None}]
  /\ notices \subseteq Workers
  /\ req \in [Requests -> Handler]

\* No chain of refreshes survives a bump of the version, whatever was in flight
\* when it happened: a token that can be used goes back to a login that read
\* the version there is now.
ChainsEnd == \A k \in 1..Len(rows) : Usable(k) => rows[k].login = version

\* A worker does not accept an ended token for ever: the context it filled from
\* an older version goes, although the message that should drop it is lost and
\* a load that began before the bump may fill it again.
StaleContextGoes ==
  \A w \in Workers : context[w] # None /\ context[w] # version ~>
                       context[w] = None \/ context[w] = version
-----------------------------------------------------------------------------
(* What the rows say of the tokens. *)

Logins == [k \in 1..Len(rows) |-> rows[k].login]
Valid == {k \in 1..Len(rows) : Usable(k)}

Tokens == INSTANCE SignIns WITH epoch <- version, signedIn <- Logins, valid <- Valid

\* The handlers implement SignIns: a bump ends every token, those that logins
\* and refreshes in flight are still to issue included, and no token that was
\* revoked or ended is made usable again.
EndedStayEnded == Tokens!Spec
=============================================================================
