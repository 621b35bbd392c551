--------------------------- MODULE Sessions_proofs ---------------------------
(***************************************************************************)
(* The end of every chain of refreshes at a bump of the version, for any   *)
(* number of devices, workers, handlers, versions and tokens.  A token     *)
(* carries the version its login read, and so does the token a refresh in  *)
(* flight read: the version a refresh writes is the one its row had, not   *)
(* the one there is when it writes.                                        *)
(***************************************************************************)
EXTENDS Sessions, SequenceTheorems, TLAPS

VersionIsLogin == \A k \in 1..Len(rows) : rows[k].version = rows[k].login

RefreshingRow ==
  \A r \in Requests : req[r].step \in {"refresh", "rotate"} =>
    req[r].row \in 1..Len(rows) /\ rows[req[r].row].version = req[r].version

SessionInv == TypeOK /\ VersionIsLogin /\ RefreshingRow

\* Tokens are added and revoked; what they were issued with stays, and a
\* revoked one is not revived.
Extends(rs, new) ==
  /\ Len(rs) <= Len(new)
  /\ \A k \in 1..Len(rs) : /\ new[k].version = rs[k].version /\ new[k].login = rs[k].login
                           /\ new[k].live => rs[k].live
-----------------------------------------------------------------------------
\* What a revocation and an issue do to the tokens there are.
LEMMA RevokedExtends ==
  ASSUME NEW rs \in Seq(Row), NEW S
  PROVE  /\ Revoked(rs, S) \in Seq(Row) /\ Len(Revoked(rs, S)) = Len(rs)
         /\ Extends(rs, Revoked(rs, S))
<1> DEFINE f == [k \in 1..Len(rs) |-> IF k \in S THEN [rs[k] EXCEPT !.live = FALSE] ELSE rs[k]]
<1>1. Len(rs) \in Nat /\ \A k \in 1..Len(rs) : rs[k] \in Row
  BY LenProperties, ElementOfSeq
<1>2. \A k \in 1..Len(rs) : /\ f[k] \in Row
                            /\ f[k].version = rs[k].version /\ f[k].login = rs[k].login
                            /\ f[k].live => rs[k].live
  BY <1>1 DEF Row
<1>3. f \in Seq(Row)
  BY <1>1, <1>2, IsASeq
<1>4. f \in [1..Len(rs) -> Row]
  BY <1>2
<1>5. Len(f) = Len(rs)
  BY <1>1, <1>3, <1>4, LenProperties
<1> QED BY <1>1, <1>2, <1>3, <1>5 DEF Revoked, Extends

LEMMA IssueExtends ==
  ASSUME NEW rs \in Seq(Row), NEW d \in Devices \cup {None}, NEW v \in Versions, NEW l \in Versions
  PROVE  /\ Issue(rs, d, v, l) \in Seq(Row) /\ Len(Issue(rs, d, v, l)) = Len(rs) + 1
         /\ Extends(rs, Issue(rs, d, v, l))
         /\ Issue(rs, d, v, l)[Len(rs) + 1].version = v
         /\ Issue(rs, d, v, l)[Len(rs) + 1].login = l
<1> DEFINE prior == {k \in 1..Len(rs) : d # None /\ rs[k].device = d}
           old == Revoked(rs, prior)
           row == [device |-> d, version |-> v, live |-> TRUE, login |-> l]
<1>1. old \in Seq(Row) /\ Len(old) = Len(rs) /\ Extends(rs, old) /\ Len(rs) \in Nat
  BY RevokedExtends, LenProperties
<1>2. row \in Row /\ row.version = v /\ row.login = l
  BY DEF Row
<1>3. Issue(rs, d, v, l) = Append(old, row)
  BY DEF Issue
<1> HIDE DEF old, row
<1> QED BY <1>1, <1>2, <1>3, AppendProperties DEF Extends

\* A step that leaves the tokens, or revokes some.
LEMMA TokensKept ==
  ASSUME SessionInv, TypeOK', Extends(rows, rows'), Len(rows') = Len(rows),
         \A r \in Requests :
           \/ req'[r].step \notin {"refresh", "rotate"}
           \/ /\ req[r].step \in {"refresh", "rotate"}
              /\ req'[r].row = req[r].row /\ req'[r].version = req[r].version
  PROVE  SessionInv'
<1>1. VersionIsLogin'
  BY DEF SessionInv, VersionIsLogin, Extends
<1>2. RefreshingRow'
  BY DEF SessionInv, RefreshingRow, Extends
<1> QED BY <1>1, <1>2 DEF SessionInv

\* A step that issues a token of one chain: a login, or a refresh of a row.
LEMMA TokenIssued ==
  ASSUME SessionInv, TypeOK', NEW r \in Requests, req' = [req EXCEPT ![r] = Idle],
         Extends(rows, rows'), Len(rows') = Len(rows) + 1,
         rows'[Len(rows) + 1].version = rows'[Len(rows) + 1].login
  PROVE  SessionInv'
<1> USE DEF SessionInv
<1>1. Len(rows) \in Nat
  BY LenProperties DEF TypeOK
<1>2. VersionIsLogin'
  BY <1>1 DEF VersionIsLogin, Extends
<1>3. \A q \in Requests : req'[q] = req[q] \/ req'[q].step = "idle"
  BY DEF TypeOK, Idle
<1>4. RefreshingRow'
  BY <1>1, <1>3 DEF RefreshingRow, Extends
<1> QED BY <1>2, <1>4

LEMMA SameRows ==
  ASSUME SessionInv, UNCHANGED rows
  PROVE  Extends(rows, rows') /\ Len(rows') = Len(rows)
BY LenProperties DEF SessionInv, TypeOK, Extends

LEMMA IdleHandler ==
  ASSUME SessionInv, NEW r \in Requests, req' = [req EXCEPT ![r] = Idle]
  PROVE  /\ req' \in [Requests -> Handler]
         /\ \A q \in Requests : req'[q] = req[q] \/ req'[q].step = "idle"
BY SessionAssumptions DEF SessionInv, TypeOK, Idle, Handler, Versions
-----------------------------------------------------------------------------
(* The actions. *)

LEMMA LoginReadKeeps ==
  ASSUME SessionInv, NEW r \in Requests, NEW d \in Devices \cup {None}, LoginRead(r, d)
  PROVE  SessionInv'
<1> DEFINE h == [Idle EXCEPT !.step = "login", !.device = d, !.version = version]
<1>1. req' = [req EXCEPT ![r] = h] /\ UNCHANGED <<version, rows, context, notices>>
  BY DEF LoginRead
<1>2. h \in Handler /\ h.step = "login"
  BY DEF SessionInv, TypeOK, Handler, Idle
<1> HIDE DEF h
<1>3. TypeOK' /\ \A q \in Requests : req'[q] = req[q] \/ req'[q].step = "login"
  BY <1>1, <1>2 DEF SessionInv, TypeOK
<1> QED BY <1>1, <1>3, SameRows, TokensKept

LEMMA RefreshReadKeeps ==
  ASSUME SessionInv, NEW r \in Requests, NEW k \in 1..Len(rows), RefreshRead(r, k)
  PROVE  SessionInv'
<1> DEFINE h == [Idle EXCEPT !.step = "refresh", !.row = k, !.version = version]
<1>1. req' = [req EXCEPT ![r] = h] /\ UNCHANGED <<version, rows, context, notices>>
      /\ rows[k].version = version
  BY DEF RefreshRead, Refreshable, Usable
<1>2. h \in Handler /\ h.row = k /\ h.version = version
  <2>1. k \in 1..MaxRows
    BY SessionAssumptions, LenProperties DEF SessionInv, TypeOK
  <2> QED BY <2>1 DEF SessionInv, TypeOK, Handler, Idle
<1> HIDE DEF h
<1>3. TypeOK' /\ \A q \in Requests : req'[q] = req[q] \/ req'[q] = h
  BY <1>1, <1>2 DEF SessionInv, TypeOK
<1>4. VersionIsLogin' /\ RefreshingRow'
  BY <1>1, <1>2, <1>3 DEF SessionInv, VersionIsLogin, RefreshingRow
<1> QED BY <1>3, <1>4 DEF SessionInv

LEMMA LoadReadKeeps ==
  ASSUME SessionInv, NEW r \in Requests, NEW w \in Workers, LoadRead(r, w)
  PROVE  SessionInv'
<1> DEFINE h == [Idle EXCEPT !.step = "load", !.worker = w, !.version = version]
<1>1. req' = [req EXCEPT ![r] = h] /\ UNCHANGED <<version, rows, context, notices>>
  BY DEF LoadRead
<1>2. h \in Handler /\ h.step = "load"
  BY DEF SessionInv, TypeOK, Handler, Idle
<1> HIDE DEF h
<1>3. TypeOK' /\ \A q \in Requests : req'[q] = req[q] \/ req'[q].step = "load"
  BY <1>1, <1>2 DEF SessionInv, TypeOK
<1> QED BY <1>1, <1>3, SameRows, TokensKept

LEMMA LoginTxKeeps ==
  ASSUME SessionInv, NEW r \in Requests, LoginTx(r)
  PROVE  SessionInv'
<1> DEFINE v == req[r].version
<1>1. /\ req' = [req EXCEPT ![r] = Idle] /\ UNCHANGED <<version, context, notices>>
      /\ rows' = Issue(rows, req[r].device, v, v) /\ Len(rows) < MaxRows
  BY DEF LoginTx, Done, Carried
<1>2. v \in Versions /\ req[r].device \in Devices \cup {None} /\ rows \in Seq(Row)
  BY DEF SessionInv, TypeOK, Handler
<1> HIDE DEF v
<1>3. /\ rows' \in Seq(Row) /\ Len(rows') = Len(rows) + 1 /\ Extends(rows, rows')
      /\ rows'[Len(rows) + 1].version = v /\ rows'[Len(rows) + 1].login = v
  BY <1>1, <1>2, IssueExtends
<1>4. TypeOK'
  <2>1. Len(rows') <= MaxRows
    BY <1>1, <1>2, <1>3, LenProperties, SessionAssumptions
  <2> QED BY <1>1, <1>3, <2>1, IdleHandler DEF SessionInv, TypeOK
<1> QED BY <1>1, <1>3, <1>4, TokenIssued

LEMMA RefreshCarryKeeps ==
  ASSUME SessionInv, NEW r \in Requests, RefreshCarry(r)
  PROVE  SessionInv'
<1> DEFINE k == req[r].row
           d == IF rows[k].live THEN rows[k].device ELSE None
           h == [req[r] EXCEPT !.step = "rotate", !.device = d]
<1>1. req' = [req EXCEPT ![r] = h] /\ req[r].step = "refresh"
      /\ UNCHANGED <<version, rows, context, notices>>
  BY DEF RefreshCarry
<1>2. k \in 1..Len(rows) /\ rows[k] \in Row
  BY <1>1, ElementOfSeq DEF SessionInv, TypeOK, RefreshingRow
<1>3. d \in Devices \cup {None}
  BY <1>2 DEF Row
<1>4. h \in Handler /\ h.row = k /\ h.version = req[r].version
  BY <1>3 DEF SessionInv, TypeOK, Handler
<1> HIDE DEF h, d
<1>5. TypeOK' /\ \A q \in Requests : req'[q] = IF q = r THEN h ELSE req[q]
  BY <1>1, <1>4 DEF SessionInv, TypeOK
<1> QED BY <1>1, <1>4, <1>5, SameRows, TokensKept

\* The new token has the version of the row the refresh read.
LEMMA RefreshTxKeeps ==
  ASSUME SessionInv, NEW r \in Requests, RefreshTx(r)
  PROVE  SessionInv'
<1> DEFINE k == req[r].row
           v == req[r].version
           old == Revoked(rows, {k})
<1>1. /\ req' = [req EXCEPT ![r] = Idle] /\ UNCHANGED <<version, context, notices>>
      /\ rows' = Issue(old, req[r].device, v, rows[k].login)
      /\ Len(rows) < MaxRows /\ req[r].step = "rotate"
  BY DEF RefreshTx, Done, Carried
<1>2. k \in 1..Len(rows) /\ rows[k].version = v /\ rows[k].login = v
  BY <1>1 DEF SessionInv, RefreshingRow, VersionIsLogin
<1>3. v \in Versions /\ req[r].device \in Devices \cup {None} /\ rows \in Seq(Row)
  BY DEF SessionInv, TypeOK, Handler
<1>4. old \in Seq(Row) /\ Len(old) = Len(rows) /\ Extends(rows, old)
  BY <1>3, RevokedExtends
<1> HIDE DEF v, k, old
<1>5. /\ rows' \in Seq(Row) /\ Len(rows') = Len(rows) + 1 /\ Extends(old, rows')
      /\ rows'[Len(rows) + 1].version = v /\ rows'[Len(rows) + 1].login = v
  <2>1. rows' = Issue(old, req[r].device, v, v)
    BY <1>1, <1>2
  <2> QED BY <1>3, <1>4, <2>1, IssueExtends
<1>6. Extends(rows, rows')
  BY <1>4, <1>5 DEF Extends
<1>7. TypeOK'
  <2>1. Len(rows') <= MaxRows
    BY <1>1, <1>3, <1>5, LenProperties, SessionAssumptions
  <2> QED BY <1>1, <1>5, <2>1, IdleHandler DEF SessionInv, TypeOK
<1> QED BY <1>1, <1>5, <1>6, <1>7, TokenIssued

LEMMA RevokeKeeps ==
  ASSUME SessionInv, NEW S, rows' = Revoked(rows, S),
         UNCHANGED <<version, context, notices>>,
         req' \in [Requests -> Handler],
         \A r \in Requests : req'[r] = req[r] \/ req'[r].step = "bump"
  PROVE  SessionInv'
<1>1. rows' \in Seq(Row) /\ Len(rows') = Len(rows) /\ Extends(rows, rows')
  BY RevokedExtends DEF SessionInv, TypeOK
<1>2. TypeOK'
  BY <1>1 DEF SessionInv, TypeOK
<1> QED BY <1>1, <1>2, TokensKept

LEMMA LogoutRowsKeeps ==
  ASSUME SessionInv, NEW r \in Requests, NEW S, LogoutRows(r, S)
  PROVE  SessionInv'
<1>1. /\ req' = [req EXCEPT ![r].step = "bump"] /\ rows' = Revoked(rows, S)
      /\ UNCHANGED <<version, context, notices>>
  BY DEF LogoutRows, Go
<1>2. /\ req' \in [Requests -> Handler]
      /\ \A q \in Requests : req'[q] = req[q] \/ req'[q].step = "bump"
  BY <1>1 DEF SessionInv, TypeOK, Handler
<1> QED BY <1>1, <1>2, RevokeKeeps

LEMMA RevokeSessionKeeps ==
  ASSUME SessionInv, NEW k \in 1..Len(rows), RevokeSession(k)
  PROVE  SessionInv'
BY RevokeKeeps DEF RevokeSession, SessionInv, TypeOK

LEMMA BumpKeeps ==
  ASSUME SessionInv, NEW r \in Requests, Bump(r)
  PROVE  SessionInv'
<1>1. /\ req' = [req EXCEPT ![r].step = "invalidate"] /\ version' = version + 1
      /\ version < MaxVersion /\ UNCHANGED <<rows, context, notices>>
  BY DEF Bump, Go
<1>2. version' \in Versions
  BY <1>1, SessionAssumptions DEF SessionInv, TypeOK, Versions
<1>3. /\ req' \in [Requests -> Handler]
      /\ \A q \in Requests : req'[q] = req[q] \/ req'[q].step = "invalidate"
  BY <1>1 DEF SessionInv, TypeOK, Handler
<1>4. TypeOK'
  BY <1>1, <1>2, <1>3 DEF SessionInv, TypeOK
<1> QED BY <1>1, <1>3, <1>4, SameRows, TokensKept

LEMMA InvalidateKeeps ==
  ASSUME SessionInv, NEW r \in Requests, NEW w \in Workers, Invalidate(r, w)
  PROVE  SessionInv'
<1>1. /\ req' = [req EXCEPT ![r] = Idle] /\ UNCHANGED <<version, rows>>
      /\ context' = [context EXCEPT ![w] = None] /\ notices' = notices \cup (Workers \ {w})
  BY DEF Invalidate, Done
<1>2. TypeOK'
  BY <1>1, IdleHandler DEF SessionInv, TypeOK
<1> QED BY <1>1, <1>2, IdleHandler, SameRows, TokensKept

LEMMA LoadFillKeeps ==
  ASSUME SessionInv, NEW r \in Requests, LoadFill(r)
  PROVE  SessionInv'
<1>1. /\ req' = [req EXCEPT ![r] = Idle] /\ UNCHANGED <<version, rows, notices>>
      /\ context' = [context EXCEPT ![req[r].worker] = req[r].version]
  BY DEF LoadFill, Done
<1>2. req[r].version \in Versions
  BY DEF SessionInv, TypeOK, Handler
<1>3. TypeOK'
  BY <1>1, <1>2, IdleHandler DEF SessionInv, TypeOK
<1> QED BY <1>1, <1>3, IdleHandler, SameRows, TokensKept

LEMMA GiveUpKeeps ==
  ASSUME SessionInv, NEW r \in Requests, GiveUp(r)
  PROVE  SessionInv'
<1>1. req' = [req EXCEPT ![r] = Idle] /\ UNCHANGED <<version, rows, context, notices>>
  BY DEF GiveUp, Done
<1>2. TypeOK'
  BY <1>1, IdleHandler DEF SessionInv, TypeOK
<1> QED BY <1>1, <1>2, IdleHandler, SameRows, TokensKept

\* What the workers do with their contexts and messages concerns no token.
LEMMA WorkerKeeps ==
  ASSUME SessionInv, NEW w \in Workers, Deliver(w) \/ Lose(w) \/ Expire(w)
  PROVE  SessionInv'
<1>1. UNCHANGED <<version, rows, req>>
  BY DEF Deliver, Lose, Expire
<1>2. TypeOK'
  BY <1>1 DEF SessionInv, TypeOK, Deliver, Lose, Expire
<1> QED BY <1>1, <1>2, SameRows, TokensKept
-----------------------------------------------------------------------------
LEMMA SessionStep ==
  ASSUME SessionInv, [Next]_vars
  PROVE  SessionInv'
<1>1. ASSUME NEW r \in Requests, Start(r) \/ Bump(r) \/ Continue(r) \/ GiveUp(r)
      PROVE  SessionInv'
  BY <1>1, LoginReadKeeps, RefreshReadKeeps, LoadReadKeeps, LogoutRowsKeeps, BumpKeeps,
     LoginTxKeeps, RefreshCarryKeeps, RefreshTxKeeps, LoadFillKeeps, InvalidateKeeps,
     GiveUpKeeps DEF Start, Continue
<1>2. CASE UNCHANGED vars
  <2>1. TypeOK' /\ UNCHANGED <<rows, req>>
    BY <1>2 DEF vars, SessionInv, TypeOK
  <2> QED BY <2>1, SameRows, TokensKept
<1> QED BY <1>1, <1>2, RevokeSessionKeeps, WorkerKeeps DEF Next

LEMMA SessionInitial == Init => SessionInv
<1> SUFFICES ASSUME Init PROVE SessionInv
  OBVIOUS
<1>1. rows = <<>> /\ Len(rows) = 0 /\ rows \in Seq(Row)
  BY EmptySeq DEF Init
<1>2. TypeOK
  BY <1>1, SessionAssumptions DEF Init, TypeOK, Idle, Handler, Versions
<1>3. VersionIsLogin /\ RefreshingRow
  BY <1>1 DEF Init, VersionIsLogin, RefreshingRow, Idle
<1> QED BY <1>2, <1>3 DEF SessionInv

\* The inductive invariant holds in every state of the sessions.
THEOREM SessionInvHolds == Spec => []SessionInv
<1>1. SessionInv /\ [Next]_vars => SessionInv'
  BY SessionStep
<1> QED BY <1>1, SessionInitial, PTL DEF Spec

\* The tokens, contexts and handlers keep their shape.
THEOREM SessionsTyped == Spec => []TypeOK
<1>1. SessionInv => TypeOK
  BY DEF SessionInv
<1> QED BY <1>1, SessionInvHolds, PTL

\* A token that can be used goes back to a login that read the version there
\* is: no refresh in flight carries a chain over a logout or a new password.
THEOREM ChainsDoEnd == Spec => []ChainsEnd
<1>1. SessionInv => ChainsEnd
  BY DEF SessionInv, VersionIsLogin, ChainsEnd, Usable
<1> QED BY <1>1, SessionInvHolds, PTL
-----------------------------------------------------------------------------
(* The promise of SignIns.  A step leaves the tokens or revokes some, or    *)
(* issues one, or bumps the version (TokenStep); no token and no handler is *)
(* ahead of the version (NotAhead), so that a bump ends all of them.        *)

RowsStay == Extends(rows, rows') /\ Len(rows') = Len(rows)

RowIssued(v) ==
  /\ Extends(rows, rows') /\ Len(rows') = Len(rows) + 1
  /\ rows'[Len(rows) + 1].version = v /\ rows'[Len(rows) + 1].login = v

VersionsRead == \A r \in Requests : req'[r].version \in {req[r].version, 0, version}

TokenMoves ==
  /\ VersionsRead
  /\ \/ version' = version /\ RowsStay
     \/ version' = version /\ \E r \in Requests : RowIssued(req[r].version)
     \/ version' = version + 1 /\ rows' = rows

NotAhead ==
  /\ \A k \in 1..Len(rows) : rows[k].version <= version
  /\ \A r \in Requests : req[r].version <= version

EpochInv == SessionInv /\ NotAhead

LEMMA RowShapes ==
  ASSUME NEW rs \in Seq(Row)
  PROVE  /\ Len(rs) \in Nat
         /\ \A k \in 1..Len(rs) : rs[k].version \in Nat /\ rs[k].login \in Versions
<1>1. \A k \in 1..Len(rs) : rs[k] \in Row
  BY ElementOfSeq
<1>2. Versions \subseteq Nat
  BY SessionAssumptions DEF Versions
<1> QED BY <1>1, <1>2, LenProperties DEF Row

\* A step that replaces one handler, and leaves the tokens.
LEMMA HandlerMoves ==
  ASSUME SessionInv, NEW r \in Requests, NEW h, req' = [req EXCEPT ![r] = h],
         h.version \in {req[r].version, 0, version}, UNCHANGED version, RowsStay
  PROVE  TokenMoves
BY DEF SessionInv, TypeOK, TokenMoves, VersionsRead

LEMMA StartMoves ==
  ASSUME SessionInv, NEW r \in Requests, Start(r)
  PROVE  TokenMoves
<1>1. ASSUME NEW d, LoginRead(r, d) PROVE TokenMoves
  <2> DEFINE h == [Idle EXCEPT !.step = "login", !.device = d, !.version = version]
  <2>1. req' = [req EXCEPT ![r] = h] /\ UNCHANGED <<version, rows>> /\ h.version = version
    BY <1>1 DEF LoginRead, Idle
  <2> HIDE DEF h
  <2> QED BY <2>1, SameRows, HandlerMoves DEF RowsStay
<1>2. ASSUME NEW k, RefreshRead(r, k) PROVE TokenMoves
  <2> DEFINE h == [Idle EXCEPT !.step = "refresh", !.row = k, !.version = version]
  <2>1. req' = [req EXCEPT ![r] = h] /\ UNCHANGED <<version, rows>> /\ h.version = version
    BY <1>2 DEF RefreshRead, Idle
  <2> HIDE DEF h
  <2> QED BY <2>1, SameRows, HandlerMoves DEF RowsStay
<1>3. ASSUME NEW w, LoadRead(r, w) PROVE TokenMoves
  <2> DEFINE h == [Idle EXCEPT !.step = "load", !.worker = w, !.version = version]
  <2>1. req' = [req EXCEPT ![r] = h] /\ UNCHANGED <<version, rows>> /\ h.version = version
    BY <1>3 DEF LoadRead, Idle
  <2> HIDE DEF h
  <2> QED BY <2>1, SameRows, HandlerMoves DEF RowsStay
<1>4. ASSUME NEW S, LogoutRows(r, S) PROVE TokenMoves
  <2>1. req' = [req EXCEPT ![r].step = "bump"] /\ UNCHANGED version /\ rows' = Revoked(rows, S)
    BY <1>4 DEF LogoutRows, Go
  <2>2. RowsStay
    BY <2>1, RevokedExtends DEF RowsStay, SessionInv, TypeOK
  <2>3. VersionsRead
    BY <2>1 DEF VersionsRead, SessionInv, TypeOK, Handler
  <2> QED BY <2>1, <2>2, <2>3 DEF TokenMoves
<1> QED BY <1>1, <1>2, <1>3, <1>4 DEF Start

LEMMA IssueMoves ==
  ASSUME NEW rs \in Seq(Row), NEW d \in Devices \cup {None}, NEW v \in Versions,
         Extends(rows, rs), Len(rs) = Len(rows), rows' = Issue(rs, d, v, v)
  PROVE  RowIssued(v)
<1>1. /\ Issue(rs, d, v, v) \in Seq(Row) /\ Len(Issue(rs, d, v, v)) = Len(rs) + 1
      /\ Extends(rs, Issue(rs, d, v, v))
      /\ Issue(rs, d, v, v)[Len(rs) + 1].version = v
      /\ Issue(rs, d, v, v)[Len(rs) + 1].login = v
  BY IssueExtends
<1>2. Extends(rows, rows') /\ Len(rows') = Len(rows) + 1
  BY <1>1, LenProperties DEF Extends
<1> QED BY <1>1, <1>2 DEF RowIssued

LEMMA ContinueMoves ==
  ASSUME SessionInv, NEW r \in Requests, Continue(r) \/ GiveUp(r)
  PROVE  TokenMoves
<1>1. ASSUME req' = [req EXCEPT ![r] = Idle] PROVE VersionsRead
  BY <1>1 DEF VersionsRead, SessionInv, TypeOK, Idle
<1>2. req[r].version \in Versions /\ req[r].device \in Devices \cup {None} /\ rows \in Seq(Row)
  BY DEF SessionInv, TypeOK, Handler
<1>3. CASE LoginTx(r)
  <2>1. /\ req' = [req EXCEPT ![r] = Idle] /\ version' = version
        /\ rows' = Issue(rows, req[r].device, req[r].version, req[r].version)
    BY <1>3 DEF LoginTx, Done, Carried
  <2>2. Extends(rows, rows)
    BY <1>2, LenProperties DEF Extends
  <2>3. RowIssued(req[r].version)
    BY <1>2, <2>1, <2>2, IssueMoves
  <2> QED BY <1>1, <2>1, <2>3 DEF TokenMoves
<1>4. CASE RefreshTx(r)
  <2> DEFINE k == req[r].row
             old == Revoked(rows, {k})
  <2>1. /\ req' = [req EXCEPT ![r] = Idle] /\ version' = version /\ req[r].step = "rotate"
        /\ rows' = Issue(old, req[r].device, req[r].version, rows[k].login)
    BY <1>4 DEF RefreshTx, Done, Carried
  <2>2. rows[k].login = req[r].version
    BY <2>1 DEF SessionInv, RefreshingRow, VersionIsLogin
  <2>3. old \in Seq(Row) /\ Len(old) = Len(rows) /\ Extends(rows, old)
    BY <1>2, RevokedExtends
  <2> HIDE DEF old, k
  <2>4. RowIssued(req[r].version)
    BY <1>2, <2>1, <2>2, <2>3, IssueMoves
  <2> QED BY <1>1, <2>1, <2>4 DEF TokenMoves
<1>5. CASE RefreshCarry(r)
  <2>1. /\ req' = [req EXCEPT ![r].step = "rotate",
                              ![r].device = IF rows[req[r].row].live
                                            THEN rows[req[r].row].device ELSE None]
        /\ UNCHANGED <<version, rows>>
    BY <1>5 DEF RefreshCarry
  <2>2. VersionsRead
    BY <2>1 DEF VersionsRead, SessionInv, TypeOK, Handler
  <2> QED BY <2>1, <2>2, SameRows DEF TokenMoves, RowsStay
<1>6. CASE LoadFill(r) \/ GiveUp(r) \/ \E w \in Workers : Invalidate(r, w)
  <2>1. req' = [req EXCEPT ![r] = Idle] /\ UNCHANGED <<version, rows>>
    BY <1>6 DEF LoadFill, GiveUp, Invalidate, Done
  <2> QED BY <1>1, <2>1, SameRows DEF TokenMoves, RowsStay
<1> QED BY <1>3, <1>4, <1>5, <1>6 DEF Continue

LEMMA TokenStep ==
  ASSUME SessionInv, [Next]_vars
  PROVE  TokenMoves
<1>1. ASSUME NEW r \in Requests, Bump(r) PROVE TokenMoves
  <2>1. req' = [req EXCEPT ![r].step = "invalidate"] /\ version' = version + 1 /\ rows' = rows
    BY <1>1 DEF Bump, Go
  <2>2. VersionsRead
    BY <2>1 DEF VersionsRead, SessionInv, TypeOK, Handler
  <2> QED BY <2>1, <2>2 DEF TokenMoves
<1>2. ASSUME NEW k \in 1..Len(rows), RevokeSession(k) PROVE TokenMoves
  <2>1. rows' = Revoked(rows, {k}) /\ UNCHANGED <<version, req>>
    BY <1>2 DEF RevokeSession
  <2>2. RowsStay
    BY <2>1, RevokedExtends DEF RowsStay, SessionInv, TypeOK
  <2> QED BY <2>1, <2>2 DEF TokenMoves, VersionsRead
<1>3. ASSUME UNCHANGED <<version, rows, req>> PROVE TokenMoves
  BY <1>3, SameRows DEF TokenMoves, VersionsRead, RowsStay
<1>4. CASE \E w \in Workers : Deliver(w) \/ Lose(w) \/ Expire(w)
  BY <1>3, <1>4 DEF Deliver, Lose, Expire
<1>5. CASE UNCHANGED vars
  BY <1>3, <1>5 DEF vars
<1> QED BY <1>1, <1>2, <1>4, <1>5, StartMoves, ContinueMoves DEF Next

LEMMA NotAheadStep ==
  ASSUME EpochInv, TokenMoves, TypeOK'
  PROVE  NotAhead'
<1> USE DEF EpochInv, SessionInv
<1>1. /\ version \in Nat /\ version' \in Nat /\ version <= version'
      /\ \A k \in 1..Len(rows) : rows[k].version \in Nat
      /\ \A r \in Requests : req[r].version \in Nat
      /\ Len(rows) \in Nat
  <2>1. version \in Nat /\ version' \in Nat /\ \A r \in Requests : req[r].version \in Nat
    BY SessionAssumptions DEF TypeOK, Versions, Handler
  <2>2. version <= version'
    BY <2>1 DEF TokenMoves
  <2> QED BY <2>1, <2>2, RowShapes DEF TypeOK
<1>2. \A r \in Requests : req'[r].version <= version'
  BY <1>1 DEF TokenMoves, VersionsRead, NotAhead
<1>3. \A k \in 1..Len(rows') : rows'[k].version <= version'
  <2>1. CASE RowsStay
    BY <1>1, <2>1 DEF RowsStay, Extends, NotAhead
  <2>2. ASSUME NEW r \in Requests, RowIssued(req[r].version)
        PROVE  \A k \in 1..Len(rows') : rows'[k].version <= version'
    BY <1>1, <2>2 DEF RowIssued, Extends, NotAhead
  <2>3. CASE rows' = rows
    BY <1>1, <2>3 DEF NotAhead
  <2> QED BY <2>1, <2>2, <2>3 DEF TokenMoves
<1> QED BY <1>2, <1>3 DEF NotAhead

\* The logins behind the tokens, after a step.
LEMMA LoginsFollow ==
  ASSUME SessionInv, TypeOK'
  PROVE  /\ RowsStay => Logins' = Logins
         /\ \A v \in Versions : RowIssued(v) => Logins' = Append(Logins, v)
<1>1. /\ Len(rows) \in Nat /\ Len(rows') \in Nat
      /\ \A k \in 1..Len(rows) : rows[k].login \in Versions
      /\ \A k \in 1..Len(rows') : rows'[k].login \in Versions
  BY RowShapes DEF SessionInv, TypeOK
<1>2. Logins \in Seq(Versions) /\ Len(Logins) = Len(rows)
  BY <1>1 DEF Logins
<1>3. Logins' \in Seq(Versions) /\ Len(Logins') = Len(rows')
  BY <1>1 DEF Logins
<1>4. RowsStay => Logins' = Logins
  BY <1>1 DEF RowsStay, Extends, Logins
<1>5. ASSUME NEW v \in Versions, RowIssued(v) PROVE Logins' = Append(Logins, v)
  <2>1. /\ Len(Logins') = Len(Logins) + 1
        /\ \A k \in 1..Len(Logins) : Logins'[k] = Logins[k]
        /\ Logins'[Len(Logins) + 1] = v
    BY <1>1, <1>2, <1>3, <1>5 DEF RowIssued, Extends, Logins
  <2> DEFINE new == Logins'
             old == Logins
             app == Append(old, v)
  <2> HIDE DEF new, old
  <2>2. old \in Seq(Versions) /\ new \in Seq(Versions) /\ Len(old) \in Nat
    BY <1>1, <1>2, <1>3 DEF new, old
  <2>3. /\ app \in Seq(Versions) /\ Len(app) = Len(old) + 1
        /\ \A k \in 1..Len(old) : app[k] = old[k]
        /\ app[Len(old) + 1] = v
    BY <2>2, AppendProperties
  <2> HIDE DEF app
  <2>4. Len(new) = Len(app) /\ \A k \in 1..Len(new) : new[k] = app[k]
    <3>1. /\ Len(new) = Len(old) + 1
          /\ \A k \in 1..Len(old) : new[k] = old[k]
          /\ new[Len(old) + 1] = v
      BY <2>1 DEF new, old
    <3> QED BY <2>2, <2>3, <3>1
  <2>5. new = app
    BY <2>2, <2>3, <2>4, SeqEqual
  <2> QED BY <2>5 DEF new, app, old
<1> QED BY <1>4, <1>5

LEMMA SignInsStep ==
  ASSUME EpochInv, TokenMoves, TypeOK'
  PROVE  [Tokens!Next]_(Tokens!vars)
<1> USE DEF EpochInv, SessionInv
<1>1. /\ version \in Nat /\ Len(rows) \in Nat
      /\ \A k \in 1..Len(rows) : rows[k].version \in Nat
  BY RowShapes, SessionAssumptions DEF TypeOK, Versions
<1>2. ASSUME version' = version, RowsStay PROVE Tokens!End
  <2>1. Valid' \subseteq Valid
    BY <1>2 DEF Valid, Usable, RowsStay, Extends
  <2> QED BY <1>2, <2>1, LoginsFollow DEF Tokens!End
<1>3. ASSUME NEW r \in Requests, version' = version, RowIssued(req[r].version)
      PROVE  req[r].version \in 0..version /\ Tokens!Issue(req[r].version)
  <2> DEFINE v == req[r].version
  <2>1. v \in Versions /\ v \in 0..version
    BY <1>1, SessionAssumptions DEF TypeOK, Handler, NotAhead, Versions
  <2>2. Logins' = Append(Logins, v) /\ Len(Logins) = Len(rows)
    BY <1>1, <1>3, <2>1, LoginsFollow DEF Logins
  <2> HIDE DEF v
  <2>3. Valid' \subseteq Valid \cup {k \in {Len(rows) + 1} : v = version}
    <3> SUFFICES ASSUME NEW k \in Valid'
                 PROVE  k \in Valid \/ (k = Len(rows) + 1 /\ v = version)
      OBVIOUS
    <3>1. /\ k \in 1..(Len(rows) + 1) /\ rows'[k].live /\ rows'[k].version = version
          /\ Extends(rows, rows') /\ rows'[Len(rows) + 1].version = v
      BY <1>3 DEF Valid, Usable, RowIssued, v
    <3>2. CASE k \in 1..Len(rows)
      BY <3>1, <3>2 DEF Extends, Valid, Usable
    <3>3. CASE k = Len(rows) + 1
      BY <3>1, <3>3
    <3> QED BY <1>1, <3>1, <3>2, <3>3
  <2> QED BY <1>3, <2>1, <2>2, <2>3 DEF Tokens!Issue, v
<1>4. ASSUME version' = version + 1, rows' = rows PROVE Tokens!EndAll
  <2>1. Valid' = {}
    BY <1>1, <1>4 DEF Valid, Usable, NotAhead
  <2> QED BY <1>4, <2>1 DEF Tokens!EndAll, Logins
<1> QED BY <1>2, <1>3, <1>4 DEF TokenMoves, Tokens!Next

LEMMA EpochInitial == Init => NotAhead /\ Tokens!Init
<1> SUFFICES ASSUME Init PROVE NotAhead /\ Tokens!Init
  OBVIOUS
<1>1. Len(rows) = 0 /\ 1..Len(rows) = {}
  BY EmptySeq DEF Init
<1>2. NotAhead
  BY <1>1 DEF Init, NotAhead, Idle
<1>3. Valid = {} /\ Logins = <<>>
  BY <1>1 DEF Valid, Logins
<1> QED BY <1>2, <1>3 DEF Init, Tokens!Init

\* A bump ends every token of before it, those still to be issued included,
\* and no ended token is ever usable again.
THEOREM EndedTokensStayEnded == Spec => EndedStayEnded
<1>1. EpochInv /\ [Next]_vars => EpochInv' /\ [Tokens!Next]_(Tokens!vars)
  <2> SUFFICES ASSUME EpochInv, [Next]_vars
               PROVE  EpochInv' /\ [Tokens!Next]_(Tokens!vars)
    OBVIOUS
  <2>1. SessionInv' /\ TypeOK'
    BY SessionStep DEF EpochInv, SessionInv
  <2>2. TokenMoves
    BY TokenStep DEF EpochInv
  <2> QED BY <2>1, <2>2, NotAheadStep, SignInsStep DEF EpochInv
<1>2. Init => EpochInv /\ Tokens!Init
  BY SessionInitial, EpochInitial DEF EpochInv
<1> QED BY <1>1, <1>2, PTL DEF Spec, EndedStayEnded, Tokens!Spec
=============================================================================
