-------------------------- MODULE AuthServiceProofs --------------------------
(***************************************************************************)
(* What AuthService guarantees for any number of users, tokens and         *)
(* requests, and what is left of it over a pool of any size.  The          *)
(* inductive invariant is built in layers, each proved from the ones       *)
(* before it.                                                              *)
(***************************************************************************)
EXTENDS PooledAuth, FiniteSetTheorems, TLAPS

\* Each statement finds the locals it reads.
LocalsSet ==
    \A r \in Requests :
        /\ pc[r] \in {"createUser", "registerTokens", "loginTokens"} => subject[r] \in Users
        /\ pc[r] \in InTx => tok[r] \in Tokens
        /\ pc[r] \in {"commit", "respond"} => new[r] \in Tokens

\* A handler that returns leaves the locals of every request well typed.
LEMMA FinishTyped ==
    ASSUME TypeOK, LocalsSet, NEW r \in Requests, Finish(r)
    PROVE  /\ LocalsSet'
           /\ pc'      \in [Requests -> Labels]
           /\ subject' \in [Requests -> Users \cup {Nil}]
           /\ tok'     \in [Requests -> Tokens \cup {Nil}]
           /\ new'     \in [Requests -> Tokens \cup {Nil}]
           /\ marked'  \in [Requests -> SUBSET Tokens]
           /\ todo'    \in [Requests -> SUBSET Tokens]
BY DEF TypeOK, LocalsSet, Finish, Goto, Labels, InTx

\* The refresh tokens stored, and the users registered, are well typed in
\* every reachable state, and so are the locals of the requests.
THEOREM TypeCorrect == Spec => [](TypeOK /\ LocalsSet)
<1>1. Init => TypeOK /\ LocalsSet
  BY DEF Init, TypeOK, LocalsSet, Labels, InTx
<1>2. TypeOK /\ LocalsSet /\ [Next]_vars => TypeOK' /\ LocalsSet'
  <2> SUFFICES ASSUME TypeOK, LocalsSet, [Next]_vars
               PROVE  TypeOK' /\ LocalsSet'
    OBVIOUS
  <2> USE DEF TypeOK, LocalsSet, Labels, InTx, tables, locals, Goto
  <2>1. ASSUME NEW r \in Requests, Arrival(r)
        PROVE  TypeOK' /\ LocalsSet'
    BY <2>1 DEF Arrival, RegisterLookup, Login, RefreshVerify
  <2>2. ASSUME NEW r \in Requests, Statement(r)
        PROVE  TypeOK' /\ LocalsSet'
    <3>1. CASE CreateUser(r)
      BY <3>1 DEF CreateUser
    <3>2. CASE CreateUserConflict(r) \/ StatementFails(r)
      BY <3>2, FinishTyped DEF CreateUserConflict, StatementFails
    <3>3. CASE \E n \in Tokens : CreateNewTokens(r, n)
      <4>1. PICK n \in Tokens : CreateNewTokens(r, n)
        BY <3>3
      <4>2. TypeOK'
        BY <4>1 DEF CreateNewTokens
      <4>3. LocalsSet'
        BY <4>1 DEF CreateNewTokens
      <4> QED
        BY <4>2, <4>3
    <3>4. CASE SelectForUpdate(r)
      BY <3>4 DEF SelectForUpdate, Verdict
    <3>5. CASE ReuseSnapshot(r)
      BY <3>5 DEF ReuseSnapshot
    <3>6. CASE \E t \in Tokens : RotateFamilyRow(r, t)
      BY <3>6 DEF RotateFamilyRow
    <3>7. CASE ReuseRejected(r) \/ TxFails(r)
      BY <3>7 DEF ReuseRejected, TxFails
    <3>8. CASE MarkRotated(r)
      BY <3>8 DEF MarkRotated
    <3>9. CASE \E n \in Tokens : InsertSuccessor(r, n)
      BY <3>9 DEF InsertSuccessor
    <3>10. CASE Commit(r) \/ CommitUnacknowledged(r)
      <4>1. /\ status'  \in [Tokens -> {"absent", "active", "rotated"}]
            /\ owner'   \in [Tokens -> Users \cup {Nil}]
            /\ family'  \in [Tokens -> Tokens \cup {Nil}]
            /\ rowLock' \in [Tokens -> Requests \cup {Nil}]
        BY <3>10 DEF Commit, CommitUnacknowledged, ApplyTx, ReleaseRows
      <4>2. CASE Commit(r)
        BY <4>1, <4>2 DEF Commit
      <4>3. CASE CommitUnacknowledged(r)
        BY <4>1, <4>3, FinishTyped DEF CommitUnacknowledged
      <4> QED
        BY <3>10, <4>2, <4>3
    <3>11. CASE Rollback(r)
      BY <3>11, FinishTyped DEF Rollback, ReleaseRows
    <3>12. CASE Respond(r) \/ ResponseLost(r)
      BY <3>12, FinishTyped DEF Respond, ResponseLost
    <3> QED
      BY <2>2, <3>1, <3>2, <3>3, <3>4, <3>5, <3>6, <3>7, <3>8, <3>9, <3>10, <3>11, <3>12
         DEF Statement
  <2>3. ASSUME NEW t \in Tokens, Expire(t)
        PROVE  TypeOK' /\ LocalsSet'
    BY <2>3 DEF Expire
  <2>4. CASE UNCHANGED vars
    BY <2>4 DEF vars
  <2> QED
    BY <2>1, <2>2, <2>3, <2>4 DEF Next
<1> QED
  BY <1>1, <1>2, PTL DEF Spec
-----------------------------------------------------------------------------
\* A refresh that has decided to rotate owns the row, and the row is still
\* the active one it read.
RowsOwned ==
    \A r \in Requests : pc[r] \in {"mark", "insert", "commit"} =>
        /\ rowLock[tok[r]] = r
        /\ status[tok[r]] = "active"
        /\ pc[r] # "mark" => marked[r] = {tok[r]}

\* The token a request inserts is its own; it is a row once it has committed.
NewReserved ==
    /\ \A r, q \in Requests : new[r] # Nil /\ new[r] = new[q] => r = q
    /\ \A r \in Requests :
           /\ pc[r] = "commit"  => status[new[r]] = "absent"
           /\ pc[r] = "respond" => status[new[r]] # "absent"

TxInv == RowsOwned /\ NewReserved /\ HeldTokensStored

\* The committed rows change only when tokens are created or a refresh
\* commits, and then as TokenFamilies says.
LEMMA FamiliesStep ==
    ASSUME TypeOK, LocalsSet, TxInv, [Next]_vars
    PROVE  [Families!Next]_Families!vars
<1>1. CASE \E r \in Requests, n \in Tokens : CreateNewTokens(r, n)
  <2>1. PICK r \in Requests, n \in Tokens : CreateNewTokens(r, n)
    BY <1>1
  <2>2. subject[r] \in Users /\ Families!Start(n, subject[r])
    BY <2>1 DEF TypeOK, LocalsSet, CreateNewTokens, Fresh, Families!Start
  <2> QED
    BY <2>2 DEF Families!Next
<1>2. CASE \E r \in Requests : Commit(r) \/ CommitUnacknowledged(r)
  <2>1. PICK r \in Requests : pc[r] = "commit" /\ ApplyTx(r)
    BY <1>2 DEF Commit, CommitUnacknowledged
  <2>2. /\ tok[r] \in Tokens /\ new[r] \in Tokens
        /\ marked[r] = {tok[r]}
        /\ status[tok[r]] = "active" /\ status[new[r]] = "absent"
    BY <2>1 DEF TypeOK, LocalsSet, TxInv, RowsOwned, NewReserved, InTx
  <2>3. Families!Rotate(tok[r], new[r])
    BY <2>1, <2>2 DEF TypeOK, ApplyTx, Families!Rotate
  <2> QED
    BY <2>2, <2>3 DEF Families!Next
<1>3. ASSUME NEW r \in Requests,
             \/ Arrival(r)
             \/ CreateUser(r) \/ CreateUserConflict(r) \/ StatementFails(r)
             \/ Respond(r) \/ ResponseLost(r)
      PROVE  UNCHANGED <<status, owner, family>>
  BY <1>3 DEF Arrival, RegisterLookup, Login, RefreshVerify, CreateUser,
              CreateUserConflict, StatementFails, Respond, ResponseLost, tables
<1>4. ASSUME NEW r \in Requests,
             \/ SelectForUpdate(r) \/ ReuseSnapshot(r) \/ ReuseRejected(r)
             \/ \E t \in Tokens : RotateFamilyRow(r, t)
             \/ MarkRotated(r) \/ \E n \in Tokens : InsertSuccessor(r, n)
             \/ TxFails(r) \/ Rollback(r)
      PROVE  UNCHANGED <<status, owner, family>>
  BY <1>4 DEF SelectForUpdate, ReuseSnapshot, ReuseRejected, RotateFamilyRow,
              MarkRotated, InsertSuccessor, TxFails, Rollback, tables
<1>5. ASSUME NEW r \in Requests, Arrival(r) \/ Statement(r)
      PROVE  [Families!Next]_Families!vars
  BY <1>1, <1>2, <1>3, <1>4, <1>5 DEF Statement, Families!vars
<1>6. ASSUME NEW t \in Tokens, Expire(t)
      PROVE  UNCHANGED Families!vars
  BY <1>6 DEF Expire, tables, Families!vars
<1>7. CASE UNCHANGED vars
  BY <1>7 DEF vars, Families!vars
<1> QED
  BY <1>5, <1>6, <1>7 DEF Next

\* The database discipline Refresh relies on: the row lock it takes is held
\* until the rotation is committed, and its successor is nobody else's.
THEOREM TransactionsIsolated == Spec => []TxInv
<1>1. Init => TxInv
  BY DEF Init, TxInv, RowsOwned, NewReserved, HeldTokensStored
<1>2. TypeOK /\ LocalsSet /\ TxInv /\ [Next]_vars => TxInv'
  <2> SUFFICES ASSUME TypeOK, LocalsSet, TxInv, [Next]_vars
               PROVE  TxInv'
    OBVIOUS
  <2> USE NilAssumption DEF TypeOK, LocalsSet, InTx, tables, Goto
  <2>1. \A t \in Tokens : status[t] # "absent" => status'[t] # "absent"
    BY FamiliesStep DEF Families!Next, Families!vars, Families!Start, Families!Rotate
  <2>2. ASSUME NEW r \in Requests, Arrival(r) \/ CreateUser(r)
        PROVE  TxInv'
    BY <2>2 DEF TxInv, RowsOwned, NewReserved, HeldTokensStored,
                Arrival, RegisterLookup, Login, RefreshVerify, CreateUser
  <2>3. ASSUME NEW r \in Requests,
               \/ CreateUserConflict(r) \/ StatementFails(r)
               \/ Rollback(r) \/ ResponseLost(r)
        PROVE  TxInv'
    BY <2>3 DEF TxInv, RowsOwned, NewReserved, HeldTokensStored, CreateUserConflict,
                StatementFails, Rollback, ResponseLost, ReleaseRows, Finish
  <2>4. ASSUME NEW r \in Requests, NEW n \in Tokens, CreateNewTokens(r, n)
        PROVE  TxInv'
    <3>1. RowsOwned'
      BY <2>4 DEF TxInv, RowsOwned, CreateNewTokens, Fresh
    <3>2. NewReserved'
      BY <2>4 DEF TxInv, NewReserved, CreateNewTokens, Fresh
    <3>3. HeldTokensStored'
      BY <2>1, <2>4 DEF TxInv, HeldTokensStored, CreateNewTokens
    <3> QED
      BY <3>1, <3>2, <3>3 DEF TxInv
  <2>5. ASSUME NEW r \in Requests, SelectForUpdate(r)
        PROVE  TxInv'
    <3>1. RowsOwned'
      BY <2>5 DEF TxInv, RowsOwned, SelectForUpdate, Verdict
    <3>2. NewReserved' /\ HeldTokensStored'
      BY <2>5 DEF TxInv, NewReserved, HeldTokensStored, SelectForUpdate, Verdict
    <3> QED
      BY <3>1, <3>2 DEF TxInv
  <2>6. ASSUME NEW r \in Requests, ReuseSnapshot(r) \/ ReuseRejected(r) \/ TxFails(r)
        PROVE  TxInv'
    BY <2>6 DEF TxInv, RowsOwned, NewReserved, HeldTokensStored,
                ReuseSnapshot, ReuseRejected, TxFails
  <2>7. ASSUME NEW r \in Requests, NEW t \in Tokens, RotateFamilyRow(r, t)
        PROVE  TxInv'
    BY <2>7 DEF TxInv, RowsOwned, NewReserved, HeldTokensStored, RotateFamilyRow
  <2>8. ASSUME NEW r \in Requests, MarkRotated(r)
        PROVE  TxInv'
    BY <2>8 DEF TxInv, RowsOwned, NewReserved, HeldTokensStored, MarkRotated
  <2>9. ASSUME NEW r \in Requests, NEW n \in Tokens, InsertSuccessor(r, n)
        PROVE  TxInv'
    BY <2>9 DEF TxInv, RowsOwned, NewReserved, HeldTokensStored, InsertSuccessor, Fresh
  <2>10. ASSUME NEW r \in Requests, pc[r] = "commit", ApplyTx(r)
         PROVE  /\ \A q \in Requests \ {r} : pc[q] \in {"mark", "insert", "commit"} =>
                       rowLock'[tok[q]] = q /\ status'[tok[q]] = "active"
                /\ \A q \in Requests \ {r} : pc[q] = "commit" => status'[new[q]] = "absent"
                /\ status'[new[r]] = "active"
    BY <2>10 DEF TxInv, RowsOwned, NewReserved, ApplyTx, ReleaseRows
  <2>11. ASSUME NEW r \in Requests, Commit(r) \/ CommitUnacknowledged(r)
         PROVE  TxInv'
    <3>1. /\ pc[r] = "commit" /\ ApplyTx(r)
          /\ pc' = [pc EXCEPT ![r] = pc'[r]] /\ pc'[r] \in {"respond", "idle"}
          /\ held' = held
          /\ tok' = [tok EXCEPT ![r] = tok'[r]]
          /\ marked' = [marked EXCEPT ![r] = marked'[r]]
          /\ new' = [new EXCEPT ![r] = new'[r]]
          /\ \/ new'[r] = new[r]
             \/ new'[r] = Nil /\ pc'[r] = "idle"
      BY <2>11 DEF Commit, CommitUnacknowledged, Finish
    <3>2. RowsOwned'
      BY <2>10, <3>1 DEF TxInv, RowsOwned
    <3>3. NewReserved'
      BY <2>1, <2>10, <3>1 DEF TxInv, NewReserved
    <3>4. HeldTokensStored'
      BY <2>1, <3>1 DEF TxInv, HeldTokensStored
    <3> QED
      BY <3>2, <3>3, <3>4 DEF TxInv
  <2>12. ASSUME NEW r \in Requests, Respond(r)
         PROVE  TxInv'
    BY <2>12 DEF TxInv, RowsOwned, NewReserved, HeldTokensStored, Respond, Finish
  <2>13. ASSUME NEW t \in Tokens, Expire(t)
         PROVE  TxInv'
    BY <2>13 DEF TxInv, RowsOwned, NewReserved, HeldTokensStored, Expire, locals
  <2>14. CASE UNCHANGED vars
    BY <2>14 DEF TxInv, RowsOwned, NewReserved, HeldTokensStored, vars
  <2> QED
    BY <2>2, <2>3, <2>4, <2>5, <2>6, <2>7, <2>8, <2>9, <2>11, <2>12, <2>13, <2>14
       DEF Next, Statement
<1> QED
  BY <1>1, <1>2, TypeCorrect, PTL DEF Spec

\* Any number of concurrent requests, failing anywhere, change the stored
\* tokens only as the abstract token store does.
THEOREM Refinement == Spec => ImplementsFamilies
<1>1. Init => Families!Init
  BY DEF Init, Families!Init
<1>2. TypeOK /\ LocalsSet /\ TxInv /\ [Next]_vars => [Families!Next]_Families!vars
  BY FamiliesStep
<1> QED
  BY <1>1, <1>2, TypeCorrect, TransactionsIsolated, PTL
     DEF Spec, ImplementsFamilies, Families!Spec

\* Hence two concurrent refreshes of one token never both succeed.
THEOREM NoDoubleRotation == Spec => []OneActivePerFamily
BY Refinement, Families!AtMostOneActive, PTL DEF ImplementsFamilies, OneActivePerFamily

\* And a refresh token a client holds is a committed row of the table.
THEOREM HeldTokensCommitted == Spec => []HeldTokensStored
BY TransactionsIsolated, PTL DEF TxInv
-----------------------------------------------------------------------------
\* Why no requests wait for each other in a circle.  A request takes the row
\* of its own token first, and only a reuse detection asks for more: the one
\* active row of the family.  When it has got that one it waits no longer.
WaitOrder ==
    /\ \A r \in Requests, t \in Tokens : rowLock[t] = r =>
           /\ pc[r] \in InTx \ {"select"}
           /\ pc[r] = "reuse" => t = tok[r]
           /\ pc[r] = "rotateFamily" => t = tok[r] \/ todo[r] = {}
    /\ \A r \in Requests :
           pc[r] \in {"reuse", "rotateFamily"} => status[tok[r]] = "rotated"
    /\ \A r \in Requests : pc[r] = "rotateFamily" => \A s, t \in todo[r] : s = t

\* A step after which nobody waits for anyone new keeps the waits acyclic.
LEMMA FewerWaits ==
    ASSUME NoWaitCycle,
           \A q, p \in Requests : WaitsFor(q, p)' => WaitsFor(q, p)
    PROVE  NoWaitCycle'
BY DEF NoWaitCycle

\* So does a step after which r waits for nobody, whoever waits for r now.
LEMMA SinkWaits ==
    ASSUME NoWaitCycle, NEW r \in Requests,
           \A p \in Requests \ {r} : ~WaitsFor(r, p)',
           \A q, p \in Requests \ {r} : WaitsFor(q, p)' => WaitsFor(q, p)
    PROVE  NoWaitCycle'
<1> SUFFICES ASSUME NEW S \in (SUBSET Requests) \ {{}}
             PROVE  \E x \in S : \A q \in S \ {x} : ~WaitsFor(x, q)'
  BY DEF NoWaitCycle
<1>1. CASE r \in S
  BY <1>1
<1>2. CASE r \notin S
  BY <1>2 DEF NoWaitCycle
<1> QED
  BY <1>1, <1>2

\* So does a step after which nobody waits for r, whomever r waits for now.
LEMMA SourceWaits ==
    ASSUME NoWaitCycle, NEW r \in Requests,
           \A q \in Requests \ {r} : ~WaitsFor(q, r)',
           \A q, p \in Requests \ {r} : WaitsFor(q, p)' => WaitsFor(q, p)
    PROVE  NoWaitCycle'
<1> SUFFICES ASSUME NEW S \in (SUBSET Requests) \ {{}}
             PROVE  \E x \in S : \A q \in S \ {x} : ~WaitsFor(x, q)'
  BY DEF NoWaitCycle
<1>1. CASE S = {r}
  BY <1>1
<1>2. CASE S # {r}
  <2>1. S \ {r} \in (SUBSET Requests) \ {{}}
    BY <1>2
  <2>2. PICK x \in S \ {r} : \A q \in (S \ {r}) \ {x} : ~WaitsFor(x, q)
    BY <2>1 DEF NoWaitCycle
  <2> QED
    BY <2>2
<1> QED
  BY <1>1, <1>2

\* So does a step after which r waits only for requests that do not wait.
LEMMA ShortWaits ==
    ASSUME NoWaitCycle, NEW r \in Requests,
           \A p \in Requests \ {r} : WaitsFor(r, p)' =>
               \A x \in Requests \ {p} : ~WaitsFor(p, x)',
           \A q, p \in Requests : q # r /\ WaitsFor(q, p)' => WaitsFor(q, p)
    PROVE  NoWaitCycle'
<1> SUFFICES ASSUME NEW S \in (SUBSET Requests) \ {{}}
             PROVE  \E x \in S : \A q \in S \ {x} : ~WaitsFor(x, q)'
  BY DEF NoWaitCycle
<1>1. CASE r \notin S
  BY <1>1 DEF NoWaitCycle
<1>2. CASE r \in S /\ \E p \in S \ {r} : WaitsFor(r, p)'
  BY <1>2
<1>3. CASE r \in S /\ \A p \in S \ {r} : ~WaitsFor(r, p)'
  BY <1>3
<1> QED
  BY <1>1, <1>2, <1>3

\* Refreshes and reuse detections never deadlock on the rows of a family.
THEOREM DeadlockFree == Spec => []NoWaitCycle
<1>1. Init => WaitOrder /\ NoWaitCycle
  BY NilAssumption DEF Init, WaitOrder, NoWaitCycle, WaitsFor
<1>2. /\ TypeOK /\ LocalsSet /\ TxInv /\ OneActivePerFamily /\ WaitOrder /\ NoWaitCycle
      /\ [Next]_vars
      => WaitOrder' /\ NoWaitCycle'
  <2> SUFFICES ASSUME TypeOK, LocalsSet, TxInv, OneActivePerFamily, WaitOrder, NoWaitCycle,
                      [Next]_vars
               PROVE  WaitOrder' /\ NoWaitCycle'
    OBVIOUS
  <2> USE NilAssumption DEF InTx, tables, Goto
  <2>1. ASSUME NEW r \in Requests,
               \/ \E u \in Users : RegisterLookup(r, u) \/ Login(r, u)
               \/ CreateUser(r) \/ \E n \in Tokens : CreateNewTokens(r, n)
        PROVE  WaitOrder' /\ NoWaitCycle'
    <3>1. /\ UNCHANGED <<rowLock, tok, todo>>
          /\ pc[r] \notin InTx /\ pc' = [pc EXCEPT ![r] = pc'[r]] /\ pc'[r] \notin InTx
          /\ \A t \in Tokens : status[t] # "absent" => status'[t] = status[t]
      BY <2>1 DEF RegisterLookup, Login, CreateUser, CreateNewTokens, Fresh, TypeOK
    <3>2. WaitOrder'
      BY <3>1 DEF WaitOrder, TypeOK, LocalsSet
    <3>3. NoWaitCycle'
      BY <3>1, FewerWaits DEF WaitsFor, TypeOK
    <3> QED
      BY <3>2, <3>3
  <2>2. ASSUME NEW r \in Requests, NEW t \in Tokens, RefreshVerify(r, t)
        PROVE  WaitOrder' /\ NoWaitCycle'
    <3>1. WaitOrder'
      BY <2>2 DEF RefreshVerify, WaitOrder, TypeOK
    <3>2. \A s \in Tokens : rowLock'[s] # r
      BY <2>2 DEF RefreshVerify, WaitOrder, TypeOK
    <3>3. \A q \in Requests \ {r} : ~WaitsFor(q, r)'
      BY <2>2, <3>2, <3>1 DEF RefreshVerify, WaitsFor, TypeOK, LocalsSet
    <3>4. \A q, p \in Requests \ {r} : WaitsFor(q, p)' => WaitsFor(q, p)
      BY <2>2 DEF RefreshVerify, WaitsFor, TypeOK
    <3> QED
      BY <3>1, <3>3, <3>4, SourceWaits
  <2>3. ASSUME NEW r \in Requests, SelectForUpdate(r)
        PROVE  WaitOrder' /\ NoWaitCycle'
    <3>1. /\ pc[r] = "select" /\ pc' = [pc EXCEPT ![r] = pc'[r]]
          /\ pc'[r] \in {"reuse", "mark", "rollback"}
          /\ pc'[r] = "reuse" => status[tok[r]] = "rotated"
          /\ UNCHANGED <<status, tok, todo>>
          /\ \/ rowLock' = rowLock
             \/ rowLock' = [rowLock EXCEPT ![tok[r]] = r]
          /\ rowLock[tok[r]] = Nil
      BY <2>3 DEF SelectForUpdate, Verdict, TypeOK
    <3>2. WaitOrder'
      BY <3>1 DEF WaitOrder, TypeOK, LocalsSet
    <3>3. \A p \in Requests \ {r} : ~WaitsFor(r, p)'
      BY <3>1 DEF WaitsFor, TypeOK
    <3>4. \A q, p \in Requests \ {r} : WaitsFor(q, p)' => WaitsFor(q, p)
      BY <3>1 DEF WaitsFor, TypeOK, LocalsSet
    <3> QED
      BY <3>2, <3>3, <3>4, SinkWaits
  <2>4. ASSUME NEW r \in Requests, ReuseSnapshot(r)
        PROVE  WaitOrder' /\ NoWaitCycle'
    <3>1. \A s, t \in todo'[r] : s = t /\ status[t] = "active"
      BY <2>4 DEF ReuseSnapshot, OneActivePerFamily, Families!OneActivePerFamily, TypeOK
    <3>2. WaitOrder'
      BY <2>4, <3>1 DEF ReuseSnapshot, WaitOrder, TypeOK
    <3>3. ASSUME NEW p \in Requests \ {r}, WaitsFor(r, p)',
                 NEW x \in Requests \ {p}
          PROVE  ~WaitsFor(p, x)'
      <4>1. PICK t \in todo'[r] : rowLock[t] = p /\ t \in Tokens
        BY <2>4, <3>3 DEF ReuseSnapshot, WaitsFor, TypeOK
      <4>2. pc[p] # "select" /\ (pc[p] = "rotateFamily" => todo[p] = {})
        BY <3>1, <4>1 DEF WaitOrder
      <4> QED
        BY <2>4, <4>2 DEF ReuseSnapshot, WaitsFor, TypeOK
    <3>4. \A q, p \in Requests : q # r /\ WaitsFor(q, p)' => WaitsFor(q, p)
      BY <2>4 DEF ReuseSnapshot, WaitsFor, TypeOK
    <3> QED
      BY <3>2, <3>3, <3>4, ShortWaits
  <2>5. ASSUME NEW r \in Requests, NEW t \in Tokens, RotateFamilyRow(r, t)
        PROVE  WaitOrder' /\ NoWaitCycle'
    <3>1. todo'[r] = {}
      BY <2>5 DEF RotateFamilyRow, WaitOrder, TypeOK
    <3>2. WaitOrder'
      BY <2>5, <3>1 DEF RotateFamilyRow, WaitOrder, TypeOK
    <3>3. \A p \in Requests \ {r} : ~WaitsFor(r, p)'
      BY <2>5, <3>1 DEF RotateFamilyRow, WaitsFor
    <3>4. \A q, p \in Requests \ {r} : WaitsFor(q, p)' => WaitsFor(q, p)
      BY <2>5 DEF RotateFamilyRow, WaitsFor, TypeOK, LocalsSet
    <3> QED
      BY <3>2, <3>3, <3>4, SinkWaits
  <2>6. ASSUME NEW r \in Requests,
               \/ ReuseRejected(r) \/ MarkRotated(r) \/ TxFails(r)
               \/ \E n \in Tokens : InsertSuccessor(r, n)
        PROVE  WaitOrder' /\ NoWaitCycle'
    <3>1. /\ UNCHANGED <<rowLock, status, tok, todo>>
          /\ pc' = [pc EXCEPT ![r] = pc'[r]]
          /\ pc[r] \in InTx
          /\ pc[r] = "select" => pc'[r] = "rollback"
          /\ pc'[r] \in {"rejectReuse", "insert", "rollback", "commit"}
      BY <2>6 DEF ReuseRejected, MarkRotated, TxFails, InsertSuccessor, TypeOK
    <3>2. WaitOrder'
      BY <3>1 DEF WaitOrder, TypeOK
    <3>3. NoWaitCycle'
      BY <3>1, FewerWaits DEF WaitsFor, TypeOK
    <3> QED
      BY <3>2, <3>3
  <2>7. ASSUME NEW r \in Requests,
               \/ Commit(r) \/ CommitUnacknowledged(r) \/ Rollback(r)
               \/ CreateUserConflict(r) \/ StatementFails(r)
               \/ Respond(r) \/ ResponseLost(r)
        PROVE  WaitOrder' /\ NoWaitCycle'
    <3>1. /\ pc' = [pc EXCEPT ![r] = pc'[r]] /\ pc'[r] \in {"respond", "idle"}
          /\ tok' = [tok EXCEPT ![r] = tok'[r]]
          /\ todo' = [todo EXCEPT ![r] = todo'[r]]
          /\ \A t \in Tokens : rowLock'[t] \in {rowLock[t], Nil} /\ rowLock'[t] # r
      <4>1. CASE Commit(r) \/ CommitUnacknowledged(r) \/ Rollback(r)
        BY <4>1 DEF Commit, CommitUnacknowledged, Rollback, ApplyTx, ReleaseRows, Finish, TypeOK
      <4>2. CASE \/ CreateUserConflict(r) \/ StatementFails(r)
                 \/ Respond(r) \/ ResponseLost(r)
        BY <4>2 DEF CreateUserConflict, StatementFails, Respond, ResponseLost, Finish,
                    TypeOK, WaitOrder
      <4> QED
        BY <2>7, <4>1, <4>2
    <3>2. \A t \in Tokens : status[t] = "rotated" => status'[t] = "rotated"
      BY FamiliesStep DEF Families!Next, Families!vars, Families!Start, Families!Rotate, TypeOK
    <3>3. WaitOrder'
      BY <3>1, <3>2 DEF WaitOrder, TypeOK, LocalsSet
    <3>4. NoWaitCycle'
      BY <3>1, FewerWaits DEF WaitsFor, TypeOK, LocalsSet
    <3> QED
      BY <3>3, <3>4
  <2>8. ASSUME \/ UNCHANGED vars
               \/ \E t \in Tokens : Expire(t)
        PROVE  WaitOrder' /\ NoWaitCycle'
    <3>1. UNCHANGED <<rowLock, status, pc, tok, todo>>
      BY <2>8 DEF vars, Expire, locals
    <3> QED
      BY <3>1, FewerWaits DEF WaitOrder, WaitsFor
  <2>9. ASSUME NEW r \in Requests, Arrival(r) \/ Statement(r)
        PROVE  WaitOrder' /\ NoWaitCycle'
    BY <2>1, <2>2, <2>3, <2>4, <2>5, <2>6, <2>7, <2>9 DEF Arrival, Statement
  <2> QED
    BY <2>8, <2>9 DEF Next
<1> QED
  BY <1>1, <1>2, TypeCorrect, TransactionsIsolated, NoDoubleRotation, PTL DEF Spec
-----------------------------------------------------------------------------
\* Of the requests that register one email, one at most creates the user and
\* goes on to create tokens for it.
THEOREM RegistrationUnique == Spec => []OneRegistrationWins
<1> DEFINE Inv == /\ OneRegistrationWins
                  /\ \A r \in Requests : pc[r] = "registerTokens" => subject[r] \in users
<1>1. Init => Inv
  BY DEF Init, OneRegistrationWins
<1>2. TypeOK /\ Inv /\ [Next]_vars => Inv'
  <2> SUFFICES ASSUME TypeOK, Inv, [Next]_vars
               PROVE  Inv'
    OBVIOUS
  <2> USE DEF OneRegistrationWins, Goto, tables, TypeOK
  <2>1. ASSUME NEW r \in Requests, CreateUser(r)
        PROVE  Inv'
    BY <2>1 DEF CreateUser
  <2>2. ASSUME NEW r \in Requests,
               \/ Arrival(r) \/ CreateUserConflict(r) \/ StatementFails(r)
               \/ \E n \in Tokens : CreateNewTokens(r, n)
               \/ Rollback(r) \/ Respond(r) \/ ResponseLost(r)
               \/ Commit(r) \/ CommitUnacknowledged(r)
        PROVE  Inv'
    <3>1. /\ users' = users
          /\ pc' = [pc EXCEPT ![r] = pc'[r]] /\ pc'[r] # "registerTokens"
          /\ subject' = [subject EXCEPT ![r] = subject'[r]]
      <4>1. CASE Arrival(r) \/ \E n \in Tokens : CreateNewTokens(r, n)
        BY <4>1 DEF Arrival, RegisterLookup, Login, RefreshVerify, CreateNewTokens
      <4>2. CASE CreateUserConflict(r) \/ StatementFails(r) \/ Rollback(r)
        BY <4>2 DEF CreateUserConflict, StatementFails, Rollback, Finish
      <4>3. CASE Respond(r) \/ ResponseLost(r) \/ Commit(r) \/ CommitUnacknowledged(r)
        BY <4>3 DEF Respond, ResponseLost, Commit, CommitUnacknowledged, ApplyTx, Finish
      <4> QED
        BY <2>2, <4>1, <4>2, <4>3
    <3> QED
      BY <3>1
  <2>3. ASSUME NEW r \in Requests,
               \/ SelectForUpdate(r) \/ ReuseSnapshot(r) \/ ReuseRejected(r)
               \/ \E t \in Tokens : RotateFamilyRow(r, t)
               \/ MarkRotated(r) \/ TxFails(r) \/ \E n \in Tokens : InsertSuccessor(r, n)
        PROVE  Inv'
    <3>1. /\ UNCHANGED <<users, subject>>
          /\ pc' = [pc EXCEPT ![r] = pc'[r]] /\ pc'[r] # "registerTokens"
      <4>1. CASE SelectForUpdate(r) \/ ReuseSnapshot(r) \/ ReuseRejected(r)
        BY <4>1 DEF SelectForUpdate, Verdict, ReuseSnapshot, ReuseRejected
      <4>2. CASE \/ \E t \in Tokens : RotateFamilyRow(r, t)
                 \/ MarkRotated(r) \/ TxFails(r) \/ \E n \in Tokens : InsertSuccessor(r, n)
        BY <4>2 DEF RotateFamilyRow, MarkRotated, InsertSuccessor, TxFails
      <4> QED
        BY <2>3, <4>1, <4>2
    <3> QED
      BY <3>1
  <2>4. CASE UNCHANGED vars \/ \E t \in Tokens : Expire(t)
    BY <2>4 DEF vars, Expire, locals
  <2>5. ASSUME NEW r \in Requests, Arrival(r) \/ Statement(r)
        PROVE  Inv'
    BY <2>1, <2>2, <2>3, <2>5 DEF Statement
  <2> QED
    BY <2>4, <2>5 DEF Next
<1> QED
  BY <1>1, <1>2, TypeCorrect, PTL DEF Spec
-----------------------------------------------------------------------------
(***************************************************************************)
(* AuthService over a pool of connections: everything it guarantees        *)
(* without the pool it guarantees with it, no connection is lost, and an   *)
(* empty pool does not block itself.                                       *)
(***************************************************************************)

\* A step over the pool is a step of AuthService or, in Begin, none.
LEMMA PooledStep == ASSUME [PooledNext]_pooledVars PROVE [Next]_vars
<1>1. ASSUME NEW r \in Requests, PooledLookup(r) \/ PooledVerify(r)
      PROVE  Next
  BY <1>1 DEF PooledLookup, PooledVerify, Arrival, Next
<1>2. ASSUME NEW r \in Requests, BeginFails(r) \/ PooledStatement(r)
      PROVE  Next
  BY <1>2 DEF BeginFails, PooledStatement, Statement, Next
<1>3. ASSUME NEW r \in Requests, Begin(r)
      PROVE  UNCHANGED vars
  BY <1>3 DEF Begin
<1>4. ASSUME NEW t \in Tokens, Expire(t)
      PROVE  Next
  BY <1>4 DEF Next
<1>5. CASE UNCHANGED pooledVars
  BY <1>5 DEF pooledVars
<1> QED
  BY <1>1, <1>2, <1>3, <1>4, <1>5 DEF PooledNext

\* The pool adds no behaviour: what the requests do to the tables with it, they
\* can do without it, so every theorem about Spec holds of PooledSpec.
THEOREM PoolIsTransparent == PooledSpec => Spec
<1>1. PooledInit => Init
  BY DEF PooledInit
<1>2. [PooledNext]_pooledVars => [Next]_vars
  BY PooledStep
<1> QED
  BY <1>1, <1>2, PTL DEF PooledSpec, Spec

\* With the pool, too, concurrent refreshes change the stored tokens only as the
\* abstract token store does.
THEOREM PooledRefinement == PooledSpec => ImplementsFamilies
BY PoolIsTransparent, Refinement, PTL
-----------------------------------------------------------------------------
\* The connections in use belong to requests, and there are not too many.
PoolInv ==
    /\ conns \subseteq Requests /\ IsFiniteSet(conns)
    /\ ConnectionsReturned

\* A request that has no connection has locked no row.
LEMMA PoolStep ==
    ASSUME TypeOK, LocalsSet, PoolInv, [PooledNext]_pooledVars
    PROVE  PoolInv'
<1> USE NilAssumption DEF PoolInv, ConnectionsReturned
<1>1. ASSUME NEW r \in Requests, PooledLookup(r) \/ PooledVerify(r) \/ BeginFails(r)
      PROVE  PoolInv'
  <2>1. /\ UNCHANGED <<conns, rowLock>>
        /\ pc' = [pc EXCEPT ![r] = pc'[r]]
        /\ r \notin conns \/ pc'[r] \in InTx
    BY <1>1 DEF PooledLookup, PooledVerify, BeginFails, RegisterLookup, Login, RefreshVerify,
                TxFails, Goto, InTx, TypeOK
  <2> QED
    BY <2>1 DEF TypeOK
<1>2. ASSUME NEW r \in Requests, Begin(r)
      PROVE  PoolInv'
  <2>1. /\ conns' = conns \cup {r} /\ UNCHANGED <<pc, rowLock>> /\ r \notin conns
        /\ pc[r] \in InTx /\ Cardinality(conns) < MaxConns
    BY <1>2 DEF Begin, Free, vars, InTx
  <2>2. IsFiniteSet(conns') /\ Cardinality(conns') = Cardinality(conns) + 1
    BY <2>1, FS_AddElement
  <2>3. Cardinality(conns) \in Nat
    BY FS_CardinalityType
  <2>4. Cardinality(conns') <= MaxConns
    BY <2>1, <2>2, <2>3, MaxConnsAssumption
  <2> QED
    BY <2>1, <2>2, <2>4
<1>3. ASSUME NEW r \in Requests, PooledStatement(r)
      PROVE  PoolInv'
  <2>1. /\ conns' \subseteq conns
        /\ conns' = IF pc'[r] \in InTx THEN conns ELSE conns \ {r}
    BY <1>3 DEF PooledStatement
  <2>2. IsFiniteSet(conns') /\ Cardinality(conns') <= Cardinality(conns)
    BY <2>1, FS_Subset
  <2>3. Cardinality(conns') <= MaxConns
    BY <2>2, FS_CardinalityType, MaxConnsAssumption
  <2>4. \A q \in Requests \ {r} : pc'[q] = pc[q]
    <3>1. pc' = [pc EXCEPT ![r] = pc'[r]] \/ UNCHANGED pc
      BY <1>3 DEF PooledStatement, Statement, CreateUser, CreateUserConflict, CreateNewTokens,
                  StatementFails, SelectForUpdate, ReuseSnapshot, RotateFamilyRow, ReuseRejected,
                  MarkRotated, InsertSuccessor, Commit, CommitUnacknowledged, TxFails, Rollback,
                  Respond, ResponseLost, Finish, Goto, TypeOK
    <3> QED
      BY <3>1 DEF TypeOK
  <2>5. \A q \in conns' : pc'[q] \in InTx
    BY <2>1, <2>4
  <2>6. ASSUME NEW t \in Tokens, rowLock'[t] # Nil
        PROVE  rowLock'[t] \in conns'
    <3>1. CASE SelectForUpdate(r) \/ \E s \in Tokens : RotateFamilyRow(r, s)
      <4>1. r \in conns /\ pc'[r] \in InTx
        BY <1>3, <3>1
           DEF PooledStatement, Connected, SelectForUpdate, RotateFamilyRow, Verdict, Goto, InTx, TypeOK
      <4>2. rowLock'[t] \in {rowLock[t], r}
        BY <3>1 DEF SelectForUpdate, RotateFamilyRow, TypeOK
      <4> QED
        BY <2>1, <2>6, <4>1, <4>2
    <3>2. CASE Commit(r) \/ CommitUnacknowledged(r) \/ Rollback(r)
      <4>1. rowLock'[t] = rowLock[t] /\ rowLock[t] # r
        BY <2>6, <3>2 DEF Commit, CommitUnacknowledged, Rollback, ApplyTx, ReleaseRows
      <4> QED
        BY <2>1, <2>6, <4>1
    <3>3. CASE \/ CreateUser(r) \/ CreateUserConflict(r) \/ StatementFails(r)
               \/ \E n \in Tokens : CreateNewTokens(r, n)
               \/ Respond(r) \/ ResponseLost(r)
      <4>1. UNCHANGED rowLock /\ pc[r] \notin InTx
        BY <3>3 DEF CreateUser, CreateUserConflict, StatementFails, CreateNewTokens, Respond,
                    ResponseLost, InTx
      <4> QED
        BY <2>1, <2>6, <4>1
    <3>4. CASE \/ ReuseSnapshot(r) \/ ReuseRejected(r) \/ MarkRotated(r) \/ TxFails(r)
               \/ \E n \in Tokens : InsertSuccessor(r, n)
      <4>1. UNCHANGED rowLock /\ pc'[r] \in InTx
        BY <3>4 DEF ReuseSnapshot, ReuseRejected, MarkRotated, TxFails, InsertSuccessor, Goto, InTx,
                    TypeOK
      <4> QED
        BY <2>1, <2>6, <4>1
    <3> QED
      BY <1>3, <3>1, <3>2, <3>3, <3>4 DEF PooledStatement, Statement
  <2> QED
    BY <2>1, <2>2, <2>3, <2>5, <2>6
<1>4. ASSUME UNCHANGED conns, UNCHANGED pc, UNCHANGED rowLock
      PROVE  PoolInv'
  BY <1>4
<1>5. ASSUME NEW t \in Tokens, Expire(t) /\ UNCHANGED conns
      PROVE  PoolInv'
  BY <1>4, <1>5 DEF Expire, locals
<1>6. CASE UNCHANGED pooledVars
  BY <1>4, <1>6 DEF pooledVars, vars
<1> QED
  BY <1>1, <1>2, <1>3, <1>5, <1>6 DEF PooledNext

\* What the pool rests on holds in every reachable state.
LEMMA PoolCorrect == PooledSpec => []PoolInv
<1>1. PooledInit => PoolInv
  BY FS_EmptySet, MaxConnsAssumption DEF PooledInit, Init, PoolInv, ConnectionsReturned
<1>2. TypeOK /\ LocalsSet /\ PoolInv /\ [PooledNext]_pooledVars => PoolInv'
  BY PoolStep
<1> QED
  BY <1>1, <1>2, PoolIsTransparent, TypeCorrect, PTL DEF PooledSpec

\* Every way out of a transaction gives its connection back, and a transaction
\* that has locked a row has one.
THEOREM ConnectionsComeBack == PooledSpec => []ConnectionsReturned
<1>1. PoolInv => ConnectionsReturned
  BY DEF PoolInv
<1> QED
  BY <1>1, PoolCorrect, PTL

\* A pool of any size that is empty holds a request that can go on: since the
\* waits for rows are acyclic, and only requests with a connection lock rows,
\* some request that has one waits for nobody.
THEOREM EmptyPoolMoves == PooledSpec => []EmptyPoolDrains
<1>1. TypeOK /\ LocalsSet /\ PoolInv /\ NoWaitCycle => EmptyPoolDrains
  <2> SUFFICES ASSUME TypeOK, LocalsSet, PoolInv, NoWaitCycle, ~Free
               PROVE  \E r \in conns : /\ pc[r] \notin OnPool
                                       /\ \A q \in Requests \ {r} : ~WaitsFor(r, q)
    BY DEF EmptyPoolDrains
  <2>1. conns # {}
    BY FS_EmptySet, MaxConnsAssumption DEF Free
  <2>2. PICK r \in conns : \A q \in conns \ {r} : ~WaitsFor(r, q)
    BY <2>1 DEF NoWaitCycle, PoolInv
  <2>3. pc[r] \in InTx
    BY <2>2 DEF PoolInv, ConnectionsReturned
  <2>4. ASSUME NEW q \in Requests \ {r}, WaitsFor(r, q)
        PROVE  q \in conns
    <3>1. PICK t \in Tokens : rowLock[t] = q
      BY <2>2, <2>3, <2>4 DEF WaitsFor, TypeOK, LocalsSet, PoolInv
    <3> QED
      BY <3>1, NilAssumption DEF PoolInv, ConnectionsReturned
  <2> QED
    BY <2>2, <2>3, <2>4 DEF InTx, OnPool
<1> QED
  BY <1>1, PoolCorrect, PoolIsTransparent, TypeCorrect, DeadlockFree, PTL
=============================================================================
