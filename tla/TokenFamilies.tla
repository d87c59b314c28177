---------------------------- MODULE TokenFamilies ----------------------------
(***************************************************************************)
(* What the refresh-token store promises, with no requests, transactions   *)
(* or locks in it.  A login or a registration starts a family with one     *)
(* active token; a refresh trades the active token of a family for a new   *)
(* active one, in one step.  A token never becomes active again.           *)
(*                                                                         *)
(* A family is named by its first token: the code draws a new family UUID  *)
(* together with the first token of the family and never reuses either.    *)
(***************************************************************************)
EXTENDS TLAPS

CONSTANTS
    Users,      \* users.id
    Tokens,     \* tokens.id; a refresh token string and its row are one value
    Nil         \* no user, no token

VARIABLES
    status,     \* tokens.status; "absent" when there is no such row
    owner,      \* tokens.user_id
    family      \* tokens.family_id

vars == <<status, owner, family>>

Init ==
    /\ status = [t \in Tokens |-> "absent"]
    /\ owner  = [t \in Tokens |-> Nil]
    /\ family = [t \in Tokens |-> Nil]

\* A new family with its first active token.
Start(t, u) ==
    /\ status[t] = "absent"
    /\ status' = [status EXCEPT ![t] = "active"]
    /\ owner'  = [owner EXCEPT ![t] = u]
    /\ family' = [family EXCEPT ![t] = t]

\* The active token t is spent and n takes its place in the family.
Rotate(t, n) ==
    /\ status[t] = "active"
    /\ status[n] = "absent"
    /\ status' = [status EXCEPT ![t] = "rotated", ![n] = "active"]
    /\ owner'  = [owner EXCEPT ![n] = owner[t]]
    /\ family' = [family EXCEPT ![n] = family[t]]

Next ==
    \/ \E t \in Tokens, u \in Users : Start(t, u)
    \/ \E t, n \in Tokens : Rotate(t, n)

Spec == Init /\ [][Next]_vars
-----------------------------------------------------------------------------
TypeOK ==
    /\ status \in [Tokens -> {"absent", "active", "rotated"}]
    /\ owner  \in [Tokens -> Users \cup {Nil}]
    /\ family \in [Tokens -> Tokens \cup {Nil}]

\* Rows have a family whose first token is itself a stored row.
FamiliesRooted ==
    \A t \in Tokens : status[t] # "absent" =>
        family[t] \in Tokens /\ status[family[t]] # "absent"

\* No family ever has two live tokens: a stolen copy and the original cannot
\* both be refreshed (services/auth.go Refresh).
OneActivePerFamily ==
    \A s, t \in Tokens :
        status[s] = "active" /\ status[t] = "active" /\ family[s] = family[t] => s = t
-----------------------------------------------------------------------------
\* The promise keeps itself: starting and rotating families is enough to
\* have at most one active token in each (rooted families are needed to see
\* that a new family is a new one).
THEOREM AtMostOneActive == Spec => [](FamiliesRooted /\ OneActivePerFamily)
<1>1. Init => FamiliesRooted /\ OneActivePerFamily
  BY DEF Init, FamiliesRooted, OneActivePerFamily
<1> DEFINE Inv == TypeOK /\ FamiliesRooted /\ OneActivePerFamily
<1>2. Init => TypeOK
  BY DEF Init, TypeOK
<1>3. Inv /\ [Next]_vars => Inv'
  <2> SUFFICES ASSUME Inv, [Next]_vars
               PROVE  Inv'
    OBVIOUS
  <2> USE DEF TypeOK
  <2>1. ASSUME NEW t \in Tokens, NEW u \in Users, Start(t, u)
        PROVE  Inv'
    <3>1. TypeOK'
      BY <2>1 DEF Start
    <3>2. FamiliesRooted'
      BY <2>1 DEF Start, FamiliesRooted
    <3>3. OneActivePerFamily'
      BY <2>1 DEF Start, FamiliesRooted, OneActivePerFamily
    <3> QED
      BY <3>1, <3>2, <3>3
  <2>2. ASSUME NEW t \in Tokens, NEW n \in Tokens, Rotate(t, n)
        PROVE  Inv'
    <3>1. TypeOK'
      BY <2>2 DEF Rotate, FamiliesRooted
    <3>2. FamiliesRooted'
      BY <2>2 DEF Rotate, FamiliesRooted
    <3>3. OneActivePerFamily'
      BY <2>2 DEF Rotate, OneActivePerFamily
    <3> QED
      BY <3>1, <3>2, <3>3
  <2>3. CASE UNCHANGED vars
    BY <2>3 DEF vars, FamiliesRooted, OneActivePerFamily
  <2> QED
    BY <2>1, <2>2, <2>3 DEF Next
<1> QED
  BY <1>1, <1>2, <1>3, PTL DEF Spec
=============================================================================
