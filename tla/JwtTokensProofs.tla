---------------------------- MODULE JwtTokensProofs ----------------------------
(***************************************************************************)
(* What a token is good for, and how long, for any times to live and any   *)
(* number of tokens.                                                       *)
(***************************************************************************)
EXTENDS JwtTokens, TLAPS

\* What jwt.NewNumericDate cuts off is less than a second.
LEMMA Rounding ==
    ASSUME NEW t \in Nat
    PROVE  /\ NumericDate(t) \in Nat
           /\ NumericDate(t) <= t
           /\ t < NumericDate(t) + Second
<1> DEFINE q == t \div Second
           r == t % Second
<1>1. /\ q \in Nat /\ r \in Nat
      /\ r < Second
      /\ t = Second * q + r
  BY SecondAssumption
<1>2. NumericDate(t) = Second * q /\ Second * q \in Nat
  BY <1>1, SecondAssumption DEF NumericDate
<1> HIDE DEF q, r
<1> QED
  BY <1>1, <1>2, SecondAssumption

\* The claims of a token are those it was made with.
Made(token) ==
    /\ token.kind \in Kinds
    /\ token.at \in Nat /\ token.at <= now
    /\ token.exp = NumericDate(token.at + TTL[token.kind])
    /\ token.typ = IF token.kind = "reconnect" THEN "" ELSE token.kind
    /\ token.type = IF token.kind = "reconnect" THEN token.kind ELSE ""
    /\ token.ids = (token.kind = "reconnect")

\* The inductive invariant.  A request that reads its row has a refresh token.
TokenInv ==
    /\ now \in Nat
    /\ \A token \in issued : Made(token)
    /\ \A token \in row : Made(token) /\ token.kind = "refresh"
    /\ NoCrossUse
    /\ NeverPastTTL

\* The times to live are natural numbers.
LEMMA TTLType == \A kind \in Kinds : TTL[kind] \in Nat
BY TTLAssumption DEF TTL, Kinds

\* The exp claim of a token is at most a second before the end of its time.
LEMMA ExpInTime ==
    ASSUME NEW token, Made(token)
    PROVE  /\ token.exp \in Nat
           /\ token.exp <= token.at + TTL[token.kind]
           /\ token.at + TTL[token.kind] < token.exp + Second
<1>1. token.at \in Nat /\ TTL[token.kind] \in Nat
  BY TTLType DEF Made
<1>2. token.at + TTL[token.kind] \in Nat
  BY <1>1
<1> QED
  BY <1>2, Rounding DEF Made

\* A token that passes a check of its type was made for that door, and is used
\* before the end of its time.
LEMMA CheckedRight ==
    ASSUME NEW token, Made(token), now \in Nat
    PROVE  /\ VerifyToken(token, "access") => token.kind = "access"
           /\ VerifyToken(token, "refresh") => token.kind = "refresh"
           /\ VerifyReconnectToken(token) => token.kind = "reconnect"
           /\ ~Expired(token) => now < token.at + TTL[token.kind]
<1>1. /\ VerifyToken(token, "access") => token.kind = "access"
      /\ VerifyToken(token, "refresh") => token.kind = "refresh"
      /\ VerifyReconnectToken(token) => token.kind = "reconnect"
  BY DEF Made, Kinds, VerifyToken, VerifyReconnectToken
<1>2. ~Expired(token) => now < token.at + TTL[token.kind]
  <2>1. token.at \in Nat /\ TTL[token.kind] \in Nat
    BY TTLType DEF Made
  <2> QED
    BY <2>1, ExpInTime DEF Expired
<1> QED
  BY <1>1, <1>2

\* A door that is opened in time, to a token made for it.
LEMMA OpenedRight ==
    ASSUME NEW token, NEW door, Made(token), NoCrossUse, NeverPastTTL, Open(token, door),
           door = Door[token.kind],
           \/ now < token.at + TTL[token.kind]
           \/ door = "refresh" /\ now = token.at + TTL[token.kind]
    PROVE  NoCrossUse' /\ NeverPastTTL'
<1> DEFINE new == <<token, door, now>>
<1>1. new[1] = token /\ new[2] = door /\ new[3] = now
  OBVIOUS
<1>2. opened' = opened \cup {new}
  BY DEF Open
<1> HIDE DEF new
<1>3. NoCrossUse'
  BY <1>1, <1>2 DEF NoCrossUse, Door
<1>4. NeverPastTTL'
  BY <1>1, <1>2 DEF NeverPastTTL, TTL
<1> QED
  BY <1>3, <1>4

\* Every step keeps the invariant.
LEMMA TokenStep == TokenInv /\ [Next]_vars => TokenInv'
<1> SUFFICES ASSUME TokenInv, [Next]_vars
             PROVE  TokenInv'
  OBVIOUS
<1>1. ASSUME NEW kind \in Kinds, NEW user \in Users, Issue(kind, user)
      PROVE  TokenInv'
  <2> PICK new : new = Claims(kind, user)
    OBVIOUS
  <2>1. Made(new)
    <3>1. now \in Nat /\ now <= now
      BY DEF TokenInv
    <3> QED
      BY <3>1 DEF Claims, Made
  <2>2. \A token : Made(token) => Made(token)'
    BY <1>1 DEF Issue, Made, TTL
  <2>3. NoCrossUse' /\ NeverPastTTL'
    BY <1>1 DEF Issue, TokenInv, NoCrossUse, NeverPastTTL, Door, TTL
  <2> QED
    BY <1>1, <2>1, <2>2, <2>3, issued' = issued \cup {new} DEF Issue, TokenInv
<1>2. ASSUME NEW token \in issued, Authenticate(token)
      PROVE  TokenInv'
  <2>1. Made(token) /\ now \in Nat
    BY DEF TokenInv
  <2>2. token.kind = "access" /\ now < token.at + TTL[token.kind]
    BY <1>2, <2>1, CheckedRight DEF Authenticate, VerifyToken
  <2>3. "middleware" = Door[token.kind]
    BY <2>2 DEF Door
  <2>4. NoCrossUse' /\ NeverPastTTL'
    BY <1>2, <2>1, <2>2, <2>3, OpenedRight DEF TokenInv, Authenticate
  <2>5. \A other : Made(other)' <=> Made(other)
    BY <1>2 DEF Authenticate, Made, TTL
  <2> QED
    BY <1>2, <2>4, <2>5 DEF Authenticate, TokenInv
<1>3. ASSUME NEW token \in issued, VerifyRefresh(token)
      PROVE  TokenInv'
  <2>1. Made(token) /\ token.kind = "refresh"
    BY <1>3, CheckedRight DEF TokenInv, VerifyRefresh
  <2>2. NoCrossUse' /\ NeverPastTTL'
    BY <1>3 DEF VerifyRefresh, TokenInv, NoCrossUse, NeverPastTTL, Door, TTL
  <2>3. \A other : Made(other)' <=> Made(other)
    BY <1>3 DEF VerifyRefresh, Made, TTL
  <2> QED
    BY <1>3, <2>1, <2>2, <2>3 DEF VerifyRefresh, TokenInv
<1>4. ASSUME NEW token \in issued, RefreshAccepted(token)
      PROVE  TokenInv'
  <2>1. Made(token) /\ token.kind = "refresh" /\ now \in Nat
    BY <1>4 DEF TokenInv, RefreshAccepted
  <2>2. TTL[token.kind] = RefreshTTL /\ "refresh" = Door[token.kind]
    BY <2>1 DEF TTL, Door
  <2>3. now < token.at + TTL[token.kind] \/ now = token.at + TTL[token.kind]
    <3>1. token.at \in Nat /\ RefreshTTL \in Nat /\ now <= token.at + RefreshTTL
      BY <1>4, <2>1, TTLAssumption DEF RefreshAccepted, ExpiresAt, Made
    <3> QED
      BY <2>1, <2>2, <3>1
  <2>4. NoCrossUse' /\ NeverPastTTL'
    BY <1>4, <2>1, <2>2, <2>3, OpenedRight DEF TokenInv, RefreshAccepted
  <2>5. \A other : Made(other)' <=> Made(other)
    BY <1>4 DEF RefreshAccepted, Made, TTL
  <2> QED
    BY <1>4, <2>4, <2>5 DEF RefreshAccepted, TokenInv
<1>5. ASSUME NEW token \in issued, RefreshExpired(token)
      PROVE  TokenInv'
  <2>1. NoCrossUse' /\ NeverPastTTL'
    BY <1>5 DEF RefreshExpired, TokenInv, NoCrossUse, NeverPastTTL, Door, TTL
  <2>2. \A other : Made(other)' <=> Made(other)
    BY <1>5 DEF RefreshExpired, Made, TTL
  <2> QED
    BY <1>5, <2>1, <2>2 DEF RefreshExpired, TokenInv
<1>6. ASSUME NEW token \in issued, Resume(token)
      PROVE  TokenInv'
  <2>1. Made(token) /\ now \in Nat
    BY DEF TokenInv
  <2>2. token.kind = "reconnect" /\ now < token.at + TTL[token.kind]
    BY <1>6, <2>1, CheckedRight DEF Resume, VerifyReconnectToken
  <2>3. "resume" = Door[token.kind]
    BY <2>2 DEF Door
  <2>4. NoCrossUse' /\ NeverPastTTL'
    BY <1>6, <2>1, <2>2, <2>3, OpenedRight DEF TokenInv, Resume
  <2>5. \A other : Made(other)' <=> Made(other)
    BY <1>6 DEF Resume, Made, TTL
  <2> QED
    BY <1>6, <2>4, <2>5 DEF Resume, TokenInv
<1>7. ASSUME TimePasses
      PROVE  TokenInv'
  <2>1. now' = now + 1 /\ now \in Nat
    BY <1>7 DEF TimePasses, TokenInv
  <2>2. \A token : Made(token) => Made(token)'
    <3> SUFFICES ASSUME NEW token, Made(token)
                 PROVE  Made(token)'
      OBVIOUS
    <3>1. token.at \in Nat /\ token.at <= now
      BY DEF Made
    <3>2. token.at <= now'
      BY <2>1, <3>1
    <3> QED
      BY <3>2 DEF Made, TTL, NumericDate
  <2>3. NoCrossUse' /\ NeverPastTTL'
    BY <1>7 DEF TimePasses, TokenInv, NoCrossUse, NeverPastTTL, Door, TTL
  <2> QED
    BY <1>7, <2>1, <2>2, <2>3 DEF TimePasses, TokenInv
<1>8. CASE UNCHANGED vars
  <2>1. NoCrossUse' /\ NeverPastTTL'
    BY <1>8 DEF vars, TokenInv, NoCrossUse, NeverPastTTL, Door, TTL
  <2>2. \A other : Made(other)' <=> Made(other)
    BY <1>8 DEF vars, Made, TTL
  <2> QED
    BY <1>8, <2>1, <2>2 DEF vars, TokenInv
<1> QED
  BY <1>1, <1>2, <1>3, <1>4, <1>5, <1>6, <1>7, <1>8 DEF Next

\* The invariant holds in every reachable state.
LEMMA TokensCorrect == Spec => []TokenInv
<1>1. Init => TokenInv
  BY DEF Init, TokenInv, NoCrossUse, NeverPastTTL
<1> QED
  BY <1>1, TokenStep, PTL DEF Spec
-----------------------------------------------------------------------------
\* Whatever tokens one secret signs, a token opens the door it was made for
\* and no other.
THEOREM RightDoor == Spec => []NoCrossUse
<1>1. TokenInv => NoCrossUse
  BY DEF TokenInv
<1> QED
  BY <1>1, TokensCorrect, PTL

\* No door accepts a token its TTL or more after it was made, except a refresh
\* that had verified it before and reads its row in that instant.
THEOREM OverInTime == Spec => []NeverPastTTL
<1>1. TokenInv => NeverPastTTL
  BY DEF TokenInv
<1> QED
  BY <1>1, TokensCorrect, PTL

\* For any time to live, also one below a second, rounding costs a token less
\* than a second of it.
THEOREM RoundingCosts == Spec => []UsableForItsTime
<1>1. TokenInv => UsableForItsTime
  <2> SUFFICES ASSUME TokenInv, NEW token \in issued,
                      now + Second <= token.at + TTL[token.kind]
               PROVE  IF token.kind = "reconnect" THEN VerifyReconnectToken(token)
                                                  ELSE VerifyToken(token, token.kind)
    BY DEF UsableForItsTime
  <2>1. Made(token) /\ now \in Nat
    BY DEF TokenInv
  <2>2. ~Expired(token)
    <3>1. token.at \in Nat /\ TTL[token.kind] \in Nat
      BY <2>1, TTLType DEF Made
    <3> QED
      BY <2>1, <3>1, ExpInTime, SecondAssumption DEF Expired
  <2> QED
    BY <2>1, <2>2 DEF Made, Kinds, VerifyToken, VerifyReconnectToken
<1> QED
  BY <1>1, TokensCorrect, PTL

\* Of the two dates of a refresh token the one in the JWT is never the later.
THEOREM RowOutlivesToken == Spec => []StorageOutlivesToken
<1>1. TokenInv => StorageOutlivesToken
  <2> SUFFICES ASSUME TokenInv, NEW token \in issued,
                      token.kind = "refresh", VerifyToken(token, "refresh")
               PROVE  now <= ExpiresAt(token)
    BY DEF StorageOutlivesToken
  <2>1. Made(token) /\ now \in Nat /\ now < token.at + TTL[token.kind]
    BY CheckedRight DEF TokenInv, VerifyToken
  <2> QED
    <3>1. token.at \in Nat
      BY <2>1 DEF Made
    <3>2. TTL["refresh"] = RefreshTTL
      BY DEF TTL
    <3> QED
      BY <2>1, <3>1, <3>2, TTLAssumption DEF ExpiresAt
<1> QED
  BY <1>1, TokensCorrect, PTL
=============================================================================
