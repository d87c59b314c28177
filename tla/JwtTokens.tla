------------------------------ MODULE JwtTokens ------------------------------
(***************************************************************************)
(* Access, refresh and reconnect tokens (internal/lib/jwt/jwt.go) and the  *)
(* three doors they open: AuthMiddleware, AuthService.Refresh and          *)
(* ResumeSession.  One secret signs them all, so what keeps a token from   *)
(* the wrong door is the type it carries, under the claim "typ" in Claims  *)
(* and under "type" in ReconnectClaims.                                    *)
(*                                                                         *)
(* Time is counted in parts of a second, Second of them: the exp claim is  *)
(* a whole number of seconds (jwt.NewNumericDate), tokens.expires_at is    *)
(* not.  A token is the record of its claims, and of when and for what it  *)
(* was made.  Signatures are taken as unforgeable.                         *)
(***************************************************************************)
EXTENDS Naturals, FiniteSets

CONSTANTS
    Users,
    Second,         \* time units in a second
    AccessTTL, RefreshTTL, ReconnectTTL,
    Horizon,        \* bounds the time
    MaxTokens       \* bounds the tokens

ASSUME SecondAssumption == Second \in Nat \ {0}
ASSUME TTLAssumption == AccessTTL \in Nat /\ RefreshTTL \in Nat /\ ReconnectTTL \in Nat

VARIABLES
    now,
    issued,     \* the tokens clients hold
    row,        \* tokens.expires_at of the refresh token a request has locked
    opened      \* history: <<token, door, time>>

vars == <<now, issued, row, opened>>

Kinds == {"access", "refresh", "reconnect"}
TTL == [access |-> AccessTTL, refresh |-> RefreshTTL, reconnect |-> ReconnectTTL]

Init == now = 0 /\ issued = {} /\ row = {} /\ opened = {}
-----------------------------------------------------------------------------
\* A version of NumericDate that rounds up.
NumericDateUp(t) == ((t + Second - 1) \div Second) * Second

\* jwt.NewNumericDate.
NumericDate(t) == (t \div Second) * Second

\* The claims of a new token; "" stands for a claim that is not there.
Claims(kind, user) ==
    [sub |-> user,
     typ |-> IF kind = "reconnect" THEN "" ELSE kind,
     type |-> IF kind = "reconnect" THEN kind ELSE "",
     ids |-> kind = "reconnect",
     exp |-> NumericDate(now + TTL[kind]),
     kind |-> kind, at |-> now]

\* A version of Expired that accepts a token at the instant of its exp.
ExpiredAfter(token) == now > token.exp

\* ParseWithClaims: a token is over from its exp on.
Expired(token) == now >= token.exp

\* A version of VerifyToken that any signed token passes.
VerifyTokenAnyType(token, expected) == ~Expired(token)

\* verifyToken, for VerifyAccessToken and VerifyRefreshToken.
VerifyToken(token, expected) == ~Expired(token) /\ token.typ = expected

\* A version of VerifyReconnectToken that reads the claim of the other tokens.
VerifyReconnectTokenTyp(token) == ~Expired(token) /\ token.typ = "reconnect" /\ token.ids

\* VerifyReconnectToken: the claims must name a session and a peer.
VerifyReconnectToken(token) == ~Expired(token) /\ token.type = "reconnect" /\ token.ids

\* tokens.expires_at, which NewRefreshToken returns with the token.
ExpiresAt(token) == token.at + RefreshTTL
-----------------------------------------------------------------------------
Issue(kind, user) ==
    /\ Cardinality(issued) < MaxTokens
    /\ issued' = issued \cup {Claims(kind, user)}
    /\ UNCHANGED <<now, row, opened>>

Open(token, door) == opened' = opened \cup {<<token, door, now>>}

\* AuthMiddleware lets the request of a WebSocket pass.
Authenticate(token) ==
    /\ VerifyToken(token, "access")
    /\ Open(token, "middleware")
    /\ UNCHANGED <<now, issued, row>>

\* Refresh: the token is verified; its row is read later.
VerifyRefresh(token) ==
    /\ VerifyToken(token, "refresh")
    /\ row' = row \cup {token}
    /\ UNCHANGED <<now, issued, opened>>

\* Refresh: the row is there and not expired in storage.
RefreshAccepted(token) ==
    /\ token \in row
    /\ now <= ExpiresAt(token)
    /\ row' = row \ {token}
    /\ Open(token, "refresh")
    /\ UNCHANGED <<now, issued>>

RefreshExpired(token) ==
    /\ token \in row
    /\ now > ExpiresAt(token)
    /\ row' = row \ {token}
    /\ UNCHANGED <<now, issued, opened>>

Resume(token) ==
    /\ VerifyReconnectToken(token)
    /\ Open(token, "resume")
    /\ UNCHANGED <<now, issued, row>>

TimePasses ==
    /\ now < Horizon
    /\ now' = now + 1
    /\ UNCHANGED <<issued, row, opened>>

Next ==
    \/ \E kind \in Kinds, user \in Users : Issue(kind, user)
    \/ \E token \in issued : \/ Authenticate(token) \/ VerifyRefresh(token)
                             \/ RefreshAccepted(token) \/ RefreshExpired(token)
                             \/ Resume(token)
    \/ TimePasses
    \/ now = Horizon /\ UNCHANGED vars

Spec == Init /\ [][Next]_vars
-----------------------------------------------------------------------------
Door == [access |-> "middleware", refresh |-> "refresh", reconnect |-> "resume"]

\* Although one secret signs all tokens and the two claim types spell the
\* claim differently, a token opens the door it was made for and no other.
NoCrossUse == \A use \in opened : use[2] = Door[use[1].kind]

\* No door accepts a token its TTL or more after it was made, except a
\* refresh that had verified it before and reads its row in that instant.
NeverPastTTL ==
    \A use \in opened :
        LET end == use[1].at + TTL[use[1].kind]
        IN  use[3] < end \/ (use[2] = "refresh" /\ use[3] = end)

\* Rounding costs a token less than a second of its time.
UsableForItsTime ==
    \A token \in issued :
        now + Second <= token.at + TTL[token.kind] =>
            IF token.kind = "reconnect" THEN VerifyReconnectToken(token)
                                        ELSE VerifyToken(token, token.kind)

\* Of the two dates of a refresh token the one in the JWT is never the later:
\* while verifyToken accepts it the row has not expired (auth.go:250 and
\* 287), so a refresh is refused by the row only when time passed in between.
StorageOutlivesToken ==
    \A token \in issued :
        token.kind = "refresh" /\ VerifyToken(token, "refresh") => now <= ExpiresAt(token)
=============================================================================
