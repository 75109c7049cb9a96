----------------------------- MODULE TokenFamilies -----------------------------
(***************************************************************************)
(* What AuthService (backend/src/auth/auth.service.ts) promises of refresh *)
(* tokens, one step per operation: a sign-in starts a family, a rotation   *)
(* replaces the token it was given, a token that was replaced before       *)
(* closes its whole family, a logout retires one token.                    *)
(* RefreshTokens says how the statements of the service do this.           *)
(***************************************************************************)
CONSTANTS
  Tokens,    \* the tokens that can be issued, in the model a bound
  NoToken

ASSUME NoTokenAssumption == NoToken \notin Tokens

VARIABLES
  family,    \* refresh_tokens.familyId, named by its first token; NoToken: no row
  revoked,   \* tokens whose revokedAt is set
  expired,   \* tokens past their expiresAt
  reported   \* families with an AUTH_REFRESH_REUSE_DETECTED audit entry

familyVars == <<family, revoked, expired, reported>>

Issued == {t \in Tokens : family[t] # NoToken}
Live   == Issued \ revoked

\* Fault: the revocation is by token instead of by family.
FamilyOfSelf(t) == {t}
FamilyOf(t) == {s \in Issued : family[s] = family[t]}

FamilyTypeOK ==
  /\ family \in [Tokens -> Tokens \cup {NoToken}]
  /\ revoked \subseteq Issued
  /\ expired \subseteq Issued
  /\ reported \subseteq Issued
  /\ \A t \in Issued : family[t] \in Issued

FamilyInit ==
  /\ family = [t \in Tokens |-> NoToken]
  /\ revoked = {}
  /\ expired = {}
  /\ reported = {}

\* login and register: a token of a new family.
Issue(new) ==
  /\ new \in Tokens \ Issued
  /\ family' = [family EXCEPT ![new] = new]
  /\ UNCHANGED <<revoked, expired, reported>>

\* refresh with a usable token.
Rotate(t, new) ==
  /\ t \in Live \ expired
  /\ new \in Tokens \ Issued
  /\ family' = [family EXCEPT ![new] = family[t]]
  /\ revoked' = revoked \cup {t}
  /\ UNCHANGED <<expired, reported>>

\* refresh with a token that was retired before.
DetectReuse(t) ==
  /\ t \in revoked
  /\ revoked' = revoked \cup FamilyOf(t)
  /\ reported' = reported \cup {family[t]}
  /\ UNCHANGED <<family, expired>>

\* logout; of a token that is retired already it changes nothing.
Retire(t) ==
  /\ t \in Issued
  /\ revoked' = revoked \cup {t}
  /\ UNCHANGED <<family, expired, reported>>

\* The seven days of a token pass.
Expire(t) ==
  /\ t \in Issued
  /\ expired' = expired \cup {t}
  /\ UNCHANGED <<family, revoked, reported>>

FamilyNext ==
  \E t \in Tokens :
    \/ Issue(t)
    \/ \E new \in Tokens : Rotate(t, new)
    \/ DetectReuse(t)
    \/ Retire(t)
    \/ Expire(t)

FamilySpec == FamilyInit /\ [][FamilyNext]_familyVars

-------------------------------------------------------------------------------
\* Properties

\* A family never has two tokens that can be rotated: "폐기 + 신규 발급만 원자적"
\* (auth.service.ts:142), without which "중복 유효 토큰이 남는다".
OneLiveTokenPerFamily ==
  \A s, t \in Live : family[s] = family[t] => s = t

\* A family closed by reuse detection stays closed (src/API.md:29, "계열 전체 폐기").
ReportedFamilyStaysClosed ==
  \A t \in Issued : family[t] \in reported => t \in revoked
===============================================================================
