------------------------ MODULE RegistryAuth_proofs ------------------------
(* A retry of registry_get carries a token of the challenge: one that the  *)
(* registry accepts or has stopped to accept, and has not been refused for *)
(* any other reason.                                                       *)
EXTENDS RegistryAuth, TLAPS

(* What is known of a task between its challenge and its second request:   *)
(* the refused token is no token of the challenge, and the one it has      *)
(* obtained is or was.                                                     *)
ChallengedTask ==
    \A t \in Tasks : at[t] \notin {"idle", "send"} =>
        /\ challenge[t] \in Challenges
        /\ refused[t] \in 0 .. issued
        /\ refused[t] \notin valid[challenge[t]]
        /\ at[t] \in {"store", "resend"} => token[t] \in valid[challenge[t]] \cup expired

IssuedTokens == \A x \in Challenges : valid[x] \subseteq 1 .. issued

(* Every cached token is one that the registry accepts, or did.            *)
CachedIsValid ==
    \A x \in Challenges : tokens[x] # None => tokens[x] \in valid[x] \cup expired

ExpiredIssued == expired \subseteq 1 .. issued

SentIsIssued == \A t \in Tasks : token[t] \in 0 .. issued

AuthInv == AuthTypeOk /\ ChallengedTask /\ IssuedTokens /\ CachedIsValid /\ SentIsIssued /\ ExpiredIssued

LEMMA AuthInvInit == ASSUME MaxTokens \in Nat PROVE AuthInit => AuthInv
BY DEF AuthInit, AuthInv, AuthTypeOk, ChallengedTask, IssuedTokens, CachedIsValid, SentIsIssued,
   ExpiredIssued, Sending, Token, None

(* Steps that leave the service and the cached tokens alone.               *)
LEMMA InvLocal ==
    ASSUME MaxTokens \in Nat, AuthInv, NEW t \in Tasks,
           Begin(t) \/ Accepted(t) \/ Challenged(t) \/ Failed(t) \/ UseCached(t) \/ AskService(t)
    PROVE  AuthInv'
<1> USE DEF cacheVars, serverVars, Goto
<1>1. UNCHANGED <<tokens, issued, valid, expired>>
  BY DEF Begin, Accepted, Challenged, Failed, UseCached, AskService
<1>2. IssuedTokens' /\ CachedIsValid'
  BY <1>1 DEF AuthInv, IssuedTokens, CachedIsValid
<1>3. CachedToken \in Token \cup {None} /\ CachedToken \in 0 .. issued
  BY DEF AuthInv, AuthTypeOk, Token, None, CachedIsValid, IssuedTokens, ExpiredIssued, CachedToken
<1>4. ASSUME UseCached(t)
      PROVE  challenge[t] \in Challenges /\ tokens[challenge[t]] \in Token
                /\ tokens[challenge[t]] \in 0 .. issued
  BY <1>4 DEF AuthInv, AuthTypeOk, ChallengedTask, UseCached, Token, None, CachedIsValid,
     IssuedTokens, ExpiredIssued
<1>5. AuthTypeOk'
  <2>1. CASE Begin(t)
    BY <2>1, <1>1, <1>3 DEF AuthInv, AuthTypeOk, Begin, Sending
  <2>2. CASE UseCached(t) \/ AskService(t)
    BY <2>2, <1>1, <1>4 DEF AuthInv, AuthTypeOk, UseCached, AskService, Sending, ChallengedTask
  <2>3. CASE Accepted(t) \/ Challenged(t) \/ Failed(t)
    BY <2>3, <1>1 DEF AuthInv, AuthTypeOk, Accepted, Challenged, Failed, End, None, Sending
  <2> QED BY <2>1, <2>2, <2>3
<1>6. SentIsIssued'
  <2>1. issued \in Nat
    BY DEF AuthInv, AuthTypeOk, Token, None
  <2>2. CASE Begin(t)
    BY <2>2, <1>1, <1>3 DEF AuthInv, AuthTypeOk, SentIsIssued, Begin
  <2>3. CASE UseCached(t)
    BY <2>3, <1>1, <1>4 DEF AuthInv, AuthTypeOk, SentIsIssued, UseCached
  <2>4. CASE Accepted(t) \/ Challenged(t) \/ Failed(t) \/ AskService(t)
    BY <2>1, <2>4, <1>1 DEF AuthInv, AuthTypeOk, SentIsIssued, Accepted, Challenged, Failed,
       AskService, End, None
  <2> QED BY <2>2, <2>3, <2>4
<1>7. ChallengedTask'
  BY <1>1 DEF AuthInv, AuthTypeOk, ChallengedTask, SentIsIssued, CachedIsValid, Begin, Accepted,
     Challenged, Failed, UseCached, AskService, End, Sending, None
<1> QED BY <1>1, <1>2, <1>5, <1>6, <1>7 DEF AuthInv, ExpiredIssued

LEMMA InvIssue ==
    ASSUME MaxTokens \in Nat, AuthInv, NEW t \in Tasks, Issue(t) \/ Store(t)
    PROVE  AuthInv'
<1> USE DEF AuthInv, AuthTypeOk, ChallengedTask, IssuedTokens, CachedIsValid, SentIsIssued, ExpiredIssued,
            Sending, Token, None, Goto, cacheVars, serverVars
<1>1. CASE Issue(t)
  BY <1>1 DEF Issue
<1>2. CASE Store(t)
  BY <1>2 DEF Store
<1> QED BY <1>1, <1>2

LEMMA InvExpire == ASSUME MaxTokens \in Nat, AuthInv, Expire PROVE AuthInv'
BY DEF AuthInv, AuthTypeOk, ChallengedTask, IssuedTokens, CachedIsValid, SentIsIssued, ExpiredIssued,
   Expire, Token, None, cacheVars

LEMMA AuthInvNext ==
    ASSUME MaxTokens \in Nat, AuthInv, [AuthNext]_authVars
    PROVE  AuthInv'
<1>1. CASE UNCHANGED authVars
  BY <1>1 DEF authVars, cacheVars, serverVars, AuthInv, AuthTypeOk, ChallengedTask, IssuedTokens,
     CachedIsValid, SentIsIssued, ExpiredIssued
<1> QED BY <1>1, InvLocal, InvIssue, InvExpire DEF AuthNext

(* A refused request is retried with a token other than the refused one,   *)
(* or with one that has expired, whatever tasks share the cache, whichever *)
(* challenges the registry mixes and however many tokens are issued.       *)
THEOREM RetryIsNew ==
    ASSUME MaxTokens \in Nat
    PROVE  AuthSpec => []RetriesWithNewToken
<1>1. AuthInv => RetriesWithNewToken
  BY DEF AuthInv, ChallengedTask, RetriesWithNewToken
<1> QED BY <1>1, AuthInvInit, AuthInvNext, PTL DEF AuthSpec
=============================================================================
