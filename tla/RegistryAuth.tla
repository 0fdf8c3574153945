---------------------------- MODULE RegistryAuth ----------------------------
(***************************************************************************)
(* Reads of a registry that wants bearer tokens (src/remote/oci.rs).  All  *)
(* tasks of one instance share one token cache; a refused request is       *)
(* challenged, gets a token from the cache or from the token service, and  *)
(* is sent once more.  The registry and the service are external: tokens   *)
(* are numbered in the order they are issued, and may expire at any time.  *)
(* Daemon composes this module with the tasks that read.                   *)
(***************************************************************************)
EXTENDS Naturals

CONSTANTS
    Tasks,          \* tasks that call read_range on one remote
    Challenges,     \* realm, service and scope the registry may name
    NoChallenge,    \* none of them
    MaxTokens       \* bound on the tokens the service issues

None == 0
Token == 1 .. MaxTokens

VARIABLES
    tokens,     \* RegistryAuthInner::tokens
    last,       \* RegistryAuthInner::last_challenge
    at,         \* where each task is in registry_get
    token,      \* the token it sends, or None
    challenge,  \* the challenge it was given
    refused,    \* the token its first request was refused with, or None
    issued,     \* number of tokens the service has issued
    valid,      \* challenge -> its tokens that the registry still accepts
    expired     \* history: tokens the registry has stopped to accept

cacheVars == <<tokens, last>>
serverVars == <<issued, valid, expired>>
authVars == <<cacheVars, at, token, challenge, refused, serverVars>>

Sending == {"send", "resend"}

AuthTypeOk ==
    /\ tokens \in [Challenges -> Token \cup {None}]
    /\ last \in Challenges \cup {NoChallenge}
    /\ at \in [Tasks -> {"idle", "lookup", "request", "store"} \cup Sending]
    /\ token \in [Tasks -> Token \cup {None}]
    /\ challenge \in [Tasks -> Challenges \cup {NoChallenge}]
    /\ refused \in [Tasks -> Token \cup {None}]
    /\ issued \in {None} \cup Token
    /\ valid \in [Challenges -> SUBSET Token]
    /\ expired \in SUBSET Token

AuthInit ==
    /\ tokens = [x \in Challenges |-> None]
    /\ last = NoChallenge
    /\ at = [t \in Tasks |-> "idle"]
    /\ token = [t \in Tasks |-> None]
    /\ challenge = [t \in Tasks |-> NoChallenge]
    /\ refused = [t \in Tasks |-> None]
    /\ issued = 0
    /\ valid = [x \in Challenges |-> {}]
    /\ expired = {}

Goto(t, from, to) ==
    /\ at[t] = from
    /\ at' = [at EXCEPT ![t] = to]

(* read_range returns its bytes or an error.                               *)
End(t) ==
    /\ at' = [at EXCEPT ![t] = "idle"]
    /\ token' = [token EXCEPT ![t] = None]
    /\ challenge' = [challenge EXCEPT ![t] = NoChallenge]
    /\ refused' = [refused EXCEPT ![t] = None]

(* cached_token: the token of the last challenge anybody was given.        *)
CachedToken == IF last = NoChallenge THEN None ELSE tokens[last]

Begin(t) ==
    /\ Goto(t, "idle", "send")
    /\ token' = [token EXCEPT ![t] = CachedToken]
    /\ UNCHANGED <<cacheVars, challenge, refused, serverVars>>

(* The registry has the resource under one challenge x and accepts a token *)
(* of x that has not expired.                                              *)
Accepted(t) ==
    /\ at[t] \in Sending
    /\ \E x \in Challenges : token[t] \in valid[x]
    /\ End(t)
    /\ UNCHANGED <<cacheVars, serverVars>>

Challenged(t) ==
    /\ Goto(t, "send", "lookup")
    /\ \E x \in Challenges :
       /\ token[t] \notin valid[x]
       /\ challenge' = [challenge EXCEPT ![t] = x]
    /\ refused' = [refused EXCEPT ![t] = token[t]]
    /\ UNCHANGED <<cacheVars, token, serverVars>>

(* A refused second request, a refusal without a bearer challenge, another *)
(* status, or an error on the way ends the read.                           *)
Failed(t) ==
    /\ at[t] \in Sending \cup {"request"}
    /\ End(t)
    /\ UNCHANGED <<cacheVars, serverVars>>

(* Faulty variant: the cache is not asked whether it holds a token.        *)
UseUncached(t) ==
    /\ Goto(t, "lookup", "resend")
    /\ last' = challenge[t]
    /\ token' = [token EXCEPT ![t] = tokens[challenge[t]]]
    /\ UNCHANGED <<tokens, challenge, refused, serverVars>>

(* token_for_challenge: a cached token of the challenge, or a new one.     *)
UseCached(t) ==
    /\ Goto(t, "lookup", "resend")
    /\ tokens[challenge[t]] # None
    /\ last' = challenge[t]
    /\ token' = [token EXCEPT ![t] = tokens[challenge[t]]]
    /\ UNCHANGED <<tokens, challenge, refused, serverVars>>

AskService(t) ==
    /\ Goto(t, "lookup", "request")
    /\ tokens[challenge[t]] = None
    /\ last' = challenge[t]
    /\ UNCHANGED <<tokens, token, challenge, refused, serverVars>>

Issue(t) ==
    /\ issued < MaxTokens
    /\ Goto(t, "request", "store")
    /\ issued' = issued + 1
    /\ valid' = [valid EXCEPT ![challenge[t]] = @ \cup {issued'}]
    /\ token' = [token EXCEPT ![t] = issued']
    /\ UNCHANGED <<cacheVars, challenge, refused, expired>>

Store(t) ==
    /\ Goto(t, "store", "resend")
    /\ tokens' = [tokens EXCEPT ![challenge[t]] = token[t]]
    /\ last' = challenge[t]
    /\ UNCHANGED <<token, challenge, refused, serverVars>>

Expire ==
    /\ \E x \in Challenges : \E n \in valid[x] :
       /\ valid' = [valid EXCEPT ![x] = @ \ {n}]
       /\ expired' = expired \cup {n}
    /\ UNCHANGED <<cacheVars, at, token, challenge, refused, issued>>

AuthNext ==
    \/ \E t \in Tasks :
          \/ Begin(t) \/ Accepted(t) \/ Challenged(t) \/ Failed(t)
          \/ UseCached(t) \/ AskService(t) \/ Issue(t) \/ Store(t)
    \/ Expire

AuthSpec == AuthInit /\ [][AuthNext]_authVars
-----------------------------------------------------------------------------
(* A refused request is retried with a token other than the refused one,   *)
(* unless the token it now sends has expired: the cache keeps an expired   *)
(* token for ever, and that is the only way to a hopeless retry, whatever  *)
(* tasks share the cache and whichever challenges the registry mixes.      *)
RetriesWithNewToken ==
    \A t \in Tasks : at[t] = "resend" =>
        token[t] # refused[t] \/ token[t] \in expired
=============================================================================
