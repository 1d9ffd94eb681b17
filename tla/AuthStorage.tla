------------------------------- MODULE AuthStorage -------------------------------
(***************************************************************************)
(* packages/coding-agent/src/core/auth-storage.ts: several instances of    *)
(* the agent keep the credentials of providers in one file, each with a    *)
(* copy of its own.  An OAuth token that has expired is refreshed under a  *)
(* lock file; logins, logouts and keys are written without it.  A provider *)
(* rotates its tokens: a refresh uses up the one it is given.              *)
(*                                                                         *)
(* A write first empties the file, and who reads it meanwhile finds no     *)
(* credentials at all.                                                     *)
(***************************************************************************)
EXTENDS Naturals, FiniteSets

CONSTANTS
    Instance,        \* processes of the agent
    Caller,          \* their calls of getApiKey
    InstanceOf,      \* whose call it is
    Provider,
    MaxTokens,       \* bound: tokens a provider issues
    MaxUpsets        \* bound: processes killed, logins and logouts

Free == "free"
Abandoned == "abandoned"

ASSUME AuthAssumption ==
    /\ InstanceOf \in [Caller -> Instance] /\ Provider # {}
    /\ {Free, Abandoned} \cap Caller = {}
    /\ MaxTokens \in Nat \ {0} /\ MaxUpsets \in Nat

NoCredential == [type |-> "none", token |-> 0]
ApiKey == [type |-> "api_key", token |-> 0]
OAuth(n) == [type |-> "oauth", token |-> n]
Credential == {NoCredential, ApiKey} \cup {OAuth(n) : n \in 1..MaxTokens}
NoTokens == [pr \in Provider |-> NoCredential]
Data == [Provider -> Credential]

VARIABLES
    stored,          \* auth.json
    data,            \* the copy of each instance
    writing,         \* instances that have emptied the file and not yet written
    lock,            \* the lock file: a call, Free, or Abandoned by a process that died
    call,            \* each call: where it stands, its provider, the token it sends
                     \* and the one it gets
    issued, valid,   \* at the provider: tokens issued, and good for a refresh
    expired,         \* tokens up to this one have expired
    lost,            \* history: providers whose credential was overwritten by who
                     \* did not know it, or never saved
    upsets

authVars == <<stored, data, writing, lock, call, issued, valid, expired, lost, upsets>>

Idle == [at |-> "idle", provider |-> CHOOSE pr \in Provider : TRUE, token |-> 0, new |-> 0]

-------------------------------------------------------------------------------

Expired(pr, credential) == credential.token <= expired[pr]

\* What another wrote to the file since this instance read it.
Unknown(i, written) == {pr \in Provider : stored[pr] # written[pr]}

\* reload, in an instance
Reload(i) == data' = [data EXCEPT ![i] = stored]

\* The first half of save().
Save(i, contents) ==
    /\ data' = [data EXCEPT ![i] = contents]
    /\ writing' = writing \cup {i} /\ stored' = NoTokens

AuthInit ==
    /\ stored = [pr \in Provider |-> OAuth(1)] /\ data = [i \in Instance |-> stored]
    /\ writing = {} /\ lock = Free /\ call = [c \in Caller |-> Idle]
    /\ issued = [pr \in Provider |-> 1] /\ valid = [pr \in Provider |-> {1}]
    /\ expired = [pr \in Provider |-> 0] /\ lost = {} /\ upsets = 0

\* The other half: an instance does nothing else between the two.
WriteCredentials(i) ==
    /\ i \in writing /\ writing' = writing \ {i}
    /\ stored' = data[i]
    /\ UNCHANGED <<data, lock, call, issued, valid, expired, lost, upsets>>

\* set and remove, with what the user entered or what login() brought.
Enter(i, pr, credential) ==
    /\ i \notin writing
    /\ Save(i, [data[i] EXCEPT ![pr] = credential])
    /\ upsets < MaxUpsets /\ upsets' = upsets + 1
    /\ lost' = lost \cup (IF writing # {} THEN Provider ELSE Unknown(i, data[i]) \ {pr})

Login(i, pr) ==
    /\ issued[pr] < MaxTokens
    /\ issued' = [issued EXCEPT ![pr] = @ + 1]
    /\ valid' = [valid EXCEPT ![pr] = @ \cup {issued'[pr]}]
    /\ Enter(i, pr, OAuth(issued'[pr]))
    /\ UNCHANGED <<lock, call, expired>>

Logout(i, pr) ==
    /\ data[i][pr] # NoCredential
    /\ Enter(i, pr, NoCredential)
    /\ UNCHANGED <<lock, call, issued, valid, expired>>

-------------------------------------------------------------------------------
(* getApiKey *)

\* A token that has expired must be refreshed; anything else answers at once.
Ask(c, pr) ==
    /\ call[c].at = "idle" /\ InstanceOf[c] \notin writing
    /\ data[InstanceOf[c]][pr].type = "oauth" /\ Expired(pr, data[InstanceOf[c]][pr])
    /\ call' = [call EXCEPT ![c] = [at |-> "waiting", provider |-> pr, token |-> 0, new |-> 0]]
    /\ UNCHANGED <<stored, data, writing, lock, issued, valid, expired, lost, upsets>>

UnexpiredBuggy(pr, credential) == FALSE
\* What the file holds once the lock is held may do.
Unexpired(pr, credential) == credential.type = "oauth" => ~Expired(pr, credential)

\* refreshOAuthTokenWithLock, as far as the request.
Locked(c) ==
    LET i == InstanceOf[c]
        pr == call[c].provider
        found == stored
    IN  /\ call[c].at = "waiting" /\ lock = Free /\ i \notin writing
        /\ lock' = c
        /\ data' = [data EXCEPT ![i] = found]
        /\ call' = [call EXCEPT ![c].at = IF Unexpired(pr, found[pr]) THEN "done" ELSE "sent",
                                ![c].token = found[pr].token]
        /\ UNCHANGED <<stored, writing, issued, valid, expired, lost, upsets>>

\* No more retries: the call looks once more into the file.
GiveUp(c) ==
    /\ call[c].at = "waiting" /\ lock # Free /\ InstanceOf[c] \notin writing
    /\ Reload(InstanceOf[c])
    /\ call' = [call EXCEPT ![c] = Idle]
    /\ UNCHANGED <<stored, writing, lock, issued, valid, expired, lost, upsets>>

\* The provider gives a new token for a good one; or it fails, or no one reaches it.
Grant(c) ==
    LET pr == call[c].provider
    IN  /\ call[c].at = "sent" /\ call[c].token \in valid[pr] /\ issued[pr] < MaxTokens
        /\ issued' = [issued EXCEPT ![pr] = @ + 1]
        /\ valid' = [valid EXCEPT ![pr] = (@ \ {call[c].token}) \cup {issued'[pr]}]
        /\ call' = [call EXCEPT ![c].at = "granted", ![c].new = issued'[pr]]
        /\ UNCHANGED <<stored, data, writing, lock, expired, lost, upsets>>

Refuse(c) ==
    /\ call[c].at \in {"sent", "granted"}
    /\ call' = [call EXCEPT ![c].at = "failed"]
    /\ lost' = IF call[c].at = "granted" THEN lost \cup {call[c].provider} ELSE lost
    /\ UNCHANGED <<stored, data, writing, lock, issued, valid, expired, upsets>>

ReceivedBuggy(c) == OAuth(call[c].token)
Received(c) == OAuth(call[c].new)

\* The answer is saved with the rest of the instance's copy.
Granted(c) ==
    LET i == InstanceOf[c]
        pr == call[c].provider
        read == [data[i] EXCEPT ![pr] = OAuth(call[c].token)]
    IN  /\ call[c].at = "granted" /\ i \notin writing
        /\ Save(i, [data[i] EXCEPT ![pr] = Received(c)])
        /\ lost' = lost \cup Unknown(i, read)
        /\ call' = [call EXCEPT ![c].at = "done"]
        /\ UNCHANGED <<lock, issued, valid, expired, upsets>>

Release(c) == Free

\* The lock is released, and a call that failed looks once more into the file.
Finish(c) ==
    /\ call[c].at \in {"done", "failed"} /\ InstanceOf[c] \notin writing
    /\ lock' = Release(c)
    /\ call' = [call EXCEPT ![c] = Idle]
    /\ IF call[c].at = "failed" THEN Reload(InstanceOf[c]) ELSE UNCHANGED data
    /\ UNCHANGED <<stored, writing, issued, valid, expired, lost, upsets>>

-------------------------------------------------------------------------------

Expire(pr) ==
    /\ expired[pr] < issued[pr] /\ expired' = [expired EXCEPT ![pr] = issued[pr]]
    /\ UNCHANGED <<stored, data, writing, lock, call, issued, valid, lost, upsets>>

\* A process is killed, in the middle of a write or of a refresh too, and
\* another started in its place.
Restart(i) ==
    LET granted == {c \in Caller : InstanceOf[c] = i /\ call[c].at = "granted"}
    IN  /\ upsets < MaxUpsets /\ upsets' = upsets + 1
        /\ writing' = writing \ {i}
        /\ lost' = lost \cup {call[c].provider : c \in granted}
                        \cup (IF i \in writing THEN Provider ELSE {})
        /\ call' = [c \in Caller |-> IF InstanceOf[c] = i THEN Idle ELSE call[c]]
        /\ lock' = IF lock \in Caller /\ InstanceOf[lock] = i THEN Abandoned ELSE lock
        /\ Reload(i)
        /\ UNCHANGED <<stored, issued, valid, expired>>

\* A lock that nobody has touched for 30 seconds is anybody's.
GoStale == lock = Abandoned /\ lock' = Free
           /\ UNCHANGED <<stored, data, writing, call, issued, valid, expired, lost, upsets>>

CallStep(c) == Locked(c) \/ GiveUp(c) \/ Granted(c) \/ Finish(c)

AuthNext ==
    \/ \E i \in Instance : WriteCredentials(i) \/ Restart(i)
    \/ \E i \in Instance, pr \in Provider : Login(i, pr) \/ Logout(i, pr)
    \/ \E c \in Caller, pr \in Provider : Ask(c, pr)
    \/ \E c \in Caller : CallStep(c) \/ Grant(c) \/ Refuse(c)
    \/ \E pr \in Provider : Expire(pr)
    \/ GoStale

\* A running process goes on, every request is answered or fails, and a lock
\* does go stale.
AuthFairness ==
    /\ \A i \in Instance : WF_authVars(WriteCredentials(i))
    /\ \A c \in Caller : WF_authVars(CallStep(c)) /\ WF_authVars(Grant(c) \/ Refuse(c))
    /\ WF_authVars(GoStale)

AuthSpec == AuthInit /\ [][AuthNext]_authVars /\ AuthFairness

-------------------------------------------------------------------------------

AuthTypeOK ==
    /\ stored \in Data /\ data \in [Instance -> Data]
    /\ writing \subseteq Instance /\ (writing # {} => stored \in {NoTokens} \cup {data[i] : i \in Instance})
    /\ lock \in Caller \cup {Free, Abandoned}
    /\ call \in [Caller -> [at : {"idle", "waiting", "sent", "granted", "done", "failed"},
                           provider : Provider, token : 0..MaxTokens, new : 0..MaxTokens]]
    /\ \A c \in Caller : call[c].at \notin {"idle", "waiting"} => lock = c
    /\ issued \in [Provider -> 1..MaxTokens] /\ valid \in [Provider -> SUBSET (1..MaxTokens)]
    /\ expired \in [Provider -> 0..MaxTokens]
    /\ \A pr \in Provider : expired[pr] <= issued[pr] /\ valid[pr] \subseteq 1..issued[pr]
    /\ lost \subseteq Provider /\ upsets \in 0..MaxUpsets

Lost(c) == call[c].provider \in lost

\* Only one instance refreshes while others wait and use the result: the token
\* a refresh is asked for is one that has expired and that no other has used up,
\* unless an unlocked write or a kill has lost the one that came after it.
RefreshesLast(c) ==
    call[c].at = "sent" /\ ~Lost(c) =>
        call[c].token \in valid[call[c].provider] /\ call[c].token <= expired[call[c].provider]

\* A provider's token in the file is one that it takes: no refresh, login or
\* logout for another provider has put an older one back, again with those
\* exceptions.
TokenGood ==
    /\ AuthTypeOK
    /\ \A pr \in Provider \ lost :
           \/ \E c \in Caller : call[c].at = "granted" /\ call[c].provider = pr
           \/ stored[pr].type = "oauth" => stored[pr].token \in valid[pr]

\* The lock is free again in the end, whatever fails or dies while it is held.
LockFreed == lock # Free ~> lock = Free

\* One refreshes at a time, and everyone has a turn.
RefreshShared == [](\A c \in Caller : RefreshesLast(c)) /\ LockFreed

================================================================================
