------------------------------- MODULE StoresProofs -------------------------------
(***************************************************************************)
(* What outlives a process, for any number of processes, calls, providers  *)
(* and tokens, sessions, fields and values, files, entries and labels: the *)
(* credentials in their file stay good, what a session has set or others   *)
(* wrote into the settings files is kept, and a conversation is read back  *)
(* from its file as it was.                                                *)
(***************************************************************************)
EXTENDS SessionManager, AuthStorage, SettingsManager, SequenceLemmas, FiniteSetTheorems, TLAPS

(* Credentials.                                                               *)

(* The inductive invariant. *)

Good(credential, tokens) == credential.type = "oauth" => credential.token \in tokens

\* A refresh has used up the provider's token and not saved the new one yet.
Refreshing(pr) == \E c \in Caller : call[c].at = "granted" /\ call[c].provider = pr

\* Who has emptied the file stands alone with what it will write: the file, and
\* others in the middle of a write, know nothing of the same provider.
WritersApart ==
    \A i \in writing : \A pr \in Provider \ lost :
        /\ stored[pr] = NoCredential \/ data[i][pr] = NoCredential
        /\ \A j \in writing \ {i} : data[i][pr] = NoCredential \/ data[j][pr] = NoCredential

\* What is in the file or about to be written to it is good, or being refreshed.
FileGood ==
    \A pr \in Provider \ lost :
        \/ Refreshing(pr)
        \/ Good(stored[pr], valid[pr]) /\ \A i \in writing : Good(data[i][pr], valid[pr])

\* What a refresh has brought is good until it is saved.
GrantGood ==
    \A c \in Caller : call[c].at = "granted" =>
        /\ call[c].new # 0
        /\ ~Lost(c) => call[c].new \in valid[call[c].provider]

LastRefreshed == \A c \in Caller : RefreshesLast(c)

AuthInv == AuthTypeOK /\ WritersApart /\ FileGood /\ GrantGood /\ LastRefreshed

-------------------------------------------------------------------------------

LEMMA Credentials ==
    /\ NoCredential \in Credential /\ ApiKey \in Credential
    /\ \A n \in 1..MaxTokens : OAuth(n) \in Credential /\ OAuth(n).token = n /\ OAuth(n).type = "oauth"
    /\ \A k \in Credential : k.token \in 0..MaxTokens /\ (k.type = "oauth" => k = OAuth(k.token))
    /\ NoCredential.type # "oauth"
<1>1. NoCredential \in Credential /\ ApiKey \in Credential /\ NoCredential.type # "oauth"
  BY DEF NoCredential, ApiKey, Credential
<1>2. ASSUME NEW n \in 1..MaxTokens
      PROVE  OAuth(n) \in Credential /\ OAuth(n).token = n /\ OAuth(n).type = "oauth"
  <2>1. OAuth(n) \in Credential
    BY DEF Credential
  <2> QED
    BY <2>1 DEF OAuth
<1>3. ASSUME NEW k \in Credential
      PROVE  k.token \in 0..MaxTokens /\ (k.type = "oauth" => k = OAuth(k.token))
  <2>1. CASE k = NoCredential \/ k = ApiKey
    BY <2>1, AuthAssumption DEF NoCredential, ApiKey
  <2>2. CASE \E n \in 1..MaxTokens : k = OAuth(n)
    BY <2>2, AuthAssumption DEF OAuth
  <2> QED
    BY <2>1, <2>2 DEF Credential
<1> QED
  BY <1>1, <1>2, <1>3

LEMMA NoTokensType == NoTokens \in Data
BY Credentials DEF NoTokens, Data

LEMMA AuthInitInv == AuthInit => AuthInv
<1> SUFFICES ASSUME AuthInit PROVE AuthInv
  OBVIOUS
<1>1. stored \in Data /\ 1 \in 1..MaxTokens
  BY Credentials, AuthAssumption DEF AuthInit, Data
<1>2. (CHOOSE pr \in Provider : TRUE) \in Provider
  BY AuthAssumption
<1>3. AuthTypeOK
  BY <1>1, <1>2, AuthAssumption DEF AuthInit, AuthTypeOK, Idle
<1>4. \A c \in Caller : call[c].at = "idle"
  BY DEF AuthInit, Idle
<1>5. FileGood
  BY Credentials, <1>1 DEF AuthInit, FileGood, Good
<1>6. WritersApart /\ GrantGood /\ LastRefreshed
  BY <1>4 DEF AuthInit, WritersApart, GrantGood, LastRefreshed, RefreshesLast
<1> QED
  BY <1>3, <1>5, <1>6 DEF AuthInv

\* The lock is held by one call: whoever asks the provider does so alone.
LEMMA HolderAlone ==
    ASSUME AuthTypeOK, NEW c \in Caller, NEW d \in Caller,
           call[c].at \notin {"idle", "waiting"}, call[d].at \notin {"idle", "waiting"}
    PROVE  c = d
BY DEF AuthTypeOK

\* What the invariant says of the credentials depends on these things alone.
LEMMA CredentialsFrame ==
    ASSUME AuthInv, AuthTypeOK',
           stored' = stored, valid' = valid, lost' = lost, writing' \subseteq writing,
           \A i \in writing' : data'[i] = data[i],
           \A c \in Caller : call[c].at = "granted" <=> call'[c].at = "granted",
           \A c \in Caller : call[c].at = "granted" =>
               call'[c].provider = call[c].provider /\ call'[c].new = call[c].new
    PROVE  (WritersApart /\ FileGood /\ GrantGood)'
<1>1. WritersApart'
  BY DEF AuthInv, WritersApart
<1>2. \A pr \in Provider : Refreshing(pr) <=> Refreshing(pr)'
  BY DEF Refreshing
<1>3. FileGood'
  BY <1>2 DEF AuthInv, FileGood, Good
<1>4. GrantGood'
  BY DEF AuthInv, GrantGood, Lost
<1> QED
  BY <1>1, <1>3, <1>4

\* A step that changes one call and nothing else keeps the types if the call
\* holds the lock or needs none.
LEMMA CallStepType ==
    ASSUME AuthTypeOK, NEW c \in Caller,
           NEW new \in [at : {"idle", "waiting", "sent", "granted", "done", "failed"},
                        provider : Provider, token : 0..MaxTokens, new : 0..MaxTokens],
           new.at \notin {"idle", "waiting"} => call[c].at \notin {"idle", "waiting"},
           call' = [call EXCEPT ![c] = new],
           UNCHANGED <<stored, data, writing, lock>>,
           issued' \in [Provider -> 1..MaxTokens], valid' \in [Provider -> SUBSET (1..MaxTokens)],
           expired' = expired,
           \A pr \in Provider : issued[pr] <= issued'[pr] /\ valid'[pr] \subseteq 1..issued'[pr],
           lost' \subseteq Provider, upsets' \in 0..MaxUpsets
    PROVE  AuthTypeOK'
<1>1. /\ call' \in [Caller -> [at : {"idle", "waiting", "sent", "granted", "done", "failed"},
                               provider : Provider, token : 0..MaxTokens, new : 0..MaxTokens]]
      /\ \A d \in Caller : call'[d].at \notin {"idle", "waiting"} => lock' = d
  BY DEF AuthTypeOK
<1>2. \A pr \in Provider : expired'[pr] <= issued'[pr]
  BY AuthAssumption DEF AuthTypeOK
<1>3. writing' # {} => stored' \in {NoTokens} \cup {data'[i] : i \in Instance}
  BY DEF AuthTypeOK
<1> QED
  BY <1>1, <1>2, <1>3 DEF AuthTypeOK

LEMMA AskInv ==
    ASSUME AuthInv, NEW c \in Caller, NEW pr \in Provider, Ask(c, pr)
    PROVE  AuthInv'
<1>2. /\ call' = [call EXCEPT ![c] = [at |-> "waiting", provider |-> pr, token |-> 0, new |-> 0]]
      /\ UNCHANGED <<stored, data, writing, lock, issued, valid, expired, lost, upsets>>
  BY DEF Ask
<1>1. AuthTypeOK'
  <2>1. [at |-> "waiting", provider |-> pr, token |-> 0, new |-> 0]
            \in [at : {"idle", "waiting", "sent", "granted", "done", "failed"},
                 provider : Provider, token : 0..MaxTokens, new : 0..MaxTokens]
    BY AuthAssumption
  <2> QED
    BY <1>2, <2>1, CallStepType, AuthAssumption DEF AuthInv, AuthTypeOK
<1>3. /\ call'[c].at = "waiting" /\ call[c].at = "idle"
      /\ \A d \in Caller \ {c} : call'[d] = call[d]
  BY <1>2 DEF AuthInv, AuthTypeOK, Ask
<1>4. (WritersApart /\ FileGood /\ GrantGood)'
  BY <1>1, <1>3, CredentialsFrame DEF Ask
<1>5. LastRefreshed'
  BY <1>3 DEF AuthInv, LastRefreshed, RefreshesLast, Lost, Ask
<1> QED
  BY <1>1, <1>4, <1>5 DEF AuthInv

LEMMA GiveUpInv ==
    ASSUME AuthInv, NEW c \in Caller, GiveUp(c)
    PROVE  AuthInv'
<1>1. /\ call' = [call EXCEPT ![c] = Idle] /\ call[c].at = "waiting"
      /\ data' = [data EXCEPT ![InstanceOf[c]] = stored] /\ InstanceOf[c] \notin writing
      /\ UNCHANGED <<stored, writing, lock, issued, valid, expired, lost, upsets>>
  BY DEF GiveUp, Reload
<1>2. Idle \in [at : {"idle"}, provider : Provider, token : {0}, new : {0}] /\ Idle.at = "idle"
  BY AuthAssumption DEF Idle
<1>3. AuthTypeOK'
  <2>1. data' \in [Instance -> Data]
    BY <1>1 DEF AuthInv, AuthTypeOK
  <2>2. writing' # {} => stored' \in {NoTokens} \cup {data'[j] : j \in Instance}
    BY <1>1, <2>1, AuthAssumption DEF AuthInv, AuthTypeOK
  <2>3. /\ call' \in [Caller -> [at : {"idle", "waiting", "sent", "granted", "done", "failed"},
                                 provider : Provider, token : 0..MaxTokens, new : 0..MaxTokens]]
        /\ \A d \in Caller : call'[d].at \notin {"idle", "waiting"} => lock' = d
    BY <1>1, <1>2, AuthAssumption DEF AuthInv, AuthTypeOK
  <2> QED
    BY <1>1, <2>1, <2>2, <2>3 DEF AuthInv, AuthTypeOK
<1>4. call'[c].at = "idle" /\ \A d \in Caller \ {c} : call'[d] = call[d]
  BY <1>1, <1>2 DEF AuthInv, AuthTypeOK
<1>5. \A i \in writing' : data'[i] = data[i]
  BY <1>1 DEF AuthInv, AuthTypeOK
<1>6. (WritersApart /\ FileGood /\ GrantGood)'
  BY <1>1, <1>3, <1>4, <1>5, CredentialsFrame
<1>7. LastRefreshed'
  BY <1>1, <1>4 DEF AuthInv, LastRefreshed, RefreshesLast, Lost
<1> QED
  BY <1>3, <1>6, <1>7 DEF AuthInv

\* The token that is sent is the one in the file, and that is good: nobody else
\* holds the lock, so nobody is in the middle of a refresh.
LEMMA LockedInv ==
    ASSUME AuthInv, NEW c \in Caller, Locked(c)
    PROVE  AuthInv'
<1> DEFINE i == InstanceOf[c]
           pr == call[c].provider
           at == IF Unexpired(pr, stored[pr]) THEN "done" ELSE "sent"
<1>0. i \in Instance /\ pr \in Provider /\ stored[pr] \in Credential
  BY AuthAssumption DEF AuthInv, AuthTypeOK, Data
<1>1. /\ call[c].at = "waiting" /\ lock = Free /\ i \notin writing /\ lock' = c
      /\ data' = [data EXCEPT ![i] = stored]
      /\ call' = [call EXCEPT ![c] = [call[c] EXCEPT !.at = at, !.token = stored[pr].token]]
      /\ UNCHANGED <<stored, writing, issued, valid, expired, lost, upsets>>
  BY DEF Locked
<1>2. stored[pr].token \in 0..MaxTokens
  BY <1>0, Credentials
<1>3. /\ call'[c].at = at /\ call'[c].provider = pr /\ call'[c].token = stored[pr].token
      /\ call'[c] \in [at : {"sent", "done"}, provider : Provider, token : 0..MaxTokens, new : 0..MaxTokens]
      /\ \A d \in Caller \ {c} : call'[d] = call[d]
  BY <1>0, <1>1, <1>2 DEF AuthInv, AuthTypeOK
<1>4. \A d \in Caller : call[d].at \in {"idle", "waiting"}
  BY <1>1, AuthAssumption DEF AuthInv, AuthTypeOK
<1>5. AuthTypeOK'
  <2>1. call' \in [Caller -> [at : {"idle", "waiting", "sent", "granted", "done", "failed"},
                              provider : Provider, token : 0..MaxTokens, new : 0..MaxTokens]]
    BY <1>1, <1>3 DEF AuthInv, AuthTypeOK
  <2>2. data' \in [Instance -> Data]
    BY <1>0, <1>1 DEF AuthInv, AuthTypeOK
  <2>3. writing' # {} => stored' \in {NoTokens} \cup {data'[j] : j \in Instance}
    BY <1>0, <1>1, <2>2 DEF AuthInv, AuthTypeOK
  <2>4. \A d \in Caller : call'[d].at \notin {"idle", "waiting"} => lock' = d
    BY <1>1, <1>3, <1>4
  <2> QED
    BY <1>1, <2>1, <2>2, <2>3, <2>4 DEF AuthInv, AuthTypeOK
<1>6. (WritersApart /\ FileGood /\ GrantGood)'
  <2>1. \A j \in writing' : data'[j] = data[j]
    BY <1>0, <1>1 DEF AuthInv, AuthTypeOK
  <2> QED
    BY <1>1, <1>3, <1>4, <1>5, <2>1, CredentialsFrame
<1>7. LastRefreshed'
  <2>1. ASSUME at = "sent", pr \notin lost
        PROVE  stored[pr].token \in valid[pr] /\ stored[pr].token <= expired[pr]
    <3>1. stored[pr].type = "oauth" /\ Expired(pr, stored[pr])
      BY <2>1 DEF Unexpired
    <3>2. ~Refreshing(pr)
      BY <1>4 DEF Refreshing
    <3> QED
      BY <1>0, <2>1, <3>1, <3>2 DEF AuthInv, FileGood, Good, Expired
  <2>2. RefreshesLast(c)'
    BY <1>1, <1>3, <2>1 DEF RefreshesLast, Lost
  <2>3. \A d \in Caller \ {c} : RefreshesLast(d)'
    BY <1>3, <1>4 DEF RefreshesLast
  <2> QED
    BY <2>2, <2>3 DEF LastRefreshed
<1> QED
  BY <1>5, <1>6, <1>7 DEF AuthInv

\* The provider changes one token for another and the call holds the new one.
LEMMA GrantInv ==
    ASSUME AuthInv, NEW c \in Caller, Grant(c)
    PROVE  AuthInv'
<1> DEFINE pr == call[c].provider
           n == issued[pr] + 1
<1>0. pr \in Provider /\ n \in 1..MaxTokens /\ issued[pr] \in 1..MaxTokens
  BY AuthAssumption DEF AuthInv, AuthTypeOK, Grant
<1>1. /\ call[c].at = "sent" /\ call[c].token \in valid[pr]
      /\ issued' = [issued EXCEPT ![pr] = n] /\ issued'[pr] = n
      /\ valid' = [valid EXCEPT ![pr] = (valid[pr] \ {call[c].token}) \cup {n}]
      /\ call' = [call EXCEPT ![c] = [call[c] EXCEPT !.at = "granted", !.new = n]]
      /\ UNCHANGED <<stored, data, writing, lock, expired, lost, upsets>>
  BY <1>0 DEF AuthInv, AuthTypeOK, Grant
<1>2. /\ [call[c] EXCEPT !.at = "granted", !.new = n]
             \in [at : {"granted"}, provider : Provider, token : 0..MaxTokens, new : 0..MaxTokens]
      /\ call'[c].at = "granted" /\ call'[c].provider = pr /\ call'[c].new = n
      /\ \A d \in Caller \ {c} : call'[d] = call[d]
  <2>1. call[c] \in [at : {"sent"}, provider : Provider, token : 0..MaxTokens, new : 0..MaxTokens]
    BY <1>1 DEF AuthInv, AuthTypeOK
  <2>2. n \in 0..MaxTokens
    BY <1>0, AuthAssumption
  <2>3. call'[c] = [call[c] EXCEPT !.at = "granted", !.new = n]
        /\ \A d \in Caller \ {c} : call'[d] = call[d]
    BY <1>1 DEF AuthInv, AuthTypeOK
  <2> HIDE DEF n
  <2> QED
    BY <2>1, <2>2, <2>3
<1>3. \A d \in Caller \ {c} : call[d].at \in {"idle", "waiting"}
  BY <1>1, HolderAlone DEF AuthInv
<1>4. n \in valid'[pr] /\ \A q \in Provider \ {pr} : valid'[q] = valid[q]
  BY <1>0, <1>1 DEF AuthInv, AuthTypeOK
<1>5. AuthTypeOK'
  <2>1. issued' \in [Provider -> 1..MaxTokens] /\ valid' \in [Provider -> SUBSET (1..MaxTokens)]
    BY <1>0, <1>1 DEF AuthInv, AuthTypeOK
  <2>2. \A q \in Provider : issued[q] <= issued'[q] /\ valid'[q] \subseteq 1..issued'[q]
    BY <1>0, <1>1 DEF AuthInv, AuthTypeOK
  <2> QED
    BY <1>1, <1>2, <2>1, <2>2, CallStepType DEF AuthInv, AuthTypeOK
<1>6. WritersApart'
  BY <1>1 DEF AuthInv, WritersApart
<1>7. FileGood'
  <2>1. Refreshing(pr)'
    BY <1>2 DEF Refreshing
  <2>2. \A q \in Provider : ~Refreshing(q)
    BY <1>1, <1>3 DEF Refreshing
  <2> QED
    BY <1>1, <1>4, <2>1, <2>2 DEF AuthInv, FileGood, Good
<1>8. GrantGood'
  BY <1>0, <1>2, <1>3, <1>4 DEF GrantGood
<1>9. LastRefreshed'
  BY <1>2, <1>3 DEF LastRefreshed, RefreshesLast
<1> QED
  BY <1>5, <1>6, <1>7, <1>8, <1>9 DEF AuthInv

LEMMA RefuseInv ==
    ASSUME AuthInv, NEW c \in Caller, Refuse(c)
    PROVE  AuthInv'
<1> DEFINE pr == call[c].provider
<1>1. /\ call[c].at \in {"sent", "granted"}
      /\ call' = [call EXCEPT ![c] = [call[c] EXCEPT !.at = "failed"]]
      /\ lost' = IF call[c].at = "granted" THEN lost \cup {pr} ELSE lost
      /\ UNCHANGED <<stored, data, writing, lock, issued, valid, expired, upsets>>
  BY DEF Refuse
<1>2. /\ [call[c] EXCEPT !.at = "failed"]
             \in [at : {"failed"}, provider : Provider, token : 0..MaxTokens, new : 0..MaxTokens]
      /\ call'[c].at = "failed" /\ call'[c].provider = pr /\ pr \in Provider
      /\ \A d \in Caller \ {c} : call'[d] = call[d]
  BY <1>1 DEF AuthInv, AuthTypeOK
<1>3. lost \subseteq lost' /\ lost' \subseteq Provider
  BY <1>1, <1>2 DEF AuthInv, AuthTypeOK
<1>4. \A d \in Caller \ {c} : call[d].at \in {"idle", "waiting"}
  BY <1>1, HolderAlone DEF AuthInv
<1>5. AuthTypeOK'
  BY <1>1, <1>2, <1>3, CallStepType, AuthAssumption DEF AuthInv, AuthTypeOK
<1>6. WritersApart'
  BY <1>1, <1>3 DEF AuthInv, WritersApart
<1>7. FileGood'
  <2>1. \A q \in Provider \ lost' : ~Refreshing(q)
    BY <1>1, <1>4 DEF Refreshing
  <2> QED
    BY <1>1, <1>3, <2>1 DEF AuthInv, FileGood, Good
<1>8. GrantGood' /\ LastRefreshed'
  BY <1>2, <1>4 DEF GrantGood, LastRefreshed, RefreshesLast
<1> QED
  BY <1>5, <1>6, <1>7, <1>8 DEF AuthInv

LEMMA FinishInv ==
    ASSUME AuthInv, NEW c \in Caller, Finish(c)
    PROVE  AuthInv'
<1> DEFINE i == InstanceOf[c]
<1>0. i \in Instance
  BY AuthAssumption
<1>1. /\ call[c].at \in {"done", "failed"} /\ i \notin writing
      /\ lock' = Free /\ call' = [call EXCEPT ![c] = Idle]
      /\ data' = data \/ data' = [data EXCEPT ![i] = stored]
      /\ UNCHANGED <<stored, writing, issued, valid, expired, lost, upsets>>
  BY DEF Finish, Release, Reload
<1>2. Idle \in [at : {"idle"}, provider : Provider, token : {0}, new : {0}] /\ Idle.at = "idle"
  BY AuthAssumption DEF Idle
<1>3. call'[c].at = "idle" /\ \A d \in Caller \ {c} : call'[d] = call[d]
  BY <1>1, <1>2 DEF AuthInv, AuthTypeOK
<1>4. \A d \in Caller \ {c} : call[d].at \in {"idle", "waiting"}
  BY <1>1, HolderAlone DEF AuthInv
<1>5. \A j \in writing' : data'[j] = data[j]
  BY <1>0, <1>1 DEF AuthInv, AuthTypeOK
<1>6. AuthTypeOK'
  <2>1. data' \in [Instance -> Data]
    BY <1>0, <1>1 DEF AuthInv, AuthTypeOK
  <2>2. writing' # {} => stored' \in {NoTokens} \cup {data'[j] : j \in Instance}
    BY <1>0, <1>1, <2>1 DEF AuthInv, AuthTypeOK
  <2>3. call' \in [Caller -> [at : {"idle", "waiting", "sent", "granted", "done", "failed"},
                              provider : Provider, token : 0..MaxTokens, new : 0..MaxTokens]]
    BY <1>1, <1>2, AuthAssumption DEF AuthInv, AuthTypeOK
  <2>4. \A d \in Caller : call'[d].at \notin {"idle", "waiting"} => lock' = d
    BY <1>3, <1>4
  <2> QED
    BY <1>1, <2>1, <2>2, <2>3, <2>4 DEF AuthInv, AuthTypeOK
<1>7. (WritersApart /\ FileGood /\ GrantGood)'
  BY <1>1, <1>3, <1>4, <1>5, <1>6, CredentialsFrame
<1>8. LastRefreshed'
  BY <1>3, <1>4 DEF LastRefreshed, RefreshesLast
<1> QED
  BY <1>6, <1>7, <1>8 DEF AuthInv

\* save() reads nothing but the instance's own copy: what the file held and the
\* copy did not know is lost, and what it did know is good.
LEMMA GrantedInv ==
    ASSUME AuthInv, NEW c \in Caller, Granted(c)
    PROVE  AuthInv'
<1> DEFINE i == InstanceOf[c]
           pr == call[c].provider
           contents == [data[i] EXCEPT ![pr] = OAuth(call[c].new)]
           read == [data[i] EXCEPT ![pr] = OAuth(call[c].token)]
<1>0. i \in Instance /\ pr \in Provider /\ data[i] \in Data /\ call[c].new \in 0..MaxTokens
  BY AuthAssumption DEF AuthInv, AuthTypeOK
<1>1. /\ call[c].at = "granted" /\ i \notin writing
      /\ data' = [data EXCEPT ![i] = contents] /\ writing' = writing \cup {i} /\ stored' = NoTokens
      /\ lost' = lost \cup {q \in Provider : stored[q] # read[q]}
      /\ call' = [call EXCEPT ![c] = [call[c] EXCEPT !.at = "done"]]
      /\ UNCHANGED <<lock, issued, valid, expired, upsets>>
  BY DEF Granted, Save, Unknown, Received
<1>2. /\ call'[c].at = "done" /\ \A d \in Caller \ {c} : call'[d] = call[d]
      /\ call' \in [Caller -> [at : {"idle", "waiting", "sent", "granted", "done", "failed"},
                               provider : Provider, token : 0..MaxTokens, new : 0..MaxTokens]]
  BY <1>1 DEF AuthInv, AuthTypeOK
<1>3. \A d \in Caller \ {c} : call[d].at \in {"idle", "waiting"}
  BY <1>1, HolderAlone DEF AuthInv
<1>4. /\ lost \subseteq lost'
      /\ \A q \in Provider \ lost' : stored[q] = read[q]
      /\ lost' \subseteq Provider
  BY <1>1 DEF AuthInv, AuthTypeOK
<1>5. call[c].new \in 1..MaxTokens
  BY <1>0, <1>1, AuthAssumption DEF AuthInv, GrantGood
<1>6. /\ data'[i] = contents
      /\ \A j \in Instance \ {i} : data'[j] = data[j]
      /\ \A q \in Provider : stored'[q] = NoCredential
      /\ \A q \in Provider \ {pr} : contents[q] = data[i][q] /\ read[q] = data[i][q]
      /\ contents[pr] = OAuth(call[c].new) /\ read[pr] = OAuth(call[c].token)
  BY <1>0, <1>1 DEF AuthInv, AuthTypeOK, Data, NoTokens
<1>7. \A j \in writing : j # i /\ j \in Instance
  BY <1>1 DEF AuthInv, AuthTypeOK
<1>8. AuthTypeOK'
  <2>1. contents \in Data
    BY <1>0, <1>5, Credentials DEF Data
  <2>2. data' \in [Instance -> Data] /\ stored' \in Data
    BY <1>0, <1>1, <2>1, NoTokensType DEF AuthInv, AuthTypeOK
  <2>3. \A d \in Caller : call'[d].at \notin {"idle", "waiting"} => lock' = d
    BY <1>1, <1>2, <1>3 DEF AuthInv, AuthTypeOK
  <2> QED
    BY <1>0, <1>1, <1>2, <1>4, <2>2, <2>3 DEF AuthInv, AuthTypeOK
<1>9. WritersApart'
  <2> HIDE DEF i, pr, contents, read
  <2>1. ASSUME NEW j \in writing, NEW q \in Provider \ lost'
        PROVE  contents[q] = NoCredential \/ data[j][q] = NoCredential
    <3>1. stored[q] = NoCredential \/ data[j][q] = NoCredential
      BY <1>4 DEF AuthInv, WritersApart
    <3>2. stored[q] = NoCredential => q # pr
      BY <1>4, <1>6, Credentials DEF OAuth, NoCredential
    <3> QED
      BY <1>4, <1>6, <3>1, <3>2
  <2>2. \A j, k \in writing, q \in Provider \ lost' :
            j # k => data[j][q] = NoCredential \/ data[k][q] = NoCredential
    BY <1>4 DEF AuthInv, WritersApart
  <2> QED
    BY <1>1, <1>6, <1>7, <2>1, <2>2 DEF WritersApart
<1>10. FileGood'
  <2> HIDE DEF i, pr, contents, read
  <2> SUFFICES ASSUME NEW q \in Provider \ lost'
               PROVE  (Good(stored[q], valid[q]) /\ \A j \in writing : Good(data[j][q], valid[q]))'
    BY DEF FileGood
  <2>1. Good(stored[q], valid[q])'
    BY <1>6, Credentials DEF Good
  <2>2. ASSUME q = pr
        PROVE  (\A j \in writing : Good(data[j][q], valid[q]))'
    <3>1. Good(contents[q], valid'[q])
      BY <1>1, <1>4, <1>6, <2>2 DEF AuthInv, GrantGood, Lost, Good, OAuth, pr
    <3>2. stored[q] # NoCredential
      BY <1>4, <1>6, <2>2 DEF OAuth, NoCredential
    <3>3. \A j \in writing : data[j][q] = NoCredential
      BY <1>4, <3>2 DEF AuthInv, WritersApart
    <3> QED
      BY <1>1, <1>6, <1>7, <3>1, <3>3, Credentials DEF Good
  <2>3. ASSUME q # pr
        PROVE  (\A j \in writing : Good(data[j][q], valid[q]))'
    <3>1. ~Refreshing(q)
      BY <1>3, <2>3 DEF Refreshing, pr
    <3>2. Good(stored[q], valid[q]) /\ \A j \in writing : Good(data[j][q], valid[q])
      BY <1>4, <3>1 DEF AuthInv, FileGood
    <3>3. contents[q] = stored[q]
      BY <1>4, <1>6, <2>3
    <3> QED
      BY <1>1, <1>6, <1>7, <3>2, <3>3 DEF Good
  <2> QED
    BY <2>1, <2>2, <2>3
<1>11. GrantGood' /\ LastRefreshed'
  BY <1>2, <1>3 DEF GrantGood, LastRefreshed, RefreshesLast
<1> QED
  BY <1>8, <1>9, <1>10, <1>11 DEF AuthInv

\* set() and remove() lose whatever another has written since the copy was read,
\* and everything if another is in the middle of a write.
LEMMA EnterInv ==
    ASSUME AuthInv, NEW i \in Instance, NEW pr \in Provider, NEW credential \in Credential,
           Enter(i, pr, credential),
           UNCHANGED <<lock, call, expired>>,
           issued' \in [Provider -> 1..MaxTokens], valid' \in [Provider -> SUBSET (1..MaxTokens)],
           \A q \in Provider : /\ issued[q] <= issued'[q] /\ valid'[q] \subseteq 1..issued'[q]
                               /\ valid[q] \subseteq valid'[q],
           Good(credential, valid'[pr])
    PROVE  AuthInv'
<1> DEFINE contents == [data[i] EXCEPT ![pr] = credential]
<1>1. /\ i \notin writing
      /\ data' = [data EXCEPT ![i] = contents] /\ writing' = writing \cup {i} /\ stored' = NoTokens
      /\ upsets < MaxUpsets /\ upsets' = upsets + 1
      /\ lost' = lost \cup (IF writing # {} THEN Provider ELSE {q \in Provider : stored[q] # data[i][q]} \ {pr})
  BY DEF Enter, Save, Unknown
<1>2. /\ contents \in Data /\ data'[i] = contents
      /\ \A q \in Provider : stored'[q] = NoCredential
      /\ \A q \in Provider \ {pr} : contents[q] = data[i][q]
      /\ contents[pr] = credential
  BY <1>1 DEF AuthInv, AuthTypeOK, Data, NoTokens
<1>3. /\ lost \subseteq lost' /\ lost' \subseteq Provider
      /\ \A q \in Provider \ lost' : writing = {} /\ (q # pr => stored[q] = data[i][q])
  BY <1>1 DEF AuthInv, AuthTypeOK
<1>4. AuthTypeOK'
  <2>1. data' \in [Instance -> Data] /\ stored' \in Data
    BY <1>1, <1>2, NoTokensType DEF AuthInv, AuthTypeOK
  <2>2. upsets' \in 0..MaxUpsets
    BY <1>1, AuthAssumption DEF AuthInv, AuthTypeOK
  <2>3. \A q \in Provider : expired'[q] <= issued'[q]
    BY AuthAssumption DEF AuthInv, AuthTypeOK
  <2> QED
    BY <1>1, <1>3, <2>1, <2>2, <2>3 DEF AuthInv, AuthTypeOK
<1>5. WritersApart'
  BY <1>1, <1>2, <1>3 DEF WritersApart
<1>6. FileGood'
  <2> HIDE DEF contents
  <2> SUFFICES ASSUME NEW q \in Provider \ lost', ~Refreshing(q)'
               PROVE  Good(NoCredential, valid'[q]) /\ Good(contents[q], valid'[q])
    BY <1>1, <1>2, <1>3 DEF FileGood, Good
  <2>1. Good(NoCredential, valid'[q])
    BY Credentials DEF Good
  <2>2. q = pr => Good(contents[q], valid'[q])
    BY <1>2 DEF Good
  <2>3. q # pr => Good(contents[q], valid'[q])
    <3>1. ~Refreshing(q)
      BY DEF Refreshing
    <3>2. Good(stored[q], valid[q])
      BY <1>3, <3>1 DEF AuthInv, FileGood
    <3> QED
      BY <1>2, <1>3, <3>2 DEF Good
  <2> QED
    BY <2>1, <2>2, <2>3
<1>7. GrantGood' /\ LastRefreshed'
  <2>1. \A c \in Caller : call[c].provider \in Provider /\ (Lost(c) => Lost(c)')
    BY <1>3 DEF AuthInv, AuthTypeOK, Lost
  <2> QED
    BY <2>1 DEF AuthInv, GrantGood, LastRefreshed, RefreshesLast
<1> QED
  BY <1>4, <1>5, <1>6, <1>7 DEF AuthInv

LEMMA LoginInv ==
    ASSUME AuthInv, NEW i \in Instance, NEW pr \in Provider, Login(i, pr)
    PROVE  AuthInv'
<1> DEFINE n == issued[pr] + 1
<1>1. n \in 1..MaxTokens /\ issued[pr] \in 1..MaxTokens /\ issued' = [issued EXCEPT ![pr] = n] /\ issued'[pr] = n
  BY AuthAssumption DEF AuthInv, AuthTypeOK, Login
<1>2. valid' = [valid EXCEPT ![pr] = valid[pr] \cup {n}] /\ Enter(i, pr, OAuth(n)) /\ UNCHANGED <<lock, call, expired>>
  BY <1>1 DEF Login
<1>3. /\ issued' \in [Provider -> 1..MaxTokens] /\ valid' \in [Provider -> SUBSET (1..MaxTokens)]
      /\ n \in valid'[pr]
  BY <1>1, <1>2 DEF AuthInv, AuthTypeOK
<1>4. \A q \in Provider : /\ issued[q] <= issued'[q] /\ valid'[q] \subseteq 1..issued'[q]
                          /\ valid[q] \subseteq valid'[q]
  BY <1>1, <1>2 DEF AuthInv, AuthTypeOK
<1>5. Good(OAuth(n), valid'[pr]) /\ OAuth(n) \in Credential
  BY <1>1, <1>3, Credentials DEF Good
<1> QED
  BY <1>2, <1>3, <1>4, <1>5, EnterInv

LEMMA LogoutInv ==
    ASSUME AuthInv, NEW i \in Instance, NEW pr \in Provider, Logout(i, pr)
    PROVE  AuthInv'
<1>1. Enter(i, pr, NoCredential) /\ UNCHANGED <<lock, call, issued, valid, expired>>
  BY DEF Logout
<1>2. \A q \in Provider : issued[q] <= issued'[q] /\ valid'[q] \subseteq 1..issued'[q] /\ valid[q] \subseteq valid'[q]
  BY <1>1, AuthAssumption DEF AuthInv, AuthTypeOK
<1>3. Good(NoCredential, valid'[pr]) /\ NoCredential \in Credential
  BY Credentials DEF Good
<1> QED
  BY <1>1, <1>2, <1>3, EnterInv DEF AuthInv, AuthTypeOK

LEMMA WriteCredentialsInv ==
    ASSUME AuthInv, NEW i \in Instance, WriteCredentials(i)
    PROVE  AuthInv'
<1>1. /\ i \in writing /\ writing' = writing \ {i} /\ stored' = data[i]
      /\ UNCHANGED <<data, lock, call, issued, valid, expired, lost, upsets>>
  BY DEF WriteCredentials
<1>2. AuthTypeOK'
  <2>1. stored' \in Data /\ stored' \in {data'[j] : j \in Instance}
    BY <1>1 DEF AuthInv, AuthTypeOK
  <2> QED
    BY <1>1, <2>1 DEF AuthInv, AuthTypeOK
<1>3. WritersApart'
  BY <1>1 DEF AuthInv, WritersApart
<1>4. FileGood'
  <2>1. \A q \in Provider : Refreshing(q) <=> Refreshing(q)'
    BY <1>1 DEF Refreshing
  <2> QED
    BY <1>1, <2>1 DEF AuthInv, FileGood, Good
<1>5. GrantGood' /\ LastRefreshed'
  BY <1>1 DEF AuthInv, GrantGood, LastRefreshed, RefreshesLast, Lost
<1> QED
  BY <1>2, <1>3, <1>4, <1>5 DEF AuthInv

LEMMA ExpireInv ==
    ASSUME AuthInv, NEW pr \in Provider, Expire(pr)
    PROVE  AuthInv'
<1>1. /\ expired' = [expired EXCEPT ![pr] = issued[pr]]
      /\ UNCHANGED <<stored, data, writing, lock, call, issued, valid, lost, upsets>>
  BY DEF Expire
<1>2. expired' \in [Provider -> 0..MaxTokens] /\ \A q \in Provider : expired[q] <= expired'[q] /\ expired'[q] <= issued'[q]
  BY <1>1, AuthAssumption DEF AuthInv, AuthTypeOK
<1>3. AuthTypeOK'
  <2>1. writing' # {} => stored' \in {NoTokens} \cup {data'[j] : j \in Instance}
    BY <1>1 DEF AuthInv, AuthTypeOK
  <2> QED
    BY <1>1, <1>2, <2>1 DEF AuthInv, AuthTypeOK
<1>4. (WritersApart /\ FileGood /\ GrantGood)'
  BY <1>1, <1>3, CredentialsFrame
<1>5. LastRefreshed'
  BY <1>1, <1>2, AuthAssumption DEF AuthInv, AuthTypeOK, LastRefreshed, RefreshesLast, Lost
<1> QED
  BY <1>3, <1>4, <1>5 DEF AuthInv

\* A kill loses what the process had in hand.
LEMMA RestartInv ==
    ASSUME AuthInv, NEW i \in Instance, Restart(i)
    PROVE  AuthInv'
<1> DEFINE granted == {c \in Caller : InstanceOf[c] = i /\ call[c].at = "granted"}
<1>1. /\ upsets < MaxUpsets /\ upsets' = upsets + 1 /\ writing' = writing \ {i}
      /\ lost' = lost \cup {call[c].provider : c \in granted} \cup (IF i \in writing THEN Provider ELSE {})
      /\ call' = [c \in Caller |-> IF InstanceOf[c] = i THEN Idle ELSE call[c]]
      /\ lock' = IF lock \in Caller /\ InstanceOf[lock] = i THEN Abandoned ELSE lock
      /\ data' = [data EXCEPT ![i] = stored]
      /\ UNCHANGED <<stored, issued, valid, expired>>
  BY DEF Restart, Reload
<1>2. Idle \in [at : {"idle"}, provider : Provider, token : {0}, new : {0}] /\ Idle.at = "idle"
  BY AuthAssumption DEF Idle
<1>3. /\ lost \subseteq lost' /\ lost' \subseteq Provider
      /\ i \in writing => lost' = Provider
      /\ \A c \in Caller : InstanceOf[c] = i /\ call[c].at = "granted" => call[c].provider \in lost'
  BY <1>1 DEF AuthInv, AuthTypeOK
<1>4. \A j \in writing' : j # i /\ j \in writing /\ data'[j] = data[j]
  BY <1>1 DEF AuthInv, AuthTypeOK
<1>5. AuthTypeOK'
  <2>1. data' \in [Instance -> Data] /\ stored' \in {data'[j] : j \in Instance}
    BY <1>1 DEF AuthInv, AuthTypeOK
  <2>2. upsets' \in 0..MaxUpsets
    BY <1>1, AuthAssumption DEF AuthInv, AuthTypeOK
  <2>3. call' \in [Caller -> [at : {"idle", "waiting", "sent", "granted", "done", "failed"},
                              provider : Provider, token : 0..MaxTokens, new : 0..MaxTokens]]
    BY <1>1, <1>2, AuthAssumption DEF AuthInv, AuthTypeOK
  <2>4. \A c \in Caller : call'[c].at \notin {"idle", "waiting"} => lock' = c
    BY <1>1, <1>2 DEF AuthInv, AuthTypeOK
  <2>5. lock' \in Caller \cup {Free, Abandoned}
    BY <1>1 DEF AuthInv, AuthTypeOK
  <2> QED
    BY <1>1, <1>3, <2>1, <2>2, <2>3, <2>4, <2>5 DEF AuthInv, AuthTypeOK
<1>6. WritersApart'
  BY <1>1, <1>3, <1>4 DEF AuthInv, WritersApart
<1>7. FileGood'
  <2>1. \A q \in Provider \ lost' : Refreshing(q) => Refreshing(q)'
    BY <1>1, <1>3 DEF Refreshing
  <2> QED
    BY <1>1, <1>3, <1>4, <2>1 DEF AuthInv, FileGood, Good
<1>8. GrantGood' /\ LastRefreshed'
  <2>1. \A c \in Caller : call'[c].at \in {"granted", "sent"} => call'[c] = call[c] /\ (Lost(c) => Lost(c)')
    BY <1>1, <1>2, <1>3 DEF Lost
  <2> QED
    BY <1>1, <2>1 DEF AuthInv, GrantGood, LastRefreshed, RefreshesLast
<1> QED
  BY <1>5, <1>6, <1>7, <1>8 DEF AuthInv

LEMMA GoStaleInv == AuthInv /\ GoStale => AuthInv'
<1> SUFFICES ASSUME AuthInv, GoStale PROVE AuthInv'
  OBVIOUS
<1>1. /\ lock = Abandoned /\ lock' = Free
      /\ UNCHANGED <<stored, data, writing, call, issued, valid, expired, lost, upsets>>
  BY DEF GoStale
<1>2. \A c \in Caller : call[c].at \in {"idle", "waiting"}
  BY <1>1, AuthAssumption DEF AuthInv, AuthTypeOK
<1>3. AuthTypeOK'
  <2>1. writing' # {} => stored' \in {NoTokens} \cup {data'[j] : j \in Instance}
    BY <1>1 DEF AuthInv, AuthTypeOK
  <2> QED
    BY <1>1, <1>2, <2>1 DEF AuthInv, AuthTypeOK
<1>4. (WritersApart /\ FileGood /\ GrantGood)'
  BY <1>1, <1>3, CredentialsFrame
<1>5. LastRefreshed'
  BY <1>1, <1>2 DEF LastRefreshed, RefreshesLast
<1> QED
  BY <1>3, <1>4, <1>5 DEF AuthInv

LEMMA AuthNextInv == AuthInv /\ [AuthNext]_authVars => AuthInv'
<1> SUFFICES ASSUME AuthInv, [AuthNext]_authVars PROVE AuthInv'
  OBVIOUS
<1>1. CASE AuthNext
  <2>1. ASSUME NEW c \in Caller, CallStep(c) PROVE AuthInv'
    BY <2>1, LockedInv, GiveUpInv, GrantedInv, FinishInv DEF CallStep
  <2> QED
    BY <1>1, <2>1, WriteCredentialsInv, RestartInv, LoginInv, LogoutInv, AskInv, GrantInv, RefuseInv,
       ExpireInv, GoStaleInv DEF AuthNext
<1>2. CASE UNCHANGED authVars
  <2>1. UNCHANGED <<stored, data, writing, lock, call, issued, valid, expired, lost, upsets>>
    BY <1>2 DEF authVars
  <2>2. AuthTypeOK'
    <3>1. writing' # {} => stored' \in {NoTokens} \cup {data'[j] : j \in Instance}
      BY <2>1 DEF AuthInv, AuthTypeOK
    <3> QED
      BY <2>1, <3>1 DEF AuthInv, AuthTypeOK
  <2>3. (WritersApart /\ FileGood /\ GrantGood)'
    BY <2>1, <2>2, CredentialsFrame
  <2>4. LastRefreshed'
    BY <2>1 DEF AuthInv, LastRefreshed, RefreshesLast, Lost
  <2> QED
    BY <2>2, <2>3, <2>4 DEF AuthInv
<1> QED
  BY <1>1, <1>2

\* The inductive invariant behind the others: types, the tokens the file and each
\* instance may hold, who holds the lock, and what each refresh still owes.
THEOREM AuthInvariant == AuthSpec => []AuthInv
<1>1. AuthInit => AuthInv
  BY AuthInitInv
<1>2. AuthInv /\ [AuthNext]_authVars => AuthInv'
  BY AuthNextInv
<1> QED
  BY <1>1, <1>2, PTL DEF AuthSpec

\* The file never goes back to a token that was used up, however refreshes,
\* logins, logouts and kills of any number of processes meet, but for the
\* providers whose credential an unlocked write or a kill has lost.
THEOREM TokenStaysGood == AuthSpec => []TokenGood
<1>1. AuthInv => TokenGood
  BY DEF AuthInv, FileGood, Refreshing, Good, TokenGood
<1> QED
  BY <1>1, AuthInvariant, PTL

\* The lock keeps its promise: a refresh is asked for with a token that has
\* expired and that nobody else has used up, with the same exceptions.
THEOREM RefreshedOnce == AuthSpec => [](\A c \in Caller : RefreshesLast(c))
<1>1. AuthInv => \A c \in Caller : RefreshesLast(c)
  BY DEF AuthInv, LastRefreshed
<1> QED
  BY <1>1, AuthInvariant, PTL

-------------------------------------------------------------------------------
(* Settings.                                                                  *)

(* The inductive invariant. *)

\* Only a field that was ever set in the project's file has a value there, or
\* in what is about to be written to it.
ProjectOverrides ==
    \A f \in Field :
        /\ onDisk["project"].values[f] # Unset => f \in overridden
        /\ \A s \in Session : saving[s].place = "project" /\ saving[s].values[f] # Unset => f \in overridden

\* Without a race the user's file, or who is saving it, has what is wanted; and
\* it is saved only by who could read it.
UserFileWanted ==
    /\ ~raced =>
           /\ Saving("user") \/ onDisk["user"].values = wanted
           /\ \A s \in Session : saving[s].place = "user" => saving[s].values = wanted
           /\ \A s, t \in Session : saving[s].place = "user" /\ saving[t].place = "user" => s = t
    /\ \A s \in Session : saving[s].place = "user" => saving[s].read.state = "ok"

SettingsInv == ChoiceHolds /\ ProjectOverrides /\ UserFileWanted

-------------------------------------------------------------------------------

LEMMA Types ==
    /\ NoSettings \in Settings /\ \A f \in Field : NoSettings[f] = Unset
    /\ EmptyFile \in FileContents /\ EmptyFile.values = NoSettings /\ EmptyFile.state = "empty"
    /\ \A m \in Settings : /\ Contents(m) \in FileContents
                           /\ Contents(m).values = m /\ Contents(m).state = "ok"
    /\ NotSaving.place = "none"
BY DEF NoSettings, Settings, EmptyFile, FileContents, Contents, NotSaving

\* A merge has a field of the overrides if they have it, of the base otherwise.
LEMMA MergeFields ==
    ASSUME NEW base \in Settings, NEW overrides \in Settings
    PROVE  /\ DeepMerge(base, overrides) \in Settings
           /\ \A f \in Field : DeepMerge(base, overrides)[f] = IF overrides[f] = Unset THEN base[f] ELSE overrides[f]
BY DEF DeepMerge, Settings

LEMMA ProjectType ==
    ASSUME SettingsTypeOK
    PROVE  /\ ProjectSettings \in Settings
           /\ \A f \in Field : ProjectSettings[f] # Unset => onDisk["project"].values[f] # Unset
<1>1. onDisk["project"] \in FileContents
  BY DEF SettingsTypeOK, Places
<1> QED
  BY <1>1, Types DEF ProjectSettings, FileContents

\* A session is saving to one of the two places or not at all.
LEMMA SavingPlace ==
    ASSUME SettingsTypeOK, NEW s \in Session
    PROVE  /\ Ready(s) <=> saving[s].place = "none"
           /\ ~Ready(s) => /\ saving[s] \in [place : Places, read : FileContents, emptied : BOOLEAN, values : Settings]
                           /\ saving[s].place \in Places
<1>1. saving[s] \in [place : Places, read : FileContents, emptied : BOOLEAN, values : Settings] \cup {NotSaving}
  BY DEF SettingsTypeOK
<1> QED
  BY <1>1, Types DEF Ready, Places

LEMMA SettingsInitInv == SettingsInit => SettingsInv
<1> SUFFICES ASSUME SettingsInit PROVE SettingsInv
  OBVIOUS
<1>1. SettingsTypeOK
  <2>1. \A s \in Session : modifiedFields[s] = {f \in Field : chosen[s][f] # Unset}
    BY Types DEF SettingsInit
  <2>2. /\ onDisk \in [Places -> FileContents] /\ wanted \in Settings
        /\ globalSettings \in [Session -> Settings] /\ settings \in [Session -> Settings]
        /\ chosen \in [Session -> Settings]
    BY Types DEF SettingsInit
  <2>3. /\ modifiedFields \in [Session -> SUBSET Field] /\ loadError \in [Session -> BOOLEAN]
        /\ overridden \subseteq Field /\ raced \in BOOLEAN
    BY DEF SettingsInit
  <2>5. changes \in 0..MaxChanges
    BY SettingsAssumption DEF SettingsInit
  <2>4. saving \in [Session -> [place : Places, read : FileContents, emptied : BOOLEAN, values : Settings]
                               \cup {NotSaving}]
    BY DEF SettingsInit
  <2> QED
    BY <2>1, <2>2, <2>3, <2>4, <2>5 DEF SettingsTypeOK
<1>2. onDisk["user"].values = NoSettings /\ onDisk["project"].values = NoSettings
  BY Types DEF SettingsInit, Places
<1>3. \A s \in Session : saving[s].place = "none" /\ modifiedFields[s] = {}
  BY Types DEF SettingsInit
<1> QED
  BY <1>1, <1>2, <1>3, Types
  DEF SettingsInit, SettingsInv, ChoiceHolds, ProjectOverrides, UserFileWanted

\* A step that leaves the files, the saves and what is wanted of them alone.
LEMMA FilesFrame ==
    ASSUME SettingsInv, UNCHANGED <<onDisk, saving, wanted, overridden, raced>>
    PROVE  (ProjectOverrides /\ UserFileWanted)'
BY DEF SettingsInv, ProjectOverrides, UserFileWanted, Saving

LEMMA SetInv ==
    ASSUME SettingsInv, NEW s \in Session, NEW f \in Field, NEW v \in Value, Set(s, f, v)
    PROVE  SettingsInv'
<1> DEFINE remembered == [globalSettings[s] EXCEPT ![f] = v]
           modified == modifiedFields[s] \cup {f}
           merged == ToSave(onDisk["user"].values, remembered, modified)
<1>0. SettingsTypeOK
  BY DEF SettingsInv, ChoiceHolds
<1>1. /\ Ready(s) /\ changes' = changes + 1 /\ changes < MaxChanges
      /\ modifiedFields' = [modifiedFields EXCEPT ![s] = modified]
      /\ chosen' = [chosen EXCEPT ![s] = [chosen[s] EXCEPT ![f] = v]]
      /\ UNCHANGED <<onDisk, loadError, overridden>>
  BY DEF Set, Change, MarkModified
<1>2. v # Unset /\ onDisk["user"] \in FileContents /\ onDisk["user"].values \in Settings
  BY <1>0, SettingsAssumption DEF SettingsTypeOK, Places, FileContents
<1>3. /\ remembered \in Settings /\ merged \in Settings
      /\ remembered[f] = v /\ \A g \in Field \ {f} : remembered[g] = globalSettings[s][g]
      /\ \A g \in Field : merged[g] = IF g \in modified THEN remembered[g] ELSE onDisk["user"].values[g]
  BY <1>0, <1>2 DEF SettingsTypeOK, Settings, ToSave
<1>4. /\ chosen' \in [Session -> Settings] /\ chosen'[s] \in Settings
      /\ chosen'[s][f] = v /\ \A g \in Field \ {f} : chosen'[s][g] = chosen[s][g]
      /\ \A t \in Session \ {s} : chosen'[t] = chosen[t] /\ modifiedFields'[t] = modifiedFields[t]
      /\ modifiedFields' \in [Session -> SUBSET Field] /\ modifiedFields'[s] = modified
  BY <1>0, <1>1 DEF SettingsTypeOK, Settings
<1>5. \A t \in Session : modifiedFields'[t] = {g \in Field : chosen'[t][g] # Unset}
  BY <1>0, <1>2, <1>4 DEF SettingsTypeOK
<1>6. \A g \in modified : remembered[g] = chosen'[s][g] /\ merged[g] = chosen'[s][g]
  <2>1. modified \subseteq Field
    BY <1>0 DEF SettingsTypeOK
  <2>2. \A g \in modified \ {f} : g \in modifiedFields[s]
    OBVIOUS
  <2>3. \A g \in modifiedFields[s] : globalSettings[s][g] = chosen[s][g]
    BY DEF SettingsInv, ChoiceHolds
  <2> HIDE DEF remembered, merged, modified
  <2> QED
    BY <1>3, <1>4, <2>1, <2>2, <2>3
<1>7. changes' \in 0..MaxChanges
  BY <1>0, <1>1, SettingsAssumption DEF SettingsTypeOK
<1> HIDE DEF remembered, modified, merged
<1>8. CASE ~loadError[s] /\ Readable(onDisk["user"])
  <2> DEFINE save == [place |-> "user", read |-> onDisk["user"], emptied |-> FALSE, values |-> merged]
  <2>1. /\ globalSettings' = [globalSettings EXCEPT ![s] = merged]
        /\ saving' = [saving EXCEPT ![s] = save]
        /\ wanted' = DeepMerge(wanted, chosen'[s])
        /\ raced' = (raced \/ Saving("user"))
        /\ settings' = settings
    BY <1>8 DEF Set, MarkModified, remembered, modified, merged
  <2>2. /\ save \in [place : Places, read : FileContents, emptied : BOOLEAN, values : Settings]
        /\ save.place = "user" /\ save.values = merged /\ save.read = onDisk["user"]
    BY <1>2, <1>3 DEF Places
  <2> HIDE DEF save
  <2>3. /\ saving' \in [Session -> [place : Places, read : FileContents, emptied : BOOLEAN, values : Settings]
                                   \cup {NotSaving}]
        /\ saving'[s] = save /\ \A t \in Session \ {s} : saving'[t] = saving[t]
        /\ globalSettings' \in [Session -> Settings]
        /\ globalSettings'[s] = merged /\ \A t \in Session \ {s} : globalSettings'[t] = globalSettings[t]
    BY <1>0, <1>3, <2>1, <2>2 DEF SettingsTypeOK
  <2>4. wanted' \in Settings /\ \A g \in Field : wanted'[g] = IF chosen'[s][g] = Unset THEN wanted[g] ELSE chosen'[s][g]
    BY <1>0, <1>4, <2>1, MergeFields DEF SettingsTypeOK
  <2>5. SettingsTypeOK'
    BY <1>0, <1>1, <1>4, <1>5, <1>7, <2>1, <2>3, <2>4 DEF SettingsTypeOK
  <2>6. ChoiceHolds'
    <3>1. ~Ready(s)'
      BY <2>2, <2>3, <2>5, SavingPlace DEF Ready, NotSaving
    <3>2. \A t \in Session \ {s} : Ready(t)' = Ready(t)
      BY <2>3 DEF Ready
    <3> QED
      BY <1>1, <1>4, <1>6, <2>1, <2>3, <2>5, <3>1, <3>2 DEF SettingsInv, ChoiceHolds
  <2>7. ProjectOverrides'
    BY <1>1, <2>2, <2>3 DEF SettingsInv, ProjectOverrides
  <2>8. ~raced' => merged = wanted'
    <3> SUFFICES ASSUME ~raced' PROVE \A g \in Field : merged[g] = wanted'[g]
      BY <1>3, <2>4 DEF Settings
    <3>1. onDisk["user"].values = wanted
      BY <2>1 DEF SettingsInv, UserFileWanted
    <3>2. \A g \in Field : g \in modified <=> chosen'[s][g] # Unset
      BY <1>4, <1>5
    <3> QED
      BY <1>3, <1>6, <2>4, <3>1, <3>2
  <2>9. UserFileWanted'
    <3>1. ~raced' => \A t \in Session : saving'[t].place = "user" => t = s
      BY <2>1, <2>3 DEF Saving
    <3>2. Saving("user")'
      BY <2>2, <2>3 DEF Saving
    <3> QED
      BY <1>8, <2>2, <2>3, <2>8, <3>1, <3>2 DEF SettingsInv, UserFileWanted, Readable
  <2> QED
    BY <2>6, <2>7, <2>9 DEF SettingsInv
<1>9. CASE ~(~loadError[s] /\ Readable(onDisk["user"]))
  <2>1. /\ globalSettings' = [globalSettings EXCEPT ![s] = remembered]
        /\ settings' = [settings EXCEPT ![s] = DeepMerge(remembered, ProjectSettings)]
        /\ UNCHANGED <<saving, wanted, raced>>
    BY <1>9 DEF Set, Merged, remembered
  <2>2. /\ DeepMerge(remembered, ProjectSettings) \in Settings
        /\ \A g \in Field : \/ DeepMerge(remembered, ProjectSettings)[g] = remembered[g]
                            \/ g \in overridden
    BY <1>0, <1>3, MergeFields, ProjectType DEF SettingsInv, ProjectOverrides
  <2>3. /\ globalSettings' \in [Session -> Settings] /\ settings' \in [Session -> Settings]
        /\ globalSettings'[s] = remembered /\ settings'[s] = DeepMerge(remembered, ProjectSettings)
        /\ \A t \in Session \ {s} : globalSettings'[t] = globalSettings[t] /\ settings'[t] = settings[t]
    BY <1>0, <1>3, <2>1, <2>2 DEF SettingsTypeOK
  <2>4. SettingsTypeOK'
    BY <1>0, <1>1, <1>4, <1>5, <1>7, <2>1, <2>3 DEF SettingsTypeOK
  <2>5. \A t \in Session : Ready(t)' = Ready(t)
    BY <2>1 DEF Ready
  <2>6. ChoiceHolds'
    BY <1>1, <1>4, <1>6, <2>2, <2>3, <2>4, <2>5 DEF SettingsInv, ChoiceHolds, SettingsTypeOK
  <2> QED
    BY <1>1, <2>1, <2>6, FilesFrame DEF SettingsInv
<1> QED
  BY <1>8, <1>9

LEMMA SetProjectInv ==
    ASSUME SettingsInv, NEW s \in Session, NEW f \in Field, NEW v \in Value, SetProject(s, f, v)
    PROVE  SettingsInv'
<1> DEFINE values == [ProjectSettings EXCEPT ![f] = v]
           save == [place |-> "project", read |-> onDisk["project"], emptied |-> FALSE, values |-> values]
<1>0. SettingsTypeOK
  BY DEF SettingsInv, ChoiceHolds
<1>1. /\ Ready(s) /\ changes' = changes + 1 /\ changes < MaxChanges
      /\ saving' = [saving EXCEPT ![s] = save]
      /\ overridden' = overridden \cup {f}
      /\ UNCHANGED <<onDisk, globalSettings, modifiedFields, loadError, settings, chosen, wanted, raced>>
  BY DEF SetProject, Change
<1>2. /\ values \in Settings
      /\ \A g \in Field : values[g] # Unset => g = f \/ onDisk["project"].values[g] # Unset
  BY <1>0, ProjectType DEF Settings
<1>3. /\ save \in [place : Places, read : FileContents, emptied : BOOLEAN, values : Settings]
      /\ save.place = "project" /\ save.values = values
  BY <1>0, <1>2 DEF SettingsTypeOK, Places
<1>4. saving[s].place = "none"
  BY <1>0, <1>1, SavingPlace
<1> HIDE DEF values, save
<1>5. /\ saving' \in [Session -> [place : Places, read : FileContents, emptied : BOOLEAN, values : Settings]
                                 \cup {NotSaving}]
      /\ saving'[s] = save /\ \A t \in Session \ {s} : saving'[t] = saving[t]
  BY <1>0, <1>1, <1>3 DEF SettingsTypeOK
<1>6. SettingsTypeOK'
  <2>1. changes' \in 0..MaxChanges
    BY <1>0, <1>1, SettingsAssumption DEF SettingsTypeOK
  <2> QED
    BY <1>0, <1>1, <1>5, <2>1 DEF SettingsTypeOK
<1>7. ChoiceHolds'
  <2>1. ~Ready(s)'
    BY <1>3, <1>5, Types DEF Ready
  <2>2. \A t \in Session \ {s} : Ready(t)' = Ready(t)
    BY <1>5 DEF Ready
  <2> QED
    BY <1>1, <1>6, <2>1, <2>2 DEF SettingsInv, ChoiceHolds
<1>8. ProjectOverrides'
  BY <1>1, <1>2, <1>3, <1>5 DEF SettingsInv, ProjectOverrides
<1>9. UserFileWanted'
  <2>1. \A t \in Session : saving'[t].place = "user" <=> saving[t].place = "user"
    BY <1>3, <1>4, <1>5
  <2>2. \A t \in Session : saving'[t].place = "user" => saving'[t] = saving[t]
    BY <1>3, <1>5
  <2> QED
    BY <1>1, <2>1, <2>2 DEF SettingsInv, UserFileWanted, Saving
<1> QED
  BY <1>7, <1>8, <1>9 DEF SettingsInv

LEMMA TruncateInv ==
    ASSUME SettingsInv, NEW s \in Session, Truncate(s)
    PROVE  SettingsInv'
<1> DEFINE p == saving[s].place
<1>0. SettingsTypeOK
  BY DEF SettingsInv, ChoiceHolds
<1>1. /\ ~Ready(s)
      /\ saving' = [saving EXCEPT ![s] = [saving[s] EXCEPT !.emptied = TRUE]]
      /\ onDisk' = [onDisk EXCEPT ![p] = EmptyFile]
      /\ UNCHANGED <<globalSettings, modifiedFields, loadError, settings, chosen, wanted, overridden, raced, changes>>
  BY DEF Truncate
<1>2. /\ saving[s] \in [place : Places, read : FileContents, emptied : BOOLEAN, values : Settings]
      /\ p \in Places
  BY <1>0, <1>1, SavingPlace
<1>3. /\ saving'[s] \in [place : Places, read : FileContents, emptied : BOOLEAN, values : Settings]
      /\ saving'[s].place = p /\ saving'[s].values = saving[s].values /\ saving'[s].read = saving[s].read
      /\ \A t \in Session \ {s} : saving'[t] = saving[t]
      /\ saving' \in [Session -> [place : Places, read : FileContents, emptied : BOOLEAN, values : Settings]
                                 \cup {NotSaving}]
  BY <1>0, <1>1, <1>2 DEF SettingsTypeOK
<1>4. /\ onDisk' \in [Places -> FileContents] /\ onDisk'[p] = EmptyFile
      /\ \A q \in Places \ {p} : onDisk'[q] = onDisk[q]
  BY <1>0, <1>1, <1>2, Types DEF SettingsTypeOK
<1>5. SettingsTypeOK'
  BY <1>0, <1>1, <1>3, <1>4 DEF SettingsTypeOK
<1>6. \A t \in Session : /\ saving'[t].place = saving[t].place
                         /\ saving'[t].values = saving[t].values
                         /\ saving'[t].read = saving[t].read
                         /\ Ready(t)' = Ready(t)
  <2>1. ~Ready(s)'
    BY <1>2, <1>3, <1>5, Types DEF Ready, Places
  <2> QED
    BY <1>1, <1>3, <2>1 DEF Ready
<1>7. ChoiceHolds'
  BY <1>1, <1>5, <1>6 DEF SettingsInv, ChoiceHolds
<1>8. ProjectOverrides'
  <2>1. \A f \in Field : onDisk'["project"].values[f] # Unset => onDisk["project"].values[f] # Unset
    BY <1>4, Types DEF Places
  <2> QED
    BY <1>1, <1>6, <2>1 DEF SettingsInv, ProjectOverrides
<1>9. UserFileWanted'
  <2>1. p = "user" => Saving("user")'
    BY <1>6 DEF Saving
  <2>2. p # "user" => onDisk'["user"] = onDisk["user"]
    BY <1>4 DEF Places
  <2>3. Saving("user")' <=> Saving("user")
    BY <1>6 DEF Saving
  <2> QED
    BY <1>1, <1>6, <2>1, <2>2, <2>3 DEF SettingsInv, UserFileWanted
<1> QED
  BY <1>7, <1>8, <1>9 DEF SettingsInv

LEMMA WriteFileInv ==
    ASSUME SettingsInv, NEW s \in Session, WriteFile(s)
    PROVE  SettingsInv'
<1> DEFINE p == saving[s].place
           project == IF p = "project" THEN saving[s].values ELSE ProjectSettings
           shown == DeepMerge(globalSettings[s], project)
<1>0. SettingsTypeOK
  BY DEF SettingsInv, ChoiceHolds
<1>1. /\ ~Ready(s)
      /\ onDisk' = [onDisk EXCEPT ![p] = Contents(saving[s].values)]
      /\ settings' = [settings EXCEPT ![s] = shown]
      /\ saving' = [saving EXCEPT ![s] = NotSaving]
      /\ UNCHANGED <<globalSettings, modifiedFields, loadError, chosen, wanted, overridden, raced, changes>>
  BY DEF WriteFile
<1>2. /\ saving[s] \in [place : Places, read : FileContents, emptied : BOOLEAN, values : Settings]
      /\ p \in Places /\ saving[s].values \in Settings
  BY <1>0, <1>1, SavingPlace
<1>3. project \in Settings /\ \A f \in Field : project[f] # Unset => f \in overridden
  BY <1>0, <1>2, ProjectType DEF SettingsInv, ProjectOverrides
<1>4. shown \in Settings /\ \A f \in Field : shown[f] = globalSettings[s][f] \/ f \in overridden
  <2> HIDE DEF project
  <2> QED
    BY <1>0, <1>3, MergeFields DEF SettingsTypeOK
<1> HIDE DEF shown, project
<1>5. /\ onDisk' \in [Places -> FileContents] /\ onDisk'[p] = Contents(saving[s].values)
      /\ \A q \in Places \ {p} : onDisk'[q] = onDisk[q]
      /\ onDisk'[p].values = saving[s].values
  BY <1>0, <1>1, <1>2, Types DEF SettingsTypeOK
<1>6. /\ saving' \in [Session -> [place : Places, read : FileContents, emptied : BOOLEAN, values : Settings]
                                 \cup {NotSaving}]
      /\ saving'[s].place = "none" /\ \A t \in Session \ {s} : saving'[t] = saving[t] /\ Ready(t)' = Ready(t)
  BY <1>0, <1>1, Types DEF SettingsTypeOK, Ready
<1>7. settings' \in [Session -> Settings] /\ settings'[s] = shown /\ \A t \in Session \ {s} : settings'[t] = settings[t]
  BY <1>0, <1>1, <1>4 DEF SettingsTypeOK
<1>8. SettingsTypeOK'
  BY <1>0, <1>1, <1>5, <1>6, <1>7 DEF SettingsTypeOK
<1>9. ChoiceHolds'
  <2>1. \A f \in modifiedFields[s] : f \in Field /\ globalSettings[s][f] = chosen[s][f]
    BY <1>0 DEF SettingsInv, ChoiceHolds, SettingsTypeOK
  <2>2. \A t \in Session \ {s} : \A f \in modifiedFields[t] :
            /\ globalSettings[t][f] = chosen[t][f]
            /\ Ready(t)' => settings'[t][f] = chosen[t][f] \/ f \in overridden
    BY <1>6, <1>7 DEF SettingsInv, ChoiceHolds
  <2>3. \A f \in modifiedFields[s] : settings'[s][f] = chosen[s][f] \/ f \in overridden
    BY <1>4, <1>7, <2>1
  <2> QED
    BY <1>1, <1>8, <2>1, <2>2, <2>3 DEF ChoiceHolds
<1>10. ProjectOverrides'
  <2>1. \A f \in Field : onDisk'["project"].values[f] # Unset => f \in overridden
    BY <1>5 DEF SettingsInv, ProjectOverrides, Places
  <2> QED
    BY <1>1, <1>6, <2>1 DEF SettingsInv, ProjectOverrides
<1>11. UserFileWanted'
  <2>1. \A t \in Session : saving'[t].place = "user" => t # s /\ saving'[t] = saving[t]
    BY <1>6
  <2>2. CASE p = "user"
    BY <1>1, <1>5, <2>1, <2>2 DEF SettingsInv, UserFileWanted
  <2>3. CASE p # "user"
    <3>1. onDisk'["user"] = onDisk["user"] /\ (Saving("user") => Saving("user")')
      BY <1>5, <1>6, <2>3 DEF Places, Saving
    <3> QED
      BY <1>1, <2>1, <3>1 DEF SettingsInv, UserFileWanted
  <2> QED
    BY <2>2, <2>3
<1> QED
  BY <1>9, <1>10, <1>11 DEF SettingsInv

\* A session that starts, or reads the files again, knows nothing of its own.
LEMMA FreshSession ==
    ASSUME SettingsInv, NEW s \in Session, NEW remembered \in Settings, NEW failed \in BOOLEAN,
           Change,
           globalSettings' = [globalSettings EXCEPT ![s] = remembered],
           loadError' = [loadError EXCEPT ![s] = failed],
           modifiedFields' = [modifiedFields EXCEPT ![s] = {}],
           settings' = [settings EXCEPT ![s] = Merged(remembered)],
           chosen' = [chosen EXCEPT ![s] = NoSettings],
           saving' = [saving EXCEPT ![s] = NotSaving],
           raced' = (raced \/ ~Ready(s)),
           UNCHANGED <<onDisk, wanted, overridden>>
    PROVE  SettingsInv'
<1>0. SettingsTypeOK
  BY DEF SettingsInv, ChoiceHolds
<1>1. Merged(remembered) \in Settings /\ NoSettings \in Settings /\ \A f \in Field : NoSettings[f] = Unset
  BY <1>0, MergeFields, ProjectType, Types DEF Merged
<1>2. /\ modifiedFields' \in [Session -> SUBSET Field] /\ modifiedFields'[s] = {} /\ chosen'[s] = NoSettings
      /\ \A t \in Session \ {s} : /\ modifiedFields'[t] = modifiedFields[t] /\ chosen'[t] = chosen[t]
                                  /\ globalSettings'[t] = globalSettings[t] /\ settings'[t] = settings[t]
                                  /\ saving'[t] = saving[t] /\ Ready(t)' = Ready(t)
      /\ saving'[s].place = "none"
      /\ saving' \in [Session -> [place : Places, read : FileContents, emptied : BOOLEAN, values : Settings]
                                 \cup {NotSaving}]
  BY <1>0, Types DEF SettingsTypeOK, Ready
<1>3. SettingsTypeOK'
  <2>1. \A t \in Session : modifiedFields'[t] = {f \in Field : chosen'[t][f] # Unset}
    BY <1>0, <1>1, <1>2 DEF SettingsTypeOK
  <2>2. changes' \in 0..MaxChanges
    BY <1>0, SettingsAssumption DEF SettingsTypeOK, Change
  <2>3. /\ globalSettings' \in [Session -> Settings] /\ settings' \in [Session -> Settings]
        /\ loadError' \in [Session -> BOOLEAN] /\ chosen' \in [Session -> Settings]
    BY <1>0, <1>1 DEF SettingsTypeOK
  <2> QED
    BY <1>0, <1>2, <2>1, <2>2, <2>3 DEF SettingsTypeOK
<1>4. ChoiceHolds'
  BY <1>2, <1>3 DEF SettingsInv, ChoiceHolds
<1>5. ProjectOverrides'
  BY <1>2 DEF SettingsInv, ProjectOverrides
<1>6. UserFileWanted'
  <2>1. \A t \in Session : saving'[t].place = "user" => t # s /\ saving'[t] = saving[t]
    BY <1>2
  <2>2. Ready(s) => saving[s].place = "none"
    BY <1>0, SavingPlace
  <2>3. Ready(s) /\ Saving("user") => Saving("user")'
    BY <1>2, <2>2 DEF Saving
  <2> QED
    BY <2>1, <2>3 DEF SettingsInv, UserFileWanted
<1> QED
  BY <1>4, <1>5, <1>6 DEF SettingsInv

LEMMA ReloadSettingsInv ==
    ASSUME SettingsInv, NEW s \in Session, ReloadSettings(s)
    PROVE  SettingsInv'
<1> DEFINE remembered == IF Readable(onDisk["user"]) THEN onDisk["user"].values ELSE globalSettings[s]
<1>0. SettingsTypeOK
  BY DEF SettingsInv, ChoiceHolds
<1>1. remembered \in Settings
  BY <1>0 DEF SettingsTypeOK, Places, FileContents
<1>2. saving' = [saving EXCEPT ![s] = NotSaving] /\ raced' = (raced \/ ~Ready(s))
  BY <1>0 DEF ReloadSettings, Ready, SettingsTypeOK
<1>3. (~Readable(onDisk["user"])) \in BOOLEAN
  BY DEF Readable
<1> QED
  BY <1>1, <1>2, <1>3, FreshSession DEF ReloadSettings, Forget

LEMMA RestartSessionInv ==
    ASSUME SettingsInv, NEW s \in Session, RestartSession(s)
    PROVE  SettingsInv'
<1> DEFINE remembered == IF Readable(onDisk["user"]) THEN onDisk["user"].values ELSE NoSettings
<1>0. SettingsTypeOK
  BY DEF SettingsInv, ChoiceHolds
<1>1. remembered \in Settings
  BY <1>0, Types DEF SettingsTypeOK, Places, FileContents
<1>2. (~Readable(onDisk["user"])) \in BOOLEAN
  BY DEF Readable
<1> QED
  BY <1>1, <1>2, FreshSession DEF RestartSession

LEMMA EditFileInv ==
    ASSUME SettingsInv, NEW p \in Places, NEW f \in Field, NEW v \in Value,
           NEW state \in {"ok", "broken"}, EditFile(p, f, v, state)
    PROVE  SettingsInv'
<1> DEFINE values == [onDisk[p].values EXCEPT ![f] = v]
<1>0. SettingsTypeOK
  BY DEF SettingsInv, ChoiceHolds
<1>1. /\ changes' = changes + 1 /\ changes < MaxChanges
      /\ onDisk' = [onDisk EXCEPT ![p] = [onDisk[p] EXCEPT !.values = values, !.state = state]]
      /\ wanted' = IF p = "user" THEN [wanted EXCEPT ![f] = v] ELSE wanted
      /\ overridden' = IF p = "project" THEN overridden \cup {f} ELSE overridden
      /\ raced' = (raced \/ Saving(p))
      /\ UNCHANGED <<globalSettings, modifiedFields, loadError, settings, saving, chosen>>
  BY DEF EditFile, Change
<1>2. onDisk[p] \in FileContents /\ values \in Settings
  BY <1>0 DEF SettingsTypeOK, FileContents, Settings
<1>3. /\ onDisk' \in [Places -> FileContents] /\ onDisk'[p].values = values
      /\ \A q \in Places \ {p} : onDisk'[q] = onDisk[q]
  <2>1. /\ [onDisk[p] EXCEPT !.values = values, !.state = state] \in FileContents
        /\ [onDisk[p] EXCEPT !.values = values, !.state = state].values = values
    BY <1>2 DEF FileContents
  <2> QED
    BY <1>0, <1>1, <2>1 DEF SettingsTypeOK
<1>4. SettingsTypeOK'
  <2>1. changes' \in 0..MaxChanges
    BY <1>0, <1>1, SettingsAssumption DEF SettingsTypeOK
  <2>2. wanted' \in Settings /\ overridden' \subseteq Field
    BY <1>0, <1>1 DEF SettingsTypeOK, Settings
  <2> QED
    BY <1>0, <1>1, <1>3, <2>1, <2>2 DEF SettingsTypeOK
<1>5. ChoiceHolds'
  BY <1>1, <1>4 DEF SettingsInv, ChoiceHolds, Ready
<1>6. ProjectOverrides'
  <2>1. \A g \in Field : onDisk'["project"].values[g] # Unset => g \in overridden'
    BY <1>1, <1>2, <1>3 DEF SettingsInv, ProjectOverrides, Places, FileContents, Settings
  <2> QED
    BY <1>1, <2>1 DEF SettingsInv, ProjectOverrides
<1>7. UserFileWanted'
  <2>1. CASE p = "user"
    BY <1>1, <1>3, <2>1 DEF SettingsInv, UserFileWanted, Saving
  <2>2. CASE p # "user"
    BY <1>1, <1>3, <2>2 DEF SettingsInv, UserFileWanted, Saving, Places
  <2> QED
    BY <2>1, <2>2
<1> QED
  BY <1>5, <1>6, <1>7 DEF SettingsInv

LEMMA SettingsNextInv == SettingsInv /\ [SettingsNext]_settingsVars => SettingsInv'
<1> SUFFICES ASSUME SettingsInv, [SettingsNext]_settingsVars PROVE SettingsInv'
  OBVIOUS
<1>1. CASE SettingsNext
  BY <1>1, SetInv, SetProjectInv, TruncateInv, WriteFileInv, ReloadSettingsInv, RestartSessionInv, EditFileInv
  DEF SettingsNext, Edits
<1>2. CASE UNCHANGED settingsVars
  BY <1>2 DEF settingsVars, SettingsInv, ChoiceHolds, SettingsTypeOK, Ready, ProjectOverrides, UserFileWanted, Saving
<1> QED
  BY <1>1, <1>2

\* The inductive invariant behind the others: types, what each instance has read
\* and what it was told to keep.
THEOREM SettingsInvariant == SettingsSpec => []SettingsInv
<1>1. SettingsInit => SettingsInv
  BY SettingsInitInv
<1>2. SettingsInv /\ [SettingsNext]_settingsVars => SettingsInv'
  BY SettingsNextInv
<1> QED
  BY <1>1, <1>2, PTL DEF SettingsSpec

\* What is set in a session holds there until it reloads, whatever is in the
\* files by then.
THEOREM ChoiceKept == SettingsSpec => []ChoiceHolds
<1>1. SettingsInv => ChoiceHolds
  BY DEF SettingsInv
<1> QED
  BY <1>1, SettingsInvariant, PTL

LEMMA KeptUpHolds == SettingsInv => \A f \in Field : KeptUp(f)
BY DEF SettingsInv, UserFileWanted, KeptUp

\* Only an edit, or a save that could read it before, touches a broken file.
LEMMA BrokenStep ==
    ASSUME SettingsInv, [SettingsNext]_settingsVars,
           onDisk["user"].state = "broken", onDisk'["user"] # onDisk["user"]
    PROVE  Edits \/ \E s \in Session : saving[s].place = "user" /\ saving[s].read.state = "ok"
<1>0. SettingsTypeOK
  BY DEF SettingsInv, ChoiceHolds
<1>1. onDisk' # onDisk
  OBVIOUS
<1>2. Edits \/ \E s \in Session : Truncate(s) \/ WriteFile(s)
  BY <1>1 DEF SettingsNext, settingsVars, Set, SetProject, ReloadSettings, RestartSession
<1>3. ASSUME NEW s \in Session, Truncate(s) \/ WriteFile(s)
      PROVE  saving[s].place = "user" /\ saving[s].read.state = "ok"
  <2>1. saving[s].place \in Places
    BY <1>0, <1>3, SavingPlace DEF Truncate, WriteFile
  <2>2. saving[s].place = "user"
    BY <1>0, <1>3, <2>1 DEF Truncate, WriteFile, SettingsTypeOK, Places
  <2> QED
    BY <2>2 DEF SettingsInv, UserFileWanted
<1> QED
  BY <1>2, <1>3

\* No save takes away what others wrote into the user's file unless two wrote at
\* once, and none writes over a file that it could not read.
THEOREM FileStaysKept == SettingsSpec => FileKept
<1>1. SettingsInv /\ [SettingsNext]_settingsVars =>
          [onDisk["user"].state = "broken" /\ onDisk'["user"] # onDisk["user"] =>
               \/ Edits
               \/ \E s \in Session : saving[s].place = "user" /\ saving[s].read.state = "ok"]_settingsVars
  BY BrokenStep
<1> QED
  BY <1>1, KeptUpHolds, SettingsInvariant, PTL DEF SettingsSpec, FileKept, BrokenKept

-------------------------------------------------------------------------------
(* Sessions.                                                                  *)

(* The inductive invariant. *)

\* An entry is younger than its parent.
Ranked == {e \in Entries : e.parent < e.id}
Parsed == Ranked \cup {Header}
Line == Parsed \cup {Torn}

DiskOK == DOMAIN disk \subseteq Files /\ disk \in [DOMAIN disk -> Seq(Line)]

StoreTypes ==
    /\ DiskOK
    /\ sessionFile \in Files \cup {NoFile}
    /\ fileEntries \in Seq(Parsed)
    /\ flushed \in BOOLEAN
    /\ snapshots \subseteq Files

Indexed ==
    /\ byId = Index(fileEntries)
    /\ labelsById = LabelsOf(fileEntries)
    /\ leafId \in DOMAIN byId \cup {NoEntry}

Headed == IF Running THEN fileEntries # <<>> /\ fileEntries[1] = Header ELSE fileEntries = <<>>

TreeInv == StoreTypes /\ Indexed /\ Headed

HeaderFirst(lines) == Valid(lines) # <<>> => Valid(lines)[1] = Header

\* How the session's file stands to its entries, as long as no line of it is
\* torn.  It may begin with entries that are written again behind them: a file
\* without an answer is loaded as flushed, and the next entry that is no answer
\* makes _persist take it for unflushed again.
Matches(lines, es, isFlushed) ==
    IF HasAssistant(es)
    THEN \E n \in 0..Len(es) : lines = SubSeq(es, 1, n) \o es
    ELSE \/ lines = es
         \/ ~isFlushed /\ \E n \in 0..Len(es) : lines = SubSeq(es, 1, n)

InSync ==
    /\ HasAssistant(fileEntries) => flushed
    /\ (Lines(sessionFile) = <<>> /\ ~flushed) \/ Valid(Lines(sessionFile)) # <<>>
    /\ Torn \notin ToSet(Lines(sessionFile)) => Matches(Lines(sessionFile), fileEntries, flushed)

FilesInv ==
    /\ snapshots = {}
    /\ \A f \in DOMAIN disk : HeaderFirst(disk[f])
    /\ Running => InSync
-------------------------------------------------------------------------------
(* Places of lines. *)

\* A non-empty set of numbers up to n has a greatest one.
LEMMA MaxOf ==
    ASSUME NEW n \in Nat, NEW S \in SUBSET (0..n), S # {}
    PROVE  Max(S) \in S /\ \A i \in S : i <= Max(S)
<1> DEFINE R == OpToRel(<, Nat)
           T == {n - i : i \in S}
<1>1. T \subseteq Nat /\ T # {}
  <2>1. PICK i \in S : TRUE
    OBVIOUS
  <2>2. n - i \in T
    BY <2>1
  <2>3. \A k \in S : n - k \in Nat
    OBVIOUS
  <2> QED
    BY <2>2, <2>3
<1>2. PICK x \in T : \A y \in T : ~(<<y, x>> \in R)
  <2> HIDE DEF R, T
  <2>1. IsWellFoundedOn(R, Nat)
    BY NatLessThanWellFounded DEF R
  <2> QED
    BY <1>1, <2>1, WFMin
<1>3. \A y \in T : x <= y
  <2> HIDE DEF T
  <2> SUFFICES ASSUME NEW y \in T PROVE x <= y
    OBVIOUS
  <2>1. x \in Nat /\ y \in Nat
    BY <1>1
  <2>2. y < x => <<y, x>> \in R
    BY <2>1 DEF OpToRel
  <2> HIDE DEF R
  <2> QED
    BY <1>2, <2>1, <2>2
<1>4. n - x \in S /\ \A i \in S : n - x >= i
  BY <1>3
<1>5. \E m \in S : \A i \in S : m >= i
  BY <1>4
<1>6. Max(S) \in S /\ \A i \in S : Max(S) >= i
  BY <1>5, Zenon DEF Max
<1>7. S \subseteq Nat
  OBVIOUS
<1> QED
  BY <1>6, <1>7

LEMMA MaxIs ==
    ASSUME NEW n \in Nat, NEW S \in SUBSET (0..n), NEW m \in S, \A i \in S : i <= m
    PROVE  Max(S) = m
<1>1. Max(S) \in S /\ \A i \in S : i <= Max(S)
  BY MaxOf
<1> DEFINE M == Max(S)
<1> HIDE DEF M
<1>2. M \in S /\ m <= M /\ M <= m
  BY <1>1 DEF M
<1>3. M \in Nat /\ m \in Nat
  BY <1>2
<1> QED
  BY <1>2, <1>3 DEF M

\* A non-empty set of numbers has a least one.
LEMMA MinOf ==
    ASSUME NEW S \in SUBSET Nat, S # {}
    PROVE  Min(S) \in S
<1> DEFINE R == OpToRel(<, Nat)
<1>1. PICK x \in S : \A y \in S : ~(<<y, x>> \in R)
  <2> HIDE DEF R
  <2>1. IsWellFoundedOn(R, Nat)
    BY NatLessThanWellFounded DEF R
  <2> QED
    BY <2>1, WFMin
<1>2. \A y \in S : x <= y
  <2> SUFFICES ASSUME NEW y \in S PROVE x <= y
    OBVIOUS
  <2>1. x \in Nat /\ y \in Nat
    OBVIOUS
  <2>2. y < x => <<y, x>> \in R
    BY <2>1 DEF OpToRel
  <2> HIDE DEF R
  <2> QED
    BY <1>1, <2>1, <2>2
<1>3. \E m \in S : \A i \in S : m <= i
  BY <1>2
<1> QED
  BY <1>3, Zenon DEF Min

\* The places of the members of K in a sequence, and the member at the last one.
PlacesOf(s, K) == {i \in DOMAIN s : s[i] \in K}
Latest(s, K) == s[Max(PlacesOf(s, K))]

LEMMA LatestIn ==
    ASSUME NEW S, NEW s \in Seq(S), NEW K, PlacesOf(s, K) # {}
    PROVE  Latest(s, K) \in S \cap K /\ \E i \in DOMAIN s : Latest(s, K) = s[i]
<1> DEFINE P == PlacesOf(s, K)
<1>1. P \in SUBSET (0..Len(s)) /\ Len(s) \in Nat
  BY DEF PlacesOf
<1> HIDE DEF P
<1>2. Max(P) \in P
  BY <1>1, MaxOf DEF P
<1>3. Max(P) \in DOMAIN s /\ s[Max(P)] \in K
  BY <1>2 DEF P, PlacesOf
<1> QED
  BY <1>3 DEF Latest, P

\* Where the last of them is.
LEMMA LatestIs ==
    ASSUME NEW S, NEW s \in Seq(S), NEW K, NEW m \in 1..Len(s), s[m] \in K,
           \A i \in 1..Len(s) : s[i] \in K => i <= m
    PROVE  PlacesOf(s, K) # {} /\ Latest(s, K) = s[m]
<1> DEFINE P == PlacesOf(s, K)
<1>1. P \in SUBSET (0..Len(s)) /\ Len(s) \in Nat /\ m \in P /\ \A i \in P : i <= m
  BY DEF PlacesOf
<1> HIDE DEF P
<1>2. Max(P) = m
  BY <1>1, MaxIs
<1> QED
  BY <1>1, <1>2 DEF Latest, P

LEMMA PlacesAppend ==
    ASSUME NEW S, NEW s \in Seq(S), NEW e \in S, NEW K
    PROVE  /\ e \in K => PlacesOf(Append(s, e), K) # {} /\ Latest(Append(s, e), K) = e
           /\ e \notin K => /\ PlacesOf(Append(s, e), K) = PlacesOf(s, K)
                            /\ PlacesOf(s, K) # {} => Latest(Append(s, e), K) = Latest(s, K)
<1> DEFINE t == Append(s, e)
<1>1. /\ t \in Seq(S) /\ Len(t) = Len(s) + 1 /\ Len(s) \in Nat /\ t[Len(s) + 1] = e
      /\ \A i \in 1..Len(s) : t[i] = s[i]
  OBVIOUS
<1> HIDE DEF t
<1>2. ASSUME e \in K PROVE PlacesOf(t, K) # {} /\ Latest(t, K) = e
  <2> DEFINE m == Len(t)
  <2>1. m \in 1..Len(t) /\ t[m] \in K /\ t[m] = e /\ \A i \in 1..Len(t) : t[i] \in K => i <= m
    BY <1>1, <1>2
  <2> HIDE DEF m
  <2> QED
    BY <1>1, <2>1, LatestIs
<1>3. ASSUME e \notin K PROVE PlacesOf(t, K) = PlacesOf(s, K)
  BY <1>1, <1>3 DEF PlacesOf
<1>4. ASSUME e \notin K, PlacesOf(s, K) # {} PROVE Latest(t, K) = Latest(s, K)
  <2> DEFINE P == PlacesOf(s, K)
  <2>1. P \in SUBSET (0..Len(s)) /\ P # {}
    BY <1>4 DEF PlacesOf
  <2>2. P \subseteq 1..Len(s)
    BY DEF PlacesOf
  <2> HIDE DEF P
  <2>3. Max(P) \in 1..Len(s)
    BY <1>1, <2>1, <2>2, MaxOf
  <2>4. t[Max(P)] = s[Max(P)]
    BY <1>1, <2>3
  <2> QED
    BY <1>3, <1>4, <2>4 DEF Latest, P
<1> QED
  BY <1>2, <1>3, <1>4 DEF t

\* Putting a beginning of a sequence before it changes no last member.
LEMMA PlacesBehind ==
    ASSUME NEW S, NEW s \in Seq(S), NEW n \in 0..Len(s), NEW K
    PROVE  LET t == SubSeq(s, 1, n) \o s
           IN  /\ PlacesOf(t, K) = {} <=> PlacesOf(s, K) = {}
               /\ PlacesOf(s, K) # {} => Latest(t, K) = Latest(s, K)
<1> DEFINE p == SubSeq(s, 1, n)
           t == p \o s
<1>1. n \in Nat /\ n <= Len(s) /\ Len(s) \in Nat /\ \A i \in 1..n : i \in 1..Len(s)
  OBVIOUS
<1>2. p \in Seq(S) /\ Len(p) = n /\ \A i \in 1..n : p[i] = s[i]
  BY <1>1, SubSeqProperties
<1> HIDE DEF p
<1>3. /\ t \in Seq(S) /\ Len(t) = n + Len(s)
      /\ \A i \in 1..(n + Len(s)) : t[i] = IF i <= n THEN p[i] ELSE s[i - n]
  BY <1>2, ConcatProperties
<1> HIDE DEF t
<1>4. \A i \in 1..Len(s) : n + i \in 1..Len(t) /\ t[n + i] = s[i]
  <2> SUFFICES ASSUME NEW i \in 1..Len(s) PROVE n + i \in 1..Len(t) /\ t[n + i] = s[i]
    OBVIOUS
  <2> DEFINE j == n + i
  <2>1. j \in 1..(n + Len(s)) /\ ~(j <= n) /\ j - n = i
    BY <1>1
  <2> HIDE DEF j
  <2>2. t[j] = s[i]
    BY <1>3, <2>1
  <2> QED
    BY <1>3, <2>1, <2>2 DEF j
<1>5. \A j \in 1..Len(t) : \E i \in 1..Len(s) : t[j] = s[i] /\ j <= n + i
  <2> SUFFICES ASSUME NEW j \in 1..Len(t) PROVE \E i \in 1..Len(s) : t[j] = s[i] /\ j <= n + i
    OBVIOUS
  <2>1. CASE j <= n
    <3>1. j \in 1..n /\ j \in 1..Len(s) /\ j \in 1..(n + Len(s))
      BY <1>1, <1>3, <2>1
    <3>2. t[j] = s[j] /\ j <= n + j
      BY <1>2, <1>3, <2>1, <3>1
    <3> QED
      BY <3>1, <3>2
  <2>2. CASE ~(j <= n)
    <3>1. j - n \in 1..Len(s) /\ j \in 1..(n + Len(s)) /\ j <= n + (j - n)
      BY <1>1, <1>3, <2>2
    <3>2. t[j] = s[j - n]
      BY <1>3, <2>2, <3>1
    <3> QED
      BY <3>1, <3>2
  <2> QED
    BY <2>1, <2>2
<1>6. DOMAIN t = 1..Len(t) /\ DOMAIN s = 1..Len(s)
  BY <1>3
<1>7. PlacesOf(t, K) = {} <=> PlacesOf(s, K) = {}
  BY <1>4, <1>5, <1>6 DEF PlacesOf
<1>8. ASSUME PlacesOf(s, K) # {} PROVE Latest(t, K) = Latest(s, K)
  <2> DEFINE P == PlacesOf(s, K)
             m == Max(P)
             k == n + m
  <2>1. P \in SUBSET (0..Len(s)) /\ P # {}
    BY <1>8 DEF PlacesOf
  <2>2. \A i \in P : i \in 1..Len(s) /\ s[i] \in K
    BY DEF PlacesOf
  <2>3. \A i \in 1..Len(s) : s[i] \in K => i \in P
    BY DEF PlacesOf
  <2> HIDE DEF P
  <2>4. m \in P /\ \A i \in P : i <= m
    BY <1>1, <2>1, MaxOf
  <2> HIDE DEF m
  <2>5. m \in 1..Len(s) /\ s[m] \in K
    BY <2>2, <2>4
  <2>6. k \in 1..Len(t) /\ t[k] = s[m]
    BY <1>4, <2>5
  <2>7. \A j \in 1..Len(t) : t[j] \in K => j <= k
    <3> SUFFICES ASSUME NEW j \in 1..Len(t), t[j] \in K PROVE j <= n + m
      OBVIOUS
    <3>1. PICK i \in 1..Len(s) : t[j] = s[i] /\ j <= n + i
      BY <1>5
    <3>2. i <= m
      BY <2>3, <2>4, <3>1
    <3> QED
      BY <1>1, <2>5, <3>1, <3>2
  <2> HIDE DEF k
  <2>8. Latest(t, K) = t[k]
    BY <1>3, <2>5, <2>6, <2>7, LatestIs
  <2> QED
    BY <2>6, <2>8 DEF Latest, P, m
<1> QED
  BY <1>7, <1>8 DEF t, p
-------------------------------------------------------------------------------
(* What is read from a file's lines. *)

LEMMA Lineup ==
    /\ Header \in Parsed /\ Torn \notin Parsed /\ Header \notin Entries /\ Torn \notin Entries
    /\ Parsed \subseteq Line /\ Ranked \subseteq Parsed /\ Ranked \subseteq Entries
    /\ Header.id = NoEntry /\ Header.kind = "session" /\ Header # Torn
    /\ \A e \in Ranked : e.id \in Ids /\ e.id # NoEntry /\ e # Header /\ e.kind \in AllKinds
    /\ \A e \in Parsed : e.id \in Ids \cup {NoEntry} /\ (e.id = NoEntry <=> e = Header)
<1> USE BoundAssumption
<1>1. Header.id = NoEntry /\ Torn.id = NoEntry /\ Header.kind = "session" /\ Torn.kind = "torn"
  BY DEF Header, Torn, Entry
<1>2. \A e \in Entries : e.id \in Ids /\ e.id # NoEntry /\ e.kind \in AllKinds
  BY DEF Entries, EntriesOfKind, Ids, NoEntry
<1>3. \A e \in Ranked : e \in Entries
  BY DEF Ranked
<1>4. Header \notin Entries /\ Torn \notin Entries /\ Header # Torn
  BY <1>1, <1>2
<1> QED
  BY <1>1, <1>2, <1>3, <1>4 DEF Parsed, Line

WithId(id) == {e \in Parsed : e.id = id}
LabelsFor(target) == {e \in Parsed : e.kind = "label" /\ e.ref = target}

LEMMA IndexIs ==
    ASSUME NEW es \in Seq(Parsed)
    PROVE  Index(es) = [id \in {i \in Ids : PlacesOf(es, WithId(i)) # {}} |-> Latest(es, WithId(id))]
<1>1. \A id : At(es, id) = PlacesOf(es, WithId(id))
  BY DEF At, PlacesOf, WithId
<1>2. \A i \in DOMAIN es : es[i] \in Parsed
  OBVIOUS
<1>3. {es[i].id : i \in DOMAIN es} \ {NoEntry} = {i \in Ids : PlacesOf(es, WithId(i)) # {}}
  <2>1. \A i \in DOMAIN es : es[i].id # NoEntry => es[i].id \in Ids /\ i \in PlacesOf(es, WithId(es[i].id))
    <3> SUFFICES ASSUME NEW i \in DOMAIN es, es[i].id # NoEntry
                 PROVE  es[i].id \in Ids /\ i \in PlacesOf(es, WithId(es[i].id))
      OBVIOUS
    <3>1. es[i] \in Parsed /\ es[i].id \in Ids
      BY <1>2, Lineup
    <3> QED
      BY <3>1 DEF PlacesOf, WithId
  <2>2. \A id \in Ids : \A i \in PlacesOf(es, WithId(id)) : i \in DOMAIN es /\ es[i].id = id /\ id # NoEntry
    BY DEF PlacesOf, WithId, Ids, NoEntry
  <2> QED
    BY <2>1, <2>2
<1> QED
  BY <1>1, <1>3 DEF Index, Latest

LEMMA LabelsIs ==
    ASSUME NEW es \in Seq(Parsed)
    PROVE  LabelsOf(es) =
               [target \in {t \in Ids : /\ PlacesOf(es, LabelsFor(t)) # {}
                                        /\ Latest(es, LabelsFor(t)).label # NoLabel} |->
                   Latest(es, LabelsFor(target)).label]
<1>1. \A t : ChangesOf(es, t) = PlacesOf(es, LabelsFor(t))
  BY DEF ChangesOf, PlacesOf, LabelsFor
<1> QED
  BY <1>1 DEF LabelsOf, Latest

LEMMA LeafIs ==
    ASSUME NEW es \in Seq(Parsed)
    PROVE  LeafOf(es) = IF PlacesOf(es, Ranked) = {} THEN NoEntry ELSE Latest(es, Ranked).id
<1>1. {i \in DOMAIN es : es[i] # Header} = PlacesOf(es, Ranked)
  BY Lineup DEF PlacesOf, Parsed
<1> QED
  BY <1>1 DEF LeafOf, Latest

\* The index holds what is in the sequence.
LEMMA IndexHolds ==
    ASSUME NEW es \in Seq(Parsed)
    PROVE  /\ DOMAIN Index(es) \subseteq Ids
           /\ \A id \in DOMAIN Index(es) :
                  /\ Index(es)[id] \in Ranked /\ Index(es)[id].id = id
                  /\ \E i \in DOMAIN es : Index(es)[id] = es[i]
           /\ \A i \in DOMAIN es : es[i] # Header => es[i].id \in DOMAIN Index(es)
<1>1. DOMAIN Index(es) = {i \in Ids : PlacesOf(es, WithId(i)) # {}}
  BY IndexIs
<1>2. ASSUME NEW id \in DOMAIN Index(es)
      PROVE  /\ Index(es)[id] \in Ranked /\ Index(es)[id].id = id
             /\ \E i \in DOMAIN es : Index(es)[id] = es[i]
  <2>1. Index(es)[id] = Latest(es, WithId(id)) /\ id \in Ids /\ PlacesOf(es, WithId(id)) # {}
    BY <1>1, IndexIs
  <2>2. Latest(es, WithId(id)) \in Parsed \cap WithId(id) /\ \E i \in DOMAIN es : Latest(es, WithId(id)) = es[i]
    BY <2>1, LatestIn
  <2>3. id # NoEntry
    BY <2>1 DEF Ids, NoEntry
  <2>4. Latest(es, WithId(id)) \in Ranked /\ Latest(es, WithId(id)).id = id
    BY <2>2, <2>3, Lineup DEF WithId, Parsed
  <2> QED
    BY <2>1, <2>2, <2>4
<1>3. ASSUME NEW i \in DOMAIN es, es[i] # Header PROVE es[i].id \in DOMAIN Index(es)
  <2>1. es[i] \in Parsed /\ es[i].id \in Ids
    BY <1>3, Lineup DEF Parsed
  <2>2. i \in PlacesOf(es, WithId(es[i].id))
    BY <2>1 DEF PlacesOf, WithId
  <2> QED
    BY <1>1, <2>1, <2>2
<1> QED
  BY <1>1, <1>2, <1>3

\* The labels are labels of entries' ids, and texts.
LEMMA LabelsHold ==
    ASSUME NEW es \in Seq(Parsed)
    PROVE  DOMAIN LabelsOf(es) \subseteq Ids /\ \A t \in DOMAIN LabelsOf(es) : LabelsOf(es)[t] \in Labels
<1> SUFFICES ASSUME NEW t \in DOMAIN LabelsOf(es) PROVE t \in Ids /\ LabelsOf(es)[t] \in Labels
  OBVIOUS
<1> DEFINE e == Latest(es, LabelsFor(t))
<1>1. t \in Ids /\ PlacesOf(es, LabelsFor(t)) # {} /\ e.label # NoLabel /\ LabelsOf(es)[t] = e.label
  BY LabelsIs
<1>2. e \in Parsed /\ e.kind = "label"
  <2>1. e \in Parsed \cap LabelsFor(t)
    BY <1>1, LatestIn
  <2> HIDE DEF e
  <2> QED
    BY <2>1 DEF LabelsFor
<1> HIDE DEF e
<1>3. e \in Entries
  BY <1>2, Lineup DEF Parsed
<1>4. e.label \in Labels \cup {NoLabel}
  BY <1>3 DEF Entries, EntriesOfKind
<1> QED
  BY <1>1, <1>4

LEMMA LeafHolds ==
    ASSUME NEW es \in Seq(Parsed)
    PROVE  /\ LeafOf(es) \in DOMAIN Index(es) \cup {NoEntry}
           /\ LeafOf(es) # NoEntry => \E i \in DOMAIN es : es[i] # Header /\ LeafOf(es) = es[i].id
<1>1. CASE PlacesOf(es, Ranked) = {}
  BY <1>1, LeafIs
<1>2. CASE PlacesOf(es, Ranked) # {}
  <2>1. LeafOf(es) = Latest(es, Ranked).id
    BY <1>2, LeafIs
  <2>2. PICK i \in DOMAIN es : Latest(es, Ranked) = es[i]
    BY <1>2, LatestIn
  <2>3. es[i] \in Ranked
    BY <1>2, <2>2, LatestIn
  <2>4. es[i] # Header
    BY <2>3, Lineup
  <2> QED
    BY <2>1, <2>2, <2>4, IndexHolds
<1> QED
  BY <1>1, <1>2

\* _appendEntry's update of the index is what _buildIndex would compute.
LEMMA IndexAppend ==
    ASSUME NEW es \in Seq(Parsed), NEW e \in Ranked
    PROVE  Index(Append(es, e)) = With(Index(es), e.id, e)
<1> DEFINE t == Append(es, e)
<1>1. t \in Seq(Parsed) /\ e \in Parsed /\ e.id \in Ids
  BY Lineup
<1>2. \A id : e \in WithId(id) <=> e.id = id
  BY <1>1 DEF WithId
<1>3. \A id : /\ e.id = id => PlacesOf(t, WithId(id)) # {} /\ Latest(t, WithId(id)) = e
              /\ e.id # id => /\ PlacesOf(t, WithId(id)) = PlacesOf(es, WithId(id))
                              /\ PlacesOf(es, WithId(id)) # {} => Latest(t, WithId(id)) = Latest(es, WithId(id))
  BY <1>1, <1>2, PlacesAppend
<1> HIDE DEF t
<1>4. Index(t) = [id \in {i \in Ids : PlacesOf(t, WithId(i)) # {}} |-> Latest(t, WithId(id))]
  BY <1>1, IndexIs
<1>5. Index(es) = [id \in {i \in Ids : PlacesOf(es, WithId(i)) # {}} |-> Latest(es, WithId(id))]
  BY IndexIs
<1> DEFINE D == {i \in Ids : PlacesOf(es, WithId(i)) # {}}
<1>6. {i \in Ids : PlacesOf(t, WithId(i)) # {}} = D \cup {e.id}
  BY <1>1, <1>3
<1>7. \A id \in D \cup {e.id} : Latest(t, WithId(id)) = IF id = e.id THEN e ELSE Index(es)[id]
  BY <1>3, <1>5
<1>8. DOMAIN Index(es) = D
  BY <1>5
<1> HIDE DEF D
<1>9. Index(t) = [id \in D \cup {e.id} |-> IF id = e.id THEN e ELSE Index(es)[id]]
  BY <1>4, <1>6, <1>7
<1> QED
  BY <1>8, <1>9 DEF With, t

\* An entry that is no label leaves the labels alone ...
LEMMA LabelsAppendOther ==
    ASSUME NEW es \in Seq(Parsed), NEW e \in Ranked, e.kind # "label"
    PROVE  LabelsOf(Append(es, e)) = LabelsOf(es)
<1> DEFINE t == Append(es, e)
<1>1. t \in Seq(Parsed) /\ e \in Parsed
  BY Lineup
<1>2. \A target : e \notin LabelsFor(target)
  BY DEF LabelsFor
<1>3. \A target : /\ PlacesOf(t, LabelsFor(target)) = PlacesOf(es, LabelsFor(target))
                  /\ PlacesOf(es, LabelsFor(target)) # {} =>
                         Latest(t, LabelsFor(target)) = Latest(es, LabelsFor(target))
  BY <1>1, <1>2, PlacesAppend
<1> HIDE DEF t
<1>4. LabelsOf(t) = [target \in {i \in Ids : /\ PlacesOf(t, LabelsFor(i)) # {}
                                             /\ Latest(t, LabelsFor(i)).label # NoLabel} |->
                        Latest(t, LabelsFor(target)).label]
  BY <1>1, LabelsIs
<1>5. LabelsOf(es) = [target \in {i \in Ids : /\ PlacesOf(es, LabelsFor(i)) # {}
                                              /\ Latest(es, LabelsFor(i)).label # NoLabel} |->
                        Latest(es, LabelsFor(target)).label]
  BY LabelsIs
<1> QED
  BY <1>3, <1>4, <1>5 DEF t

\* ... and appendLabelChange's update of them is what _buildIndex would compute.
LEMMA LabelsAppend ==
    ASSUME NEW es \in Seq(Parsed), NEW e \in Ranked, e.kind = "label", e.ref \in Ids
    PROVE  LabelsOf(Append(es, e)) =
               IF e.label # NoLabel THEN With(LabelsOf(es), e.ref, e.label)
               ELSE Restrict(LabelsOf(es), DOMAIN LabelsOf(es) \ {e.ref})
<1> DEFINE t == Append(es, e)
           latest(s, i) == Latest(s, LabelsFor(i)).label
           D == {i \in Ids : PlacesOf(es, LabelsFor(i)) # {} /\ latest(es, i) # NoLabel}
<1>1. t \in Seq(Parsed) /\ e \in Parsed
  BY Lineup
<1>2. \A target : e \in LabelsFor(target) <=> e.ref = target
  BY <1>1 DEF LabelsFor
<1>3. \A i : /\ e.ref = i => PlacesOf(t, LabelsFor(i)) # {} /\ Latest(t, LabelsFor(i)) = e
             /\ e.ref # i => /\ PlacesOf(t, LabelsFor(i)) = PlacesOf(es, LabelsFor(i))
                             /\ PlacesOf(es, LabelsFor(i)) # {} =>
                                    Latest(t, LabelsFor(i)) = Latest(es, LabelsFor(i))
  BY <1>1, <1>2, PlacesAppend
<1> HIDE DEF t
<1>4. LabelsOf(t) = [target \in {i \in Ids : PlacesOf(t, LabelsFor(i)) # {} /\ latest(t, i) # NoLabel} |->
                        latest(t, target)]
  BY <1>1, LabelsIs
<1>5. LabelsOf(es) = [target \in D |-> latest(es, target)]
  BY LabelsIs
<1>6. DOMAIN LabelsOf(es) = D
  BY <1>5
<1>7. \A i \in D : LabelsOf(es)[i] = latest(es, i)
  BY <1>5
<1>8. CASE e.label # NoLabel
  <2>1. {i \in Ids : PlacesOf(t, LabelsFor(i)) # {} /\ latest(t, i) # NoLabel} = D \cup {e.ref}
    BY <1>3, <1>8
  <2>2. \A i \in D \cup {e.ref} : latest(t, i) = IF i = e.ref THEN e.label ELSE LabelsOf(es)[i]
    BY <1>3, <1>7
  <2> HIDE DEF D, latest
  <2>3. LabelsOf(t) = [i \in D \cup {e.ref} |-> IF i = e.ref THEN e.label ELSE LabelsOf(es)[i]]
    BY <1>4, <2>1, <2>2
  <2> QED
    BY <1>6, <1>8, <2>3 DEF With, t
<1>9. CASE e.label = NoLabel
  <2>1. {i \in Ids : PlacesOf(t, LabelsFor(i)) # {} /\ latest(t, i) # NoLabel} = D \ {e.ref}
    BY <1>3, <1>9
  <2>2. \A i \in D \ {e.ref} : latest(t, i) = LabelsOf(es)[i]
    BY <1>3, <1>7
  <2> HIDE DEF D, latest
  <2>3. LabelsOf(t) = [i \in D \ {e.ref} |-> LabelsOf(es)[i]]
    BY <1>4, <2>1, <2>2
  <2> QED
    BY <1>6, <1>9, <2>3 DEF Restrict, t
<1> QED
  BY <1>8, <1>9

\* Entries that are written again behind a beginning of them read the same.
LEMMA ReadBehind ==
    ASSUME NEW es \in Seq(Parsed), NEW n \in 0..Len(es)
    PROVE  LET lines == SubSeq(es, 1, n) \o es
           IN  /\ lines \in Seq(Parsed)
               /\ Index(lines) = Index(es)
               /\ LabelsOf(lines) = LabelsOf(es)
               /\ LeafOf(lines) = LeafOf(es)
<1> DEFINE p == SubSeq(es, 1, n)
           t == p \o es
<1>1. t \in Seq(Parsed)
  <2>1. n \in Nat /\ n <= Len(es) /\ Len(es) \in Nat /\ \A i \in 1..n : i \in 1..Len(es)
    OBVIOUS
  <2>2. \A i \in 1..n : es[i] \in Parsed
    BY <2>1
  <2>3. p \in Seq(Parsed)
    BY <2>1, <2>2, SubSeqProperties
  <2> HIDE DEF p
  <2> QED
    BY <2>3
<1>2. \A K : /\ PlacesOf(t, K) = {} <=> PlacesOf(es, K) = {}
             /\ PlacesOf(es, K) # {} => Latest(t, K) = Latest(es, K)
  BY PlacesBehind
<1> HIDE DEF t
<1>3. Index(t) = Index(es)
  <2>1. Index(t) = [id \in {i \in Ids : PlacesOf(t, WithId(i)) # {}} |-> Latest(t, WithId(id))]
    BY <1>1, IndexIs
  <2>2. Index(es) = [id \in {i \in Ids : PlacesOf(es, WithId(i)) # {}} |-> Latest(es, WithId(id))]
    BY IndexIs
  <2>3. {i \in Ids : PlacesOf(t, WithId(i)) # {}} = {i \in Ids : PlacesOf(es, WithId(i)) # {}}
    BY <1>2
  <2>4. \A id \in {i \in Ids : PlacesOf(es, WithId(i)) # {}} : Latest(t, WithId(id)) = Latest(es, WithId(id))
    BY <1>2
  <2> QED
    BY <2>1, <2>2, <2>3, <2>4
<1>4. LabelsOf(t) = LabelsOf(es)
  <2> DEFINE latest(s, i) == Latest(s, LabelsFor(i)).label
             D(s) == {i \in Ids : PlacesOf(s, LabelsFor(i)) # {} /\ latest(s, i) # NoLabel}
  <2>1. LabelsOf(t) = [i \in D(t) |-> latest(t, i)]
    BY <1>1, LabelsIs
  <2>2. LabelsOf(es) = [i \in D(es) |-> latest(es, i)]
    BY LabelsIs
  <2>3. \A i : PlacesOf(es, LabelsFor(i)) # {} => latest(t, i) = latest(es, i)
    BY <1>2
  <2>4. D(t) = D(es)
    BY <1>2, <2>3
  <2>5. \A i \in D(es) : latest(t, i) = latest(es, i)
    BY <2>3
  <2> HIDE DEF D, latest
  <2> QED
    BY <2>1, <2>2, <2>4, <2>5
<1>5. LeafOf(t) = LeafOf(es)
  BY <1>1, <1>2, LeafIs
<1> QED
  BY <1>1, <1>3, <1>4, <1>5 DEF t

LEMMA WholeSubSeq ==
    ASSUME NEW S, NEW s \in Seq(S)
    PROVE  SubSeq(s, 1, Len(s)) = s
<1> DEFINE n == Len(s)
<1>1. n \in Nat /\ \A i \in 1..n : s[i] \in S
  OBVIOUS
<1>2. /\ SubSeq(s, 1, n) \in Seq(S) /\ Len(SubSeq(s, 1, n)) = n
      /\ \A i \in 1..n : SubSeq(s, 1, n)[i] = s[i]
  BY <1>1, SubSeqProperties
<1> QED
  BY <1>2, SeqEqual

\* What is all in K is selected.
LEMMA SelectedAll ==
    ASSUME NEW S, NEW s \in Seq(S), NEW K, S \subseteq K
    PROVE  Selected(s, K) = s
<1> DEFINE n == Len(s)
           f == [i \in 0..n |-> SubSeq(s, 1, i)]
<1>1. n \in Nat /\ \A i \in 1..n : s[i] \in K
  OBVIOUS
<1>2. \A i \in 0..n : f[i] = SubSeq(s, 1, i)
  OBVIOUS
<1>3. DOMAIN f = 0..n
  OBVIOUS
<1>4. SubSeq(s, 1, 0) = <<>>
  OBVIOUS
<1>5. SubSeq(s, 1, n) = s
  BY WholeSubSeq
<1>6. ASSUME NEW i \in 1..n
      PROVE  SubSeq(s, 1, i) = Append(SubSeq(s, 1, i - 1), s[i])
  <2> DEFINE k == i - 1
  <2>1. k \in Nat /\ k < Len(s) /\ k + 1 = i
    BY <1>1
  <2> HIDE DEF k
  <2>2. SubSeq(s, 1, k + 1) = Append(SubSeq(s, 1, k), s[k + 1])
    BY <2>1, SubSeqGrows
  <2> QED
    BY <2>1, <2>2 DEF k
<1> HIDE DEF f
<1>7. f[0] = <<>>
  BY <1>1, <1>2, <1>4
<1>8. \A i \in 1..n : f[i] = IF s[i] \in K THEN Append(f[i - 1], s[i]) ELSE f[i - 1]
  <2> SUFFICES ASSUME NEW i \in 1..n PROVE f[i] = Append(f[i - 1], s[i])
    BY <1>1
  <2>1. i \in 0..n /\ i - 1 \in 0..n
    BY <1>1
  <2> QED
    BY <1>2, <1>6, <2>1
<1>9. Selects(f, s, K)
  BY <1>3, <1>7, <1>8 DEF Selects
<1>10. Selected(s, K) = f[n]
  BY <1>9, SelectedIs
<1> QED
  BY <1>1, <1>2, <1>5, <1>10

\* Lines that can all be parsed are read as they are.
LEMMA ValidAll ==
    ASSUME NEW es \in Seq(Parsed)
    PROVE  Valid(es) = es
<1>1. Parsed \subseteq Entries \cup {Header}
  BY DEF Parsed, Ranked
<1> QED
  BY <1>1, SelectedAll DEF Valid

LEMMA ValidType ==
    ASSUME NEW lines \in Seq(Line)
    PROVE  Valid(lines) \in Seq(Parsed)
<1>1. Line \cap (Entries \cup {Header}) \subseteq Parsed
  BY Lineup DEF Line, Parsed
<1>2. Valid(lines) \in Seq(Line \cap (Entries \cup {Header}))
  BY SelectedType DEF Valid
<1>3. \A s \in Seq(Line \cap (Entries \cup {Header})) : s \in Seq(Parsed)
  BY <1>1
<1> QED
  BY <1>2, <1>3

LEMMA WholeLines ==
    ASSUME NEW lines \in Seq(Line), Torn \notin ToSet(lines)
    PROVE  lines \in Seq(Parsed)
<1>1. \A i \in 1..Len(lines) : lines[i] \in Line /\ lines[i] # Torn
  BY DEF ToSet
<1>2. \A i \in 1..Len(lines) : lines[i] \in Parsed
  BY <1>1 DEF Line
<1> QED
  BY <1>2

\* A file that a header comes first in keeps it first.
LEMMA HeaderStays ==
    ASSUME NEW a \in Seq(Line), NEW b \in Seq(Line), HeaderFirst(a), Valid(a) # <<>>
    PROVE  HeaderFirst(a \o b) /\ Valid(a \o b) # <<>>
<1>1. Valid(a \o b) = Valid(a) \o Valid(b)
  BY SelectedConcat DEF Valid
<1>2. Valid(a) \in Seq(Parsed) /\ Valid(b) \in Seq(Parsed)
  BY ValidType
<1>3. Valid(a)[1] = Header
  BY DEF HeaderFirst
<1> DEFINE v == Valid(a)  w == Valid(b)
<1> HIDE DEF v, w
<1>4. v # <<>> /\ v \in Seq(Parsed) /\ w \in Seq(Parsed) /\ v[1] = Header
  BY <1>2, <1>3 DEF v, w
<1>5. Len(v) > 0 /\ Len(v) \in Nat /\ Len(w) \in Nat
  BY <1>4
<1>6. 1 \in 1..(Len(v) + Len(w)) /\ 1 <= Len(v)
  BY <1>5
<1>7. (v \o w)[1] = v[1] /\ v \o w # <<>>
  BY <1>4, <1>5, <1>6
<1>8. Valid(a \o b) = v \o w
  BY <1>1 DEF v, w
<1> QED
  BY <1>4, <1>7, <1>8 DEF HeaderFirst

\* Entries behind a header.
Starts(es) == es # <<>> /\ es[1] = Header

LEMMA StartsFirst ==
    ASSUME NEW es \in Seq(Parsed), Starts(es)
    PROVE  HeaderFirst(es) /\ Valid(es) # <<>>
BY ValidAll DEF Starts, HeaderFirst

LEMMA TornFirst == HeaderFirst(<<>>) /\ HeaderFirst(<<Torn>>)
<1>1. Valid(<<>>) = <<>>
  BY SelectedEmpty DEF Valid
<1>2. Torn \notin Entries \cup {Header}
  BY Lineup
<1>3. Valid(<<Torn>>) = <<>>
  BY <1>2, SelectedOne DEF Valid
<1> QED
  BY <1>1, <1>3 DEF HeaderFirst

\* So does what a kill leaves of them.
LEMMA CutShort ==
    ASSUME NEW es \in Seq(Parsed), NEW n \in 0..Len(es)
    PROVE  LET whole == SubSeq(es, 1, n)
           IN  /\ whole \in Seq(Parsed) /\ whole \in Seq(Line)
               /\ Append(whole, Torn) \in Seq(Line) /\ Append(whole, Torn) # <<>>
               /\ Starts(es) => HeaderFirst(whole) /\ HeaderFirst(Append(whole, Torn))
<1> DEFINE whole == SubSeq(es, 1, n)
<1>1. n \in Nat /\ n <= Len(es) /\ Len(es) \in Nat /\ \A i \in 1..n : i \in 1..Len(es)
  OBVIOUS
<1>2. \A i \in 1..n : es[i] \in Parsed
  BY <1>1
<1>3. whole \in Seq(Parsed) /\ Len(whole) = n /\ \A i \in 1..n : whole[i] = es[i]
  BY <1>1, <1>2, SubSeqProperties
<1> HIDE DEF whole
<1>4. Torn \in Line /\ Parsed \subseteq Line
  BY DEF Line
<1>5. whole \in Seq(Line)
  BY <1>3, <1>4
<1>6. Append(whole, Torn) \in Seq(Line) /\ Append(whole, Torn) # <<>>
  BY <1>4, <1>5
<1>7. ASSUME Starts(es) PROVE HeaderFirst(whole) /\ HeaderFirst(Append(whole, Torn))
  <2>1. CASE n = 0
    <3>1. whole = <<>> /\ Append(whole, Torn) = <<Torn>>
      BY <1>3, <2>1
    <3> QED
      BY <3>1, TornFirst, Zenon
  <2>2. CASE n # 0
    <3>1. Starts(whole)
      BY <1>1, <1>3, <1>7, <2>2 DEF Starts
    <3>2. HeaderFirst(whole) /\ Valid(whole) # <<>>
      BY <1>3, <3>1, StartsFirst
    <3> DEFINE torn == <<Torn>>
    <3>3. torn \in Seq(Line) /\ Append(whole, Torn) = whole \o torn
      BY <1>4, <1>5
    <3> HIDE DEF torn
    <3>4. HeaderFirst(whole \o torn)
      BY <1>5, <3>2, <3>3, HeaderStays
    <3> QED
      BY <3>2, <3>3, <3>4, Zenon
  <2> QED
    BY <2>1, <2>2
<1> QED
  BY <1>3, <1>5, <1>6, <1>7 DEF whole

-------------------------------------------------------------------------------
(* Branches. *)

\* getBranch ends, as parents are older: it goes on behind the branch of the
\* parent where the parent is found, and begins there where it is not.
LEMMA BranchStep ==
    ASSUME NEW index, DOMAIN index \subseteq Ids,
           \A id \in DOMAIN index : index[id] \in Ranked /\ index[id].id = id
    PROVE  \A id : Branch(index, id) =
               IF id \in DOMAIN index
               THEN IF index[id].parent \in DOMAIN index
                    THEN Append(Branch(index, index[id].parent), index[id])
                    ELSE <<index[id]>>
               ELSE <<>>
<1> DEFINE D == DOMAIN index
           Step(p) == [e \in D |-> IF index[e].parent \in D
                                   THEN Append(p[index[e].parent], index[e])
                                   ELSE <<index[e]>>]
           path == CHOOSE p : p = Step(p)
<1> USE BoundAssumption
<1>1. \A id \in D : /\ id \in 1..MaxId /\ index[id].parent < id
                    /\ index[id].parent \in Ids \cup {NoEntry}
  <2> SUFFICES ASSUME NEW id \in D
               PROVE  /\ id \in 1..MaxId /\ index[id].parent < id
                      /\ index[id].parent \in Ids \cup {NoEntry}
    OBVIOUS
  <2>1. id \in 1..MaxId /\ index[id].id = id /\ index[id] \in Entries
        /\ index[id].parent < index[id].id
    BY DEF Ids, Ranked
  <2> QED
    BY <2>1 DEF Entries, EntriesOfKind
<1>2. D \subseteq 1..MaxId
  BY <1>1
\* As far as k there is such a function.
<1> DEFINE Below(k) == {e \in D : e < k}
           Climbs(p, k) == \A e \in Below(k) : p[e] = IF index[e].parent \in D
                                                      THEN Append(p[index[e].parent], index[e])
                                                      ELSE <<index[e]>>
           Exists == {k \in Nat : \E p \in [D -> Seq(Ranked)] : Climbs(p, k)}
<1>3. 1 \in Exists
  <2> DEFINE p == [e \in D |-> <<>>]
  <2>1. p \in [D -> Seq(Ranked)]
    OBVIOUS
  <2>2. Below(1) = {}
    BY <1>2
  <2> HIDE DEF p
  <2> QED
    BY <2>1, <2>2
<1>4. ASSUME NEW k \in 1..MaxId, k \in Exists PROVE k + 1 \in Exists
  <2>1. k \in Nat /\ k + 1 \in Nat
    OBVIOUS
  <2>2. PICK p \in [D -> Seq(Ranked)] : Climbs(p, k)
    BY <1>4
  <2>3. CASE k \notin D
    <3>1. Below(k + 1) = Below(k)
      BY <1>2, <2>1, <2>3
    <3> QED
      BY <2>1, <2>2, <3>1
  <2>4. CASE k \in D
    <3> DEFINE last == IF index[k].parent \in D THEN Append(p[index[k].parent], index[k]) ELSE <<index[k]>>
               q == [e \in D |-> IF e = k THEN last ELSE p[e]]
    <3>1. last \in Seq(Ranked)
      <4>1. index[k] \in Ranked
        BY <1>1, <2>4
      <4>2. ASSUME index[k].parent \in D PROVE p[index[k].parent] \in Seq(Ranked)
        BY <4>2
      <4> QED
        BY <4>1, <4>2
    <3> HIDE DEF last
    <3>2. q \in [D -> Seq(Ranked)]
      BY <3>1
    <3>3. \A e \in D : q[e] = IF e = k THEN last ELSE p[e]
      OBVIOUS
    <3> HIDE DEF q
    <3>4. Climbs(q, k + 1)
      <4> SUFFICES ASSUME NEW e \in D, e < k + 1
                   PROVE  q[e] = IF index[e].parent \in D
                                 THEN Append(q[index[e].parent], index[e]) ELSE <<index[e]>>
        OBVIOUS
      <4>1. e \in Nat /\ (e = k \/ e < k) /\ index[e].parent < e
        BY <1>1, <1>2, <2>1
      <4>2. index[e].parent \in D => q[index[e].parent] = p[index[e].parent]
        <5> SUFFICES ASSUME index[e].parent \in D PROVE q[index[e].parent] = p[index[e].parent]
          OBVIOUS
        <5>1. index[e].parent \in Nat
          BY <1>2
        <5>2. index[e].parent # k
          BY <2>1, <4>1, <5>1
        <5> QED
          BY <3>3, <5>2
      <4>3. CASE e = k
        BY <3>3, <4>2, <4>3 DEF last
      <4>4. CASE e < k
        <5>1. e # k /\ e \in Below(k)
          BY <2>1, <4>1, <4>4
        <5>2. q[e] = p[e]
          BY <3>3, <5>1
        <5>3. p[e] = IF index[e].parent \in D THEN Append(p[index[e].parent], index[e]) ELSE <<index[e]>>
          BY <2>2, <5>1
        <5> QED
          BY <4>2, <5>2, <5>3
      <4> QED
        BY <4>1, <4>3, <4>4
    <3> QED
      BY <2>1, <3>2, <3>4
  <2> QED
    BY <2>3, <2>4
<1>5. MaxId + 1 \in Exists
  <2> HIDE DEF Exists
  <2>1. \A k \in 1..MaxId : k \in Exists => k + 1 \in Exists
    BY <1>4
  <2>2. 1..(MaxId + 1) \subseteq Exists
    BY <1>3, <2>1, Climb
  <2> QED
    BY <2>2
<1>6. \E p : p = Step(p)
  <2>1. PICK p \in [D -> Seq(Ranked)] : Climbs(p, MaxId + 1)
    BY <1>5
  <2>2. \A e \in D : e < MaxId + 1
    BY <1>2
  <2>3. \A e \in D : p[e] = IF index[e].parent \in D
                            THEN Append(p[index[e].parent], index[e]) ELSE <<index[e]>>
    BY <2>1, <2>2
  <2>4. p = [e \in D |-> p[e]]
    OBVIOUS
  <2> QED
    BY <2>3, <2>4
<1>7. path = Step(path)
  <2> HIDE DEF Step
  <2> QED
    BY <1>6
<1> HIDE DEF path
<1>8. \A e \in D : path[e] = IF index[e].parent \in D
                             THEN Append(path[index[e].parent], index[e]) ELSE <<index[e]>>
  BY <1>7
<1>9. \A id : Branch(index, id) = IF id \in D THEN path[id] ELSE <<>>
  BY DEF Branch, path
<1> HIDE DEF D
<1> SUFFICES ASSUME NEW id
             PROVE  Branch(index, id) = IF id \in D
                                        THEN IF index[id].parent \in D
                                             THEN Append(Branch(index, index[id].parent), index[id])
                                             ELSE <<index[id]>>
                                        ELSE <<>>
  BY DEF D
<1>10. CASE id \notin D
  BY <1>9, <1>10
<1>11. CASE id \in D /\ index[id].parent \notin D
  BY <1>8, <1>9, <1>11
<1>12. CASE id \in D /\ index[id].parent \in D
  <2>1. Branch(index, index[id].parent) = path[index[id].parent]
    BY <1>9, <1>12
  <2>2. Branch(index, id) = path[id]
    BY <1>9, <1>12
  <2> QED
    BY <1>8, <1>12, <2>1, <2>2
<1> QED
  BY <1>10, <1>11, <1>12

\* What an entry has when its parent has it, or has no parent in the index, every entry has.
LEMMA FromTheRoots ==
    ASSUME NEW index, DOMAIN index \subseteq Ids, \A id \in DOMAIN index : index[id].parent < id,
           NEW G, \A id \in DOMAIN index :
                      (index[id].parent \in DOMAIN index => index[id].parent \in G) => id \in G
    PROVE  DOMAIN index \subseteq G
<1> DEFINE D == DOMAIN index
           Below(k) == {e \in D : e < k}
           Climbed == {k \in Nat : Below(k) \subseteq G}
<1> USE BoundAssumption
<1>1. D \subseteq 1..MaxId
  BY DEF Ids
<1>2. 1 \in Climbed
  BY <1>1
<1>3. ASSUME NEW k \in 1..MaxId, k \in Climbed PROVE k + 1 \in Climbed
  <2> SUFFICES ASSUME NEW e \in D, e < k + 1 PROVE e \in G
    OBVIOUS
  <2>1. index[e].parent < e /\ e \in Nat /\ k \in Nat
    BY <1>1
  <2>2. ASSUME index[e].parent \in D PROVE index[e].parent \in G
    <3>1. index[e].parent \in Nat
      BY <1>1, <2>2
    <3>2. index[e].parent < k
      BY <2>1, <3>1
    <3> QED
      BY <1>3, <2>2, <3>2
  <2> QED
    BY <2>2
<1>4. 1..(MaxId + 1) \subseteq Climbed
  <2> HIDE DEF Climbed
  <2>1. \A k \in 1..MaxId : k \in Climbed => k + 1 \in Climbed
    BY <1>3
  <2> QED
    BY <1>2, <2>1, Climb
<1>5. MaxId + 1 \in Climbed
  BY <1>4
<1> QED
  BY <1>1, <1>5

\* getBranch finds entries of the index.
LEMMA BranchType ==
    ASSUME NEW index, DOMAIN index \subseteq Ids, NEW V,
           \A id \in DOMAIN index : index[id] \in V /\ index[id] \in Ranked /\ index[id].id = id
    PROVE  \A id : Branch(index, id) \in Seq(V)
<1> DEFINE D == DOMAIN index
           G == {e \in D : Branch(index, e) \in Seq(V)}
<1>1. \A e \in D : index[e] \in V /\ index[e].parent < e
  BY DEF Ranked
<1>2. \A id : Branch(index, id) = IF id \in D
                                  THEN IF index[id].parent \in D
                                       THEN Append(Branch(index, index[id].parent), index[id])
                                       ELSE <<index[id]>>
                                  ELSE <<>>
  BY BranchStep
<1>3. ASSUME NEW e \in D, index[e].parent \in D => index[e].parent \in G
      PROVE  Branch(index, e) \in Seq(V)
  <2>1. CASE index[e].parent \in D
    <3>1. Branch(index, index[e].parent) \in Seq(V)
      BY <1>3, <2>1
    <3>2. Branch(index, e) = Append(Branch(index, index[e].parent), index[e])
      BY <1>2, <2>1
    <3> QED
      BY <1>1, <3>1, <3>2
  <2>2. CASE index[e].parent \notin D
    <3>1. Branch(index, e) = <<index[e]>>
      BY <1>2, <2>2
    <3> QED
      BY <1>1, <3>1
  <2> QED
    BY <2>1, <2>2
<1>4. \A e \in D : (index[e].parent \in D => index[e].parent \in G) => e \in G
  BY <1>3
<1> HIDE DEF G
<1>5. D \subseteq G
  BY <1>1, <1>4, FromTheRoots
<1>6. \A e \in D : Branch(index, e) \in Seq(V)
  BY <1>5 DEF G
<1>7. <<>> \in Seq(V)
  OBVIOUS
<1> HIDE DEF D
<1> QED
  BY <1>2, <1>6, <1>7

\* A branch holds entries of the index, and with an entry the parent it finds there.
Closed(index, s) ==
    \A i \in DOMAIN s :
        /\ s[i].id \in DOMAIN index /\ s[i] = index[s[i].id]
        /\ s[i].parent \in DOMAIN index => \E k \in DOMAIN s : s[k].id = s[i].parent

\* It goes down to the entry it is the branch of.
LEMMA BranchEnds ==
    ASSUME NEW index, DOMAIN index \subseteq Ids,
           \A id \in DOMAIN index : index[id] \in Ranked /\ index[id].id = id,
           NEW id \in DOMAIN index
    PROVE  LET s == Branch(index, id) IN Len(s) \in Nat \ {0} /\ s[Len(s)] = index[id]
<1> DEFINE D == DOMAIN index
<1>1. Branch(index, id) = IF index[id].parent \in D
                          THEN Append(Branch(index, index[id].parent), index[id])
                          ELSE <<index[id]>>
  BY BranchStep
<1>2. Branch(index, index[id].parent) \in Seq(Ranked)
  BY BranchType
<1> DEFINE b == Branch(index, index[id].parent)  e == index[id]
<1>3. e \in Ranked
  OBVIOUS
<1> HIDE DEF b, e
<1>4. Len(Append(b, e)) \in Nat \ {0} /\ Append(b, e)[Len(Append(b, e))] = e
  BY <1>2, <1>3 DEF b
<1>5. Len(<<e>>) = 1 /\ <<e>>[1] = e
  OBVIOUS
<1> QED
  BY <1>1, <1>4, <1>5 DEF b, e

LEMMA BranchClosed ==
    ASSUME NEW index, DOMAIN index \subseteq Ids,
           \A id \in DOMAIN index : index[id] \in Ranked /\ index[id].id = id
    PROVE  \A id \in DOMAIN index : Closed(index, Branch(index, id))
<1> DEFINE D == DOMAIN index
           G == {e \in D : Closed(index, Branch(index, e))}
<1>1. \A e \in D : index[e].parent < e
  BY DEF Ranked
<1>2. ASSUME NEW e \in D, index[e].parent \in D => index[e].parent \in G
      PROVE  Closed(index, Branch(index, e))
  <2> DEFINE b == Branch(index, index[e].parent)  n == index[e]  s == Branch(index, e)
  <2>1. b \in Seq(Ranked) /\ n \in Ranked /\ n.id = e
    BY BranchType
  <2>2. CASE index[e].parent \in D
    <3>1. s = Append(b, n)
      BY <2>2, BranchStep
    <3>2. Closed(index, b)
      BY <1>2, <2>2
    <3>3. Len(b) \in Nat \ {0} /\ b[Len(b)] = index[n.parent]
      BY <2>2, BranchEnds
    <3>4. b[Len(b)].id = n.parent
      BY <2>2, <3>3
    <3> HIDE DEF b, n, s
    <3>5. /\ DOMAIN s = 1..(Len(b) + 1) /\ DOMAIN b = 1..Len(b)
          /\ s[Len(b) + 1] = n /\ \A i \in 1..Len(b) : s[i] = b[i]
      BY <2>1, <3>1
    <3>6. \A i \in DOMAIN b : i \in DOMAIN s /\ s[i] = b[i]
      BY <3>3, <3>5
    <3>7. Len(b) \in DOMAIN b
      BY <3>3, <3>5
    <3>8. \A i \in DOMAIN s : i = Len(b) + 1 \/ i \in DOMAIN b
      BY <3>3, <3>5
    <3> SUFFICES ASSUME NEW i \in DOMAIN s
                 PROVE  /\ s[i].id \in D /\ s[i] = index[s[i].id]
                        /\ s[i].parent \in D => \E k \in DOMAIN s : s[k].id = s[i].parent
      BY DEF Closed, s
    <3>9. CASE i = Len(b) + 1
      <4>1. s[i] = n /\ n.id \in D /\ n = index[n.id]
        BY <2>1, <3>5, <3>9 DEF n
      <4>2. s[Len(b)].id = n.parent
        BY <3>4, <3>6, <3>7
      <4> QED
        BY <3>6, <3>7, <4>1, <4>2
    <3>10. CASE i \in DOMAIN b
      BY <3>2, <3>6, <3>10 DEF Closed
    <3> QED
      BY <3>8, <3>9, <3>10
  <2>3. CASE index[e].parent \notin D
    <3>1. s = <<n>>
      BY <2>3, BranchStep
    <3>2. n.parent \notin D /\ n = index[n.id] /\ n.id \in D
      BY <2>1, <2>3
    <3> HIDE DEF n, s
    <3>3. \A i \in DOMAIN s : s[i] = n
      BY <3>1
    <3>4. Closed(index, s)
      BY <3>2, <3>3 DEF Closed
    <3> QED
      BY <3>4 DEF s
  <2> QED
    BY <2>2, <2>3
<1>3. \A e \in D : (index[e].parent \in D => index[e].parent \in G) => e \in G
  BY <1>2
<1> HIDE DEF G
<1>4. D \subseteq G
  BY <1>1, <1>3, FromTheRoots
<1> QED
  BY <1>4 DEF G

\* Two indexes with the same entries in C, and no parent of them outside of C,
\* have the same branches of them.
LEMMA BranchSame ==
    ASSUME NEW index, DOMAIN index \subseteq Ids,
           \A id \in DOMAIN index : index[id] \in Ranked /\ index[id].id = id,
           NEW other, DOMAIN other \subseteq Ids,
           \A id \in DOMAIN other : other[id] \in Ranked /\ other[id].id = id,
           NEW C, C \subseteq DOMAIN index, C \subseteq DOMAIN other, \A c \in C : other[c] = index[c],
           \A c \in C : index[c].parent \in DOMAIN index => index[c].parent \in C,
           \A c \in C : index[c].parent \in DOMAIN other => index[c].parent \in C
    PROVE  \A c \in C : Branch(other, c) = Branch(index, c)
<1> DEFINE D == DOMAIN index
           G == {e \in D : e \in C => Branch(other, e) = Branch(index, e)}
<1>1. \A e \in D : index[e].parent < e
  BY DEF Ranked
<1>2. ASSUME NEW e \in C, index[e].parent \in D => index[e].parent \in G
      PROVE  Branch(other, e) = Branch(index, e)
  <2>1. e \in D /\ e \in DOMAIN other /\ other[e] = index[e]
    OBVIOUS
  <2>2. CASE index[e].parent \in D
    <3>1. index[e].parent \in C /\ index[e].parent \in DOMAIN other
      BY <2>2
    <3>2. Branch(other, index[e].parent) = Branch(index, index[e].parent)
      BY <1>2, <2>2, <3>1
    <3>3. Branch(index, e) = Append(Branch(index, index[e].parent), index[e])
      BY <2>1, <2>2, BranchStep
    <3>4. Branch(other, e) = Append(Branch(other, other[e].parent), other[e])
      BY <2>1, <3>1, BranchStep
    <3> QED
      BY <2>1, <3>2, <3>3, <3>4
  <2>3. CASE index[e].parent \notin D
    <3>1. index[e].parent \notin DOMAIN other
      BY <2>3
    <3>2. Branch(index, e) = <<index[e]>>
      BY <2>1, <2>3, BranchStep
    <3>3. Branch(other, e) = <<other[e]>>
      BY <2>1, <3>1, BranchStep
    <3> QED
      BY <2>1, <3>2, <3>3
  <2> QED
    BY <2>2, <2>3
<1>3. \A e \in D : (index[e].parent \in D => index[e].parent \in G) => e \in G
  BY <1>2
<1> HIDE DEF G
<1>4. D \subseteq G
  BY <1>1, <1>3, FromTheRoots
<1> QED
  BY <1>4 DEF G

-------------------------------------------------------------------------------
(* New ids and files. *)

LEMMA FreshIdType ==
    ASSUME TreeInv
    PROVE  /\ FreshId \in Nat /\ FreshId >= 1
           /\ \A i \in DOMAIN fileEntries : fileEntries[i].id < FreshId
           /\ \A id \in DOMAIN byId : id < FreshId
<1> DEFINE S == {NoEntry} \cup Used
<1> USE BoundAssumption
<1>1. Used \subseteq Ids \cup {NoEntry}
  <2>1. \A e \in Line : e.id \in Ids \cup {NoEntry}
    BY Lineup DEF Line, Torn, Entry
  <2>2. Range(fileEntries) \subseteq Line
    BY DEF TreeInv, StoreTypes, Line, Range
  <2>3. \A f \in DOMAIN disk : Range(disk[f]) \subseteq Line
    BY DEF TreeInv, StoreTypes, DiskOK, Range
  <2> QED
    BY <2>1, <2>2, <2>3 DEF Used
<1>2. S \in SUBSET (0..MaxId) /\ S # {}
  BY <1>1 DEF Ids, NoEntry
<1>3. \A i \in DOMAIN fileEntries : fileEntries[i].id \in S
  BY DEF Used, Range
<1> HIDE DEF S
<1>4. Max(S) \in 0..MaxId /\ \A i \in S : i <= Max(S)
  BY <1>2, MaxOf
<1>5. FreshId = 1 + Max(S)
  BY DEF FreshId, S
<1> DEFINE m == Max(S)
<1> HIDE DEF m
<1>6. m \in Nat /\ FreshId = 1 + m /\ \A i \in S : i \in Nat /\ i <= m
  BY <1>2, <1>4, <1>5 DEF m
<1>7. \A i \in DOMAIN fileEntries : fileEntries[i].id < FreshId
  BY <1>3, <1>6
<1>8. \A id \in DOMAIN byId : id < FreshId
  <2> SUFFICES ASSUME NEW id \in DOMAIN byId PROVE id < FreshId
    OBVIOUS
  <2>1. fileEntries \in Seq(Parsed) /\ byId = Index(fileEntries)
    BY DEF TreeInv, StoreTypes, Indexed
  <2>2. PICK i \in DOMAIN fileEntries : byId[id] = fileEntries[i] /\ byId[id].id = id
    BY <2>1, IndexHolds
  <2> QED
    BY <1>7, <2>2
<1> QED
  BY <1>6, <1>7, <1>8

LEMMA FreshFileType ==
    ASSUME Unwritten # {}
    PROVE  FreshFile \in Files /\ FreshFile \notin DOMAIN disk /\ FreshFile # NoFile /\ FreshFile # sessionFile
<1>1. Unwritten \subseteq Files /\ Files \subseteq Nat \ {NoFile}
  BY FilesAssumption DEF Unwritten
<1>2. FreshFile \in Unwritten
  BY <1>1, MinOf DEF FreshFile
<1> QED
  BY <1>1, <1>2 DEF Unwritten

LEMMA LinesType ==
    ASSUME DiskOK, NEW f
    PROVE  Lines(f) \in Seq(Line)
<1>1. <<>> \in Seq(Line)
  OBVIOUS
<1> QED
  BY <1>1 DEF DiskOK, Lines

\* What is written to a file is written behind what was there, and nowhere else.
LEMMA WrittenIs ==
    ASSUME DiskOK, NEW f \in Files, NEW batch \in Seq(Line), batch # <<>>
    PROVE  \E more \in Seq(Line) :
               /\ Written(f, batch) = With(disk, f, Lines(f) \o more)
               /\ Lines(f) = <<>> \/ Torn \notin ToSet(Lines(f)) => more = batch
<1> DEFINE glued == Lines(f) # <<>> /\ Last(Lines(f)) = Torn
           more == IF glued THEN Tail(batch) ELSE batch
<1>1. more \in Seq(Line)
  OBVIOUS
<1>2. Lines(f) \in Seq(Line)
  BY LinesType
<1>3. ASSUME Torn \notin ToSet(Lines(f)) PROVE ~glued
  <2> SUFFICES ASSUME Lines(f) # <<>> PROVE Last(Lines(f)) # Torn
    OBVIOUS
  <2>1. Len(Lines(f)) \in DOMAIN Lines(f)
    BY <1>2
  <2> QED
    BY <1>3, <2>1 DEF ToSet, Last
<1>4. Written(f, batch) = With(disk, f, Lines(f) \o more)
  BY DEF Written
<1>5. Lines(f) = <<>> \/ Torn \notin ToSet(Lines(f)) => more = batch
  BY <1>3
<1> HIDE DEF more
<1> QED
  BY <1>1, <1>4, <1>5

LEMMA WithIs ==
    ASSUME NEW map, NEW key, NEW value
    PROVE  /\ DOMAIN With(map, key, value) = DOMAIN map \cup {key}
           /\ With(map, key, value)[key] = value
           /\ \A k \in DOMAIN map : k # key => With(map, key, value)[k] = map[k]
BY DEF With

LEMMA WrittenType ==
    ASSUME DiskOK, NEW f \in Files, NEW batch \in Seq(Line), disk' = Written(f, batch)
    PROVE  DiskOK'
<1>1. CASE batch = <<>>
  BY <1>1 DEF Written, DiskOK
<1>2. CASE batch # <<>>
  <2>1. PICK more \in Seq(Line) : disk' = With(disk, f, Lines(f) \o more)
    BY <1>2, WrittenIs
  <2>2. Lines(f) \o more \in Seq(Line)
    BY LinesType
  <2> DEFINE l == Lines(f) \o more
  <2> HIDE DEF l
  <2> QED
    BY <2>1, <2>2 DEF DiskOK, With, l
<1> QED
  BY <1>1, <1>2

-------------------------------------------------------------------------------
(* The tree and its indexes. *)

LEMMA ReadEmpty == Index(<<>>) = Empty /\ LabelsOf(<<>>) = Empty
<1>1. <<>> \in Seq(Parsed)
  OBVIOUS
<1>2. \A K : PlacesOf(<<>>, K) = {}
  BY DEF PlacesOf
<1>3. {i \in Ids : PlacesOf(<<>>, WithId(i)) # {}} = {}
  BY <1>2
<1>4. {t \in Ids : PlacesOf(<<>>, LabelsFor(t)) # {} /\ Latest(<<>>, LabelsFor(t)).label # NoLabel} = {}
  BY <1>2
<1>5. Index(<<>>) = [id \in {i \in Ids : PlacesOf(<<>>, WithId(i)) # {}} |-> Latest(<<>>, WithId(id))]
  BY <1>1, IndexIs
<1>6. LabelsOf(<<>>) = [target \in {t \in Ids : /\ PlacesOf(<<>>, LabelsFor(t)) # {}
                                                /\ Latest(<<>>, LabelsFor(t)).label # NoLabel} |->
                          Latest(<<>>, LabelsFor(target)).label]
  BY <1>1, LabelsIs
<1>7. \A f : [x \in {} |-> f[x]] = <<>>
  OBVIOUS
<1>8. Index(<<>>) = <<>>
  BY <1>3, <1>5
<1>9. LabelsOf(<<>>) = <<>>
  <2> DEFINE es == <<>>
  <2> HIDE DEF es
  <2>1. LabelsOf(es) = [target \in {} |-> Latest(es, LabelsFor(target)).label]
    BY <1>4, <1>6 DEF es
  <2>2. LabelsOf(es) = <<>>
    BY <2>1
  <2> QED
    BY <2>2 DEF es
<1> QED
  BY <1>8, <1>9 DEF Empty

LEMMA ReadHeader ==
    /\ <<Header>> \in Seq(Parsed) /\ Starts(<<Header>>)
    /\ Index(<<Header>>) = Empty /\ LabelsOf(<<Header>>) = Empty
<1> DEFINE es == <<Header>>
<1>1. es \in Seq(Parsed) /\ es[1] = Header /\ es # <<>> /\ DOMAIN es = {1}
  BY DEF Parsed
<1> HIDE DEF es
<1>2. \A i \in Ids : PlacesOf(es, WithId(i)) = {}
  BY <1>1, Lineup DEF PlacesOf, WithId, Ids, NoEntry
<1>3. \A t \in Ids : PlacesOf(es, LabelsFor(t)) = {}
  BY <1>1, Lineup DEF PlacesOf, LabelsFor
<1>4. {i \in Ids : PlacesOf(es, WithId(i)) # {}} = {}
  BY <1>2
<1>5. {t \in Ids : PlacesOf(es, LabelsFor(t)) # {} /\ Latest(es, LabelsFor(t)).label # NoLabel} = {}
  BY <1>3
<1>6. Index(es) = [id \in {i \in Ids : PlacesOf(es, WithId(i)) # {}} |-> Latest(es, WithId(id))]
  BY <1>1, IndexIs
<1>7. LabelsOf(es) = [target \in {t \in Ids : /\ PlacesOf(es, LabelsFor(t)) # {}
                                              /\ Latest(es, LabelsFor(t)).label # NoLabel} |->
                        Latest(es, LabelsFor(target)).label]
  BY <1>1, LabelsIs
<1>8. Index(es) = <<>>
  BY <1>4, <1>6
<1>9. LabelsOf(es) = <<>>
  BY <1>5, <1>7
<1> QED
  BY <1>1, <1>8, <1>9 DEF Empty, Starts, es

LEMMA InitTree == Init => TreeInv
<1> SUFFICES ASSUME Init PROVE TreeInv
  OBVIOUS
<1>1. <<>> \in Seq(Line) /\ <<>> \in Seq(Parsed) /\ DOMAIN <<>> = {}
  OBVIOUS
<1>2. DiskOK
  <2>1. CASE disk = Empty
    BY <1>1, <2>1 DEF DiskOK, Empty
  <2>2. CASE disk = With(Empty, Min(Files), <<>>)
    <3>1. Min(Files) \in Files
      BY FilesAssumption, MinOf
    <3> DEFINE least == Min(Files)  e == Empty
    <3>2. least \in Files /\ DOMAIN e = {}
      BY <1>1, <3>1 DEF Empty
    <3> HIDE DEF least, e
    <3>3. disk = [k \in {least} |-> <<>>]
      BY <2>2, <3>2 DEF With, least, e
    <3> QED
      BY <1>1, <3>2, <3>3 DEF DiskOK
  <2> QED
    BY <2>1, <2>2 DEF Init
<1>3. StoreTypes
  BY <1>1, <1>2 DEF Init, StoreTypes
<1>4. Indexed
  BY ReadEmpty DEF Init, Indexed, Empty
<1>5. Headed
  BY DEF Init, Headed, Running
<1> QED
  BY <1>3, <1>4, <1>5 DEF TreeInv

LEMMA DownTree ==
    ASSUME Down, DiskOK', snapshots' \subseteq Files
    PROVE  TreeInv'
<1>1. <<>> \in Seq(Parsed)
  OBVIOUS
<1>2. StoreTypes'
  BY <1>1 DEF Down, StoreTypes
<1>3. Indexed'
  BY ReadEmpty DEF Down, Indexed
<1>4. Headed'
  BY DEF Down, Headed, Running
<1> QED
  BY <1>2, <1>3, <1>4 DEF TreeInv

LEMMA ResetTree ==
    ASSUME NEW f \in Files, NEW isFlushed \in BOOLEAN, Reset(f, isFlushed), DiskOK', snapshots' \subseteq Files
    PROVE  TreeInv'
<1>1. f # NoFile
  BY FilesAssumption
<1>2. StoreTypes'
  BY ReadHeader DEF Reset, StoreTypes
<1>3. Indexed'
  BY ReadHeader DEF Reset, Indexed
<1>4. Headed'
  BY <1>1 DEF Reset, Headed, Running
<1> QED
  BY <1>2, <1>3, <1>4 DEF TreeInv

LEMMA LoadedTree ==
    ASSUME NEW f \in Files, NEW es \in Seq(Parsed), Starts(es), Loaded(f, es), DiskOK', snapshots' \subseteq Files
    PROVE  TreeInv'
<1>1. f # NoFile
  BY FilesAssumption
<1>2. StoreTypes'
  BY DEF Loaded, StoreTypes
<1>3. Indexed'
  BY LeafHolds DEF Loaded, Indexed
<1>4. Headed'
  BY <1>1 DEF Loaded, Headed, Running, Starts
<1> QED
  BY <1>2, <1>3, <1>4 DEF TreeInv

LEMMA KilledTree ==
    ASSUME DiskOK, NEW f \in Files, NEW batch \in Seq(Parsed), Killed(f, batch), snapshots' \subseteq Files
    PROVE  TreeInv'
<1>1. PICK n \in 0..Len(batch) : \/ disk' = Written(f, SubSeq(batch, 1, n))
                                 \/ disk' = Written(f, Append(SubSeq(batch, 1, n), Torn))
  BY DEF Killed
<1>2. SubSeq(batch, 1, n) \in Seq(Line) /\ Append(SubSeq(batch, 1, n), Torn) \in Seq(Line)
  BY CutShort
<1>3. DiskOK'
  BY <1>1, <1>2, WrittenType
<1> QED
  BY <1>3, DownTree DEF Killed

LEMMA BatchType ==
    ASSUME NEW es \in Seq(Parsed), NEW e \in Ranked
    PROVE  Batch(es, e) \in Seq(Parsed) /\ Batch(es, e) \in Seq(Line)
<1>1. e \in Parsed /\ Parsed \subseteq Line
  BY Lineup
<1>2. Batch(es, e) \in Seq(Parsed)
  BY <1>1 DEF Batch
<1>3. \A s \in Seq(Parsed) : s \in Seq(Line)
  BY <1>1
<1> QED
  BY <1>2, <1>3

LEMMA AppendTree ==
    ASSUME TreeInv, Running, NEW e \in Ranked, NEW labels, AppendEntry(e, labels),
           labels = LabelsOf(Append(fileEntries, e))
    PROVE  TreeInv'
<1> DEFINE es == Append(fileEntries, e)
<1>1. /\ DiskOK /\ sessionFile \in Files /\ fileEntries \in Seq(Parsed) /\ snapshots \subseteq Files
      /\ snapshots' = snapshots /\ fileEntries # <<>> /\ fileEntries[1] = Header
  BY DEF TreeInv, StoreTypes, Headed, Running, AppendEntry
<1>2. es \in Seq(Parsed) /\ es # <<>> /\ es[1] = Header
  BY <1>1, Lineup
<1>3. Batch(es, e) \in Seq(Parsed) /\ Batch(es, e) \in Seq(Line)
  BY <1>2, BatchType
<1>4. CASE Killed(sessionFile, Batch(es, e))
  BY <1>1, <1>3, <1>4, KilledTree
<1>5. CASE /\ fileEntries' = es
           /\ byId' = With(byId, e.id, e)
           /\ leafId' = e.id
           /\ labelsById' = labels
           /\ flushed' = HasAssistant(es)
           /\ disk' = Written(sessionFile, Batch(es, e))
           /\ UNCHANGED sessionFile
  <2>1. DiskOK'
    BY <1>1, <1>3, <1>5, WrittenType
  <2>2. HasAssistant(es) \in BOOLEAN
    BY DEF HasAssistant
  <2>3. StoreTypes'
    BY <1>1, <1>2, <1>5, <2>1, <2>2 DEF StoreTypes
  <2>4. byId = Index(fileEntries)
    BY DEF TreeInv, Indexed
  <2>5. Index(es) = With(byId, e.id, e)
    BY <1>1, <2>4, IndexAppend
  <2> HIDE DEF es
  <2>6. e.id \in DOMAIN With(byId, e.id, e)
    BY DEF With
  <2>7. Indexed'
    BY <1>5, <2>5, <2>6 DEF Indexed, es
  <2>8. Headed'
    BY <1>2, <1>5 DEF Headed, Running
  <2> QED
    BY <2>3, <2>7, <2>8 DEF TreeInv
<1> HIDE DEF es
<1> QED
  BY <1>4, <1>5 DEF AppendEntry, es

\* The entries that the append methods make.
Makes(e, kind, ref, label) == e \in Ranked /\ e.kind = kind /\ e.ref = ref /\ e.label = label

LEMMA NewEntry ==
    ASSUME TreeInv, Room(1), NEW parent \in DOMAIN byId \cup {NoEntry}, NEW kind \in AllKinds,
           NEW ref \in Ids \cup {NoEntry}, NEW label \in Labels \cup {NoLabel}
    PROVE  Makes(Entry(FreshId, parent, kind, ref, label), kind, ref, label)
<1> DEFINE e == Entry(FreshId, parent, kind, ref, label)
<1> USE BoundAssumption
<1>1. FreshId \in Nat /\ FreshId >= 1 /\ \A id \in DOMAIN byId : id < FreshId
  BY FreshIdType
<1>2. FreshId \in Ids
  BY <1>1 DEF Room, Ids
<1>3. parent < FreshId
  BY <1>1 DEF NoEntry
<1>4. DOMAIN byId \subseteq Ids
  BY IndexHolds DEF TreeInv, StoreTypes, Indexed
<1>5. /\ e = [id |-> FreshId, parent |-> parent, kind |-> kind, ref |-> ref, label |-> label]
  BY DEF Entry
<1>6. e \in Entries
  BY <1>2, <1>4, <1>5 DEF Entries, EntriesOfKind
<1>7. e.id = FreshId /\ e.parent = parent /\ e.kind = kind /\ e.ref = ref /\ e.label = label
  BY <1>5
<1> HIDE DEF e
<1> QED
  BY <1>3, <1>6, <1>7 DEF Ranked, Makes, e

-------------------------------------------------------------------------------
(* Forks. *)

\* What createBranchedSession writes: the header, the kept entries of the path
\* and the label entries, one for every label set on them.
Copies(es, kept, tail, targets) ==
    /\ es = <<Header>> \o kept \o tail
    /\ kept \in Seq({e \in Ranked : e.id < FreshId /\ e.kind # "label"})
    /\ targets \in SetToSeqs(LabelsToWrite(kept))
    /\ tail = [i \in DOMAIN targets |-> LabelEntry(targets, i, LeafOf(kept))]

LEMMA KeptType ==
    ASSUME TreeInv, NEW id
    PROVE  Kept(Branch(byId, id)) \in Seq({e \in Ranked : e.id < FreshId /\ e.kind # "label"})
<1> DEFINE V == {e \in Ranked : e.id < FreshId}
           K == EntriesOfKind(AllKinds \ {"label"})
           W == {e \in Ranked : e.id < FreshId /\ e.kind # "label"}
<1>1. /\ DOMAIN byId \subseteq Ids
      /\ \A i \in DOMAIN byId : byId[i] \in Ranked /\ byId[i].id = i
  BY IndexHolds DEF TreeInv, StoreTypes, Indexed
<1>2. \A i \in DOMAIN byId : byId[i] \in V /\ byId[i] \in Ranked /\ byId[i].id = i
  BY <1>1, FreshIdType
<1> HIDE DEF V
<1>3. Branch(byId, id) \in Seq(V)
  BY <1>1, <1>2, BranchType
<1>4. V \cap K \subseteq W
  BY DEF V, EntriesOfKind
<1> HIDE DEF K, W
<1>5. Selected(Branch(byId, id), K) \in Seq(V \cap K)
  BY <1>3, SelectedType
<1>6. Selected(Branch(byId, id), K) \in Seq(W)
  BY <1>4, <1>5
<1> QED
  BY <1>6 DEF Kept, K, W

LEMMA BranchedCopies ==
    ASSUME TreeInv, NEW id, NEW es \in BranchedEntries(id)
    PROVE  \E tail, targets : Copies(es, Kept(Branch(byId, id)), tail, targets)
<1> DEFINE kept == Kept(Branch(byId, id))
           tail(targets) == [i \in DOMAIN targets |-> LabelEntry(targets, i, LeafOf(kept))]
<1>1. PICK targets \in SetToSeqs(LabelsToWrite(kept)) : es = <<Header>> \o kept \o tail(targets)
  BY DEF BranchedEntries
<1>2. kept \in Seq({e \in Ranked : e.id < FreshId /\ e.kind # "label"})
  BY KeptType
<1> HIDE DEF kept
<1>3. Copies(es, kept, tail(targets), targets)
  BY <1>1, <1>2 DEF Copies
<1> QED
  BY <1>3 DEF kept

LEMMA CopiesType ==
    ASSUME TreeInv, NEW es, NEW kept, NEW tail, NEW targets, Copies(es, kept, tail, targets),
           \A e \in Range(es) : e.id <= MaxId
    PROVE  /\ es \in Seq(Parsed) /\ Starts(es)
           /\ kept \in Seq(Parsed) /\ tail \in Seq(Ranked) /\ Len(tail) = Cardinality(LabelsToWrite(kept))
           /\ targets \in [1..Cardinality(LabelsToWrite(kept)) -> LabelsToWrite(kept)]
           /\ \A i \in 1..Len(tail) : /\ tail[i].kind = "label" /\ tail[i].ref = targets[i]
                                      /\ tail[i].label = labelsById[targets[i]]
<1> DEFINE n == Cardinality(LabelsToWrite(kept))
           W == {e \in Ranked : e.id < FreshId /\ e.kind # "label"}
<1> USE BoundAssumption
<1>1. /\ kept \in Seq(W) /\ es = (<<Header>> \o kept) \o tail
      /\ targets \in [1..n -> LabelsToWrite(kept)]
      /\ tail = [i \in DOMAIN targets |-> LabelEntry(targets, i, LeafOf(kept))]
  BY DEF Copies, SetToSeqs
<1>2. W \subseteq Parsed
  BY Lineup
<1>3. kept \in Seq(Parsed)
  BY <1>1, <1>2
<1>4. FreshId \in Nat /\ FreshId >= 1
  BY FreshIdType
<1>5. LeafOf(kept) \in Ids \cup {NoEntry} /\ LeafOf(kept) < FreshId
  <2>1. CASE LeafOf(kept) = NoEntry
    BY <1>4, <2>1 DEF NoEntry
  <2>2. CASE LeafOf(kept) # NoEntry
    <3>1. PICK i \in DOMAIN kept : LeafOf(kept) = kept[i].id
      BY <1>3, <2>2, LeafHolds
    <3>2. kept[i] \in W
      BY <1>1
    <3> QED
      BY <3>1, <3>2, Lineup
  <2> QED
    BY <2>1, <2>2
<1>6. n \in Nat
  <2>1. IsFiniteSet(DOMAIN labelsById)
    <3>1. DOMAIN labelsById \subseteq Ids
      BY LabelsHold DEF TreeInv, StoreTypes, Indexed
    <3>2. IsFiniteSet(Ids)
      BY FS_Interval DEF Ids
    <3> QED
      BY <3>1, <3>2, FS_Subset
  <2>2. LabelsToWrite(kept) \subseteq DOMAIN labelsById
    BY DEF LabelsToWrite
  <2>3. IsFiniteSet(LabelsToWrite(kept))
    BY <2>1, <2>2, FS_Subset
  <2> QED
    BY <2>3, FS_CardinalityType
<1> HIDE DEF n
<1>7. tail = [i \in 1..n |-> LabelEntry(targets, i, LeafOf(kept))]
  BY <1>1
<1>8. \A i \in 1..n : tail[i] = LabelEntry(targets, i, LeafOf(kept))
  BY <1>7
<1>9. \A i \in 1..n : targets[i] \in DOMAIN labelsById /\ targets[i] \in Ids /\ labelsById[targets[i]] \in Labels
  <2>1. DOMAIN labelsById \subseteq Ids /\ \A t \in DOMAIN labelsById : labelsById[t] \in Labels
    BY LabelsHold DEF TreeInv, StoreTypes, Indexed
  <2> QED
    BY <1>1, <2>1 DEF LabelsToWrite
<1>10. DOMAIN tail = 1..n /\ tail \in Seq({tail[i] : i \in 1..n}) /\ Len(tail) = n
  BY <1>6, <1>7
<1>11. \A i \in 1..n : tail[i] \in Range(es)
  <2>1. <<Header>> \o kept \in Seq(Parsed)
    BY <1>3, ReadHeader
  <2> DEFINE a == <<Header>> \o kept
             T == {tail[i] : i \in 1..n} \cup Parsed
  <2>2. a \in Seq(T) /\ tail \in Seq(T)
    BY <1>10, <2>1
  <2> HIDE DEF a, T
  <2>7. /\ a \o tail \in Seq(T) /\ Len(a \o tail) = Len(a) + Len(tail)
        /\ \A i \in 1..(Len(a) + Len(tail)) : (a \o tail)[i] = IF i <= Len(a) THEN a[i] ELSE tail[i - Len(a)]
    BY <2>2, ConcatProperties
  <2>8. Len(a) \in Nat /\ Len(tail) = n
    BY <1>10, <2>2
  <2>3. /\ Len(a) \in Nat /\ a \o tail \in Seq(T) /\ Len(a \o tail) = Len(a) + n
        /\ \A i \in 1..(Len(a) + n) : (a \o tail)[i] = IF i <= Len(a) THEN a[i] ELSE tail[i - Len(a)]
    BY <2>7, <2>8
  <2> SUFFICES ASSUME NEW i \in 1..n PROVE tail[i] \in Range(es)
    OBVIOUS
  <2> DEFINE j == Len(a) + i
  <2>4. j \in 1..(Len(a) + n) /\ ~(j <= Len(a)) /\ j - Len(a) = i
    BY <1>6, <2>3
  <2> HIDE DEF j
  <2>5. (a \o tail)[j] = tail[i] /\ j \in DOMAIN (a \o tail)
    BY <1>6, <2>3, <2>4
  <2>6. es = a \o tail
    BY <1>1 DEF a
  <2> HIDE DEF a
  <2> QED
    BY <2>5, <2>6 DEF Range
<1>12. ASSUME NEW i \in 1..n
       PROVE  /\ tail[i] \in Ranked /\ tail[i].kind = "label" /\ tail[i].ref = targets[i]
              /\ tail[i].label = labelsById[targets[i]]
  <2> DEFINE parent == IF i = 1 THEN LeafOf(kept) ELSE FreshId + i - 2
             new == FreshId + i - 1
             e == tail[i]
  <2>1. e = [id |-> new, parent |-> parent, kind |-> "label", ref |-> targets[i], label |-> labelsById[targets[i]]]
    BY <1>8 DEF LabelEntry, Entry
  <2>2. i \in Nat /\ i >= 1
    BY <1>6
  <2>3. e.id = new /\ e.parent = parent /\ e.kind = "label" /\ e.ref = targets[i]
        /\ e.label = labelsById[targets[i]]
    BY <2>1
  <2>4. new <= MaxId
    BY <1>11, <2>3
  <2>5. new \in Ids /\ parent < new /\ parent \in Ids \cup {NoEntry}
    <3>1. FreshId + i - 1 \in Nat /\ FreshId + i - 1 >= 1
      BY <1>4, <2>2
    <3>2. CASE i = 1
      BY <1>4, <1>5, <2>2, <2>4, <3>1, <3>2 DEF Ids
    <3>3. CASE i # 1
      BY <1>4, <2>2, <2>4, <3>1, <3>3 DEF Ids
    <3> QED
      BY <3>2, <3>3
  <2> HIDE DEF parent, new
  <2>6. targets[i] \in Ids /\ labelsById[targets[i]] \in Labels
    BY <1>9
  <2>7. e \in Entries
    BY <2>1, <2>5, <2>6 DEF Entries, EntriesOfKind, AllKinds
  <2> HIDE DEF e
  <2>8. e \in Ranked
    BY <2>3, <2>5, <2>7 DEF Ranked
  <2> QED
    BY <2>3, <2>8 DEF e
<1>13. tail \in Seq(Ranked)
  BY <1>6, <1>7, <1>10, <1>12
<1>14. es \in Seq(Parsed) /\ Starts(es)
  <2> DEFINE h == <<Header>>
  <2>1. h \in Seq(Parsed) /\ h[1] = Header /\ Len(h) = 1 /\ tail \in Seq(Parsed)
    BY <1>13, ReadHeader, Lineup
  <2> HIDE DEF h
  <2>4. /\ h \o kept \in Seq(Parsed) /\ Len(h \o kept) = Len(h) + Len(kept)
        /\ \A i \in 1..(Len(h) + Len(kept)) : (h \o kept)[i] = IF i <= Len(h) THEN h[i] ELSE kept[i - Len(h)]
    BY <1>3, <2>1, ConcatProperties
  <2>5. Len(kept) \in Nat /\ 1 \in 1..(Len(h) + Len(kept)) /\ 1 <= Len(h)
    BY <1>3, <2>1
  <2>2. h \o kept \in Seq(Parsed) /\ Len(h \o kept) >= 1 /\ (h \o kept)[1] = Header
    BY <2>1, <2>4, <2>5
  <2> DEFINE a == h \o kept
  <2> HIDE DEF a
  <2>3. a \o tail \in Seq(Parsed) /\ a \o tail # <<>> /\ (a \o tail)[1] = Header
    BY <2>1, <2>2 DEF a
  <2> QED
    BY <1>1, <2>3 DEF a, h, Starts
<1> QED
  BY <1>1, <1>3, <1>10, <1>12, <1>13, <1>14 DEF n

LEMMA BranchedType ==
    ASSUME TreeInv, NEW id, NEW es \in BranchedEntries(id), \A e \in Range(es) : e.id <= MaxId
    PROVE  es \in Seq(Parsed) /\ Starts(es)
<1>1. PICK tail, targets : Copies(es, Kept(Branch(byId, id)), tail, targets)
  BY BranchedCopies
<1> QED
  BY <1>1, CopiesType

-------------------------------------------------------------------------------
(* Every step keeps the tree. *)

LEMMA LoadType ==
    ASSUME NEW lines \in Seq(Line)
    PROVE  Load(lines) \in Seq(Parsed) /\ (Load(lines) # <<>> => Starts(Load(lines)))
<1>1. Valid(lines) \in Seq(Parsed) /\ <<>> \in Seq(Parsed)
  BY ValidType
<1> QED
  BY <1>1 DEF Load, Starts

LEMMA CopyType ==
    ASSUME NEW lines \in Seq(Line)
    PROVE  LET copy == <<Header>> \o EntriesOf(Load(lines))
           IN  copy \in Seq(Parsed) /\ Starts(copy)
<1> DEFINE h == <<Header>>  s == EntriesOf(Load(lines))
<1>1. s \in Seq(Parsed)
  BY LoadType, SelectedType DEF EntriesOf
<1>2. h \in Seq(Parsed) /\ Len(h) = 1 /\ h[1] = Header
  BY ReadHeader
<1> HIDE DEF h, s
<1>3. /\ h \o s \in Seq(Parsed) /\ Len(h \o s) = Len(h) + Len(s)
      /\ \A i \in 1..(Len(h) + Len(s)) : (h \o s)[i] = IF i <= Len(h) THEN h[i] ELSE s[i - Len(h)]
  BY <1>1, <1>2, ConcatProperties
<1>4. Len(s) \in Nat /\ 1 \in 1..(Len(h) + Len(s)) /\ 1 <= Len(h)
  BY <1>1, <1>2
<1>5. Starts(h \o s)
  BY <1>2, <1>3, <1>4 DEF Starts
<1> QED
  BY <1>3, <1>5 DEF h, s

LEMMA NewSessionTree == TreeInv /\ NewSession => TreeInv'
<1> SUFFICES ASSUME TreeInv, NewSession PROVE TreeInv'
  OBVIOUS
<1>1. DiskOK' /\ snapshots' \subseteq Files
  BY DEF TreeInv, StoreTypes, DiskOK, NewSession
<1>2. FreshFile \in Files
  BY FreshFileType DEF NewSession
<1> QED
  BY <1>1, <1>2, ResetTree DEF NewSession, Fresh

LEMMA SetSessionFileTree ==
    ASSUME TreeInv, NEW f \in Files, SetSessionFile(f)
    PROVE  TreeInv'
<1>1. DiskOK /\ snapshots' \subseteq Files
  BY DEF TreeInv, StoreTypes, SetSessionFile
<1>2. CASE f \notin DOMAIN disk /\ Fresh(f, FALSE) /\ UNCHANGED disk
  <2>1. DiskOK'
    BY <1>1, <1>2 DEF DiskOK
  <2> QED
    BY <1>1, <1>2, <2>1, ResetTree DEF Fresh
<1>3. CASE /\ f \in DOMAIN disk /\ Fresh(f, TRUE)
           /\ disk' = [disk EXCEPT ![f] = <<Header>>]
  <2> DEFINE h == <<Header>>
  <2>1. h \in Seq(Line)
    BY DEF Line, Parsed
  <2>2. disk' = [disk EXCEPT ![f] = h]
    BY <1>3
  <2> HIDE DEF h
  <2>3. DiskOK'
    BY <1>1, <1>3, <2>1, <2>2 DEF DiskOK
  <2> QED
    BY <1>1, <1>3, <2>3, ResetTree DEF Fresh
<1>4. CASE f \in DOMAIN disk /\ Load(disk[f]) # <<>> /\ Loaded(f, Load(disk[f])) /\ UNCHANGED disk
  <2>1. DiskOK'
    BY <1>1, <1>4 DEF DiskOK
  <2>2. disk[f] \in Seq(Line)
    BY <1>1, <1>4 DEF DiskOK
  <2>3. Load(disk[f]) \in Seq(Parsed) /\ Starts(Load(disk[f]))
    BY <1>4, <2>2, LoadType
  <2> QED
    BY <1>1, <1>4, <2>1, <2>3, LoadedTree
<1> QED
  BY <1>2, <1>3, <1>4 DEF SetSessionFile

\* A new file that entries behind a header are written to, or some of them.
LEMMA OpenedTree ==
    ASSUME TreeInv, NEW es \in Seq(Parsed), Starts(es), Unwritten # {}, snapshots' \subseteq Files,
           \/ disk' = Written(FreshFile, es) /\ Loaded(FreshFile, es)
           \/ Killed(FreshFile, es)
    PROVE  TreeInv'
<1>1. DiskOK /\ FreshFile \in Files /\ es \in Seq(Line)
  <2>1. \A s \in Seq(Parsed) : s \in Seq(Line)
    BY Lineup
  <2> QED
    BY <2>1, FreshFileType DEF TreeInv, StoreTypes
<1>2. CASE disk' = Written(FreshFile, es) /\ Loaded(FreshFile, es)
  <2>1. DiskOK'
    BY <1>1, <1>2, WrittenType
  <2> QED
    BY <1>1, <1>2, <2>1, LoadedTree
<1>3. CASE Killed(FreshFile, es)
  BY <1>1, <1>3, KilledTree
<1> QED
  BY <1>2, <1>3

LEMMA ForkFromTree ==
    ASSUME TreeInv, NEW f \in DOMAIN disk, ForkFrom(f)
    PROVE  TreeInv'
<1> DEFINE copy == <<Header>> \o EntriesOf(Load(disk[f]))
<1>1. /\ snapshots' \subseteq Files /\ Unwritten # {}
      /\ \/ disk' = Written(FreshFile, copy) /\ Loaded(FreshFile, copy)
         \/ Killed(FreshFile, copy)
  BY DEF ForkFrom, TreeInv, StoreTypes
<1>2. disk[f] \in Seq(Line)
  BY DEF TreeInv, StoreTypes, DiskOK
<1>3. copy \in Seq(Parsed) /\ Starts(copy)
  BY <1>2, CopyType
<1> HIDE DEF copy
<1> QED
  BY <1>1, <1>3, OpenedTree

LEMMA CreateBranchedTree ==
    ASSUME TreeInv, NEW id, CreateBranchedSession(id), snapshots' \subseteq Files
    PROVE  TreeInv'
<1>1. PICK es \in BranchedEntries(id) :
          /\ \A e \in Range(es) : e.id <= MaxId
          /\ \/ disk' = Written(FreshFile, es) /\ Loaded(FreshFile, es)
             \/ Killed(FreshFile, es)
  BY DEF CreateBranchedSession
<1>2. es \in Seq(Parsed) /\ Starts(es)
  BY <1>1, BranchedType
<1>3. Unwritten # {}
  BY DEF CreateBranchedSession
<1> QED
  BY <1>1, <1>2, <1>3, OpenedTree

LEMMA ForkTree ==
    ASSUME TreeInv, NEW id, Fork(id)
    PROVE  TreeInv'
<1>1. snapshots' \subseteq Files
  BY DEF TreeInv, StoreTypes, Fork
<1>2. CASE Unwritten # {} /\ Fresh(FreshFile, FALSE) /\ UNCHANGED disk
  <2>1. DiskOK'
    BY <1>2 DEF TreeInv, StoreTypes, DiskOK
  <2> QED
    BY <1>1, <1>2, <2>1, FreshFileType, ResetTree DEF Fresh
<1>3. CASE CreateBranchedSession(byId[id].parent)
  BY <1>1, <1>3, CreateBranchedTree
<1> QED
  BY <1>2, <1>3 DEF Fork

LEMMA ShareTree ==
    ASSUME TreeInv, NEW id, Share(id)
    PROVE  TreeInv'
<1>1. CreateBranchedSession(id) /\ Unwritten # {}
  BY DEF Share, CreateBranchedSession
<1>2. snapshots' \subseteq Files
  BY <1>1, FreshFileType DEF Share, TreeInv, StoreTypes
<1> QED
  BY <1>1, <1>2, CreateBranchedTree

LEMMA EndShareTree ==
    ASSUME TreeInv, NEW f, EndShare(f)
    PROVE  TreeInv'
<1>1. DiskOK'
  BY DEF EndShare, Restrict, TreeInv, StoreTypes, DiskOK
<1>2. StoreTypes'
  BY <1>1 DEF EndShare, TreeInv, StoreTypes, memory
<1>3. Indexed' /\ Headed'
  BY DEF EndShare, TreeInv, Indexed, Headed, Running, memory
<1> QED
  BY <1>2, <1>3 DEF TreeInv

LEMMA MoveLeafTree ==
    ASSUME TreeInv, NEW id, MoveLeaf(id)
    PROVE  TreeInv'
<1>1. StoreTypes'
  BY DEF MoveLeaf, TreeInv, StoreTypes, DiskOK
<1>2. Indexed' /\ Headed'
  BY DEF MoveLeaf, TreeInv, Indexed, Headed, Running
<1> QED
  BY <1>1, <1>2 DEF TreeInv

\* The append methods are one: what is appended is a new entry, and the labels
\* are those of the entries with it.
LEMMA Appends ==
    ASSUME TreeInv,
           \/ \E kind \in Plain : AppendPlain(kind)
           \/ \E id \in Ids : AppendCompaction(id)
           \/ \E id \in Ids, label \in Labels \cup {NoLabel} : AppendLabelChange(id, label)
           \/ \E id \in Ids \cup {NoEntry} : BranchWithSummary(id)
    PROVE  Running /\ \E e \in Ranked : AppendEntry(e, LabelsOf(Append(fileEntries, e)))
<1>1. /\ fileEntries \in Seq(Parsed) /\ labelsById = LabelsOf(fileEntries)
      /\ leafId \in DOMAIN byId \cup {NoEntry} /\ DOMAIN byId \subseteq Ids
  BY IndexHolds DEF TreeInv, StoreTypes, Indexed
<1>2. NoEntry \in Ids \cup {NoEntry} /\ NoLabel \in Labels \cup {NoLabel}
  OBVIOUS
<1>7. leafId \in DOMAIN byId \cup {NoEntry}
  BY <1>1
<1>3. ASSUME NEW kind \in Plain, AppendPlain(kind)
      PROVE  Running /\ \E e \in Ranked : AppendEntry(e, LabelsOf(Append(fileEntries, e)))
  <2> DEFINE e == Entry(FreshId, leafId, kind, NoEntry, NoLabel)
  <2>1. Running /\ Room(1) /\ AppendEntry(e, labelsById)
    BY <1>3 DEF AppendPlain, CanAppend
  <2>2. kind \in AllKinds /\ kind # "label"
    BY DEF AllKinds, Plain
  <2>4. Makes(e, kind, NoEntry, NoLabel)
    BY <1>2, <1>7, <2>1, <2>2, NewEntry
  <2>3. e \in Ranked /\ e.kind # "label"
    BY <2>2, <2>4 DEF Makes
  <2> HIDE DEF e
  <2> QED
    BY <1>1, <2>1, <2>3, LabelsAppendOther
<1>4. ASSUME NEW id \in Ids, AppendCompaction(id)
      PROVE  Running /\ \E e \in Ranked : AppendEntry(e, LabelsOf(Append(fileEntries, e)))
  <2> DEFINE kind == "compaction"
             ref == id
             e == Entry(FreshId, leafId, kind, ref, NoLabel)
  <2>1. Running /\ Room(1) /\ AppendEntry(e, labelsById)
    BY <1>4 DEF AppendCompaction, CanAppend
  <2>2. kind \in AllKinds /\ kind # "label" /\ ref \in Ids \cup {NoEntry}
    BY DEF AllKinds
  <2> HIDE DEF kind, ref
  <2>4. Makes(e, kind, ref, NoLabel)
    BY <1>2, <1>7, <2>1, <2>2, NewEntry
  <2>3. e \in Ranked /\ e.kind # "label"
    BY <2>2, <2>4 DEF Makes
  <2> HIDE DEF e
  <2> QED
    BY <1>1, <2>1, <2>3, LabelsAppendOther
<1>5. ASSUME NEW id \in Ids, NEW label \in Labels \cup {NoLabel}, AppendLabelChange(id, label)
      PROVE  Running /\ \E e \in Ranked : AppendEntry(e, LabelsOf(Append(fileEntries, e)))
  <2> DEFINE kind == "label"
             ref == id
             e == Entry(FreshId, leafId, kind, ref, label)
  <2>1. Running /\ Room(1) /\ AppendEntry(e, ChangedLabels(id, label))
    BY <1>5 DEF AppendLabelChange, CanAppend
  <2>2. kind \in AllKinds /\ kind = "label" /\ ref = id /\ ref \in Ids \cup {NoEntry}
    BY DEF AllKinds
  <2> HIDE DEF kind, ref
  <2>4. Makes(e, kind, ref, label)
    BY <1>7, <2>1, <2>2, NewEntry
  <2>3. e \in Ranked /\ e.kind = "label" /\ e.ref = id /\ e.label = label
    BY <2>2, <2>4 DEF Makes
  <2> HIDE DEF e
  <2>5. LabelsOf(Append(fileEntries, e)) = ChangedLabels(id, label)
    BY <1>1, <2>3, LabelsAppend DEF ChangedLabels
  <2> QED
    BY <2>1, <2>3, <2>5
<1>6. ASSUME NEW id \in Ids \cup {NoEntry}, BranchWithSummary(id)
      PROVE  Running /\ \E e \in Ranked : AppendEntry(e, LabelsOf(Append(fileEntries, e)))
  <2> DEFINE e == Entry(FreshId, id, "branch_summary", NoEntry, NoLabel)
  <2>1. Running /\ Room(1) /\ AppendEntry(e, labelsById) /\ id \in DOMAIN byId \cup {NoEntry}
    BY <1>6 DEF BranchWithSummary, CanAppend
  <2>2. "branch_summary" \in AllKinds
    BY DEF AllKinds
  <2>4. Makes(e, "branch_summary", NoEntry, NoLabel)
    BY <1>2, <2>1, <2>2, NewEntry
  <2>3. e \in Ranked /\ e.kind # "label"
    BY <2>4 DEF Makes
  <2> HIDE DEF e
  <2> QED
    BY <1>1, <2>1, <2>3, LabelsAppendOther
<1> QED
  BY <1>3, <1>4, <1>5, <1>6

\* What a step does to the tree, with the append methods as one.
LEMMA Steps ==
    ASSUME TreeInv, Next
    PROVE  \/ NewSession
           \/ Exit
           \/ \E f \in Files : SetSessionFile(f)
           \/ \E f \in Files : EndShare(f)
           \/ \E f \in DOMAIN disk : ForkFrom(f)
           \/ Running /\ \E e \in Ranked : AppendEntry(e, LabelsOf(Append(fileEntries, e)))
           \/ \E id \in Ids : Fork(id)
           \/ \E id \in Ids : Share(id)
           \/ \E id \in Ids \cup {NoEntry} : MoveLeaf(id)
<1>1. CASE \/ \E kind \in Plain : AppendPlain(kind)
           \/ \E id \in Ids : AppendCompaction(id)
           \/ \E id \in Ids, label \in Labels \cup {NoLabel} : AppendLabelChange(id, label)
           \/ \E id \in Ids \cup {NoEntry} : BranchWithSummary(id)
  <2>1. Running /\ \E e \in Ranked : AppendEntry(e, LabelsOf(Append(fileEntries, e)))
    BY <1>1, Appends
  <2> QED
    BY <2>1
<1>2. CASE ~(\/ \E kind \in Plain : AppendPlain(kind)
             \/ \E id \in Ids : AppendCompaction(id)
             \/ \E id \in Ids, label \in Labels \cup {NoLabel} : AppendLabelChange(id, label)
             \/ \E id \in Ids \cup {NoEntry} : BranchWithSummary(id))
  BY <1>2, Zenon DEF Next
<1> QED
  BY <1>1, <1>2

LEMMA TreeNext == TreeInv /\ [Next]_vars => TreeInv'
<1> SUFFICES ASSUME TreeInv, [Next]_vars PROVE TreeInv'
  OBVIOUS
<1>1. ASSUME NewSession PROVE TreeInv'
  BY <1>1, NewSessionTree
<1>2. ASSUME Exit PROVE TreeInv'
  <2>1. DiskOK' /\ snapshots' \subseteq Files
    BY <1>2 DEF Exit, TreeInv, StoreTypes, DiskOK
  <2> QED
    BY <1>2, <2>1, DownTree DEF Exit
<1>3. ASSUME NEW f \in Files, SetSessionFile(f) PROVE TreeInv'
  BY <1>3, SetSessionFileTree
<1>4. ASSUME NEW f \in Files, EndShare(f) PROVE TreeInv'
  BY <1>4, EndShareTree
<1>5. ASSUME NEW f \in DOMAIN disk, ForkFrom(f) PROVE TreeInv'
  BY <1>5, ForkFromTree
<1>6. ASSUME Running, NEW e \in Ranked, AppendEntry(e, LabelsOf(Append(fileEntries, e))) PROVE TreeInv'
  <2> DEFINE labels == LabelsOf(Append(fileEntries, e))
  <2>1. labels = LabelsOf(Append(fileEntries, e)) /\ AppendEntry(e, labels)
    BY <1>6
  <2> HIDE DEF labels
  <2> QED
    BY <1>6, <2>1, AppendTree
<1>7. ASSUME NEW id \in Ids, Fork(id) PROVE TreeInv'
  BY <1>7, ForkTree
<1>8. ASSUME NEW id \in Ids, Share(id) PROVE TreeInv'
  BY <1>8, ShareTree
<1>9. ASSUME NEW id \in Ids \cup {NoEntry}, MoveLeaf(id) PROVE TreeInv'
  BY <1>9, MoveLeafTree
<1>10. CASE UNCHANGED vars
  <2>1. StoreTypes'
    BY <1>10 DEF vars, memory, TreeInv, StoreTypes, DiskOK
  <2>2. Indexed' /\ Headed'
    BY <1>10 DEF vars, memory, TreeInv, Indexed, Headed, Running
  <2> QED
    BY <2>1, <2>2 DEF TreeInv
<1>11. CASE Next
  BY <1>1, <1>2, <1>3, <1>4, <1>5, <1>6, <1>7, <1>8, <1>9, <1>11, Steps
<1> QED
  BY <1>10, <1>11

\* The types the run checks follow.
LEMMA TreeTypes == TreeInv => TypeOK /\ IndexAgrees
<1> SUFFICES ASSUME TreeInv PROVE TypeOK /\ IndexAgrees
  OBVIOUS
<1>1. \A f \in DOMAIN disk : f \in Files /\ Range(disk[f]) \subseteq Entries \cup {Header, Torn}
  <2>1. Line \subseteq Entries \cup {Header, Torn}
    BY DEF Line, Parsed, Ranked
  <2>2. \A f \in DOMAIN disk : f \in Files /\ disk[f] \in Seq(Line)
    BY DEF TreeInv, StoreTypes, DiskOK
  <2> QED
    BY <2>1, <2>2 DEF Range
<1>2. Range(fileEntries) \subseteq Entries \cup {Header}
  BY DEF TreeInv, StoreTypes, Range, Parsed, Ranked
<1>3. fileEntries \in Seq(Parsed) /\ byId = Index(fileEntries) /\ labelsById = LabelsOf(fileEntries)
      /\ leafId \in DOMAIN byId \cup {NoEntry}
  BY DEF TreeInv, StoreTypes, Indexed
<1>4. DOMAIN byId \subseteq Ids /\ \A id \in DOMAIN byId : byId[id] \in Entries
  BY <1>3, IndexHolds, Lineup
<1>5. DOMAIN labelsById \subseteq Ids /\ Range(labelsById) \subseteq Labels
  BY <1>3, LabelsHold DEF Range
<1>6. sessionFile \in Files \cup {NoFile} /\ flushed \in BOOLEAN /\ snapshots \subseteq Files
  BY DEF TreeInv, StoreTypes
<1> QED
  BY <1>1, <1>2, <1>3, <1>4, <1>5, <1>6 DEF TypeOK, IndexAgrees

THEOREM TreeInvariant == Spec => []TreeInv
<1>1. Init => TreeInv
  BY InitTree
<1>2. TreeInv /\ [Next]_vars => TreeInv'
  BY TreeNext
<1> QED
  BY <1>1, <1>2, PTL DEF Spec

\* In every reachable state, whatever was appended, branched, forked, shared or
\* switched before and wherever the process was killed, the maps that
\* _appendEntry and appendLabelChange update one entry at a time are the ones
\* _buildIndex would compute, and the leaf is one of the entries.
THEOREM IndexAlwaysAgrees == Spec => []IndexAgrees
<1>1. TreeInv => IndexAgrees
  BY TreeTypes
<1> QED
  BY <1>1, TreeInvariant, PTL

-------------------------------------------------------------------------------
(* Every step keeps the files. *)

Grows(f) == f \in DOMAIN disk' /\ IsPrefix(disk[f], disk'[f])

LEMMA PrefixSelf ==
    ASSUME NEW s \in Seq(Line)
    PROVE  IsPrefix(s, s)
BY DEF IsPrefix

LEMMA PrefixMore ==
    ASSUME NEW s \in Seq(Line), NEW t \in Seq(Line)
    PROVE  IsPrefix(s, s \o t)
BY DEF IsPrefix

LEMMA SameGrows ==
    ASSUME DiskOK, UNCHANGED disk
    PROVE  \A f \in DOMAIN disk : Grows(f)
BY PrefixSelf DEF DiskOK, Grows

\* Writing to a file whose header is there already, or the header first.
LEMMA WrittenFirst ==
    ASSUME DiskOK, \A f \in DOMAIN disk : HeaderFirst(disk[f]),
           NEW f \in Files, NEW batch \in Seq(Line), disk' = Written(f, batch),
           Valid(Lines(f)) # <<>> \/ (Lines(f) = <<>> /\ HeaderFirst(batch))
    PROVE  /\ \A g \in DOMAIN disk' : HeaderFirst(disk'[g])
           /\ \A g \in DOMAIN disk : Grows(g)
<1>1. CASE batch = <<>>
  <2>1. UNCHANGED disk
    BY <1>1 DEF Written
  <2> QED
    BY <2>1, SameGrows
<1>2. CASE batch # <<>>
  <2>1. PICK more \in Seq(Line) :
            /\ disk' = With(disk, f, Lines(f) \o more)
            /\ Lines(f) = <<>> \/ Torn \notin ToSet(Lines(f)) => more = batch
    BY <1>2, WrittenIs
  <2>2. Lines(f) \in Seq(Line)
    BY LinesType
  <2>3. /\ DOMAIN disk' = DOMAIN disk \cup {f} /\ disk'[f] = Lines(f) \o more
        /\ \A g \in DOMAIN disk : g # f => disk'[g] = disk[g]
    <3> DEFINE l == Lines(f) \o more
    <3>1. disk' = With(disk, f, l)
      BY <2>1
    <3> HIDE DEF l
    <3>2. /\ DOMAIN disk' = DOMAIN disk \cup {f} /\ disk'[f] = l
          /\ \A g \in DOMAIN disk : g # f => disk'[g] = disk[g]
      BY <3>1 DEF With
    <3> QED
      BY <3>2 DEF l
  <2>4. HeaderFirst(disk'[f])
    <3>1. CASE Valid(Lines(f)) # <<>>
      <4>1. HeaderFirst(Lines(f))
        BY TornFirst DEF Lines
      <4> QED
        BY <2>2, <2>3, <3>1, <4>1, HeaderStays
    <3>2. CASE Lines(f) = <<>> /\ HeaderFirst(batch)
      <4>1. <<>> \o batch = batch
        OBVIOUS
      <4> QED
        BY <2>1, <2>3, <3>2, <4>1
    <3> QED
      BY <3>1, <3>2
  <2>5. \A g \in DOMAIN disk' : HeaderFirst(disk'[g])
    BY <2>3, <2>4
  <2>6. ASSUME NEW g \in DOMAIN disk PROVE Grows(g)
    <3>1. disk[g] \in Seq(Line)
      BY DEF DiskOK
    <3>2. CASE g = f
      <4>1. disk'[g] = disk[g] \o more
        BY <2>3, <3>2 DEF Lines
      <4> QED
        BY <2>3, <3>1, <4>1, PrefixMore DEF Grows
    <3>3. CASE g # f
      BY <2>3, <3>1, <3>3, PrefixSelf DEF Grows
    <3> QED
      BY <3>2, <3>3
  <2> QED
    BY <2>5, <2>6
<1> QED
  BY <1>1, <1>2

LEMMA KilledFirst ==
    ASSUME DiskOK, \A f \in DOMAIN disk : HeaderFirst(disk[f]),
           NEW f \in Files, NEW batch \in Seq(Parsed), Killed(f, batch),
           Valid(Lines(f)) # <<>> \/ (Lines(f) = <<>> /\ (Starts(batch) \/ batch = <<>>))
    PROVE  /\ ~Running'
           /\ \A g \in DOMAIN disk' : HeaderFirst(disk'[g])
           /\ \A g \in DOMAIN disk : Grows(g)
<1>1. PICK n \in 0..Len(batch) : \/ disk' = Written(f, SubSeq(batch, 1, n))
                                 \/ n < Len(batch) /\ disk' = Written(f, Append(SubSeq(batch, 1, n), Torn))
  BY DEF Killed
<1>2. ~Running'
  BY DEF Killed, Down, Running
<1> DEFINE whole == SubSeq(batch, 1, n)
<1>3. /\ whole \in Seq(Line) /\ Append(whole, Torn) \in Seq(Line)
      /\ Starts(batch) => HeaderFirst(whole) /\ HeaderFirst(Append(whole, Torn))
  BY CutShort
<1>4. batch = <<>> => disk' = Written(f, whole) /\ whole = <<>>
  BY <1>1
<1> HIDE DEF whole
<1>5. CASE disk' = Written(f, whole)
  <2>1. Valid(Lines(f)) # <<>> \/ (Lines(f) = <<>> /\ HeaderFirst(whole))
    BY <1>3, <1>4, TornFirst
  <2> QED
    BY <1>2, <1>3, <1>5, <2>1, WrittenFirst
<1>6. CASE disk' = Written(f, Append(whole, Torn)) /\ batch # <<>>
  <2>1. Valid(Lines(f)) # <<>> \/ (Lines(f) = <<>> /\ HeaderFirst(Append(whole, Torn)))
    BY <1>3, <1>6
  <2> QED
    BY <1>2, <1>3, <1>6, <2>1, WrittenFirst
<1> QED
  BY <1>1, <1>4, <1>5, <1>6 DEF whole

\* What a step has to keep when no snapshot is shared.
FilesStep ==
    /\ \A f \in DOMAIN disk' : HeaderFirst(disk'[f])
    /\ Running' => InSync'
    /\ \A f \in DOMAIN disk : Header \in Range(disk[f]) => Grows(f)

LEMMA ShortMatches ==
    /\ ~HasAssistant(<<Header>>)
    /\ SubSeq(<<Header>>, 1, 0) = <<>> /\ 0 \in 0..Len(<<Header>>)
    /\ \A es \in Seq(Parsed) : es = SubSeq(es, 1, 0) \o es /\ 0 \in 0..Len(es)
<1>1. ~HasAssistant(<<Header>>)
  <2> DEFINE e == Header
  <2>1. e.kind = "session"
    BY Lineup
  <2> HIDE DEF e
  <2>2. \A i \in DOMAIN <<e>> : <<e>>[i] = e
    OBVIOUS
  <2> QED
    BY <2>1, <2>2 DEF HasAssistant, e
<1> QED
  BY <1>1

LEMMA MatchesSelf ==
    ASSUME NEW es \in Seq(Parsed)
    PROVE  Matches(es, es, TRUE)
<1>1. es = SubSeq(es, 1, 0) \o es /\ 0 \in 0..Len(es)
  BY ShortMatches
<1>2. \E n \in 0..Len(es) : es = SubSeq(es, 1, n) \o es
  BY <1>1, Zenon
<1> QED
  BY <1>2, Zenon DEF Matches

LEMMA FreshFiles ==
    ASSUME TreeInv, FilesInv, NEW f \in Files, f \notin DOMAIN disk, Fresh(f, FALSE), UNCHANGED disk
    PROVE  FilesStep
<1>1. \A g \in DOMAIN disk : Grows(g)
  BY SameGrows DEF TreeInv, StoreTypes
<1>2. Lines(sessionFile)' = <<>> /\ fileEntries' = <<Header>> /\ flushed' = FALSE
  BY DEF Fresh, Reset, Lines
<1>3. Matches(<<>>, <<Header>>, FALSE)
  BY <1>2, ShortMatches DEF Matches
<1>4. InSync'
  BY <1>2, <1>3, ShortMatches DEF InSync
<1> QED
  BY <1>1, <1>4 DEF FilesStep, FilesInv

\* A file with a header can be loaded.
LEMMA HeaderLoads ==
    ASSUME NEW lines \in Seq(Line), Header \in Range(lines), HeaderFirst(lines)
    PROVE  Load(lines) # <<>>
<1> DEFINE K == Entries \cup {Header}
           n == Len(lines)
<1>1. PICK i \in 1..n : lines[i] = Header
  BY DEF Range
<1> DEFINE k == i - 1
           a == SubSeq(lines, 1, k)
           b == SubSeq(lines, i + 1, n)
<1>2. k \in Nat /\ k < Len(lines) /\ k + 1 = i /\ n \in Nat /\ i \in 1..n
  OBVIOUS
<1> HIDE DEF k
<1>3. /\ a \in Seq(Line) /\ Header \in Line
      /\ SubSeq(lines, 1, k + 1) = Append(a, lines[k + 1])
  BY <1>2, SubSeqGrows DEF Line, Parsed
<1> HIDE DEF a
<1>4. Selected(Append(a, Header), K) = Append(Selected(a, K), Header)
  <2>1. Header \in K
    OBVIOUS
  <2> HIDE DEF K
  <2> QED
    BY <1>3, <2>1, SelectedAppend
<1>5. Selected(a, K) \in Seq(Line)
  BY <1>3, SelectedType
<1>6. ASSUME NEW s \in Seq(Line), NEW t \in Seq(Line) PROVE Append(s, Header) \o t # <<>>
  <2> DEFINE u == Append(s, Header)
  <2>1. u \in Seq(Line) /\ Len(u) = Len(s) + 1 /\ Len(s) \in Nat /\ Len(t) \in Nat
    BY <1>3
  <2> HIDE DEF u
  <2>2. Len(u \o t) = Len(u) + Len(t)
    BY <2>1, ConcatProperties
  <2>3. Len(u \o t) # 0
    BY <2>1, <2>2
  <2>4. Len(<<>>) = 0
    OBVIOUS
  <2>5. u \o t # <<>>
    BY <2>3, <2>4
  <2> QED
    BY <2>5 DEF u
<1>7. SubSeq(lines, 1, i) = Append(a, Header)
  BY <1>1, <1>2, <1>3
<1>8. b \in Seq(Line)
  <2>1. \A j \in (i + 1)..n : j \in 1..n /\ lines[j] \in Line
    BY <1>2
  <2>2. i + 1 \in Int /\ n \in Int
    BY <1>2
  <2> DEFINE m == i + 1
  <2>3. m \in Int /\ \A j \in m..n : lines[j] \in Line
    BY <2>1, <2>2
  <2> HIDE DEF m, n
  <2>4. SubSeq(lines, m, n) \in Seq(Line)
    BY <2>2, <2>3, SubSeqProperties
  <2> QED
    BY <2>4 DEF m
<1>9. lines = SubSeq(lines, 1, i) \o b
  <2> DEFINE u == SubSeq(lines, 1, i)
             c == u \o b
  <2>1. u \in Seq(Line) /\ Len(u) = i /\ \A j \in 1..i : u[j] = lines[j]
    <3>1. \A j \in 1..i : lines[j] \in Line
      BY <1>2
    <3> QED
      BY <1>2, <3>1, SubSeqProperties
  <2>2. Len(b) = n - i /\ \A j \in 1..(n - i) : b[j] = lines[i + j]
    BY <1>2
  <2> HIDE DEF u, b
  <2>3. /\ c \in Seq(Line) /\ Len(c) = Len(u) + Len(b)
        /\ \A j \in 1..(Len(u) + Len(b)) : c[j] = IF j <= Len(u) THEN u[j] ELSE b[j - Len(u)]
    BY <1>8, <2>1, ConcatProperties
  <2> HIDE DEF c
  <2>4. Len(c) = Len(lines)
    BY <1>2, <2>1, <2>2, <2>3
  <2>5. \A j \in 1..Len(lines) : c[j] = lines[j]
    <3> SUFFICES ASSUME NEW j \in 1..n PROVE c[j] = lines[j]
      OBVIOUS
    <3>1. CASE j <= i
      <4>1. j \in 1..i /\ j \in 1..(Len(u) + Len(b)) /\ j <= Len(u)
        BY <1>2, <2>1, <2>2, <3>1
      <4> QED
        BY <2>1, <2>3, <4>1
    <3>2. CASE ~(j <= i)
      <4>1. j - i \in 1..(n - i) /\ i + (j - i) = j /\ j \in 1..(Len(u) + Len(b)) /\ ~(j <= Len(u))
        BY <1>2, <2>1, <2>2, <3>2
      <4>2. c[j] = b[j - i]
        BY <2>1, <2>3, <4>1
      <4> QED
        BY <2>2, <4>1, <4>2
    <3> QED
      BY <3>1, <3>2
  <2>6. lines = c
    BY <2>3, <2>4, <2>5, SeqEqual
  <2> QED
    BY <2>6 DEF c, u
<1> HIDE DEF b, K
<1>10. Append(a, Header) \in Seq(Line)
  BY <1>3
<1> DEFINE d == Append(a, Header)
<1> HIDE DEF d
<1>11. lines = d \o b /\ d \in Seq(Line)
  BY <1>7, <1>9, <1>10 DEF d
<1>12. Selected(d \o b, K) = Selected(d, K) \o Selected(b, K)
  BY <1>8, <1>11, SelectedConcat
<1>13. Selected(b, K) \in Seq(Line)
  BY <1>8, SelectedType
<1>14. Selected(d, K) \o Selected(b, K) # <<>>
  BY <1>4, <1>5, <1>6, <1>13 DEF d
<1>15. Selected(lines, K) # <<>>
  BY <1>11, <1>12, <1>14
<1>16. Valid(lines) # <<>>
  BY <1>15 DEF Valid, K
<1>17. Valid(lines)[1] = Header
  BY <1>16 DEF HeaderFirst
<1> QED
  BY <1>16, <1>17 DEF Load

LEMMA ResetFiles ==
    ASSUME TreeInv, FilesInv, NEW f \in DOMAIN disk, Load(disk[f]) = <<>>, Fresh(f, TRUE),
           disk' = [disk EXCEPT ![f] = <<Header>>]
    PROVE  FilesStep
<1> DEFINE h == <<Header>>
<1>1. DiskOK /\ disk[f] \in Seq(Line) /\ HeaderFirst(disk[f])
  BY DEF TreeInv, StoreTypes, DiskOK, FilesInv
<1>2. Header \notin Range(disk[f])
  BY <1>1, HeaderLoads
<1>3. HeaderFirst(h) /\ Valid(h) # <<>>
  BY ReadHeader, StartsFirst
<1>4. h \in Seq(Parsed) /\ ~HasAssistant(h)
  BY ReadHeader, ShortMatches
<1>5. disk' = [disk EXCEPT ![f] = h] /\ fileEntries' = h /\ flushed' = TRUE /\ sessionFile' = f
  BY DEF Fresh, Reset
<1> HIDE DEF h
<1>6. DOMAIN disk' = DOMAIN disk /\ disk'[f] = h /\ \A g \in DOMAIN disk : g # f => disk'[g] = disk[g]
  BY <1>1, <1>5 DEF DiskOK
<1>7. \A g \in DOMAIN disk' : HeaderFirst(disk'[g])
  BY <1>3, <1>6 DEF FilesInv
<1>8. ASSUME NEW g \in DOMAIN disk, Header \in Range(disk[g]) PROVE Grows(g)
  <2>1. disk'[g] = disk[g] /\ disk[g] \in Seq(Line)
    BY <1>1, <1>2, <1>6, <1>8 DEF DiskOK
  <2> QED
    BY <1>6, <2>1, PrefixSelf DEF Grows
<1>9. Lines(sessionFile)' = h
  BY <1>5, <1>6 DEF Lines
<1>10. Matches(h, h, TRUE)
  BY <1>4, <1>5 DEF Matches
<1>11. InSync'
  BY <1>3, <1>4, <1>5, <1>9, <1>10 DEF InSync
<1> QED
  BY <1>7, <1>8, <1>11 DEF FilesStep

LEMMA LoadFiles ==
    ASSUME TreeInv, FilesInv, NEW f \in DOMAIN disk, Load(disk[f]) # <<>>, Loaded(f, Load(disk[f])),
           UNCHANGED disk
    PROVE  FilesStep
<1> DEFINE l == disk[f]
           es == Valid(l)
<1>1. l \in Seq(Line) /\ DiskOK
  BY DEF TreeInv, StoreTypes, DiskOK
<1>2. es # <<>> /\ Load(l) = es
  BY DEF Load
<1>3. fileEntries' = es /\ flushed' = TRUE /\ Lines(sessionFile)' = l
  BY <1>2 DEF Loaded, Lines
<1>4. es \in Seq(Parsed)
  BY <1>1, ValidType
<1>5. Torn \notin ToSet(l) => es = l
  BY <1>1, WholeLines, ValidAll
<1>7. \A g \in DOMAIN disk : Grows(g)
  BY <1>1, SameGrows
<1> HIDE DEF l, es
<1>8. Matches(es, es, TRUE)
  BY <1>4, MatchesSelf
<1>9. Torn \notin ToSet(l) => Matches(l, es, TRUE)
  BY <1>5, <1>8
<1>10. Valid(l) # <<>>
  BY <1>2 DEF es
<1>11. InSync'
  BY <1>3, <1>9, <1>10 DEF InSync
<1>12. \A g \in DOMAIN disk' : HeaderFirst(disk'[g])
  BY DEF FilesInv
<1> QED
  BY <1>7, <1>11, <1>12 DEF FilesStep

LEMMA OpenedFiles ==
    ASSUME TreeInv, FilesInv, NEW es \in Seq(Parsed), Starts(es), Unwritten # {},
           \/ disk' = Written(FreshFile, es) /\ Loaded(FreshFile, es)
           \/ Killed(FreshFile, es)
    PROVE  FilesStep
<1>1. /\ DiskOK /\ FreshFile \in Files /\ es \in Seq(Line) /\ Lines(FreshFile) = <<>>
      /\ \A f \in DOMAIN disk : HeaderFirst(disk[f])
  <2>1. \A s \in Seq(Parsed) : s \in Seq(Line)
    BY Lineup
  <2> QED
    BY <2>1, FreshFileType DEF TreeInv, StoreTypes, FilesInv, Lines
<1>2. HeaderFirst(es) /\ Valid(es) # <<>> /\ es # <<>>
  BY StartsFirst DEF Starts
<1>3. CASE disk' = Written(FreshFile, es) /\ Loaded(FreshFile, es)
  <2>1. /\ \A g \in DOMAIN disk' : HeaderFirst(disk'[g])
        /\ \A g \in DOMAIN disk : Grows(g)
    BY <1>1, <1>2, <1>3, WrittenFirst
  <2>2. PICK more \in Seq(Line) : disk' = With(disk, FreshFile, Lines(FreshFile) \o more) /\ more = es
    BY <1>1, <1>2, <1>3, WrittenIs
  <2>3. <<>> \o es = es
    OBVIOUS
  <2>4. disk' = With(disk, FreshFile, es)
    BY <1>1, <2>2, <2>3
  <2>6. sessionFile' = FreshFile /\ fileEntries' = es /\ flushed' = TRUE
    BY <1>3 DEF Loaded
  <2>7. FreshFile \in DOMAIN disk' /\ disk'[FreshFile] = es
    BY <2>4 DEF With
  <2>8. Lines(sessionFile)' = es
    BY <2>6, <2>7 DEF Lines
  <2>10. Matches(es, es, TRUE)
    BY MatchesSelf
  <2>11. InSync'
    BY <1>2, <2>6, <2>8, <2>10 DEF InSync
  <2> QED
    BY <2>1, <2>11 DEF FilesStep
<1>4. CASE Killed(FreshFile, es)
  BY <1>1, <1>4, KilledFirst DEF FilesStep
<1> QED
  BY <1>3, <1>4

LEMMA GrowsBehind ==
    ASSUME NEW es \in Seq(Parsed), NEW e \in Parsed, NEW n \in 0..Len(es)
    PROVE  /\ n \in 0..Len(Append(es, e)) /\ SubSeq(Append(es, e), 1, n) = SubSeq(es, 1, n)
           /\ SubSeq(Append(es, e), 1, Len(es)) = es /\ Len(es) \in 0..Len(Append(es, e))
<1> DEFINE t == Append(es, e)
<1>1. /\ t \in Seq(Parsed) /\ Len(t) = Len(es) + 1 /\ Len(es) \in Nat /\ n \in Nat /\ n <= Len(es)
      /\ \A i \in 1..Len(es) : t[i] = es[i] /\ es[i] \in Parsed
  OBVIOUS
<1> HIDE DEF t
<1>2. ASSUME NEW m \in Nat, m <= Len(es)
      PROVE  /\ SubSeq(t, 1, m) \in Seq(Parsed) /\ Len(SubSeq(t, 1, m)) = m
             /\ \A i \in 1..m : SubSeq(t, 1, m)[i] = es[i]
  <2>1. \A i \in 1..m : t[i] \in Parsed /\ t[i] = es[i]
    BY <1>1, <1>2
  <2> QED
    BY <1>2, <2>1, SubSeqProperties
<1>3. /\ SubSeq(es, 1, n) \in Seq(Parsed) /\ Len(SubSeq(es, 1, n)) = n
      /\ \A i \in 1..n : SubSeq(es, 1, n)[i] = es[i]
  <2>1. \A i \in 1..n : es[i] \in Parsed
    BY <1>1
  <2> QED
    BY <1>1, <2>1, SubSeqProperties
<1>4. SubSeq(t, 1, n) = SubSeq(es, 1, n)
  <2> DEFINE a == SubSeq(t, 1, n)  b == SubSeq(es, 1, n)
  <2>1. a \in Seq(Parsed) /\ Len(a) = n /\ \A i \in 1..n : a[i] = es[i]
    BY <1>1, <1>2
  <2>2. b \in Seq(Parsed) /\ Len(b) = n /\ \A i \in 1..n : b[i] = es[i]
    BY <1>3
  <2> HIDE DEF a, b
  <2>3. a = b
    BY <2>1, <2>2, SeqEqual
  <2> QED
    BY <2>3 DEF a, b
<1>5. SubSeq(t, 1, Len(es)) = es
  <2> DEFINE a == SubSeq(t, 1, Len(es))
  <2>1. a \in Seq(Parsed) /\ Len(a) = Len(es) /\ \A i \in 1..Len(es) : a[i] = es[i]
    BY <1>1, <1>2
  <2> HIDE DEF a
  <2>2. a = es
    BY <2>1, SeqEqual
  <2> QED
    BY <2>2 DEF a
<1> QED
  BY <1>1, <1>4, <1>5 DEF t

\* The file keeps matching as _persist writes the new entry, or all of them.
LEMMA StaysMatched ==
    ASSUME NEW es \in Seq(Parsed), NEW e \in Ranked, NEW lines \in Seq(Line), NEW isFlushed \in BOOLEAN,
           Matches(lines, es, isFlushed), HasAssistant(es) => isFlushed
    PROVE  LET all == Append(es, e)
               more == IF ~HasAssistant(all) THEN <<>> ELSE IF isFlushed THEN <<e>> ELSE all
           IN  Matches(lines \o more, all, HasAssistant(all))
<1> DEFINE all == Append(es, e)
<1>1. all \in Seq(Parsed) /\ e \in Parsed
  BY Lineup
<1>2. HasAssistant(es) => HasAssistant(all)
  <2>1. \A i \in DOMAIN es : i \in DOMAIN all /\ all[i] = es[i]
    BY <1>1
  <2> HIDE DEF all
  <2> QED
    BY <2>1 DEF HasAssistant
<1>3. \A n \in 0..Len(es) : n \in 0..Len(all) /\ SubSeq(all, 1, n) = SubSeq(es, 1, n)
  BY <1>1, GrowsBehind
<1>4. SubSeq(all, 1, Len(es)) = es /\ Len(es) \in 0..Len(all)
  <2>1. 0 \in 0..Len(es)
    OBVIOUS
  <2> QED
    BY <1>1, <2>1, GrowsBehind
<1>5. ~HasAssistant(es) =>
          \/ lines = es
          \/ ~isFlushed /\ \E n \in 0..Len(es) : lines = SubSeq(es, 1, n)
  BY Zenon DEF Matches
<1>6. all = es \o <<e>>
  OBVIOUS
<1> HIDE DEF all
<1>7. ~HasAssistant(es) => \E n \in 0..Len(all) : lines = SubSeq(all, 1, n)
  BY <1>3, <1>4, <1>5
<1>8. CASE ~HasAssistant(all)
  <2>1. lines \o <<>> = lines
    OBVIOUS
  <2>2. \E n \in 0..Len(all) : lines = SubSeq(all, 1, n)
    BY <1>2, <1>7, <1>8
  <2>3. Matches(lines, all, HasAssistant(all))
    BY <1>8, <2>2, Zenon DEF Matches
  <2>4. Matches(lines \o <<>>, all, HasAssistant(all))
    BY <2>1, <2>3, Zenon
  <2> QED
    BY <1>8, <2>4, Zenon DEF all
<1>9. CASE HasAssistant(all) /\ ~isFlushed
  <2>1. PICK n \in 0..Len(all) : lines = SubSeq(all, 1, n)
    BY <1>7, <1>9
  <2>2. lines \o all = SubSeq(all, 1, n) \o all
    BY <2>1
  <2>3. \E k \in 0..Len(all) : lines \o all = SubSeq(all, 1, k) \o all
    BY <2>2, Zenon
  <2>4. Matches(lines \o all, all, TRUE)
    BY <1>9, <2>3, Zenon DEF Matches
  <2> QED
    BY <1>9, <2>4 DEF all
<1>10. CASE HasAssistant(all) /\ isFlushed /\ ~HasAssistant(es)
  <2>1. lines = es
    BY <1>5, <1>10
  <2>2. lines \o <<e>> = all
    BY <1>6, <2>1
  <2>3. Matches(all, all, TRUE)
    BY <1>1, MatchesSelf
  <2> QED
    BY <1>10, <2>2, <2>3 DEF all
<1>11. CASE HasAssistant(all) /\ isFlushed /\ HasAssistant(es)
  <2>1. PICK n \in 0..Len(es) : lines = SubSeq(es, 1, n) \o es
    BY <1>11, Zenon DEF Matches
  <2>2. n \in 0..Len(all) /\ SubSeq(all, 1, n) = SubSeq(es, 1, n)
    BY <1>3
  <2> DEFINE p == SubSeq(es, 1, n)
             one == <<e>>
  <2>3. p \in Seq(Parsed) /\ one \in Seq(Parsed)
    <3>1. n \in Nat /\ \A i \in 1..n : es[i] \in Parsed
      OBVIOUS
    <3> QED
      BY <1>1, <3>1, SubSeqProperties
  <2>4. lines = p \o es /\ all = es \o one /\ p = SubSeq(all, 1, n)
    BY <1>6, <2>1, <2>2
  <2> HIDE DEF p, one
  <2>5. (p \o es) \o one = p \o (es \o one)
    BY <2>3, ConcatAssociative
  <2>6. lines \o one = p \o all
    BY <2>4, <2>5
  <2>7. \E k \in 0..Len(all) : lines \o one = SubSeq(all, 1, k) \o all
    BY <2>2, <2>4, <2>6
  <2>8. Matches(lines \o one, all, TRUE)
    BY <1>11, <2>7, Zenon DEF Matches
  <2> QED
    BY <1>11, <2>8 DEF all, one
<1> QED
  BY <1>8, <1>9, <1>10, <1>11

LEMMA AppendFiles ==
    ASSUME TreeInv, FilesInv, Running, NEW e \in Ranked, NEW labels, AppendEntry(e, labels)
    PROVE  FilesStep
<1> DEFINE es == Append(fileEntries, e)
           b == Batch(es, e)
           f == sessionFile
           l == Lines(sessionFile)
<1>1. /\ DiskOK /\ f \in Files /\ fileEntries \in Seq(Parsed) /\ flushed \in BOOLEAN
      /\ fileEntries # <<>> /\ fileEntries[1] = Header /\ InSync
      /\ \A g \in DOMAIN disk : HeaderFirst(disk[g])
  BY DEF TreeInv, StoreTypes, Headed, Running, FilesInv
<1>2. es \in Seq(Parsed) /\ es # <<>> /\ es[1] = Header
  BY <1>1, Lineup
<1>3. b \in Seq(Parsed) /\ b \in Seq(Line) /\ l \in Seq(Line)
  BY <1>1, <1>2, BatchType, LinesType
<1>4. b = IF ~HasAssistant(es) THEN <<>> ELSE IF flushed THEN <<e>> ELSE es
  BY DEF Batch
<1>5. Starts(es)
  BY <1>2 DEF Starts
<1>6. /\ HasAssistant(fileEntries) => flushed
      /\ (l = <<>> /\ ~flushed) \/ Valid(l) # <<>>
      /\ Torn \notin ToSet(l) => Matches(l, fileEntries, flushed)
  BY <1>1 DEF InSync
<1>7. \/ Killed(f, b)
      \/ /\ fileEntries' = es /\ flushed' = HasAssistant(es)
         /\ disk' = Written(f, b) /\ sessionFile' = f
  BY DEF AppendEntry
<1>8. l \o b = l \o IF ~HasAssistant(es) THEN <<>> ELSE IF flushed THEN <<e>> ELSE es
  BY <1>4
<1>9. Torn \notin ToSet(l) => Matches(l \o b, es, HasAssistant(es))
  BY <1>1, <1>3, <1>6, <1>8, StaysMatched
<1>10. Valid(l) # <<>> \/ (l = <<>> /\ (Starts(b) \/ b = <<>>))
  BY <1>4, <1>5, <1>6
<1>11. ASSUME Starts(b) \/ b = <<>> PROVE HeaderFirst(b)
  BY <1>3, <1>11, StartsFirst, TornFirst
<1>14. HasAssistant(es) => b # <<>>
  <2>1. <<e>> # <<>>
    OBVIOUS
  <2> QED
    BY <1>2, <1>4, <2>1
<1>12. CASE Killed(f, b)
  <2>1. DiskOK /\ (\A g \in DOMAIN disk : HeaderFirst(disk[g])) /\ f \in Files /\ b \in Seq(Parsed)
        /\ (Valid(Lines(f)) # <<>> \/ (Lines(f) = <<>> /\ (Starts(b) \/ b = <<>>)))
    BY <1>1, <1>3, <1>10
  <2> HIDE DEF b, f, l
  <2> QED
    BY <1>12, <2>1, KilledFirst DEF FilesStep
<1>13. CASE /\ fileEntries' = es /\ flushed' = HasAssistant(es)
            /\ disk' = Written(f, b) /\ sessionFile' = f
  <2>1. /\ \A g \in DOMAIN disk' : HeaderFirst(disk'[g])
        /\ \A g \in DOMAIN disk : Grows(g)
    <3>1. DiskOK /\ (\A g \in DOMAIN disk : HeaderFirst(disk[g])) /\ f \in Files /\ b \in Seq(Line)
          /\ (Valid(Lines(f)) # <<>> \/ (Lines(f) = <<>> /\ HeaderFirst(b)))
      BY <1>1, <1>3, <1>10, <1>11
    <3> HIDE DEF b, f, l, es
    <3> QED
      BY <1>13, <3>1, WrittenFirst
  <2>2. PICK more \in Seq(Line) : /\ Lines(sessionFile)' = l \o more
                                  /\ l = <<>> \/ Torn \notin ToSet(l) => more = b
    <3>1. CASE b = <<>>
      <4>1. disk' = disk
        BY <1>13, <3>1 DEF Written
      <4>2. Lines(sessionFile)' = l /\ l \o <<>> = l /\ <<>> \in Seq(Line)
        BY <1>3, <1>13, <4>1 DEF Lines
      <4> QED
        BY <3>1, <4>2
    <3>2. CASE b # <<>>
      <4>1. PICK more \in Seq(Line) : /\ Written(f, b) = With(disk, f, l \o more)
                                      /\ l = <<>> \/ Torn \notin ToSet(l) => more = b
        <5> HIDE DEF b
        <5> QED
          BY <1>1, <1>3, <3>2, WrittenIs
      <4> DEFINE new == l \o more
      <4>2. disk' = With(disk, f, new)
        BY <1>13, <4>1
      <4> HIDE DEF new
      <4>3. f \in DOMAIN disk' /\ disk'[f] = new
        BY <4>2 DEF With
      <4>4. Lines(sessionFile)' = new
        BY <1>13, <4>3 DEF Lines
      <4> QED
        BY <4>1, <4>4 DEF new
    <3> QED
      BY <3>1, <3>2
  <2> DEFINE after == l \o more
  <2> HIDE DEF b, l, es
  <2>3. (after = <<>> /\ ~HasAssistant(es)) \/ Valid(after) # <<>>
    <3>1. CASE Valid(l) # <<>>
      <4>1. HeaderFirst(l)
        BY <1>1, TornFirst DEF l, Lines
      <4> QED
        BY <1>3, <2>2, <3>1, <4>1, HeaderStays
    <3>2. CASE l = <<>> /\ b = <<>>
      <4>1. more = <<>> /\ l \o more = <<>>
        BY <2>2, <3>2
      <4>2. CASE HasAssistant(es)
        BY <1>14, <3>2, <4>2
      <4> QED
        BY <4>1, <4>2
    <3>3. CASE l = <<>> /\ Starts(b)
      <4>1. more = b /\ <<>> \o b = b
        BY <1>3, <2>2, <3>3
      <4>2. Valid(b) # <<>>
        BY <1>3, <3>3, StartsFirst
      <4> QED
        BY <3>3, <4>1, <4>2
    <3> QED
      BY <1>10, <3>1, <3>2, <3>3
  <2>4. Torn \notin ToSet(after) => Torn \notin ToSet(l)
    <3>1. \A i \in DOMAIN l : i \in DOMAIN after /\ after[i] = l[i]
      BY <1>3, <2>2
    <3> HIDE DEF after
    <3> QED
      BY <3>1 DEF ToSet
  <2>5. Torn \notin ToSet(after) => Matches(after, es, HasAssistant(es))
    BY <1>9, <2>2, <2>4
  <2> HIDE DEF after
  <2>6. Lines(sessionFile)' = after
    BY <2>2 DEF after
  <2>7. fileEntries' = es /\ flushed' = HasAssistant(es)
    BY <1>13
  <2>8. Torn \notin ToSet(after) => Matches(after, fileEntries', flushed')
    BY <2>5, <2>7, Zenon
  <2>9. (after = <<>> /\ ~flushed') \/ Valid(after) # <<>>
    BY <2>3, <2>7
  <2>10. HasAssistant(fileEntries') => flushed'
    BY <2>7
  <2>11. InSync'
    BY <2>6, <2>8, <2>9, <2>10, Zenon DEF InSync
  <2> QED
    BY <2>1, <2>11 DEF FilesStep
<1> HIDE DEF es, b, f, l
<1> QED
  BY <1>7, <1>12, <1>13

LEMMA FilesNext ==
    ASSUME "share" \notin Features, TreeInv, FilesInv, Next
    PROVE  snapshots' = {} /\ FilesStep
<1>1. DiskOK /\ snapshots = {} /\ \A g \in DOMAIN disk : HeaderFirst(disk[g])
  BY DEF TreeInv, StoreTypes, FilesInv
<1>2. ASSUME NewSession PROVE snapshots' = {} /\ FilesStep
  <2>1. FreshFile \in Files /\ FreshFile \notin DOMAIN disk
    BY <1>2, FreshFileType DEF NewSession
  <2> QED
    BY <1>1, <1>2, <2>1, FreshFiles DEF NewSession
<1>3. ASSUME Exit PROVE snapshots' = {} /\ FilesStep
  <2>1. \A g \in DOMAIN disk : Grows(g)
    BY <1>1, <1>3, SameGrows DEF Exit
  <2> QED
    BY <1>1, <1>3, <2>1 DEF Exit, Down, Running, FilesStep
<1>4. ASSUME NEW f \in Files, SetSessionFile(f) PROVE snapshots' = {} /\ FilesStep
  <2>1. snapshots' = {}
    BY <1>1, <1>4 DEF SetSessionFile
  <2>2. CASE f \notin DOMAIN disk /\ Fresh(f, FALSE) /\ UNCHANGED disk
    BY <2>1, <2>2, FreshFiles
  <2>3. CASE /\ f \in DOMAIN disk /\ Load(disk[f]) = <<>> /\ Fresh(f, TRUE)
             /\ disk' = [disk EXCEPT ![f] = <<Header>>]
    BY <2>1, <2>3, ResetFiles
  <2>4. CASE f \in DOMAIN disk /\ Load(disk[f]) # <<>> /\ Loaded(f, Load(disk[f])) /\ UNCHANGED disk
    BY <2>1, <2>4, LoadFiles
  <2> QED
    BY <1>4, <2>2, <2>3, <2>4 DEF SetSessionFile
<1>5. ASSUME NEW f \in Files, EndShare(f) PROVE FALSE
  BY <1>1, <1>5 DEF EndShare
<1>6. ASSUME NEW f \in DOMAIN disk, ForkFrom(f) PROVE snapshots' = {} /\ FilesStep
  <2> DEFINE copy == <<Header>> \o EntriesOf(Load(disk[f]))
  <2>1. /\ snapshots' = {} /\ Unwritten # {}
        /\ \/ disk' = Written(FreshFile, copy) /\ Loaded(FreshFile, copy)
           \/ Killed(FreshFile, copy)
    BY <1>1, <1>6 DEF ForkFrom
  <2>2. disk[f] \in Seq(Line)
    BY <1>1 DEF DiskOK
  <2>3. copy \in Seq(Parsed) /\ Starts(copy)
    BY <2>2, CopyType
  <2> HIDE DEF copy
  <2> QED
    BY <2>1, <2>3, OpenedFiles
<1>7. ASSUME Running, NEW e \in Ranked, AppendEntry(e, LabelsOf(Append(fileEntries, e)))
      PROVE  snapshots' = {} /\ FilesStep
  <2> DEFINE labels == LabelsOf(Append(fileEntries, e))
  <2>1. AppendEntry(e, labels)
    BY <1>7
  <2> HIDE DEF labels
  <2>2. snapshots' = {}
    BY <1>1, <2>1 DEF AppendEntry
  <2> QED
    BY <1>7, <2>1, <2>2, AppendFiles
<1>8. ASSUME NEW id \in Ids, Fork(id) PROVE snapshots' = {} /\ FilesStep
  <2>1. snapshots' = {}
    BY <1>1, <1>8 DEF Fork
  <2>2. CASE Unwritten # {} /\ Fresh(FreshFile, FALSE) /\ UNCHANGED disk
    BY <2>1, <2>2, FreshFileType, FreshFiles
  <2>3. CASE CreateBranchedSession(byId[id].parent)
    <3>1. PICK es \in BranchedEntries(byId[id].parent) :
              /\ \A e \in Range(es) : e.id <= MaxId
              /\ \/ disk' = Written(FreshFile, es) /\ Loaded(FreshFile, es)
                 \/ Killed(FreshFile, es)
      BY <2>3 DEF CreateBranchedSession
    <3>2. es \in Seq(Parsed) /\ Starts(es)
      BY <3>1, BranchedType
    <3>3. Unwritten # {}
      BY <2>3 DEF CreateBranchedSession
    <3> QED
      BY <2>1, <3>1, <3>2, <3>3, OpenedFiles
  <2> QED
    BY <1>8, <2>2, <2>3 DEF Fork
<1>9. ASSUME NEW id \in Ids, Share(id) PROVE FALSE
  BY <1>9 DEF Share
<1>10. ASSUME NEW id \in Ids \cup {NoEntry}, MoveLeaf(id) PROVE snapshots' = {} /\ FilesStep
  <2>1. UNCHANGED <<disk, sessionFile, fileEntries, flushed, snapshots>>
    BY <1>10 DEF MoveLeaf
  <2>2. \A g \in DOMAIN disk : Grows(g)
    BY <1>1, <2>1, SameGrows
  <2>3. Running' => InSync'
    BY <2>1 DEF FilesInv, Running, InSync, Lines
  <2> QED
    BY <1>1, <2>1, <2>2, <2>3 DEF FilesStep
<1> QED
  BY <1>2, <1>3, <1>4, <1>5, <1>6, <1>7, <1>8, <1>9, <1>10, Steps

LEMMA FilesStutter ==
    ASSUME TreeInv, FilesInv, UNCHANGED vars
    PROVE  snapshots' = {} /\ FilesStep
<1>1. UNCHANGED <<disk, sessionFile, fileEntries, flushed, snapshots>>
  BY DEF vars, memory
<1>2. \A g \in DOMAIN disk : Grows(g)
  BY <1>1, SameGrows DEF TreeInv, StoreTypes
<1>3. Running' => InSync'
  BY <1>1 DEF FilesInv, Running, InSync, Lines
<1> QED
  BY <1>1, <1>2, <1>3 DEF FilesStep, FilesInv

LEMMA InitFiles == Init => FilesInv
<1> SUFFICES ASSUME Init PROVE FilesInv
  OBVIOUS
<1>1. \A f \in DOMAIN disk : disk[f] = <<>>
  <2>1. CASE disk = Empty
    <3>1. DOMAIN <<>> = {}
      OBVIOUS
    <3> QED
      BY <2>1, <3>1 DEF Empty
  <2>2. CASE disk = With(Empty, Min(Files), <<>>)
    <3> DEFINE least == Min(Files)  e == Empty
    <3>1. DOMAIN <<>> = {}
      OBVIOUS
    <3>2. DOMAIN e = {}
      BY <3>1 DEF Empty
    <3> HIDE DEF least, e
    <3>3. disk = With(e, least, <<>>)
      BY <2>2 DEF least, e
    <3> QED
      BY <3>2, <3>3 DEF With
  <2> QED
    BY <2>1, <2>2 DEF Init
<1>2. ~Running /\ snapshots = {}
  BY DEF Init, Running
<1> QED
  BY <1>1, <1>2, TornFirst DEF FilesInv

THEOREM FilesInvariant ==
    ASSUME "share" \notin Features
    PROVE  Spec => [](TreeInv /\ FilesInv)
<1>1. Init => TreeInv /\ FilesInv
  BY InitTree, InitFiles
<1>2. TreeInv /\ FilesInv /\ [Next]_vars => (TreeInv /\ FilesInv)'
  <2> SUFFICES ASSUME TreeInv, FilesInv, [Next]_vars PROVE TreeInv' /\ FilesInv'
    OBVIOUS
  <2>1. TreeInv'
    BY TreeNext
  <2>2. snapshots' = {} /\ FilesStep
    BY FilesNext, FilesStutter
  <2>3. (\A g \in DOMAIN disk' : HeaderFirst(disk'[g])) /\ (Running' => InSync')
    BY <2>2, Zenon DEF FilesStep
  <2>4. FilesInv'
    BY <2>2, <2>3, Zenon DEF FilesInv
  <2> QED
    BY <2>1, <2>4
<1> QED
  BY <1>1, <1>2, PTL DEF Spec

LEMMA ReopensSame == TreeInv /\ FilesInv => ReopenSame
<1> SUFFICES ASSUME TreeInv, FilesInv PROVE ReopenSame
  OBVIOUS
<1>1. /\ DiskOK /\ fileEntries \in Seq(Parsed) /\ byId = Index(fileEntries)
      /\ labelsById = LabelsOf(fileEntries) /\ (~Running => fileEntries = <<>>)
  BY DEF TreeInv, StoreTypes, Indexed, Headed
<1>2. ASSUME HasAssistant(fileEntries), Torn \notin Range(Lines(sessionFile))
      PROVE  LET es == Load(Lines(sessionFile))
             IN  /\ Index(es) = byId
                 /\ LabelsOf(es) = labelsById
                 /\ LeafOf(es) = LeafOf(fileEntries)
  <2> DEFINE l == Lines(sessionFile)
  <2>1. Running
    <3>1. ~HasAssistant(<<>>)
      BY DEF HasAssistant
    <3> QED
      BY <1>1, <1>2, <3>1
  <2>2. flushed /\ Valid(l) # <<>> /\ (Torn \notin ToSet(l) => Matches(l, fileEntries, flushed))
    BY <1>2, <2>1 DEF FilesInv, InSync
  <2>3. Torn \notin ToSet(l)
    BY <1>2 DEF Range, ToSet
  <2>4. HeaderFirst(l)
    BY TornFirst DEF FilesInv, Lines
  <2> HIDE DEF l
  <2>5. PICK n \in 0..Len(fileEntries) : l = SubSeq(fileEntries, 1, n) \o fileEntries
    BY <1>2, <2>2, <2>3, Zenon DEF Matches
  <2>6. /\ l \in Seq(Parsed) /\ Index(l) = byId /\ LabelsOf(l) = labelsById
        /\ LeafOf(l) = LeafOf(fileEntries)
    BY <1>1, <2>5, ReadBehind
  <2>7. Valid(l) = l
    BY <2>6, ValidAll
  <2>8. Load(l) = l
    BY <2>2, <2>4, <2>7 DEF Load, HeaderFirst
  <2> QED
    BY <2>6, <2>8 DEF l
<1>3. \A f \in DOMAIN disk : Valid(disk[f]) # <<>> => Valid(disk[f])[1] = Header
  BY DEF FilesInv, HeaderFirst
<1> QED
  BY <1>2, <1>3 DEF ReopenSame

\* Unless a snapshot is shared: once an assistant has answered, opening the
\* session's file again gives the same entries, labels and leaf, however often
\* the process was killed between two lines, restarted, forked or switched; and
\* no file holds entries behind anything but a header.
THEOREM ReopensAlwaysSame ==
    ASSUME "share" \notin Features
    PROVE  Spec => []ReopenSame
<1>1. TreeInv /\ FilesInv => ReopenSame
  BY ReopensSame
<1> QED
  BY <1>1, FilesInvariant, PTL

\* Unless a snapshot is shared: once a file has its header, no line of it is
\* lost or changed by any step, whichever session is current and wherever the
\* process is killed.
THEOREM FilesOnlyGrow ==
    ASSUME "share" \notin Features
    PROVE  Spec => AppendOnly
<1>1. TreeInv /\ FilesInv /\ [Next]_vars =>
          \A f \in DOMAIN disk : Header \in Range(disk[f]) =>
              f \in DOMAIN disk' /\ IsPrefix(disk[f], disk'[f])
  <2> SUFFICES ASSUME TreeInv, FilesInv, [Next]_vars
               PROVE  \A f \in DOMAIN disk : Header \in Range(disk[f]) => Grows(f)
    BY DEF Grows
  <2>1. FilesStep
    BY FilesNext, FilesStutter
  <2>2. \A f \in DOMAIN disk : Header \in Range(disk[f]) => Grows(f)
    BY <2>1, Zenon DEF FilesStep
  <2> QED
    BY <2>2
<1>2. Spec => [](TreeInv /\ FilesInv)
  BY FilesInvariant
<1> QED
  BY <1>1, <1>2, PTL DEF Spec, AppendOnly

-------------------------------------------------------------------------------
(* What a fork does with the labels. *)

LEMMA AllWritten ==
    ASSUME NEW S, IsFiniteSet(S), NEW targets \in SetToSeqs(S), NEW t \in S
    PROVE  \E j \in 1..Cardinality(S) : targets[j] = t
<1> DEFINE n == Cardinality(S)
           D == 1..n
<1>1. n \in Nat
  BY FS_CardinalityType
<1>2. targets \in [D -> S] /\ \A i, j \in D : i # j => targets[i] # targets[j]
  BY DEF SetToSeqs
<1> HIDE DEF n
<1>3. targets \in Injection(D, S)
  BY <1>2 DEF Injection, IsInjective
<1>4. Cardinality(D) = n
  BY <1>1, FS_Interval
<1>5. Cardinality(D) = Cardinality(S)
  BY <1>4 DEF n
<1> HIDE DEF D
<1>6. targets \in Surjection(D, S)
  BY <1>3, <1>5, FS_Injection
<1> QED
  BY <1>6 DEF Surjection, D, n

LEMMA CopiesLabels ==
    ASSUME TreeInv, NEW es, NEW kept, NEW tail, NEW targets, Copies(es, kept, tail, targets),
           \A e \in Range(es) : e.id <= MaxId
    PROVE  LabelsOf(es) = Restrict(labelsById, LabelsToWrite(kept))
<1> DEFINE S == LabelsToWrite(kept)
           n == Cardinality(S)
           W == {e \in Ranked : e.id < FreshId /\ e.kind # "label"}
<1>1. /\ es \in Seq(Parsed) /\ kept \in Seq(Parsed) /\ tail \in Seq(Ranked) /\ Len(tail) = n
      /\ targets \in [1..n -> S]
      /\ \A i \in 1..n : /\ tail[i].kind = "label" /\ tail[i].ref = targets[i]
                         /\ tail[i].label = labelsById[targets[i]]
  BY CopiesType
<1>2. kept \in Seq(W) /\ es = (<<Header>> \o kept) \o tail /\ targets \in SetToSeqs(S)
  BY DEF Copies
<1>3. DOMAIN labelsById \subseteq Ids /\ \A t \in DOMAIN labelsById : labelsById[t] \in Labels
  BY LabelsHold DEF TreeInv, StoreTypes, Indexed
<1>4. S \subseteq Ids /\ IsFiniteSet(S) /\ \A t \in S : labelsById[t] # NoLabel
  <2>1. S \subseteq DOMAIN labelsById
    BY DEF LabelsToWrite
  <2>2. IsFiniteSet(Ids)
    BY BoundAssumption, FS_Interval DEF Ids
  <2>3. S \subseteq Ids
    BY <1>3, <2>1
  <2> HIDE DEF S
  <2>4. IsFiniteSet(S)
    BY <2>2, <2>3, FS_Subset
  <2> QED
    BY <1>3, <2>1, <2>3, <2>4, LabelsAssumption
<1> HIDE DEF S
<1>5. n \in Nat
  BY <1>4, FS_CardinalityType
<1>6. \A t \in S : \E j \in 1..n : targets[j] = t
  BY <1>2, <1>4, AllWritten
<1> HIDE DEF n
<1> DEFINE a == <<Header>> \o kept
<1>7. a \in Seq(Parsed) /\ \A i \in 1..Len(a) : a[i].kind # "label"
  <2> DEFINE h == <<Header>>
  <2>1. h \in Seq(Parsed) /\ h[1] = Header /\ Len(h) = 1
    BY ReadHeader
  <2> HIDE DEF h
  <2>2. /\ h \o kept \in Seq(Parsed) /\ Len(h \o kept) = Len(h) + Len(kept)
        /\ \A i \in 1..(Len(h) + Len(kept)) : (h \o kept)[i] = IF i <= Len(h) THEN h[i] ELSE kept[i - Len(h)]
    BY <1>1, <2>1, ConcatProperties
  <2>3. Len(kept) \in Nat /\ \A i \in 1..Len(kept) : kept[i].kind # "label"
    <3>1. \A i \in 1..Len(kept) : kept[i] \in W
      BY <1>2
    <3> QED
      BY <1>1, <3>1
  <2>4. ASSUME NEW i \in 1..(1 + Len(kept)) PROVE (h \o kept)[i].kind # "label"
    <3>1. CASE i = 1
      <4>1. (h \o kept)[i] = Header
        BY <2>1, <2>2, <3>1
      <4> QED
        BY <4>1, Lineup
    <3>2. CASE i # 1
      <4>1. i - 1 \in 1..Len(kept)
        BY <2>3, <3>2
      <4>2. (h \o kept)[i] = kept[i - 1]
        BY <2>1, <2>2, <2>3, <3>2, <4>1
      <4> QED
        BY <2>3, <4>1, <4>2
    <3> QED
      BY <3>1, <3>2
  <2> QED
    BY <2>1, <2>2, <2>4 DEF h
<1> HIDE DEF a
<1>8. /\ \A m \in DOMAIN es : es[m].kind = "label" => \E j \in 1..n : es[m] = tail[j]
      /\ \A j \in 1..n : \E m \in DOMAIN es : es[m] = tail[j]
  <2>1. tail \in Seq(Parsed)
    BY <1>1, Lineup
  <2>2. /\ a \o tail \in Seq(Parsed) /\ Len(a \o tail) = Len(a) + Len(tail)
        /\ \A i \in 1..(Len(a) + Len(tail)) : (a \o tail)[i] = IF i <= Len(a) THEN a[i] ELSE tail[i - Len(a)]
    BY <1>7, <2>1, ConcatProperties
  <2>3. es = a \o tail
    BY <1>2 DEF a
  <2>4. /\ Len(a) \in Nat /\ Len(tail) = n /\ DOMAIN es = 1..(Len(a) + n)
        /\ \A i \in 1..(Len(a) + n) : es[i] = IF i <= Len(a) THEN a[i] ELSE tail[i - Len(a)]
    <3>1. Len(a) \in Nat /\ Len(tail) = n
      BY <1>1, <1>7
    <3>2. DOMAIN es = 1..Len(es) /\ Len(es) = Len(a) + n
      BY <1>1, <2>2, <2>3, <3>1
    <3> QED
      BY <2>2, <2>3, <3>1, <3>2
  <2>5. ASSUME NEW m \in DOMAIN es, es[m].kind = "label" PROVE \E j \in 1..n : es[m] = tail[j]
    <3>1. ~(m <= Len(a))
      BY <1>7, <2>4, <2>5
    <3>2. m - Len(a) \in 1..n
      BY <1>5, <2>4, <3>1
    <3> QED
      BY <2>4, <3>1, <3>2
  <2>6. ASSUME NEW j \in 1..n PROVE \E m \in DOMAIN es : es[m] = tail[j]
    <3> DEFINE m == Len(a) + j
    <3>1. m \in DOMAIN es /\ ~(m <= Len(a)) /\ m - Len(a) = j
      BY <1>5, <2>4
    <3> HIDE DEF m
    <3>2. es[m] = tail[j]
      BY <2>4, <3>1
    <3> QED
      BY <3>1, <3>2
  <2> QED
    BY <2>5, <2>6
<1>9. ASSUME NEW t \in S
      PROVE  PlacesOf(es, LabelsFor(t)) # {} /\ Latest(es, LabelsFor(t)).label = labelsById[t]
  <2>1. PICK j \in 1..n : targets[j] = t
    BY <1>6
  <2>2. PICK m \in DOMAIN es : es[m] = tail[j]
    BY <1>8
  <2>3. tail[j].kind = "label" /\ tail[j].ref = t
    BY <1>1, <2>1
  <2>4. es[m] \in LabelsFor(t)
    <3>1. es[m] \in Parsed
      BY <1>1
    <3> QED
      BY <2>2, <2>3, <3>1 DEF LabelsFor
  <2>5. PlacesOf(es, LabelsFor(t)) # {}
    BY <2>4 DEF PlacesOf
  <2>6. PICK k \in DOMAIN es : Latest(es, LabelsFor(t)) = es[k] /\ es[k] \in LabelsFor(t)
    BY <1>1, <2>5, LatestIn
  <2>7. es[k].kind = "label" /\ es[k].ref = t
    BY <2>6 DEF LabelsFor
  <2>8. PICK i \in 1..n : es[k] = tail[i]
    BY <1>8, <2>7
  <2> QED
    BY <1>1, <2>5, <2>6, <2>7, <2>8
<1>10. ASSUME NEW t, PlacesOf(es, LabelsFor(t)) # {} PROVE t \in S
  <2>1. PICK k \in DOMAIN es : es[k] \in LabelsFor(t)
    BY <1>10 DEF PlacesOf
  <2>2. es[k].kind = "label" /\ es[k].ref = t
    BY <2>1 DEF LabelsFor
  <2>3. PICK i \in 1..n : es[k] = tail[i]
    BY <1>8, <2>2
  <2> QED
    BY <1>1, <2>2, <2>3
<1>11. {t \in Ids : PlacesOf(es, LabelsFor(t)) # {} /\ Latest(es, LabelsFor(t)).label # NoLabel} = S
  BY <1>4, <1>9, <1>10
<1>12. LabelsOf(es) =
           [target \in {t \in Ids : PlacesOf(es, LabelsFor(t)) # {} /\ Latest(es, LabelsFor(t)).label # NoLabel} |->
               Latest(es, LabelsFor(target)).label]
  BY <1>1, LabelsIs
<1>13. LabelsOf(es) = [target \in S |-> Latest(es, LabelsFor(target)).label]
  BY <1>11, <1>12
<1>14. LabelsOf(es) = [target \in S |-> labelsById[target]]
  BY <1>9, <1>13
<1> QED
  BY <1>14 DEF Restrict, S

\* A fork into another file starts with the labels that were set on the entries
\* it keeps, whatever order they were written in, and no other.
THEOREM LabelsSurviveForks == Spec => ForkKeepsLabels
<1>1. TreeInv /\ [Next]_vars =>
          \A id \in DOMAIN byId : sessionFile' \notin {NoFile, sessionFile} /\ Fork(id) =>
              labelsById' = Restrict(labelsById,
                  DOMAIN labelsById \cap {e.id : e \in Range(Kept(Branch(byId, byId[id].parent)))})
  <2> SUFFICES ASSUME TreeInv, NEW id \in DOMAIN byId, sessionFile' \notin {NoFile, sessionFile}, Fork(id)
               PROVE  labelsById' = Restrict(labelsById, LabelsToWrite(Kept(Branch(byId, byId[id].parent))))
    BY DEF LabelsToWrite
  <2>1. CASE byId[id].parent = NoEntry /\ Fresh(FreshFile, FALSE)
    <3>1. NoEntry \notin DOMAIN byId
      <4>1. DOMAIN byId \subseteq Ids
        BY IndexHolds DEF TreeInv, StoreTypes, Indexed
      <4> QED
        BY <4>1, BoundAssumption DEF Ids, NoEntry
    <3>2. Branch(byId, NoEntry) = <<>>
      BY <3>1, Zenon DEF Branch
    <3>3. Kept(<<>>) = <<>>
      BY SelectedEmpty DEF Kept
    <3>4. LabelsToWrite(<<>>) = {}
      BY DEF LabelsToWrite, Range
    <3>5. \A f : [x \in {} |-> f[x]] = <<>>
      OBVIOUS
    <3>6. Restrict(labelsById, {}) = <<>>
      BY <3>5 DEF Restrict
    <3>7. labelsById' = <<>>
      BY <2>1 DEF Fresh, Reset, Empty
    <3> QED
      BY <2>1, <3>2, <3>3, <3>4, <3>6, <3>7
  <2>2. CASE CreateBranchedSession(byId[id].parent)
    <3>1. PICK es \in BranchedEntries(byId[id].parent) :
              /\ \A e \in Range(es) : e.id <= MaxId
              /\ Loaded(FreshFile, es) \/ Killed(FreshFile, es)
      BY <2>2 DEF CreateBranchedSession
    <3>2. labelsById' = LabelsOf(es)
      <4>1. ~Killed(FreshFile, es)
        BY DEF Killed, Down
      <4> QED
        BY <3>1, <4>1 DEF Loaded
    <3>3. PICK tail, targets : Copies(es, Kept(Branch(byId, byId[id].parent)), tail, targets)
      BY BranchedCopies
    <3>4. LabelsOf(es) = Restrict(labelsById, LabelsToWrite(Kept(Branch(byId, byId[id].parent))))
      BY <3>1, <3>3, CopiesLabels
    <3> QED
      BY <3>2, <3>4
  <2> QED
    BY <2>1, <2>2 DEF Fork
<1>2. Spec => []TreeInv
  BY TreeInvariant
<1> QED
  BY <1>1, <1>2, PTL DEF Spec, ForkKeepsLabels

-------------------------------------------------------------------------------
(* What a fork is shown. *)

LEMMA SelectedNone ==
    ASSUME NEW S, NEW s \in Seq(S), NEW K, S \cap K = {}
    PROVE  Selected(s, K) = <<>>
<1>1. Selected(s, K) \in Seq({})
  BY SelectedType
<1> QED
  BY <1>1

\* The lines of a copy, in their order.
Laid(es, kept, tail) ==
    /\ kept \in Seq(Parsed) /\ tail \in Seq(Parsed)
    /\ Len(es) = 1 + Len(kept) + Len(tail)
    /\ es[1] = Header
    /\ \A i \in 1..Len(kept) : es[1 + i] = kept[i]
    /\ \A i \in 1..Len(tail) : es[1 + Len(kept) + i] = tail[i]

LEMMA CopiesLines ==
    ASSUME TreeInv, NEW es, NEW kept, NEW tail, NEW targets, Copies(es, kept, tail, targets),
           \A e \in Range(es) : e.id <= MaxId
    PROVE  Laid(es, kept, tail)
<1> DEFINE h == <<Header>>  a == h \o kept
<1>1. kept \in Seq(Parsed) /\ tail \in Seq(Ranked)
  BY CopiesType
<1>2. tail \in Seq(Parsed)
  BY <1>1, Lineup
<1>3. es = a \o tail
  BY DEF Copies
<1>4. h \in Seq(Parsed) /\ h[1] = Header /\ Len(h) = 1
  BY Lineup
<1> HIDE DEF h
<1>5. /\ a \in Seq(Parsed) /\ Len(a) = Len(h) + Len(kept)
      /\ \A i \in 1..(Len(h) + Len(kept)) : a[i] = IF i <= Len(h) THEN h[i] ELSE kept[i - Len(h)]
  BY <1>1, <1>4, ConcatProperties
<1>6. Len(kept) \in Nat /\ Len(tail) \in Nat
  BY <1>1, <1>2
<1> HIDE DEF a
<1>7. /\ a \o tail \in Seq(Parsed) /\ Len(a \o tail) = Len(a) + Len(tail)
      /\ \A i \in 1..(Len(a) + Len(tail)) : (a \o tail)[i] = IF i <= Len(a) THEN a[i] ELSE tail[i - Len(a)]
  BY <1>2, <1>5, ConcatProperties
<1>8. Len(a) = 1 + Len(kept)
  BY <1>4, <1>5
<1>9. a[1] = Header /\ \A i \in 1..Len(kept) : a[1 + i] = kept[i]
  BY <1>4, <1>5, <1>6
<1>10. \A i \in 1..Len(a) : (a \o tail)[i] = a[i]
  BY <1>6, <1>7, <1>8
<1>11. \A i \in 1..Len(tail) : (a \o tail)[1 + Len(kept) + i] = tail[i]
  <2> SUFFICES ASSUME NEW i \in 1..Len(tail)
               PROVE  (a \o tail)[1 + Len(kept) + i] = tail[i]
    OBVIOUS
  <2> DEFINE j == 1 + Len(kept) + i
  <2>1. j \in 1..(Len(a) + Len(tail)) /\ ~(j <= Len(a)) /\ j - Len(a) = i
    BY <1>6, <1>8
  <2> HIDE DEF j
  <2>2. (a \o tail)[j] = tail[i]
    BY <1>7, <2>1
  <2> QED
    BY <2>2 DEF j
<1>12. (a \o tail)[1] = Header /\ \A i \in 1..Len(kept) : (a \o tail)[1 + i] = kept[i]
  BY <1>6, <1>8, <1>9, <1>10
<1> QED
  BY <1>1, <1>2, <1>3, <1>7, <1>8, <1>11, <1>12 DEF Laid

\* The ids of the labels a copy ends with are new ones, each the parent of the next.
Chained(tail, leaf) ==
    \A i \in 1..Len(tail) : /\ tail[i].id = FreshId + i - 1
                            /\ tail[i].parent = IF i = 1 THEN leaf ELSE tail[i - 1].id

LEMMA CopiesTail ==
    ASSUME TreeInv, NEW es, NEW kept, NEW tail, NEW targets, Copies(es, kept, tail, targets),
           \A e \in Range(es) : e.id <= MaxId
    PROVE  Chained(tail, LeafOf(kept))
<1>1. /\ Len(tail) = Cardinality(LabelsToWrite(kept)) /\ tail \in Seq(Ranked)
      /\ targets \in [1..Cardinality(LabelsToWrite(kept)) -> LabelsToWrite(kept)]
  BY CopiesType
<1>2. Len(tail) \in Nat /\ DOMAIN targets = 1..Len(tail)
  BY <1>1
<1>3. tail = [i \in DOMAIN targets |-> LabelEntry(targets, i, LeafOf(kept))]
  BY DEF Copies
<1>4. \A i \in 1..Len(tail) : tail[i] = LabelEntry(targets, i, LeafOf(kept))
  BY <1>2, <1>3
<1>5. \A i \in 1..Len(tail) : /\ tail[i].id = FreshId + i - 1
                              /\ tail[i].parent = IF i = 1 THEN LeafOf(kept) ELSE FreshId + i - 2
  <2> SUFFICES ASSUME NEW i \in 1..Len(tail)
               PROVE  /\ tail[i].id = FreshId + i - 1
                      /\ tail[i].parent = IF i = 1 THEN LeafOf(kept) ELSE FreshId + i - 2
    OBVIOUS
  <2>1. tail[i] = [id |-> FreshId + i - 1, parent |-> IF i = 1 THEN LeafOf(kept) ELSE FreshId + i - 2,
                   kind |-> "label", ref |-> targets[i], label |-> labelsById[targets[i]]]
    BY <1>4, Zenon DEF LabelEntry, Entry
  <2> QED
    BY <2>1
<1>6. ASSUME NEW i \in 1..Len(tail), i # 1 PROVE FreshId + i - 2 = tail[i - 1].id
  <2> DEFINE k == i - 1
  <2>1. k \in 1..Len(tail) /\ FreshId + k - 1 = FreshId + i - 2
    BY <1>2, <1>6, FreshIdType
  <2> HIDE DEF k
  <2>2. tail[k].id = FreshId + k - 1
    BY <1>5, <2>1
  <2> QED
    BY <2>1, <2>2 DEF k
<1> QED
  BY <1>5, <1>6 DEF Chained

\* What the index of a copy holds: the kept entries and the labels, each once.
Holds(index, kept, tail) ==
    /\ \A i \in DOMAIN kept : kept[i].id \in DOMAIN index /\ index[kept[i].id] = kept[i]
    /\ \A i \in DOMAIN tail : tail[i].id \in DOMAIN index /\ index[tail[i].id] = tail[i]
    /\ \A id \in DOMAIN index : \/ \E i \in DOMAIN kept : kept[i].id = id
                                \/ \E i \in DOMAIN tail : tail[i].id = id

LEMMA CopiesIndex ==
    ASSUME TreeInv, NEW es, NEW kept, NEW tail, NEW targets, Copies(es, kept, tail, targets),
           \A e \in Range(es) : e.id <= MaxId,
           \A i \in DOMAIN kept : kept[i].id \in DOMAIN byId /\ kept[i] = byId[kept[i].id]
    PROVE  Holds(Index(es), kept, tail)
<1> DEFINE n == Len(kept)  m == Len(tail)
<1>1. /\ kept \in Seq(Parsed) /\ tail \in Seq(Parsed)
      /\ Len(es) = 1 + n + m /\ es[1] = Header
      /\ \A i \in 1..n : es[1 + i] = kept[i]
      /\ \A i \in 1..m : es[1 + n + i] = tail[i]
  <2>1. Laid(es, kept, tail)
    BY CopiesLines
  <2> QED
    BY <2>1 DEF Laid
<1>2. es \in Seq(Parsed) /\ tail \in Seq(Ranked)
  BY CopiesType
<1>3. n \in Nat /\ m \in Nat /\ DOMAIN kept = 1..n /\ DOMAIN tail = 1..m /\ DOMAIN es = 1..(1 + n + m)
  BY <1>1, <1>2
<1> HIDE DEF n, m
<1>4. \A k \in DOMAIN es : es[k] = Header \/ (\E i \in DOMAIN kept : es[k] = kept[i])
                                          \/ (\E i \in DOMAIN tail : es[k] = tail[i])
  <2> SUFFICES ASSUME NEW k \in DOMAIN es
               PROVE  es[k] = Header \/ (\E i \in DOMAIN kept : es[k] = kept[i])
                                     \/ (\E i \in DOMAIN tail : es[k] = tail[i])
    OBVIOUS
  <2>1. CASE k = 1
    BY <1>1, <2>1
  <2>2. CASE k # 1 /\ k <= 1 + n
    <3> DEFINE i == k - 1
    <3>1. i \in 1..n /\ 1 + i = k
      BY <1>3, <2>2
    <3> HIDE DEF i
    <3> QED
      BY <1>1, <1>3, <3>1
  <2>3. CASE ~(k <= 1 + n)
    <3> DEFINE i == k - (1 + n)
    <3>1. i \in 1..m /\ 1 + n + i = k
      BY <1>3, <2>3
    <3> HIDE DEF i
    <3> QED
      BY <1>1, <1>3, <3>1
  <2> QED
    BY <2>1, <2>2, <2>3
<1>5. \A i \in DOMAIN kept : \E k \in DOMAIN es : es[k] = kept[i]
  <2> SUFFICES ASSUME NEW i \in DOMAIN kept PROVE \E k \in DOMAIN es : es[k] = kept[i]
    OBVIOUS
  <2>1. 1 + i \in DOMAIN es /\ i \in 1..n
    BY <1>3
  <2> QED
    BY <1>1, <2>1
<1>6. \A i \in DOMAIN tail : \E k \in DOMAIN es : es[k] = tail[i]
  <2> SUFFICES ASSUME NEW i \in DOMAIN tail PROVE \E k \in DOMAIN es : es[k] = tail[i]
    OBVIOUS
  <2>1. 1 + n + i \in DOMAIN es /\ i \in 1..m
    BY <1>3
  <2> QED
    BY <1>1, <2>1
<1>7. \A i \in DOMAIN kept : kept[i].id \in Nat /\ kept[i].id < FreshId /\ kept[i].id # NoEntry /\ kept[i] # Header
  <2> SUFFICES ASSUME NEW i \in DOMAIN kept
               PROVE  kept[i].id \in Nat /\ kept[i].id < FreshId /\ kept[i].id # NoEntry /\ kept[i] # Header
    OBVIOUS
  <2>1. kept[i].id < FreshId /\ kept[i].id \in DOMAIN byId
    BY FreshIdType
  <2>2. DOMAIN byId \subseteq Ids
    BY IndexHolds DEF TreeInv, StoreTypes, Indexed
  <2>3. kept[i].id \in Nat /\ kept[i].id # NoEntry
    BY <2>1, <2>2, BoundAssumption DEF Ids, NoEntry
  <2> QED
    BY <2>1, <2>3, Lineup
<1>8. \A i \in DOMAIN tail : tail[i].id = FreshId + i - 1
  <2>1. Chained(tail, LeafOf(kept))
    BY CopiesTail
  <2> QED
    BY <1>3, <2>1 DEF Chained, m
<1>9. \A i \in DOMAIN tail : tail[i] # Header /\ tail[i].id # NoEntry
  <2>1. \A i \in DOMAIN tail : tail[i] \in Ranked
    BY <1>2
  <2> QED
    BY <2>1, Lineup
<1>10. FreshId \in Nat
  BY FreshIdType
\* An id is that of one line only.
<1>11. ASSUME NEW k \in DOMAIN es, NEW j \in DOMAIN es, es[k].id = es[j].id PROVE es[k] = es[j]
  <2>1. CASE es[k] = Header
    <3>1. es[j].id = NoEntry
      BY <1>11, <2>1, Lineup
    <3> QED
      BY <1>4, <1>7, <1>9, <2>1, <3>1
  <2>2. CASE \E i \in DOMAIN kept : es[k] = kept[i]
    <3>1. PICK i \in DOMAIN kept : es[k] = kept[i]
      BY <2>2
    <3>2. es[j] # Header
      BY <1>7, <1>11, <3>1, Lineup
    <3>3. ~\E l \in DOMAIN tail : es[j] = tail[l]
      <4> SUFFICES ASSUME NEW l \in DOMAIN tail, es[j] = tail[l] PROVE FALSE
        OBVIOUS
      <4>1. kept[i].id = FreshId + l - 1 /\ l \in Nat /\ l >= 1
        BY <1>3, <1>8, <1>11, <3>1
      <4>2. kept[i].id < FreshId
        BY <1>7
      <4> QED
        BY <1>10, <4>1, <4>2
    <3>4. PICK l \in DOMAIN kept : es[j] = kept[l]
      BY <1>4, <3>2, <3>3
    <3> QED
      BY <1>11, <3>1, <3>4
  <2>3. CASE \E i \in DOMAIN tail : es[k] = tail[i]
    <3>1. PICK i \in DOMAIN tail : es[k] = tail[i]
      BY <2>3
    <3>2. es[j] # Header
      BY <1>9, <1>11, <3>1, Lineup
    <3>3. ~\E l \in DOMAIN kept : es[j] = kept[l]
      <4> SUFFICES ASSUME NEW l \in DOMAIN kept, es[j] = kept[l] PROVE FALSE
        OBVIOUS
      <4>1. kept[l].id = FreshId + i - 1 /\ i \in Nat /\ i >= 1
        BY <1>3, <1>8, <1>11, <3>1
      <4>2. kept[l].id < FreshId
        BY <1>7
      <4> QED
        BY <1>10, <4>1, <4>2
    <3>4. PICK l \in DOMAIN tail : es[j] = tail[l]
      BY <1>4, <3>2, <3>3
    <3>5. FreshId + i - 1 = FreshId + l - 1
      BY <1>8, <1>11, <3>1, <3>4
    <3>6. i = l
      <4>1. i \in Nat /\ l \in Nat
        BY <1>3
      <4> QED
        BY <1>10, <3>5, <4>1
    <3> QED
      BY <3>1, <3>4, <3>6
  <2> QED
    BY <1>4, <2>1, <2>2, <2>3
<1>12. ASSUME NEW k \in DOMAIN es, es[k] # Header
       PROVE  es[k].id \in DOMAIN Index(es) /\ Index(es)[es[k].id] = es[k]
  <2>1. es[k].id \in DOMAIN Index(es)
    BY <1>2, <1>12, IndexHolds
  <2>2. Index(es)[es[k].id].id = es[k].id /\ \E j \in DOMAIN es : Index(es)[es[k].id] = es[j]
    BY <1>2, <2>1, IndexHolds
  <2> QED
    BY <1>11, <2>1, <2>2
<1>13. \A i \in DOMAIN kept : kept[i].id \in DOMAIN Index(es) /\ Index(es)[kept[i].id] = kept[i]
  BY <1>5, <1>7, <1>12
<1>14. \A i \in DOMAIN tail : tail[i].id \in DOMAIN Index(es) /\ Index(es)[tail[i].id] = tail[i]
  BY <1>6, <1>9, <1>12
<1>15. ASSUME NEW id \in DOMAIN Index(es)
       PROVE  \/ \E i \in DOMAIN kept : kept[i].id = id
              \/ \E i \in DOMAIN tail : tail[i].id = id
  <2>1. PICK k \in DOMAIN es : Index(es)[id] = es[k]
    BY <1>2, IndexHolds
  <2>2. es[k].id = id /\ es[k] \in Ranked
    BY <1>2, <2>1, IndexHolds
  <2>3. es[k] # Header
    BY <2>2, Lineup
  <2> QED
    BY <1>4, <2>2, <2>3
<1> QED
  BY <1>13, <1>14, <1>15 DEF Holds

\* The leaf of a copy is its last line: the last label, or the last entry kept.
LEMMA CopiesLeaf ==
    ASSUME TreeInv, NEW es, NEW kept, NEW tail, NEW targets, Copies(es, kept, tail, targets),
           \A e \in Range(es) : e.id <= MaxId, Len(kept) # 0
    PROVE  /\ LeafOf(kept) = kept[Len(kept)].id
           /\ LeafOf(es) = IF Len(tail) = 0 THEN kept[Len(kept)].id ELSE tail[Len(tail)].id
<1> DEFINE n == Len(kept)  m == Len(tail)  l == Len(es)
<1>1. /\ kept \in Seq(Parsed) /\ tail \in Seq(Parsed)
      /\ l = 1 + n + m /\ es[1] = Header
      /\ \A i \in 1..n : es[1 + i] = kept[i]
      /\ \A i \in 1..m : es[1 + n + i] = tail[i]
  <2>1. Laid(es, kept, tail)
    BY CopiesLines
  <2> QED
    BY <2>1 DEF Laid
<1>2. es \in Seq(Parsed) /\ tail \in Seq(Ranked)
  BY CopiesType
<1>3. n \in Nat /\ n # 0 /\ m \in Nat
  BY <1>1
<1>4. kept[n] \in Ranked
  <2>1. kept \in Seq({e \in Ranked : e.id < FreshId /\ e.kind # "label"})
    BY DEF Copies
  <2> QED
    BY <1>3, <2>1
<1>5. m # 0 => tail[m] \in Ranked
  BY <1>2, <1>3
<1> HIDE DEF n, m, l
<1>6. LeafOf(kept) = kept[n].id
  <2>1. PlacesOf(kept, Ranked) # {} /\ Latest(kept, Ranked) = kept[n]
    <3>1. n \in 1..Len(kept) /\ \A i \in 1..Len(kept) : kept[i] \in Ranked => i <= n
      BY <1>3 DEF n
    <3> QED
      BY <1>1, <1>4, <3>1, LatestIs
  <2> QED
    BY <1>1, <2>1, LeafIs
<1>7. es[l] = IF m = 0 THEN kept[n] ELSE tail[m]
  <2>1. CASE m = 0
    <3>1. n \in 1..n /\ l = 1 + n
      BY <1>1, <1>3, <2>1
    <3> QED
      BY <1>1, <2>1, <3>1
  <2>2. CASE m # 0
    <3>1. m \in 1..m /\ l = 1 + n + m
      BY <1>1, <1>3, <2>2
    <3> QED
      BY <1>1, <2>2, <3>1
  <2> QED
    BY <2>1, <2>2
<1>8. es[l] \in Ranked
  BY <1>4, <1>5, <1>7
<1>9. PlacesOf(es, Ranked) # {} /\ Latest(es, Ranked) = es[l]
  <2>1. l \in 1..Len(es) /\ \A i \in 1..Len(es) : es[i] \in Ranked => i <= l
    BY <1>1, <1>3 DEF l
  <2> QED
    BY <1>2, <1>8, <2>1, LatestIs
<1>10. LeafOf(es) = es[l].id
  BY <1>2, <1>9, LeafIs
<1>11. LeafOf(es) = IF m = 0 THEN kept[n].id ELSE tail[m].id
  BY <1>7, <1>10
<1> QED
  BY <1>6, <1>11 DEF n, m

\* The branch of a copy is the branch it was made from, and the labels behind it.
LEMMA CopiesBranch ==
    ASSUME TreeInv, NEW id \in DOMAIN byId, NEW es, NEW tail, NEW targets,
           Copies(es, Branch(byId, id), tail, targets),
           \A e \in Range(es) : e.id <= MaxId
    PROVE  Branch(Index(es), LeafOf(es)) = Branch(byId, id) \o tail
<1> DEFINE kept == Branch(byId, id)  n == Len(kept)  m == Len(tail)  index == Index(es)
           C == {kept[i].id : i \in DOMAIN kept}
<1>1. DOMAIN byId \subseteq Ids /\ \A e \in DOMAIN byId : byId[e] \in Ranked /\ byId[e].id = e
  BY IndexHolds DEF TreeInv, StoreTypes, Indexed
<1>2. n \in Nat \ {0} /\ kept[n] = byId[id]
  BY <1>1, BranchEnds
<1>3. Closed(byId, kept)
  BY <1>1, BranchClosed
<1>4. es \in Seq(Parsed) /\ tail \in Seq(Ranked) /\ kept \in Seq(Ranked)
  <2>1. kept \in Seq(Ranked)
    BY <1>1, BranchType
  <2> QED
    BY <2>1, CopiesType
<1>5. DOMAIN index \subseteq Ids /\ \A e \in DOMAIN index : index[e] \in Ranked /\ index[e].id = e
  BY <1>4, IndexHolds
<1> HIDE DEF kept
<1>6. /\ \A i \in DOMAIN kept : kept[i].id \in DOMAIN index /\ index[kept[i].id] = kept[i]
      /\ \A i \in DOMAIN tail : tail[i].id \in DOMAIN index /\ index[tail[i].id] = tail[i]
      /\ \A e \in DOMAIN index : \/ \E i \in DOMAIN kept : kept[i].id = e
                                 \/ \E i \in DOMAIN tail : tail[i].id = e
  <2>1. \A i \in DOMAIN kept : kept[i].id \in DOMAIN byId /\ kept[i] = byId[kept[i].id]
    BY <1>3 DEF Closed
  <2>2. Copies(es, kept, tail, targets)
    BY DEF kept
  <2> QED
    <3>1. Holds(index, kept, tail)
      BY <2>1, <2>2, CopiesIndex
    <3> QED
      BY <3>1 DEF Holds
<1>7. \A i \in 1..m : /\ tail[i].id = FreshId + i - 1
                       /\ tail[i].parent = IF i = 1 THEN kept[n].id ELSE tail[i - 1].id
  <2>1. Copies(es, kept, tail, targets) /\ Len(kept) # 0
    BY <1>2 DEF kept
  <2>2. LeafOf(kept) = kept[n].id
    BY <2>1, CopiesLeaf
  <2> QED
    <3>1. Chained(tail, LeafOf(kept))
      BY <2>1, CopiesTail
    <3> QED
      BY <2>2, <3>1 DEF Chained
<1>8. LeafOf(es) = IF m = 0 THEN kept[n].id ELSE tail[m].id
  <2>1. Copies(es, kept, tail, targets) /\ Len(kept) # 0
    BY <1>2 DEF kept
  <2> QED
    BY <2>1, CopiesLeaf
<1> HIDE DEF index, n, m
<1>9. m \in Nat /\ DOMAIN tail = 1..m /\ DOMAIN kept = 1..n /\ n \in DOMAIN kept /\ Len(tail) = m
  BY <1>2, <1>4 DEF n, m
<1>10. kept[n].id = id
  BY <1>1, <1>2
\* As far as it was kept.
<1>11. Branch(index, id) = kept
  <2>1. C \subseteq DOMAIN byId /\ C \subseteq DOMAIN index /\ id \in C
    BY <1>3, <1>6, <1>9, <1>10 DEF Closed
  <2>2. \A c \in C : index[c] = byId[c]
    BY <1>3, <1>6 DEF Closed
  <2>3. \A c \in C : byId[c].parent \in DOMAIN byId => byId[c].parent \in C
    <3> SUFFICES ASSUME NEW i \in DOMAIN kept, byId[kept[i].id].parent \in DOMAIN byId
                 PROVE  byId[kept[i].id].parent \in C
      OBVIOUS
    <3>1. kept[i] = byId[kept[i].id]
      BY <1>3 DEF Closed
    <3>2. \E k \in DOMAIN kept : kept[k].id = kept[i].parent
      BY <1>3, <3>1 DEF Closed
    <3> QED
      BY <3>1, <3>2
  <2>4. \A c \in C : byId[c].parent \in DOMAIN index => byId[c].parent \in C
    <3> SUFFICES ASSUME NEW i \in DOMAIN kept, byId[kept[i].id].parent \in DOMAIN index
                 PROVE  byId[kept[i].id].parent \in C
      OBVIOUS
    <3>1. kept[i] = byId[kept[i].id] /\ kept[i].id \in DOMAIN byId
      BY <1>3 DEF Closed
    <3>2. CASE \E k \in DOMAIN kept : kept[k].id = kept[i].parent
      BY <3>1, <3>2
    <3>3. CASE \E k \in DOMAIN tail : tail[k].id = kept[i].parent
      <4>1. PICK k \in DOMAIN tail : tail[k].id = kept[i].parent
        BY <3>3
      <4>2. kept[i].parent = FreshId + k - 1 /\ k \in Nat /\ k >= 1
        BY <1>7, <1>9, <4>1
      <4>3. kept[i].id < FreshId /\ FreshId \in Nat /\ kept[i].id \in Nat
        BY <1>1, <3>1, FreshIdType, BoundAssumption DEF Ids
      <4>4. kept[i] \in Ranked
        BY <1>1, <3>1
      <4>5. kept[i].parent < kept[i].id
        BY <4>4 DEF Ranked
      <4> QED
        BY <4>2, <4>3, <4>5
    <3> QED
      BY <1>6, <3>1, <3>2, <3>3
  <2> HIDE DEF C
  <2>5. \A c \in C : Branch(index, c) = Branch(byId, c)
    BY <1>1, <1>5, <2>1, <2>2, <2>3, <2>4, BranchSame
  <2> QED
    BY <2>1, <2>5 DEF kept
\* Then a label at a time.
<1> DEFINE Reached == {j \in Nat : j >= 1 /\ j <= m + 1 =>
                           Branch(index, IF j = 1 THEN id ELSE tail[j - 1].id) = kept \o SubSeq(tail, 1, j - 1)}
<1>12. 1 \in Reached
  <2>1. SubSeq(tail, 1, 0) = <<>>
    OBVIOUS
  <2>2. kept \o <<>> = kept
    BY <1>4
  <2>3. 1 - 1 = 0 /\ 1 \in Nat
    OBVIOUS
  <2>4. Branch(index, id) = kept \o SubSeq(tail, 1, 1 - 1)
    BY <1>11, <2>1, <2>2, <2>3
  <2> QED
    BY <2>3, <2>4
<1>13. ASSUME NEW j \in 1..m, j \in Reached PROVE j + 1 \in Reached
  <2>1. j \in Nat /\ j >= 1 /\ j <= m + 1 /\ (j + 1) - 1 = j /\ j + 1 # 1 /\ j \in DOMAIN tail
    BY <1>9
  <2> DEFINE before == SubSeq(tail, 1, j - 1)
  <2>2. Branch(index, IF j = 1 THEN id ELSE tail[j - 1].id) = kept \o before
    BY <1>13, <2>1
  <2>3. tail[j].id \in DOMAIN index /\ index[tail[j].id] = tail[j]
    BY <1>6, <2>1
  <2>4. tail[j].parent = IF j = 1 THEN id ELSE tail[j - 1].id
    BY <1>7, <1>10
  <2>5. tail[j].parent \in DOMAIN index
    <3>1. CASE j = 1
      BY <1>6, <1>9, <1>10, <2>4, <3>1
    <3>2. CASE j # 1
      <4>1. j - 1 \in DOMAIN tail
        BY <1>9, <2>1, <3>2
      <4> QED
        BY <1>6, <2>4, <3>2, <4>1
    <3> QED
      BY <3>1, <3>2
  <2>6. Branch(index, tail[j].id) = Append(Branch(index, tail[j].parent), tail[j])
    BY <1>5, <2>3, <2>5, BranchStep
  <2>7. before \in Seq(Ranked) /\ SubSeq(tail, 1, j) = Append(before, tail[j]) /\ tail[j] \in Ranked
    <3> DEFINE k == j - 1
    <3>1. k \in Nat /\ k < Len(tail) /\ k + 1 = j
      BY <1>9, <2>1
    <3> HIDE DEF k
    <3>2. /\ SubSeq(tail, 1, k) \in Seq(Ranked) /\ tail[k + 1] \in Ranked
          /\ SubSeq(tail, 1, k + 1) = Append(SubSeq(tail, 1, k), tail[k + 1])
      BY <1>4, <3>1, SubSeqGrows
    <3> QED
      BY <3>1, <3>2 DEF k
  <2> HIDE DEF before
  <2>8. kept \o Append(before, tail[j]) = Append(kept \o before, tail[j])
    BY <1>4, <2>7, ConcatAppend
  <2>9. Branch(index, tail[j].id) = kept \o SubSeq(tail, 1, j)
    BY <2>2, <2>4, <2>6, <2>7, <2>8
  <2> QED
    BY <2>1, <2>9
<1>14. 1..(m + 1) \subseteq Reached
  <2> HIDE DEF Reached
  <2>1. \A j \in 1..m : j \in Reached => j + 1 \in Reached
    BY <1>13
  <2> QED
    BY <1>9, <1>12, <2>1, Climb
<1>15. m + 1 \in Nat /\ m + 1 >= 1 /\ m + 1 <= m + 1 /\ (m + 1) - 1 = m /\ (m + 1 = 1 <=> m = 0)
       /\ m + 1 \in 1..(m + 1)
  BY <1>9
<1> DEFINE k == m + 1
<1> HIDE DEF k
<1>16. Branch(index, IF m = 0 THEN id ELSE tail[m].id) = kept \o SubSeq(tail, 1, m)
  <2>1. k \in Nat /\ k >= 1 /\ k <= m + 1 /\ k - 1 = m /\ (k = 1 <=> m = 0) /\ k \in 1..(m + 1)
    BY <1>15 DEF k
  <2>2. k \in Reached
    BY <1>14, <2>1
  <2>3. Branch(index, IF k = 1 THEN id ELSE tail[k - 1].id) = kept \o SubSeq(tail, 1, k - 1)
    BY <2>1, <2>2
  <2> QED
    BY <2>1, <2>3
<1>17. SubSeq(tail, 1, m) = tail
  BY <1>4, <1>9, WholeSubSeq
<1> QED
  BY <1>8, <1>10, <1>16, <1>17 DEF kept, index

\* Labels at the end of a path leave the model's context as it is.
LEMMA ContextBehind ==
    ASSUME NEW path \in Seq(Ranked), NEW tail \in Seq(Ranked), \A i \in DOMAIN tail : tail[i].kind = "label"
    PROVE  ContextOf(path \o tail) = ContextOf(path)
<1> DEFINE K == EntriesOfKind({"user", "assistant", "branch_summary"})
           n == Len(path)  m == Len(tail)  s == path \o tail
           Summaries(p) == {0} \cup {i \in DOMAIN p : p[i].kind = "compaction"}
           at == Max(Summaries(path))
           First(p) == {i \in 1..(at - 1) : p[i].id = p[at].ref}
<1>1. n \in Nat /\ m \in Nat /\ DOMAIN path = 1..n /\ DOMAIN tail = 1..m
  OBVIOUS
<1>2. /\ s \in Seq(Ranked) /\ Len(s) = n + m
      /\ \A i \in 1..(n + m) : s[i] = IF i <= n THEN path[i] ELSE tail[i - n]
  BY ConcatProperties
<1>3. Selected(tail, K) = <<>>
  <2> DEFINE T == {e \in Ranked : e.kind = "label"}
  <2>1. tail \in Seq(T)
    <3>1. \A i \in 1..m : tail[i] \in T
      BY <1>1
    <3> QED
      BY <1>1, <3>1
  <2>2. T \cap K = {}
    BY DEF EntriesOfKind
  <2> HIDE DEF T, K
  <2> QED
    BY <2>1, <2>2, SelectedNone
<1> HIDE DEF K
\* What is selected of a part of the path goes unchanged with the labels behind it.
<1>4. \A p \in Seq(Ranked) : Selected(p \o tail, K) = Selected(p, K)
  <2> SUFFICES ASSUME NEW p \in Seq(Ranked) PROVE Selected(p \o tail, K) = Selected(p, K)
    OBVIOUS
  <2>1. Selected(p \o tail, K) = Selected(p, K) \o Selected(tail, K)
    BY SelectedConcat
  <2> DEFINE u == Selected(p, K)
  <2>2. u \in Seq(Ranked)
    BY SelectedType
  <2> HIDE DEF u
  <2>3. u \o <<>> = u
    BY <2>2
  <2> QED
    BY <1>3, <2>1, <2>3 DEF u
<1> HIDE DEF n, m, s
<1>5. \A i \in 1..n : s[i] = path[i]
  BY <1>1, <1>2
<1>6. Summaries(s) = Summaries(path)
  <2>1. DOMAIN s = 1..(n + m)
    BY <1>2
  <2>2. ASSUME NEW i \in 1..(n + m), s[i].kind = "compaction" PROVE i \in 1..n
    <3> SUFFICES ASSUME ~(i <= n) PROVE FALSE
      BY <1>1
    <3> DEFINE k == i - n
    <3>1. k \in DOMAIN tail /\ s[i] = tail[k]
      BY <1>1, <1>2
    <3> HIDE DEF k
    <3> QED
      BY <2>2, <3>1
  <2>3. \A i \in 1..n : i \in 1..(n + m)
    BY <1>1
  <2> QED
    BY <1>1, <1>5, <2>1, <2>2, <2>3
<1>7. at \in 0..n
  <2> DEFINE S == Summaries(path)
  <2>1. S \in SUBSET (0..n) /\ S # {}
    BY <1>1
  <2> HIDE DEF S
  <2>2. Max(S) \in S
    BY <1>1, <2>1, MaxOf
  <2> QED
    BY <2>1, <2>2 DEF S
<1>8. Max(Summaries(s)) = at
  BY <1>6
<1> DEFINE Left(p, a) == {i \in 1..(a - 1) : p[i].id = p[a].ref}
           Body(p, a) == IF a = 0 THEN Selected(SubSeq(p, 1, Len(p)), K)
                         ELSE <<p[a]>>
                              \o (IF Left(p, a) = {} THEN <<>>
                                  ELSE Selected(SubSeq(p, Min(Left(p, a)), a - 1), K))
                              \o Selected(SubSeq(p, a + 1, Len(p)), K)
<1>9. ContextOf(path) = Body(path, at)
  BY Zenon DEF ContextOf, K
<1>10. ContextOf(s) = Body(s, at)
  <2>1. ContextOf(s) = Body(s, Max(Summaries(s)))
    BY Zenon DEF ContextOf, K
  <2> QED
    BY <1>8, <2>1, Zenon
<1> HIDE DEF at, Summaries
<1>11. CASE at = 0
  <2>1. SubSeq(path, 1, Len(path)) = path /\ SubSeq(s, 1, Len(s)) = s
    BY <1>2, WholeSubSeq
  <2>2. Selected(s, K) = Selected(path, K)
    BY <1>4 DEF s
  <2> QED
    BY <1>9, <1>10, <1>11, <2>1, <2>2 DEF s
<1>12. CASE at # 0
  <2>1. at \in Nat /\ at \in 1..n /\ s[at] = path[at] /\ \A i \in 1..(at - 1) : i \in 1..n /\ s[i] = path[i]
    BY <1>1, <1>5, <1>7, <1>12
  <2>2. Left(s, at) = Left(path, at)
    BY <2>1
  <2>3. ASSUME Left(path, at) # {}
        PROVE  SubSeq(s, Min(Left(path, at)), at - 1) = SubSeq(path, Min(Left(path, at)), at - 1)
    <3> DEFINE k == Min(Left(path, at))  a == k - 1  b == at - 1
    <3>1. k \in 1..(at - 1)
      <4> DEFINE S == Left(path, at)
      <4>1. S \in SUBSET Nat /\ S # {}
        BY <2>1, <2>3
      <4> HIDE DEF S
      <4>2. Min(S) \in S
        BY <4>1, MinOf
      <4> QED
        BY <4>2 DEF S
    <3> HIDE DEF k
    <3>2. a \in 0..n /\ a \in 0..(n + m) /\ b \in a..n /\ b \in a..(n + m) /\ a + 1 = k /\ b - a \in Nat
      BY <1>1, <2>1, <3>1
    <3> HIDE DEF a, b
    <3>3. /\ SubSeq(path, a + 1, b) \in Seq(Ranked) /\ Len(SubSeq(path, a + 1, b)) = b - a
          /\ \A i \in 1..(b - a) : SubSeq(path, a + 1, b)[i] = path[a + i]
      BY <3>2, PartOf DEF n
    <3>4. /\ SubSeq(s, a + 1, b) \in Seq(Ranked) /\ Len(SubSeq(s, a + 1, b)) = b - a
          /\ \A i \in 1..(b - a) : SubSeq(s, a + 1, b)[i] = s[a + i]
      <4>1. a \in 0..Len(s) /\ b \in a..Len(s)
        BY <1>2, <3>2
      <4> QED
        BY <1>2, <4>1, PartOf
    <3>5. \A i \in 1..(b - a) : a + i \in 1..n
      BY <1>1, <3>2
    <3>6. \A i \in 1..(b - a) : SubSeq(s, a + 1, b)[i] = SubSeq(path, a + 1, b)[i]
      BY <1>5, <3>3, <3>4, <3>5
    <3>7. SubSeq(s, a + 1, b) = SubSeq(path, a + 1, b)
      BY <3>3, <3>4, <3>6, SeqEqual
    <3> QED
      BY <3>2, <3>7 DEF b, k
  <2>4. SubSeq(s, at + 1, Len(s)) = SubSeq(path, at + 1, n) \o tail
    <3> DEFINE u == SubSeq(path, at + 1, n)  v == SubSeq(s, at + 1, n + m)  d == n - at
    <3>1. at \in 0..n /\ at \in 0..(n + m) /\ n \in at..n /\ n + m \in at..(n + m) /\ d \in Nat
          /\ (n + m) - at = d + m
      BY <1>1, <2>1
    <3>2. u \in Seq(Ranked) /\ Len(u) = n - at /\ \A i \in 1..(n - at) : u[i] = path[at + i]
      BY <3>1, PartOf DEF n
    <3>3. v \in Seq(Ranked) /\ Len(v) = (n + m) - at /\ \A i \in 1..((n + m) - at) : v[i] = s[at + i]
      <4>1. at \in 0..Len(s) /\ n + m \in at..Len(s)
        BY <1>2, <3>1
      <4> QED
        BY <1>2, <4>1, PartOf
    <3> HIDE DEF u, v
    <3>4. /\ u \o tail \in Seq(Ranked) /\ Len(u \o tail) = Len(u) + Len(tail)
          /\ \A i \in 1..(Len(u) + Len(tail)) :
                 (u \o tail)[i] = IF i <= Len(u) THEN u[i] ELSE tail[i - Len(u)]
      BY <3>2, ConcatProperties
    <3>5. Len(u) = d /\ Len(tail) = m /\ Len(v) = d + m
      BY <3>1, <3>2, <3>3 DEF m
    <3>6. ASSUME NEW i \in 1..(d + m) PROVE v[i] = (u \o tail)[i]
      <4>1. v[i] = s[at + i] /\ at + i \in 1..(n + m) /\ i \in Nat
        BY <1>1, <2>1, <3>1, <3>3
      <4>2. CASE i <= d
        <5>1. at + i \in 1..n /\ i \in 1..(n - at)
          BY <1>1, <2>1, <3>1, <4>1, <4>2
        <5>2. (u \o tail)[i] = u[i]
          BY <3>4, <3>5, <4>2
        <5> QED
          BY <1>5, <3>2, <4>1, <5>1, <5>2
      <4>3. CASE ~(i <= d)
        <5> DEFINE j == at + i
        <5>1. j \in 1..(n + m) /\ ~(j <= n) /\ j - n = i - d
          BY <1>1, <2>1, <3>1, <4>1, <4>3
        <5> HIDE DEF j
        <5>2. s[j] = tail[j - n]
          BY <1>2, <5>1
        <5>3. (u \o tail)[i] = tail[i - d]
          BY <3>4, <3>5, <4>3
        <5> QED
          BY <4>1, <5>1, <5>2, <5>3 DEF j
      <4> QED
        BY <4>2, <4>3
    <3> HIDE DEF d
    <3>7. v = u \o tail
      BY <3>3, <3>4, <3>5, <3>6, SeqEqual
    <3> QED
      BY <1>2, <3>7 DEF u, v
  <2>5. Selected(SubSeq(path, at + 1, n) \o tail, K) = Selected(SubSeq(path, at + 1, n), K)
    <3>1. at \in 0..n /\ n \in at..n
      BY <1>1, <2>1
    <3>2. SubSeq(path, at + 1, n) \in Seq(Ranked)
      BY <3>1, PartOf DEF n
    <3> QED
      BY <1>4, <3>2
  <2>6. Selected(SubSeq(s, at + 1, Len(s)), K) = Selected(SubSeq(path, at + 1, Len(path)), K)
    BY <2>4, <2>5 DEF n
  <2> HIDE DEF Left
  <2>7. Body(s, at) = Body(path, at)
    BY <1>12, <2>1, <2>2, <2>3, <2>6
  <2> HIDE DEF Body
  <2> QED
    BY <1>9, <1>10, <2>7, Zenon DEF s
<1> QED
  BY <1>11, <1>12 DEF s

\* A path without labels is kept whole.
LEMMA KeptWhole ==
    ASSUME TreeInv, NEW id, \A e \in Range(Branch(byId, id)) : e.kind # "label"
    PROVE  Kept(Branch(byId, id)) = Branch(byId, id)
<1> DEFINE path == Branch(byId, id)
           K == EntriesOfKind(AllKinds \ {"label"})
           T == {e \in Ranked : e.kind # "label"}
<1>1. path \in Seq(Ranked)
  <2>1. DOMAIN byId \subseteq Ids /\ \A e \in DOMAIN byId : byId[e] \in Ranked /\ byId[e].id = e
    BY IndexHolds DEF TreeInv, StoreTypes, Indexed
  <2> QED
    BY <2>1, BranchType
<1>2. \A i \in 1..Len(path) : path[i].kind # "label"
  <2> HIDE DEF path
  <2>1. \A e \in Range(path) : e.kind # "label"
    BY DEF path
  <2> QED
    BY <1>1, <2>1 DEF Range
<1> HIDE DEF path
<1>3. path \in Seq(T)
  BY <1>1, <1>2
<1>4. T \subseteq K
  BY DEF Ranked, Entries, EntriesOfKind
<1> HIDE DEF T, K
<1>5. Selected(path, K) = path
  BY <1>3, <1>4, SelectedAll
<1> QED
  BY <1>5, Zenon DEF Kept, path, K

\* A fork into another file starts from the context its user message was sent
\* in, as long as no label stands on the path: under a compaction its summary,
\* the messages it kept and the later ones; and its branch goes back as far.
THEOREM ForksKeepContext == Spec => ForkKeepsContext
<1>1. TreeInv /\ [Next]_vars =>
          \A id \in DOMAIN byId : sessionFile' \notin {NoFile, sessionFile} /\ Fork(id) =>
              LET path == Branch(byId, byId[id].parent)
              IN  (\A e \in Range(path) : e.kind # "label") =>
                      /\ Context(byId', leafId') = Context(byId, byId[id].parent)
                      /\ leafId' # NoEntry => Head(Branch(byId', leafId')) = Head(path)
  <2> SUFFICES ASSUME TreeInv, NEW id \in DOMAIN byId, sessionFile' \notin {NoFile, sessionFile}, Fork(id),
                      \A e \in Range(Branch(byId, byId[id].parent)) : e.kind # "label"
               PROVE  /\ Context(byId', leafId') = Context(byId, byId[id].parent)
                      /\ leafId' # NoEntry =>
                             Head(Branch(byId', leafId')) = Head(Branch(byId, byId[id].parent))
    OBVIOUS
  <2> DEFINE parent == byId[id].parent  path == Branch(byId, parent)
  <2>1. DOMAIN byId \subseteq Ids /\ \A e \in DOMAIN byId : byId[e] \in Ranked /\ byId[e].id = e
    BY IndexHolds DEF TreeInv, StoreTypes, Indexed
  <2> HIDE DEF parent
  <2>2. CASE parent = NoEntry /\ Fresh(FreshFile, FALSE)
    <3>1. NoEntry \notin DOMAIN byId
      BY <2>1, BoundAssumption DEF Ids, NoEntry
    <3>2. path = <<>>
      BY <2>2, <3>1, Zenon DEF Branch
    <3>3. byId' = <<>> /\ leafId' = NoEntry
      BY <2>2 DEF Fresh, Reset, Empty
    <3>4. DOMAIN <<>> = {}
      OBVIOUS
    <3>5. NoEntry \notin DOMAIN byId'
      BY <3>3, <3>4
    <3>6. Branch(byId', leafId') = <<>>
      BY <3>3, <3>5, Zenon DEF Branch
    <3>7. Context(byId', leafId') = Context(byId, parent)
      BY <3>2, <3>6, Zenon DEF Context
    <3> QED
      BY <3>3, <3>7 DEF parent
  <2>3. CASE CreateBranchedSession(parent)
    <3>1. PICK es \in BranchedEntries(parent) :
              /\ \A e \in Range(es) : e.id <= MaxId
              /\ Loaded(FreshFile, es) \/ Killed(FreshFile, es)
      BY <2>3 DEF CreateBranchedSession
    <3>2. byId' = Index(es) /\ leafId' = LeafOf(es)
      <4>1. ~Killed(FreshFile, es)
        BY DEF Killed, Down
      <4> QED
        BY <3>1, <4>1 DEF Loaded
    <3>3. parent \in DOMAIN byId
      <4>1. path # <<>>
        BY <2>3 DEF CreateBranchedSession
      <4> QED
        BY <4>1, Zenon DEF Branch
    <3>4. Kept(path) = path
      BY KeptWhole DEF parent
    <3>5. PICK tail, targets : Copies(es, path, tail, targets)
      <4>1. \E tail, targets : Copies(es, Kept(path), tail, targets)
        BY <3>1, BranchedCopies
      <4> QED
        BY <3>4, <4>1
    <3>6. path \in Seq(Ranked) /\ Len(path) \in Nat \ {0}
      BY <2>1, <3>3, BranchType, BranchEnds
    <3>7. Branch(byId', leafId') = path \o tail
      <4>1. Branch(Index(es), LeafOf(es)) = path \o tail
        BY <3>1, <3>3, <3>5, CopiesBranch
      <4> QED
        BY <3>2, <4>1
    <3>8. tail \in Seq(Ranked) /\ \A i \in DOMAIN tail : tail[i].kind = "label"
      <4>1. tail \in Seq(Ranked) /\ \A i \in 1..Len(tail) : tail[i].kind = "label"
        BY <3>1, <3>5, CopiesType
      <4> QED
        BY <4>1
    <3> HIDE DEF path
    <3>9. Context(byId', leafId') = Context(byId, parent)
      <4>1. ContextOf(path \o tail) = ContextOf(path)
        BY <3>6, <3>8, ContextBehind
      <4>2. Context(byId', leafId') = ContextOf(path \o tail)
        BY <3>7, Zenon DEF Context
      <4>3. Context(byId, parent) = ContextOf(path)
        BY Zenon DEF Context, path
      <4> QED
        BY <4>1, <4>2, <4>3
    <3>10. Head(path \o tail) = Head(path)
      <4>1. /\ path \o tail \in Seq(Ranked) /\ Len(path \o tail) = Len(path) + Len(tail)
            /\ \A i \in 1..(Len(path) + Len(tail)) :
                   (path \o tail)[i] = IF i <= Len(path) THEN path[i] ELSE tail[i - Len(path)]
        BY <3>6, <3>8, ConcatProperties
      <4>2. 1 \in 1..(Len(path) + Len(tail)) /\ 1 <= Len(path)
        BY <3>6, <3>8
      <4>3. (path \o tail)[1] = path[1]
        BY <4>1, <4>2
      <4> DEFINE all == path \o tail
      <4>4. all \in Seq(Ranked) /\ Len(all) # 0
        BY <3>6, <3>8, <4>1
      <4> HIDE DEF all
      <4>5. Head(all) = all[1] /\ Head(path) = path[1]
        BY <3>6, <4>4
      <4> QED
        BY <4>3, <4>5 DEF all
    <3> QED
      BY <3>7, <3>9, <3>10 DEF parent, path
  <2> QED
    BY <2>2, <2>3 DEF Fork, parent
<1>2. Spec => []TreeInv
  BY TreeInvariant
<1> QED
  BY <1>1, <1>2, PTL DEF Spec, ForkKeepsContext

================================================================================
