--------------------------- MODULE AgentSessionProofs ---------------------------
(***************************************************************************)
(* Nobody waits for a retry in vain, and the agent's context stays what    *)
(* the session holds; and, for the interactive mode around the session,    *)
(* Escape does what the screen says.  All for any number of callers,       *)
(* handlers, sessions, retries, answers and commands.                      *)
(***************************************************************************)
EXTENDS InteractiveMode, SequenceLemmas, FiniteSetTheorems, TLAPS

(* The session.  The inductive invariant.                                     *)

CallerStages == {"free", "checking", "sending", "running", "returning", "retrying", "compacting"}
HandlerStages == {"free", "emitted", "sleeping", "timer", "delayed", "compacting"}
CommandStages == {"free", "stopping", "summarising", "switching"}

StagesOK ==
    /\ DOMAIN task = Tasks
    /\ \A c \in Callers : task[c].at \in CallerStages
    /\ \A h \in Handlers : task[h].at \in HandlerStages
    /\ task[Command].at \in CommandStages

\* compact() and switchSession() hear nothing of the agent.
Connects == connected = (task[Command].at \notin {"stopping", "summarising", "switching"})

\* A summary replaces at least one entry, and says from where on the others stay.
Kept(m) == m.kind = "summary" => m.kept > 0
EntriesCut == \A s \in Sessions : \A i \in 1..Len(entries[s]) : Kept(entries[s][i])
TasksCut ==
    /\ \A t \in Tasks : task[t].at \in {"compacting", "summarising"} => task[t].kept > 0
    /\ Is(Command, "switching") => task[Command].of \in Sessions

\* The handler of a run's end comes before everything else, so that the answer it
\* looks at is the last message of the context.
AnswersFirst ==
    \A h \in Handlers : Is(h, "emitted") =>
        /\ connected /\ ~streaming
        /\ messages # <<>> /\ Last(messages) = lastAssistantMessage
        /\ \A t \in Tasks \ {h} : task[t].at \notin {"emitted", "checking", "sending"}

SessionInv == WaitsForAttempt /\ StagesOK /\ Connects /\ EntriesCut /\ TasksCut /\ AnswersFirst

-------------------------------------------------------------------------------
(* Tasks.                                                                     *)

Stages == CallerStages \cup HandlerStages \cup CommandStages
TaskType == [at : Stages, retry : BOOLEAN, kept : Nat, of : Sessions \cup {0}]

LEMMA StagesAre ==
    Stages = {"free", "checking", "sending", "running", "returning", "retrying",
              "emitted", "sleeping", "timer", "delayed", "compacting",
              "stopping", "summarising", "switching"}
BY DEF Stages, CallerStages, HandlerStages, CommandStages

LEMMA TypesAre ==
    ASSUME TypeOK
    PROVE  /\ messages \in Seq(MessageType) /\ streaming \in BOOLEAN
           /\ sessionFile \in Sessions /\ entries \in [Sessions -> Seq(MessageType)]
           /\ entries[sessionFile] \in Seq(MessageType)
           /\ connected \in BOOLEAN /\ lastAssistantMessage \in MessageType \cup {None}
           /\ retryAttempt \in 0..MaxRetries /\ retryPromise \in BOOLEAN
           /\ retryController \in Handlers \cup {Nobody}
           /\ pendingBash \in Seq({Message("bash")})
           /\ task \in [Tasks -> TaskType]
           /\ answers \in 0..MaxAnswers
<1>1. task \in [Tasks -> TaskType]
  BY StagesAre DEF TypeOK, TaskType
<1> QED
  BY <1>1 DEF TypeOK

LEMMA TaskKinds ==
    /\ Callers \subseteq Tasks /\ Handlers \subseteq Tasks /\ Command \in Tasks
    /\ Tasks = Callers \cup Handlers \cup {Command}
    /\ Callers \cap Handlers = {} /\ Command \notin Callers \cup Handlers
    /\ Nobody \notin Callers \cup Handlers /\ Nobody # Command
    /\ Nobody \notin Tasks
BY SessionAssumption DEF Tasks, Command, Nobody

LEMMA FreeIs == Free \in TaskType /\ Free.at = "free"
BY DEF Free, TaskType, Stages, CallerStages

LEMMA AtTyped ==
    ASSUME NEW stage \in Stages
    PROVE  At(stage) \in TaskType /\ At(stage).at = stage
BY DEF At, Free, TaskType

LEMMA SwitchingIs ==
    ASSUME NEW s \in Sessions
    PROVE  LET x == [At("switching") EXCEPT !.of = s]
           IN  x \in TaskType /\ x.at = "switching" /\ x.of = s
BY DEF At, Free, TaskType, Stages, CommandStages

LEMMA PreparationIs ==
    ASSUME TypeOK, Prepared, NEW stage \in Stages, NEW willRetry \in BOOLEAN
    PROVE  LET x == Preparation(stage, willRetry)
           IN  x \in TaskType /\ x.at = stage /\ x.retry = willRetry /\ x.kept > 0
<1>1. entries[sessionFile] \in Seq(MessageType) /\ entries[sessionFile] # <<>> /\ sessionFile \in Sessions
  BY TypesAre DEF Prepared
<1>2. Len(entries[sessionFile]) \in Nat /\ Len(entries[sessionFile]) > 0
  BY <1>1
<1> QED
  BY <1>1, <1>2 DEF Preparation, TaskType

LEMMA ReleasedTyped ==
    ASSUME NEW tasks \in [Tasks -> TaskType]
    PROVE  /\ Released(tasks) \in [Tasks -> TaskType]
           /\ \A t \in Tasks : Released(tasks)[t] = IF tasks[t].at = "retrying" THEN Free ELSE tasks[t]
BY FreeIs DEF Released

LEMMA AbortedTyped ==
    ASSUME TypeOK
    PROVE  /\ AbortedRetry \in [Tasks -> TaskType]
           /\ \A t \in Tasks : AbortedRetry[t] =
                 IF t = retryController \/ task[t].at = "retrying" THEN Free ELSE task[t]
<1> DEFINE aborted == [t \in Tasks |-> IF t = retryController THEN Free ELSE task[t]]
<1>1. aborted \in [Tasks -> TaskType] /\ \A t \in Tasks : aborted[t] = IF t = retryController THEN Free ELSE task[t]
  BY TypesAre, FreeIs
<1>2. AbortedRetry = Released(aborted)
  BY DEF AbortedRetry
<1> HIDE DEF aborted
<1> QED
  BY <1>1, <1>2, ReleasedTyped, FreeIs

\* A task moves on, and others are let go.
Loosened(u) == task'[u] = task[u] \/ (u # Command /\ task'[u] = Free)
Moves(t, x) ==
    /\ t \in Tasks /\ x \in TaskType
    /\ task' \in [Tasks -> TaskType] /\ task'[t] = x
    /\ \A u \in Tasks \ {t} : Loosened(u)

StageFits(t, x) ==
    /\ t \in Callers => x.at \in CallerStages
    /\ t \in Handlers => x.at \in HandlerStages
    /\ t = Command => x.at \in CommandStages
    /\ x.at \in {"compacting", "summarising"} => x.kept > 0
    /\ t = Command /\ x.at = "switching" => x.of \in Sessions

TasksFit == StagesOK /\ TasksCut

LEMMA MovesKeeps ==
    ASSUME TasksFit, NEW t, NEW x, Moves(t, x), StageFits(t, x)
    PROVE  TasksFit'
<1>1. \A u \in Tasks \ {t} : Loosened(u)
  BY DEF Moves
<1>2. DOMAIN task' = Tasks /\ t \in Tasks /\ task'[t] = x
  BY DEF Moves
<1>3. StagesOK'
  BY <1>1, <1>2, TaskKinds, FreeIs DEF TasksFit, StagesOK, Loosened, StageFits, CallerStages, HandlerStages, CommandStages
<1>4. \A u \in Tasks : task'[u].at \in {"compacting", "summarising"} => task'[u].kept > 0
  BY <1>1, <1>2, FreeIs DEF TasksFit, TasksCut, Loosened, StageFits
<1>5. task'[Command].at = "switching" => task'[Command].of \in Sessions
  BY <1>1, <1>2, TaskKinds, FreeIs DEF TasksFit, TasksCut, Loosened, StageFits, Is
<1> QED
  BY <1>3, <1>4, <1>5 DEF TasksFit, TasksCut, Is

LEMMA MovesQuietly ==
    ASSUME NEW t, NEW x, Moves(t, x), x.at # "emitted",
           \A h \in Handlers \ {t} : task[h].at # "emitted"
    PROVE  AnswersFirst'
<1>1. \A h \in Handlers : task'[h].at # "emitted"
  BY TaskKinds, FreeIs DEF Moves, Loosened
<1> QED
  BY <1>1 DEF AnswersFirst, Is

Waits == (retryPromise => retryAttempt > 0) /\ \A c \in Callers : Is(c, "retrying") => retryPromise

LEMMA MovesWaits ==
    ASSUME Waits, NEW t, NEW x, Moves(t, x), x.at = "retrying" => retryPromise,
           retryPromise' = retryPromise, retryAttempt' = retryAttempt
    PROVE  Waits'
BY TaskKinds, FreeIs DEF Waits, Moves, Loosened, Is

-------------------------------------------------------------------------------
(* Messages and sessions.                                                     *)

LEMMA MessageIs ==
    ASSUME NEW kind \in MessageKinds
    PROVE  Message(kind) \in MessageType /\ Message(kind).kind = kind
BY SessionAssumption DEF Message, MessageType, OfKind

LEMMA DatedIs ==
    ASSUME TypeOK, NEW kind \in MessageKinds
    PROVE  Dated(kind) \in MessageType /\ Dated(kind).kind = kind
<1>1. answers \in 0..MaxAnswers
  BY TypesAre
<1> QED
  BY <1>1 DEF Dated, Message, MessageType, OfKind

LEMMA SummaryIs ==
    ASSUME TypeOK, NEW t \in Tasks, task[t].kept > 0
    PROVE  Summary(t) \in MessageType /\ Summary(t).kind = "summary" /\ Kept(Summary(t))
<1>1. answers \in 0..MaxAnswers /\ task[t] \in TaskType
  BY TypesAre
<1> QED
  BY <1>1 DEF Summary, MessageType, OfKind, TaskType, MessageKinds, Kept

LEMMA StoredIs ==
    ASSUME TypeOK, NEW ms \in Seq(MessageType)
    PROVE  /\ Stored(ms) \in [Sessions -> Seq(MessageType)]
           /\ Stored(ms)[sessionFile] = entries[sessionFile] \o ms
           /\ \A s \in Sessions \ {sessionFile} : Stored(ms)[s] = entries[s]
<1>1. entries \in [Sessions -> Seq(MessageType)] /\ sessionFile \in Sessions
  BY TypesAre
<1>2. entries[sessionFile] \o ms \in Seq(MessageType)
  BY <1>1
<1> QED
  BY <1>1, <1>2 DEF Stored

\* What is appended does not move what is there.
LEMMA StoredCut ==
    ASSUME TypeOK, EntriesCut, NEW ms \in Seq(MessageType), \A i \in 1..Len(ms) : Kept(ms[i]),
           entries' = Stored(ms)
    PROVE  EntriesCut'
<1>1. entries \in [Sessions -> Seq(MessageType)] /\ sessionFile \in Sessions
  BY TypesAre
<1>2. SUFFICES ASSUME NEW s \in Sessions, NEW i \in 1..Len(Stored(ms)[s])
               PROVE  Kept(Stored(ms)[s][i])
  BY DEF EntriesCut, Kept
<1>3. CASE s # sessionFile
  BY <1>3, StoredIs DEF EntriesCut
<1>4. CASE s = sessionFile
  <2> DEFINE es == entries[sessionFile]  n == Len(es)
  <2>1. es \in Seq(MessageType) /\ n \in Nat /\ Len(ms) \in Nat
    BY <1>1
  <2>2. Stored(ms)[s] = es \o ms
    BY <1>4, StoredIs
  <2>3. \A j \in 1..n : Kept(es[j])
    BY <1>1 DEF EntriesCut
  <2> HIDE DEF es
  <2>4. i \in 1..(n + Len(ms)) /\ (es \o ms)[i] = IF i <= n THEN es[i] ELSE ms[i - n]
    BY <2>1, <2>2
  <2>5. CASE i <= n
    <3>1. i \in 1..n /\ Stored(ms)[s][i] = es[i]
      BY <2>1, <2>2, <2>4, <2>5
    <3> QED
      BY <2>3, <3>1
  <2>6. CASE ~(i <= n)
    <3>1. i - n \in 1..Len(ms) /\ Stored(ms)[s][i] = ms[i - n]
      BY <2>1, <2>2, <2>4, <2>6
    <3> QED
      BY <3>1
  <2> QED
    BY <2>5, <2>6
<1> QED
  BY <1>3, <1>4

\* The last summary of a branch.
Summaries(es) == {i \in 1..Len(es) : es[i].kind = "summary"}
LastSummary(es) == IF Summaries(es) # {} THEN Max(Summaries(es)) ELSE 0
Plain(part) == Selected(part, OfKind(MessageKinds \ {"summary"}))
KeptPart(es, s, at) == IF es[at].of = s THEN Plain(SubSeq(es, es[at].kept, at - 1)) ELSE <<>>

LEMMA ContextIs ==
    ASSUME NEW es, NEW s
    PROVE  Context(es, s) =
              IF LastSummary(es) = 0 THEN es
              ELSE <<es[LastSummary(es)]>> \o KeptPart(es, s, LastSummary(es))
                   \o SubSeq(es, LastSummary(es) + 1, Len(es))
BY DEF Context, SelectLastInSeq, LastSummary, Summaries, KeptPart, Plain

LEMMA LastSummaryIs ==
    ASSUME NEW es \in Seq(MessageType)
    PROVE  /\ LastSummary(es) = 0 \/ LastSummary(es) \in Summaries(es)
           /\ LastSummary(es) \in 0..Len(es)
<1>1. Summaries(es) \in SUBSET (1..Len(es)) /\ Len(es) \in Nat
  BY DEF Summaries
<1>2. Summaries(es) # {} => Max(Summaries(es)) \in Summaries(es)
  BY <1>1, GreatestExists
<1> QED
  BY <1>1, <1>2 DEF LastSummary

CutRight(es) == \A i \in 1..Len(es) : Kept(es[i])

LEMMA KeptPartTyped ==
    ASSUME NEW es \in Seq(MessageType), NEW s, NEW at \in 1..Len(es), es[at].kept > 0
    PROVE  KeptPart(es, s, at) \in Seq(MessageType)
<1> DEFINE k == es[at].kept  e == at - 1
<1>1. es[at] \in MessageType /\ Len(es) \in Nat
  OBVIOUS
<1>2. k \in Nat \ {0} /\ e \in Nat /\ k \in Int /\ e \in Int
  BY <1>1 DEF MessageType, OfKind
<1>3. \A i \in k..e : es[i] \in MessageType
  BY <1>1, <1>2
<1> HIDE DEF k, e
<1>4. SubSeq(es, k, e) \in Seq(MessageType)
  BY <1>2, <1>3, SubSeqProperties
<1>5. Plain(SubSeq(es, k, e)) \in Seq(MessageType)
  BY <1>4, SelectedType DEF Plain
<1>6. <<>> \in Seq(MessageType)
  OBVIOUS
<1> QED
  BY <1>5, <1>6 DEF KeptPart, k, e

LEMMA TailTyped ==
    ASSUME NEW S, NEW es \in Seq(S), NEW at \in 0..Len(es)
    PROVE  SubSeq(es, at + 1, Len(es)) \in Seq(S)
<1> DEFINE n == Len(es)
<1>1. n \in Nat /\ at + 1 \in Int /\ n \in Int /\ \A i \in (at + 1)..n : es[i] \in S
  OBVIOUS
<1> HIDE DEF n
<1>2. SubSeq(es, at + 1, n) \in Seq(S)
  BY <1>1, SubSeqProperties
<1> QED
  BY <1>2 DEF n

LEMMA ContextTyped ==
    ASSUME NEW es \in Seq(MessageType), NEW s, CutRight(es)
    PROVE  Context(es, s) \in Seq(MessageType)
<1> DEFINE at == LastSummary(es)
<1>1. CASE at = 0
  BY <1>1, ContextIs
<1>2. CASE at # 0
  <2>1. at \in Summaries(es) /\ at \in 0..Len(es)
    BY <1>2, LastSummaryIs
  <2>2. at \in 1..Len(es) /\ es[at].kind = "summary"
    BY <2>1 DEF Summaries
  <2>3. es[at].kept > 0 /\ es[at] \in MessageType
    BY <2>2 DEF CutRight, Kept
  <2> HIDE DEF at
  <2>4. /\ KeptPart(es, s, at) \in Seq(MessageType)
        /\ SubSeq(es, at + 1, Len(es)) \in Seq(MessageType)
    BY <2>1, <2>2, <2>3, KeptPartTyped, TailTyped
  <2>5. <<es[at]>> \in Seq(MessageType)
    BY <2>3
  <2>6. \A a, b, c \in Seq(MessageType) : a \o b \o c \in Seq(MessageType)
    OBVIOUS
  <2>7. Context(es, s) = <<es[at]>> \o KeptPart(es, s, at) \o SubSeq(es, at + 1, Len(es))
    BY <1>2, ContextIs DEF at
  <2> QED
    BY <2>4, <2>5, <2>6, <2>7
<1> QED
  BY <1>1, <1>2

\* Messages that hold no summary join the context as they are.
LEMMA ContextGrows ==
    ASSUME NEW es \in Seq(MessageType), NEW s, CutRight(es),
           NEW ms \in Seq(MessageType), \A i \in 1..Len(ms) : ms[i].kind # "summary"
    PROVE  Context(es \o ms, s) = Context(es, s) \o ms
<1> DEFINE n == Len(es)  m == Len(ms)  both == es \o ms  at == LastSummary(es)
<1>1. /\ n \in Nat /\ m \in Nat /\ both \in Seq(MessageType) /\ Len(both) = n + m
      /\ \A i \in 1..(n + m) : both[i] = IF i <= n THEN es[i] ELSE ms[i - n]
  OBVIOUS
<1>2. \A i \in 1..n : i \in 1..(n + m) /\ both[i] = es[i]
  BY <1>1
<1>3. Summaries(both) = Summaries(es)
  <2> HIDE DEF both
  <2>1. \A i \in Summaries(both) : i \in Summaries(es)
    <3> SUFFICES ASSUME NEW i \in 1..(n + m), both[i].kind = "summary" PROVE i \in Summaries(es)
      BY <1>1 DEF Summaries
    <3>1. CASE i <= n
      <4>1. i \in 1..n
        BY <1>1, <3>1
      <4> QED
        BY <1>2, <4>1 DEF Summaries
    <3>2. CASE ~(i <= n)
      <4>1. i - n \in 1..m /\ both[i] = ms[i - n]
        BY <1>1, <3>2
      <4> QED
        BY <4>1
    <3> QED
      BY <3>1, <3>2
  <2>2. \A i \in Summaries(es) : i \in Summaries(both)
    BY <1>1, <1>2 DEF Summaries
  <2> QED
    BY <2>1, <2>2
<1>4. LastSummary(both) = at
  BY <1>3 DEF LastSummary
<1>5. CASE at = 0
  BY <1>4, <1>5, ContextIs
<1>6. CASE at # 0
  <2>1. at \in Summaries(es) /\ at \in 0..n
    BY <1>6, LastSummaryIs
  <2>2. at \in 1..n /\ es[at].kind = "summary"
    BY <2>1 DEF Summaries
  <2>3. es[at].kept > 0 /\ es[at] \in MessageType
    BY <2>2 DEF CutRight, Kept
  <2> DEFINE tail == SubSeq(es, at + 1, n)
             more == SubSeq(both, at + 1, n + m)
  <2>4. Context(es, s) = <<es[at]>> \o KeptPart(es, s, at) \o tail
    BY <1>6, ContextIs
  <2>5. Context(both, s) = <<both[at]>> \o KeptPart(both, s, at) \o more
    BY <1>1, <1>4, <1>6, ContextIs
  <2> HIDE DEF at, both, n, m
  <2>6. both[at] = es[at]
    BY <1>2, <2>2
  <2>7. KeptPart(both, s, at) = KeptPart(es, s, at)
    <3> DEFINE k == es[at].kept  e == at - 1
               p == SubSeq(both, k, e)  q == SubSeq(es, k, e)
    <3>1. k \in Nat \ {0} /\ k \in Int /\ e \in Int
      BY <1>1, <2>2, <2>3 DEF MessageType, OfKind
    <3>2. \A i \in k..e : i \in 1..n
      BY <1>1, <2>2, <3>1
    <3>3. \A i \in k..e : both[i] = es[i] /\ es[i] \in MessageType
      BY <1>2, <3>2 DEF n
    <3> HIDE DEF k, e
    <3>4. /\ p \in Seq(MessageType) /\ Len(p) = (IF k <= e THEN e - k + 1 ELSE 0)
          /\ \A i \in 1 .. e - k + 1 : p[i] = both[k + i - 1]
      BY <3>1, <3>3, SubSeqProperties
    <3>5. /\ q \in Seq(MessageType) /\ Len(q) = (IF k <= e THEN e - k + 1 ELSE 0)
          /\ \A i \in 1 .. e - k + 1 : q[i] = es[k + i - 1]
      BY <3>1, <3>3, SubSeqProperties
    <3> HIDE DEF p, q
    <3>6. \A i \in 1..Len(p) : p[i] = q[i]
      <4> SUFFICES ASSUME NEW i \in 1..Len(p) PROVE p[i] = q[i]
        OBVIOUS
      <4>1. i \in 1 .. e - k + 1 /\ k + i - 1 \in k..e
        BY <3>1, <3>4
      <4> QED
        BY <3>3, <3>4, <3>5, <4>1
    <3>7. p = q
      BY <3>4, <3>5, <3>6, SeqEqual
    <3> QED
      BY <2>6, <3>7 DEF KeptPart, k, e, p, q
  <2>8. more = tail \o ms
    <3>1. /\ tail \in Seq(MessageType) /\ Len(tail) = n - at
          /\ \A i \in 1..(n - at) : tail[i] = es[at + i]
      <4>1. at + 1 \in Int /\ n \in Int /\ \A i \in (at + 1)..n : es[i] \in MessageType
        BY <1>1, <2>2 DEF n
      <4>2. /\ tail \in Seq(MessageType) /\ Len(tail) = (IF at + 1 <= n THEN n - (at + 1) + 1 ELSE 0)
            /\ \A i \in 1 .. n - (at + 1) + 1 : tail[i] = es[(at + 1) + i - 1]
        BY <4>1, SubSeqProperties
      <4> HIDE DEF tail
      <4>3. n - (at + 1) + 1 = n - at
        BY <1>1, <2>2
      <4> QED
        BY <1>1, <2>2, <4>2, <4>3
    <3>2. /\ more \in Seq(MessageType) /\ Len(more) = (n + m) - at
          /\ \A i \in 1..((n + m) - at) : more[i] = both[at + i]
      <4> DEFINE l == n + m
      <4>1. l \in Nat /\ at + 1 \in Int /\ l \in Int /\ \A i \in (at + 1)..l : both[i] \in MessageType
        BY <1>1, <2>2
      <4> HIDE DEF l
      <4>2. /\ SubSeq(both, at + 1, l) \in Seq(MessageType)
            /\ Len(SubSeq(both, at + 1, l)) = (IF at + 1 <= l THEN l - (at + 1) + 1 ELSE 0)
            /\ \A i \in 1 .. l - (at + 1) + 1 : SubSeq(both, at + 1, l)[i] = both[(at + 1) + i - 1]
        BY <4>1, SubSeqProperties
      <4>3. l - (at + 1) + 1 = l - at /\ at \in Nat /\ at <= l
        BY <1>1, <2>2, <4>1 DEF l
      <4>4. \A i \in 1..(l - at) : SubSeq(both, at + 1, l)[i] = both[at + i]
        BY <4>1, <4>2, <4>3
      <4>5. Len(SubSeq(both, at + 1, l)) = l - at
        BY <4>1, <4>2, <4>3
      <4> QED
        BY <4>2, <4>4, <4>5 DEF l
    <3> HIDE DEF tail, more
    <3> DEFINE u == tail \o ms
    <3>3. /\ u \in Seq(MessageType) /\ Len(u) = (n - at) + m
          /\ \A i \in 1..((n - at) + m) : u[i] = IF i <= n - at THEN tail[i] ELSE ms[i - (n - at)]
      BY <3>1 DEF m
    <3> HIDE DEF u
    <3>4. Len(more) = Len(u)
      BY <1>1, <2>2, <3>2, <3>3
    <3>5. ASSUME NEW i \in 1..Len(more) PROVE more[i] = u[i]
      <4>1. i \in 1..((n + m) - at) /\ i \in 1..((n - at) + m) /\ at + i \in 1..(n + m)
        BY <1>1, <2>2, <3>2
      <4>2. more[i] = IF at + i <= n THEN es[at + i] ELSE ms[(at + i) - n]
        BY <1>1, <3>2, <4>1
      <4>3. CASE i <= n - at
        <5>1. at + i <= n /\ i \in 1..(n - at)
          BY <1>1, <2>2, <4>1, <4>3
        <5> QED
          BY <3>1, <3>3, <4>1, <4>2, <4>3, <5>1
      <4>4. CASE ~(i <= n - at)
        <5>1. ~(at + i <= n) /\ (at + i) - n = i - (n - at)
          BY <1>1, <2>2, <4>1, <4>4
        <5> QED
          BY <3>3, <4>1, <4>2, <4>4, <5>1
      <4> QED
        BY <4>3, <4>4
    <3>6. more = u
      BY <3>2, <3>3, <3>4, <3>5, SeqEqual
    <3> QED
      BY <3>6 DEF u
  <2>9. KeptPart(es, s, at) \in Seq(MessageType) /\ tail \in Seq(MessageType) /\ <<es[at]>> \in Seq(MessageType)
    BY <2>1, <2>2, <2>3, KeptPartTyped, TailTyped DEF n
  <2> DEFINE a == <<es[at]>>  b == KeptPart(es, s, at)
  <2>10. a \in Seq(MessageType) /\ b \in Seq(MessageType) /\ tail \in Seq(MessageType)
    BY <2>9
  <2>11. Context(both, s) = a \o b \o (tail \o ms) /\ Context(es, s) = a \o b \o tail
    BY <2>4, <2>5, <2>6, <2>7, <2>8
  <2> HIDE DEF tail, more, a, b
  <2>12. a \o b \o (tail \o ms) = (a \o b \o tail) \o ms
    BY <2>10, SMTT(30)
  <2> QED
    BY <2>11, <2>12 DEF both
<1> QED
  BY <1>5, <1>6

\* What is taken off the end of a context.
LEMMA WithoutAnswerIs ==
    ASSUME NEW ms \in Seq(MessageType)
    PROVE  /\ WithoutAnswer(ms) \in Seq(MessageType)
           /\ \/ WithoutAnswer(ms) = ms
              \/ ms # <<>> /\ WithoutAnswer(ms) = Front(ms) /\ FromAssistant(Last(ms))
<1>1. ms # <<>> => Front(ms) \in Seq(MessageType)
  BY FrontLast
<1> QED
  BY <1>1 DEF WithoutAnswer, EndsAnswered

\* The last answer in a context that ends with an answer.
LEMMA LastAnswerIs ==
    ASSUME NEW ms \in Seq(MessageType), ms # <<>>, FromAssistant(Last(ms))
    PROVE  SelectLastInSeq(ms, FromAssistant) = Len(ms) /\ ms[Len(ms)] = Last(ms) /\ Len(ms) # 0
<1> DEFINE n == Len(ms)  A == {i \in 1..n : FromAssistant(ms[i])}
<1>1. n \in Nat \ {0} /\ ms[n] = Last(ms)
  BY DEF Last
<1>2. n \in A
  BY <1>1
<1>3. SelectLastInSeq(ms, FromAssistant) = Max(A)
  BY <1>2 DEF SelectLastInSeq
<1>4. A \in SUBSET (1..n)
  OBVIOUS
<1> HIDE DEF A
<1>5. Max(A) = n
  <2>1. \A y \in A : n >= y
    BY <1>1, <1>4
  <2>2. \A x \in A : (\A y \in A : x >= y) => x = n
    BY <1>1, <1>2, <1>4, <2>1
  <2> QED
    BY <1>2, <2>1, <2>2 DEF Max
<1> QED
  BY <1>1, <1>3, <1>5

-------------------------------------------------------------------------------
(* Context and session.                                                       *)

LastingKinds == OfKind(MessageKinds \ (Failures \cup {"aborted"}))

LEMMA FailedIsNotLasting ==
    ASSUME NEW m, Failed(m)
    PROVE  m \notin LastingKinds
BY DEF LastingKinds, OfKind, Failed

LEMMA LastingFront ==
    ASSUME NEW ms \in Seq(MessageType), ms # <<>>, Failed(Last(ms))
    PROVE  Lasting(Front(ms)) = Lasting(ms)
<1>1. Last(ms) \notin LastingKinds
  BY FailedIsNotLasting
<1>2. Selected(Front(ms), LastingKinds) = Selected(ms, LastingKinds)
  BY <1>1, SelectedFront
<1> QED
  BY <1>2 DEF Lasting, LastingKinds

LEMMA LastingConcat ==
    ASSUME NEW a \in Seq(MessageType), NEW b \in Seq(MessageType)
    PROVE  Lasting(a \o b) = Lasting(a) \o Lasting(b)
<1>1. Selected(a \o b, LastingKinds) = Selected(a, LastingKinds) \o Selected(b, LastingKinds)
  BY SelectedConcat
<1> QED
  BY <1>1 DEF Lasting, LastingKinds

NoSummary(ms) == \A i \in 1..Len(ms) : ms[i].kind # "summary"

LEMMA SyncAppends ==
    ASSUME TypeOK, EntriesCut, InSync, NEW ms \in Seq(MessageType), NoSummary(ms),
           messages' = messages \o ms, entries' = Stored(ms), sessionFile' = sessionFile
    PROVE  InSync'
<1> DEFINE es == entries[sessionFile]  c == Context(es, sessionFile)
<1>1. messages \in Seq(MessageType) /\ es \in Seq(MessageType) /\ sessionFile \in Sessions
  BY TypesAre
<1>2. CutRight(es)
  BY <1>1 DEF EntriesCut, CutRight
<1>3. entries'[sessionFile'] = es \o ms
  BY StoredIs
<1> HIDE DEF es
<1>4. Context(es \o ms, sessionFile) = c \o ms
  BY <1>1, <1>2, ContextGrows DEF NoSummary
<1>5. c \in Seq(MessageType)
  BY <1>1, <1>2, ContextTyped
<1>6. Lasting(messages) = Lasting(c)
  BY DEF InSync, es
<1> HIDE DEF c
<1>7. Lasting(messages \o ms) = Lasting(messages) \o Lasting(ms) /\ Lasting(c \o ms) = Lasting(c) \o Lasting(ms)
  BY <1>1, <1>5, LastingConcat
<1>8. Lasting(messages') = Lasting(Context(entries'[sessionFile'], sessionFile'))
  BY <1>3, <1>4, <1>6, <1>7
<1> QED
  BY <1>8 DEF InSync

LEMMA SyncDrops ==
    ASSUME TypeOK, InSync, messages # <<>>, Failed(Last(messages)), messages' = Front(messages),
           UNCHANGED store
    PROVE  InSync'
<1>1. Lasting(messages') = Lasting(messages)
  BY TypesAre, LastingFront
<1>2. Context(entries'[sessionFile'], sessionFile') = Context(entries[sessionFile], sessionFile)
  BY DEF store
<1> QED
  BY <1>1, <1>2 DEF InSync

LEMMA SyncSame ==
    ASSUME InSync, messages' = messages, UNCHANGED store
    PROVE  InSync'
<1>1. Context(entries'[sessionFile'], sessionFile') = Context(entries[sessionFile], sessionFile)
  BY DEF store
<1> QED
  BY <1>1 DEF InSync

LEMMA SyncRebuilds ==
    ASSUME TypeOK, EntriesCut', entries' \in [Sessions -> Seq(MessageType)], sessionFile' \in Sessions,
           LET c == Context(entries'[sessionFile'], sessionFile')
           IN  messages' = c \/ (EndsFailed(c) /\ messages' = Front(c))
    PROVE  InSync'
<1> DEFINE es == entries'[sessionFile']  c == Context(es, sessionFile')
<1>1. es \in Seq(MessageType)
  OBVIOUS
<1>2. CutRight(es)
  BY DEF EntriesCut, CutRight, Kept
<1> HIDE DEF es
<1>3. c \in Seq(MessageType)
  BY <1>1, <1>2, ContextTyped
<1>4. messages' = c \/ (EndsFailed(c) /\ messages' = Front(c))
  BY DEF es
<1> HIDE DEF c
<1>5. Lasting(messages') = Lasting(c)
  BY <1>3, <1>4, LastingFront DEF EndsFailed
<1> QED
  BY <1>5 DEF InSync, c, es

-------------------------------------------------------------------------------
(* Steps.                                                                     *)

DataTyped ==
    /\ messages \in Seq(MessageType) /\ streaming \in BOOLEAN /\ signalled \in BOOLEAN
    /\ sessionFile \in Sessions /\ entries \in [Sessions -> Seq(MessageType)]
    /\ connected \in BOOLEAN
    /\ lastAssistantMessage \in MessageType \cup {None}
    /\ retryAttempt \in 0..MaxRetries /\ retryPromise \in BOOLEAN
    /\ retryController \in Handlers \cup {Nobody}
    /\ autoController \in Callers \cup Handlers \cup {Nobody}
    /\ cancelled \subseteq Tasks
    /\ pendingBash \in Seq({Message("bash")})
    /\ answers \in 0..MaxAnswers /\ commands \in 0..MaxCommands

Off == {"stopping", "summarising", "switching"}
Ties(t, x) == connected' = IF t = Command THEN (x.at \notin Off) ELSE connected
Quiet(t) == \A h \in Handlers \ {t} : task[h].at # "emitted"

LEMMA SessionIs ==
    SessionInv <=> TypeOK /\ Waits /\ TasksFit /\ Connects /\ EntriesCut /\ AnswersFirst
BY DEF SessionInv, WaitsForAttempt, Waits, TasksFit

LEMMA MoveKeeps ==
    ASSUME SessionInv, NEW t, NEW x, Moves(t, x), StageFits(t, x), Ties(t, x), Quiet(t),
           x.at # "emitted", DataTyped', EntriesCut', Waits'
    PROVE  SessionInv'
<1>1. task' \in [Tasks -> TaskType]
  BY DEF Moves
<1>2. TypeOK'
  BY <1>1, StagesAre DEF TypeOK, TaskType, DataTyped
<1>3. TasksFit'
  BY SessionIs, MovesKeeps
<1>4. AnswersFirst'
  BY MovesQuietly DEF Quiet
<1>5. Connects'
  <2>1. t # Command => task'[Command] = task[Command]
    BY TaskKinds DEF Moves, Loosened
  <2>2. t = Command => task'[Command] = x
    BY DEF Moves
  <2> QED
    BY <2>1, <2>2, SessionIs DEF Connects, Ties, Off
<1> QED
  BY <1>2, <1>3, <1>4, <1>5 DEF SessionInv, WaitsForAttempt, Waits, TasksFit

Sets(t, x) == task' = [task EXCEPT ![t] = x]

LEMMA SetsMoves ==
    ASSUME TypeOK, NEW t \in Tasks, NEW x \in TaskType, Sets(t, x)
    PROVE  Moves(t, x)
<1>1. task \in [Tasks -> TaskType]
  BY TypesAre
<1> QED
  BY <1>1 DEF Sets, Moves, Loosened

\* A step that starts nothing but t's next stage.
LEMMA SetKeeps ==
    ASSUME SessionInv, NEW t \in Tasks, NEW x \in TaskType, Sets(t, x),
           StageFits(t, x), Ties(t, x), Quiet(t), x.at # "emitted", x.at # "retrying" \/ retryPromise,
           retryPromise' = retryPromise, retryAttempt' = retryAttempt,
           DataTyped', EntriesCut'
    PROVE  SessionInv'
<1>1. Moves(t, x)
  BY SessionIs, SetsMoves
<1>2. Waits'
  BY <1>1, SessionIs, MovesWaits
<1> QED
  BY <1>1, <1>2, MoveKeeps

LEMMA TurnIsQuiet ==
    ASSUME Turn, NEW t
    PROVE  Quiet(t) /\ \A u \in Tasks : task[u].at \notin {"checking", "sending", "emitted", "returning"}
BY TaskKinds DEF Turn, Quiet

\* While a handler has to look at the end of a run, nobody else goes on.
LEMMA BusyIsQuiet ==
    ASSUME AnswersFirst, NEW t \in Tasks, task[t].at \in {"emitted", "checking", "sending"}
    PROVE  Quiet(t)
BY DEF AnswersFirst, Quiet, Is

InSyncKept == connected /\ connected' /\ InSync => InSync'

\* The pending bash messages, when there are any, and one message.
LEMMA BashIs ==
    ASSUME TypeOK
    PROVE  pendingBash \in Seq(MessageType) /\ NoSummary(pendingBash) /\ \A i \in 1..Len(pendingBash) : Kept(pendingBash[i])
<1>1. Message("bash") \in MessageType /\ Message("bash").kind = "bash"
  BY MessageIs DEF MessageKinds
<1>2. pendingBash \in Seq({Message("bash")})
  BY TypesAre
<1>3. \A i \in 1..Len(pendingBash) : pendingBash[i] = Message("bash")
  BY <1>2
<1>4. pendingBash \in Seq(MessageType)
  BY <1>1, <1>2
<1> QED
  BY <1>1, <1>3, <1>4 DEF NoSummary, Kept

LEMMA OneMessage ==
    ASSUME NEW m \in MessageType, m.kind # "summary"
    PROVE  <<m>> \in Seq(MessageType) /\ NoSummary(<<m>>) /\ \A i \in 1..Len(<<m>>) : Kept(<<m>>[i])
<1> DEFINE s == <<m>>
<1>1. s \in Seq(MessageType) /\ Len(s) = 1 /\ s[1] = m
  OBVIOUS
<1> HIDE DEF s
<1>2. \A i \in 1..Len(s) : s[i] = m
  BY <1>1
<1>3. NoSummary(s) /\ \A i \in 1..Len(s) : Kept(s[i])
  BY <1>2 DEF NoSummary, Kept
<1> QED
  BY <1>1, <1>3 DEF s

LEMMA AppendIs ==
    ASSUME NEW S, NEW s \in Seq(S), NEW e \in S
    PROVE  Append(s, e) = s \o <<e>> /\ Append(s, e) \in Seq(S)
OBVIOUS

LEMMA DataIs == TypeOK => DataTyped
BY DEF TypeOK, DataTyped

LEMMA StartPromptKeeps ==
    ASSUME SessionInv, NEW c \in Callers, StartPrompt(c), Quiet(c), commands' \in 0..MaxCommands
    PROVE  SessionInv' /\ InSyncKept
<1> DEFINE x == At("checking")
<1>1. TypeOK /\ EntriesCut /\ c \in Tasks /\ c # Command /\ c \notin Handlers
  BY SessionIs, TaskKinds
<1>2. x \in TaskType /\ x.at = "checking" /\ Sets(c, x)
  BY AtTyped, StagesAre DEF StartPrompt, Sets
<1>3. /\ messages' = messages \o pendingBash /\ entries' = Stored(pendingBash) /\ pendingBash' = <<>>
      /\ UNCHANGED <<streaming, signalled, sessionFile, connected, lastAssistantMessage, retry,
                     compaction, answers>>
  BY DEF StartPrompt
<1>4. pendingBash \in Seq(MessageType) /\ NoSummary(pendingBash) /\ \A i \in 1..Len(pendingBash) : Kept(pendingBash[i])
  BY <1>1, BashIs
<1>5. EntriesCut'
  BY <1>1, <1>3, <1>4, StoredCut
<1> HIDE DEF x
<1>6. DataTyped'
  <2>1. entries' \in [Sessions -> Seq(MessageType)]
    BY <1>1, <1>3, <1>4, StoredIs
  <2>2. messages' \in Seq(MessageType) /\ pendingBash' \in Seq({Message("bash")})
    BY <1>1, <1>3, <1>4, TypesAre
  <2> QED
    BY <1>1, <1>3, <2>1, <2>2, DataIs DEF DataTyped, retry, compaction
<1>7. StageFits(c, x) /\ Ties(c, x)
  BY <1>1, <1>2, <1>3 DEF StageFits, Ties, CallerStages
<1>8. SessionInv'
  BY <1>1, <1>2, <1>3, <1>5, <1>6, <1>7, SetKeeps DEF retry
<1>9. InSyncKept
  BY <1>1, <1>3, <1>4, SyncAppends DEF InSyncKept
<1> QED
  BY <1>8, <1>9

LEMMA PromptKeepsSession ==
    ASSUME SessionInv, NEW c \in Callers, Prompt(c)
    PROVE  SessionInv' /\ InSyncKept
<1>1. Turn /\ StartPrompt(c) /\ commands < MaxCommands /\ commands' = commands + 1
  BY DEF Prompt
<1>2. commands \in 0..MaxCommands
  BY SessionIs DEF TypeOK
<1>3. commands' \in 0..MaxCommands
  BY <1>1, <1>2, SessionAssumption
<1> QED
  BY <1>1, <1>3, TurnIsQuiet, StartPromptKeeps

\* A task that sends its prompt: a run starts, or is going on.
LEMMA SentKeepsSession ==
    ASSUME SessionInv, NEW c \in Callers, Run(c) \/ Rejected(c),
           task[c].at \in {"checking", "sending"},
           UNCHANGED <<sessionFile, connected, lastAssistantMessage, retry, autoController,
                       cancelled, pendingBash, answers, commands>>
    PROVE  SessionInv' /\ InSyncKept
<1>1. TypeOK /\ EntriesCut /\ c \in Tasks /\ c # Command /\ c \notin Handlers /\ Quiet(c)
  BY SessionIs, TaskKinds, BusyIsQuiet
<1>2. CASE Run(c)
  <2> DEFINE x == At("running")  m == Message("user")
  <2>1. x \in TaskType /\ x.at = "running" /\ Sets(c, x)
    BY <1>2, AtTyped, StagesAre DEF Run, Sets
  <2>2. m \in MessageType /\ m.kind = "user"
    BY MessageIs DEF MessageKinds
  <2>3. /\ messages' = Append(messages, m) /\ entries' = (IF connected THEN Stored(<<m>>) ELSE entries)
        /\ streaming' \in BOOLEAN /\ signalled' \in BOOLEAN
    BY <1>2 DEF Run
  <2> HIDE DEF x, m
  <2>4. <<m>> \in Seq(MessageType) /\ NoSummary(<<m>>) /\ \A i \in 1..Len(<<m>>) : Kept(<<m>>[i])
    BY <2>2, OneMessage
  <2>5. messages' = messages \o <<m>> /\ messages' \in Seq(MessageType)
    BY <1>1, <2>2, <2>3, TypesAre, AppendIs
  <2>6. EntriesCut' /\ entries' \in [Sessions -> Seq(MessageType)]
    <3>1. CASE connected
      BY <1>1, <2>3, <2>4, <3>1, StoredCut, StoredIs
    <3>2. CASE ~connected
      <4>1. entries' = entries
        BY <2>3, <3>2
      <4> QED
        BY <1>1, <4>1, TypesAre DEF EntriesCut, Kept
    <3> QED
      BY <3>1, <3>2
  <2>7. DataTyped'
    BY <1>1, <2>3, <2>5, <2>6, DataIs DEF DataTyped, retry
  <2>8. StageFits(c, x) /\ Ties(c, x)
    BY <1>1, <2>1 DEF StageFits, Ties, CallerStages
  <2>9. SessionInv'
    BY <1>1, <2>1, <2>6, <2>7, <2>8, SetKeeps DEF retry
  <2>10. InSyncKept
    <3> SUFFICES ASSUME connected, InSync PROVE InSync'
      BY DEF InSyncKept
    <3>1. entries' = Stored(<<m>>)
      BY <2>3
    <3> QED
      BY <1>1, <2>4, <2>5, <3>1, SyncAppends
  <2> QED
    BY <2>9, <2>10
<1>3. CASE Rejected(c)
  <2>1. Sets(c, Free) /\ UNCHANGED <<messages, streaming, signalled, entries>>
    BY <1>3 DEF Rejected, Sets, agent
  <2>2. DataTyped' /\ EntriesCut'
    BY <1>1, <2>1, DataIs DEF DataTyped, retry, EntriesCut, Kept
  <2>3. StageFits(c, Free) /\ Ties(c, Free)
    BY <1>1, FreeIs DEF StageFits, Ties, CallerStages
  <2>4. SessionInv'
    BY <1>1, <2>1, <2>2, <2>3, FreeIs, SetKeeps DEF retry
  <2>5. InSyncKept
    BY <2>1, SyncSame DEF InSyncKept, store
  <2> QED
    BY <2>4, <2>5
<1> QED
  BY <1>2, <1>3

LEMMA SendKeepsSession ==
    ASSUME SessionInv, NEW c \in Callers, Send(c)
    PROVE  SessionInv' /\ InSyncKept
<1>1. task[c].at \in {"checking", "sending"} /\ (Run(c) \/ Rejected(c))
      /\ UNCHANGED <<sessionFile, connected, lastAssistantMessage, retry, autoController,
                     cancelled, pendingBash, answers, commands>>
  BY DEF Send, Is, compaction
<1> QED
  BY <1>1, SentKeepsSession

LEMMA WaitForRetryKeepsSession ==
    ASSUME SessionInv, NEW c \in Callers, WaitForRetry(c)
    PROVE  SessionInv' /\ InSyncKept
<1> DEFINE x == IF retryPromise THEN At("retrying") ELSE Free
<1>1. TypeOK /\ EntriesCut /\ c \in Tasks /\ c # Command /\ c \notin Handlers
  BY SessionIs, TaskKinds
<1>2. Quiet(c)
  BY DEF WaitForRetry, Quiet, Is
<1>3. /\ Sets(c, x) /\ UNCHANGED <<messages, streaming, signalled, store, connected,
                     lastAssistantMessage, retry, compaction, pendingBash, answers, commands>>
  BY DEF WaitForRetry, Sets, agent
<1>4. x \in TaskType /\ x.at \in {"retrying", "free"} /\ (x.at = "retrying" => retryPromise)
  BY AtTyped, FreeIs, StagesAre
<1> HIDE DEF x
<1>5. DataTyped' /\ EntriesCut'
  BY <1>1, <1>3, DataIs DEF DataTyped, retry, store, compaction, EntriesCut, Kept
<1>6. StageFits(c, x) /\ Ties(c, x)
  BY <1>1, <1>3, <1>4 DEF StageFits, Ties, CallerStages
<1>7. SessionInv'
  BY <1>1, <1>2, <1>3, <1>4, <1>5, <1>6, SetKeeps DEF retry
<1>8. InSyncKept
  BY <1>3, SyncSame DEF InSyncKept
<1> QED
  BY <1>7, <1>8

\* A context loses its last answer only when the answer failed.
FailsLast == messages # <<>> /\ FromAssistant(Last(messages)) => Failed(Last(messages))

LEMMA TrimKeepsSync ==
    ASSUME TypeOK, FailsLast, messages' = WithoutAnswer(messages), UNCHANGED store
    PROVE  messages' \in Seq(MessageType) /\ (InSync => InSync')
<1>1. messages \in Seq(MessageType)
  BY TypesAre
<1>2. /\ messages' \in Seq(MessageType)
      /\ \/ messages' = messages
         \/ messages # <<>> /\ messages' = Front(messages) /\ FromAssistant(Last(messages))
  BY <1>1, WithoutAnswerIs
<1>3. ASSUME InSync PROVE InSync'
  <2>1. CASE messages' = messages
    BY <1>3, <2>1, SyncSame
  <2>2. CASE messages # <<>> /\ messages' = Front(messages) /\ FromAssistant(Last(messages))
    BY <1>3, <2>2, SyncDrops DEF FailsLast
  <2> QED
    BY <1>2, <2>1, <2>2
<1> QED
  BY <1>2, <1>3

\* The context as it was, or as an overflow leaves it.
Trims(m) == messages' = IF Overflowed(m) THEN WithoutAnswer(messages) ELSE messages

LEMMA TrimsKeepsSync ==
    ASSUME TypeOK, NEW m, Trims(m), Overflowed(m) => FailsLast, UNCHANGED store
    PROVE  messages' \in Seq(MessageType) /\ (InSync => InSync')
<1>1. CASE Overflowed(m)
  BY <1>1, TrimKeepsSync DEF Trims
<1>2. CASE ~Overflowed(m)
  BY <1>2, SyncSame, TypesAre DEF Trims
<1> QED
  BY <1>1, <1>2

Rest == /\ UNCHANGED <<streaming, signalled, store, connected, retry, cancelled, pendingBash,
                       answers, commands>>
        /\ lastAssistantMessage' \in MessageType \cup {None}

LEMMA OverflowedIs == \A m : Overflowed(m) \in BOOLEAN
BY DEF Overflowed, BeforeCompaction

LEMMA StartCompactionKeeps ==
    ASSUME SessionInv, NEW t \in Callers \cup Handlers, NEW m, StartCompaction(t, m), Quiet(t),
           Overflowed(m) => FailsLast, Rest
    PROVE  SessionInv' /\ InSyncKept
<1> DEFINE x == Preparation("compacting", Overflowed(m))
<1>1. TypeOK /\ EntriesCut /\ t \in Tasks /\ t # Command
  BY SessionIs, TaskKinds
<1>2. x \in TaskType /\ x.at = "compacting" /\ x.kept > 0
  BY <1>1, PreparationIs, OverflowedIs, StagesAre DEF StartCompaction
<1>3. Sets(t, x) /\ Trims(m) /\ autoController' = t
  BY DEF StartCompaction, Sets, Trims
<1> HIDE DEF x
<1>4. messages' \in Seq(MessageType) /\ (InSync => InSync')
  BY <1>1, <1>3, TrimsKeepsSync DEF Rest
<1>5. DataTyped' /\ EntriesCut'
  BY <1>1, <1>3, <1>4, DataIs DEF DataTyped, retry, store, EntriesCut, Kept, Rest
<1>6. StageFits(t, x) /\ Ties(t, x)
  BY <1>1, <1>2 DEF StageFits, Ties, CallerStages, HandlerStages, Rest
<1>7. SessionInv'
  BY <1>1, <1>2, <1>3, <1>5, <1>6, SetKeeps DEF retry, Rest
<1> QED
  BY <1>4, <1>7 DEF InSyncKept

\* The last answer in the context, as the check before a prompt finds it.
LastAnswer ==
    LET at == SelectLastInSeq(messages, FromAssistant) IN IF at = 0 THEN None ELSE messages[at]

LEMMA LastAnswerFails ==
    ASSUME TypeOK, Overflowed(LastAnswer)
    PROVE  FailsLast
<1>1. messages \in Seq(MessageType)
  BY TypesAre
<1>2. SUFFICES ASSUME messages # <<>>, FromAssistant(Last(messages)) PROVE Failed(Last(messages))
  BY DEF FailsLast
<1>3. LastAnswer = Last(messages)
  BY <1>1, <1>2, LastAnswerIs DEF LastAnswer
<1> QED
  BY <1>3 DEF Overflowed, Failed, Failures

LEMMA CheckKeepsSession ==
    ASSUME SessionInv, NEW c \in Callers, CheckBeforePrompt(c)
    PROVE  SessionInv' /\ InSyncKept
<1>1. TypeOK /\ EntriesCut /\ c \in Tasks /\ c # Command /\ c \notin Handlers
  BY SessionIs, TaskKinds
<1>2. task[c].at = "checking" /\ Quiet(c)
  BY <1>1, SessionIs, BusyIsQuiet DEF CheckBeforePrompt, Is
<1>3. /\ \/ /\ StartCompaction(c, LastAnswer)
            /\ UNCHANGED <<streaming, signalled, entries>>
         \/ /\ Trims(LastAnswer) /\ Sets(c, At("sending"))
            /\ autoController' = Nobody
            /\ UNCHANGED <<streaming, signalled, entries>>
         \/ (Run(c) \/ Rejected(c)) /\ UNCHANGED autoController
      /\ UNCHANGED <<sessionFile, connected, lastAssistantMessage, retry, cancelled,
                     pendingBash, answers, commands>>
  BY DEF CheckBeforePrompt, LastAnswer, Trims, Sets
<1>4. Overflowed(LastAnswer) => FailsLast
  BY <1>1, LastAnswerFails
<1>5. CASE StartCompaction(c, LastAnswer) /\ UNCHANGED <<streaming, signalled, entries>>
  <2>1. Rest
    BY <1>1, <1>3, <1>5, TypesAre DEF Rest, store
  <2> DEFINE m == LastAnswer
  <2>2. StartCompaction(c, m) /\ (Overflowed(m) => FailsLast)
    BY <1>4, <1>5
  <2> HIDE DEF m
  <2> QED
    BY <1>2, <2>1, <2>2, StartCompactionKeeps
<1>6. CASE /\ Trims(LastAnswer) /\ Sets(c, At("sending"))
           /\ autoController' = Nobody
           /\ UNCHANGED <<streaming, signalled, entries>>
  <2> DEFINE m == LastAnswer  x == At("sending")
  <2>1. x \in TaskType /\ x.at = "sending" /\ Sets(c, x)
    BY <1>6, AtTyped, StagesAre
  <2>2. Trims(m) /\ (Overflowed(m) => FailsLast) /\ UNCHANGED store
    BY <1>3, <1>4, <1>6 DEF store
  <2> HIDE DEF m, x
  <2>3. messages' \in Seq(MessageType) /\ (InSync => InSync')
    BY <1>1, <2>2, TrimsKeepsSync
  <2>4. DataTyped' /\ EntriesCut'
    BY <1>1, <1>3, <1>6, <2>3, DataIs DEF DataTyped, retry, EntriesCut, Kept
  <2>5. StageFits(c, x) /\ Ties(c, x)
    BY <1>1, <1>3, <2>1 DEF StageFits, Ties, CallerStages
  <2>6. SessionInv'
    BY <1>1, <1>2, <1>3, <2>1, <2>4, <2>5, SetKeeps DEF retry
  <2> QED
    BY <2>3, <2>6 DEF InSyncKept
<1>7. CASE (Run(c) \/ Rejected(c)) /\ UNCHANGED autoController
  BY <1>2, <1>3, <1>7, SentKeepsSession
<1> QED
  BY <1>3, <1>5, <1>6, <1>7

\* A compaction is over, with its summary or without.
LEMMA ProceedKeeps ==
    ASSUME SessionInv, NEW t \in Callers \cup Handlers, NEW again, NEW ms, NEW es,
           Proceed(t, again, ms, es), Turn,
           ms \in Seq(MessageType), es \in [Sessions -> Seq(MessageType)], EntriesCut',
           autoController' = Nobody, cancelled' = cancelled \ {t},
           UNCHANGED <<sessionFile, connected, lastAssistantMessage, retry, pendingBash,
                       answers, commands>>
    PROVE  SessionInv'
<1> DEFINE x == IF t \in Callers THEN At("sending") ELSE IF again THEN At("delayed") ELSE Free
<1>1. TypeOK /\ t \in Tasks /\ t # Command /\ (t \in Callers <=> t \notin Handlers) /\ Quiet(t)
  BY SessionIs, TaskKinds, TurnIsQuiet
<1>2. /\ x \in TaskType /\ x.at = IF t \in Callers THEN "sending" ELSE IF again THEN "delayed" ELSE "free"
  BY AtTyped, FreeIs, StagesAre
<1>3. Sets(t, x) /\ messages' = ms /\ entries' = es /\ UNCHANGED <<streaming, signalled>>
  BY DEF Proceed, Sets
<1> HIDE DEF x
<1>4. DataTyped'
  BY <1>1, <1>3, DataIs DEF DataTyped, retry
<1>5. StageFits(t, x) /\ Ties(t, x)
  BY <1>1, <1>2 DEF StageFits, Ties, CallerStages, HandlerStages
<1>6. x.at # "emitted" /\ x.at # "retrying"
  BY <1>2
<1> QED
  BY <1>1, <1>2, <1>3, <1>4, <1>5, <1>6, SetKeeps DEF retry

\* The session gets its summary, and the context is built from it again.
LEMMA SummaryStored ==
    ASSUME SessionInv, NEW t \in Tasks, task[t].kept > 0, entries' = Stored(<<Summary(t)>>)
    PROVE  /\ entries' \in [Sessions -> Seq(MessageType)] /\ EntriesCut'
           /\ Context(entries'[sessionFile], sessionFile) \in Seq(MessageType)
<1> DEFINE s == <<Summary(t)>>
<1>1. TypeOK /\ EntriesCut /\ sessionFile \in Sessions
  BY SessionIs, TypesAre
<1>2. s \in Seq(MessageType) /\ \A i \in 1..Len(s) : Kept(s[i])
  <2> DEFINE m == Summary(t)
  <2>1. m \in MessageType /\ Kept(m)
    BY <1>1, SummaryIs
  <2> HIDE DEF m
  <2>2. <<m>> \in Seq(MessageType) /\ \A i \in 1..Len(<<m>>) : Kept(<<m>>[i])
    BY <2>1
  <2> QED
    BY <2>2 DEF m
<1>3. entries' = Stored(s)
  OBVIOUS
<1> HIDE DEF s
<1>4. EntriesCut' /\ entries' \in [Sessions -> Seq(MessageType)]
  BY <1>1, <1>2, <1>3, StoredCut, StoredIs
<1> DEFINE es == entries'[sessionFile]
<1>5. es \in Seq(MessageType) /\ CutRight(es)
  BY <1>1, <1>4 DEF EntriesCut, CutRight, Kept
<1> HIDE DEF es
<1>6. Context(es, sessionFile) \in Seq(MessageType)
  BY <1>5, ContextTyped
<1> QED
  BY <1>4, <1>6 DEF es

LEMMA CompactionDoneKeeps ==
    ASSUME SessionInv, NEW t \in Callers \cup Handlers, CompactionDone(t)
    PROVE  SessionInv' /\ InSyncKept
<1> DEFINE es == Stored(<<Summary(t)>>)
           c == Context(es[sessionFile], sessionFile)
           ms == IF task[t].retry /\ EndsFailed(c) THEN Front(c) ELSE c
<1>1. /\ Turn /\ Is(t, "compacting") /\ Proceed(t, task[t].retry, ms, es)
      /\ autoController' = Nobody /\ cancelled' = cancelled \ {t}
      /\ UNCHANGED <<sessionFile, connected, lastAssistantMessage, retry, pendingBash,
                     answers, commands>>
  BY DEF CompactionDone
<1>2. t \in Tasks /\ TypeOK /\ task[t].kept > 0 /\ sessionFile \in Sessions
  BY <1>1, SessionIs, TaskKinds, TypesAre DEF TasksFit, TasksCut, Is
<1>3. entries' = es /\ messages' = ms
  BY <1>1 DEF Proceed
<1>4. es \in [Sessions -> Seq(MessageType)] /\ EntriesCut' /\ c \in Seq(MessageType)
  BY <1>2, <1>3, SummaryStored
<1> HIDE DEF es
<1> HIDE DEF c
<1>5. ms \in Seq(MessageType) /\ (ms = c \/ (EndsFailed(c) /\ ms = Front(c)))
  BY <1>4, FrontLast DEF EndsFailed
<1> DEFINE again == task[t].retry
<1>6. Proceed(t, again, ms, es)
  BY <1>1
<1> HIDE DEF ms, again
<1>7. SessionInv'
  BY <1>1, <1>4, <1>5, <1>6, ProceedKeeps
<1>8. Context(entries'[sessionFile'], sessionFile') = c
  BY <1>1, <1>3 DEF c
<1>9. InSync'
  BY <1>1, <1>2, <1>3, <1>4, <1>5, <1>8, SyncRebuilds
<1> QED
  BY <1>7, <1>9 DEF InSyncKept

LEMMA CompactionFailsKeeps ==
    ASSUME SessionInv, NEW t \in Callers \cup Handlers, CompactionFails(t)
    PROVE  SessionInv' /\ InSyncKept
<1>1. /\ Turn /\ Proceed(t, FALSE, messages, entries)
      /\ autoController' = Nobody /\ cancelled' = cancelled \ {t}
      /\ UNCHANGED <<sessionFile, connected, lastAssistantMessage, retry, pendingBash,
                     answers, commands>>
  BY DEF CompactionFails
<1>2. messages' = messages /\ entries' = entries
  BY <1>1 DEF Proceed
<1>3. messages \in Seq(MessageType) /\ entries \in [Sessions -> Seq(MessageType)] /\ EntriesCut'
  BY <1>2, SessionIs, TypesAre DEF EntriesCut, Kept
<1>4. SessionInv'
  BY <1>1, <1>3, ProceedKeeps
<1>5. InSyncKept
  BY <1>1, <1>2, SyncSame DEF InSyncKept, store
<1> QED
  BY <1>4, <1>5

LEMMA RetryKeeps ==
    ASSUME SessionInv, NEW h \in Handlers, Is(h, "emitted"), Retry(h), Quiet(h),
           lastAssistantMessage.kind = "retryable",
           lastAssistantMessage' = None,
           UNCHANGED <<streaming, signalled, store, connected, compaction, pendingBash,
                       answers, commands>>
    PROVE  SessionInv' /\ InSyncKept
<1>1. TypeOK /\ EntriesCut /\ Waits /\ h \in Tasks /\ h # Command /\ h \notin Callers
  BY SessionIs, TaskKinds
<1>2. FailsLast
  BY SessionIs DEF AnswersFirst, FailsLast, Failed, Failures
<1>3. retryAttempt \in 0..MaxRetries /\ retryPromise \in BOOLEAN /\ MaxRetries \in Nat
  BY <1>1, TypesAre, SessionAssumption
<1>4. CASE /\ ~GivesUp /\ retryAttempt' = retryAttempt + 1
           /\ retryPromise' = (retryPromise \/ retryAttempt = 0)
           /\ retryController' = h
           /\ messages' = WithoutAnswer(messages)
           /\ task' = [task EXCEPT ![h] = At("sleeping")]
  <2> DEFINE x == At("sleeping")
  <2>1. x \in TaskType /\ x.at = "sleeping" /\ Sets(h, x)
    BY <1>4, AtTyped, StagesAre DEF Sets
  <2> HIDE DEF x
  <2>2. Moves(h, x)
    BY <1>1, <2>1, SetsMoves
  <2>3. messages' \in Seq(MessageType) /\ (InSync => InSync')
    BY <1>1, <1>2, <1>4, TrimKeepsSync
  <2>4. retryAttempt' \in 0..MaxRetries /\ retryAttempt' > 0 /\ retryPromise' \in BOOLEAN
    BY <1>3, <1>4 DEF GivesUp
  <2>5. DataTyped' /\ EntriesCut'
    BY <1>1, <1>4, <2>3, <2>4, DataIs DEF DataTyped, store, compaction, EntriesCut, Kept
  <2>6. StageFits(h, x) /\ Ties(h, x)
    BY <1>1, <2>1 DEF StageFits, Ties, HandlerStages
  <2>7. Waits'
    <3>1. retryPromise => retryPromise'
      BY <1>4
    <3>2. \A c \in Callers : task'[c].at = "retrying" => task[c].at = "retrying"
      BY <1>1, <2>1, <2>2, TaskKinds, FreeIs DEF Moves, Loosened
    <3> QED
      BY <1>1, <2>4, <3>1, <3>2 DEF Waits, Is
  <2>8. SessionInv'
    BY <2>1, <2>2, <2>5, <2>6, <2>7, MoveKeeps
  <2> QED
    BY <2>3, <2>8 DEF InSyncKept
<1>5. CASE /\ retryAttempt' = 0 /\ retryPromise' = FALSE
           /\ task' = [Released(task) EXCEPT ![h] = Free]
           /\ UNCHANGED <<retryController, messages>>
  <2>1. task \in [Tasks -> TaskType]
    BY <1>1, TypesAre
  <2>2. /\ Released(task) \in [Tasks -> TaskType]
        /\ \A t \in Tasks : Released(task)[t] = IF task[t].at = "retrying" THEN Free ELSE task[t]
    BY <2>1, ReleasedTyped
  <2>3. task[Command].at # "retrying"
    BY SessionIs DEF TasksFit, StagesOK, CommandStages
  <2>4. Moves(h, Free) /\ \A c \in Callers : task'[c].at # "retrying"
    BY <1>1, <1>5, <2>2, <2>3, FreeIs, TaskKinds DEF Moves, Loosened
  <2>5. DataTyped' /\ EntriesCut'
    <3>1. 0 \in 0..MaxRetries
      BY <1>3
    <3>2. retryAttempt' \in 0..MaxRetries
      BY <1>5, <3>1, Zenon
    <3>3. retryPromise' \in BOOLEAN
      BY <1>5, Zenon
    <3> QED
      BY <1>1, <1>5, <3>2, <3>3, DataIs DEF DataTyped, store, compaction, EntriesCut, Kept
  <2>6. StageFits(h, Free) /\ Ties(h, Free)
    BY <1>1, FreeIs DEF StageFits, Ties, HandlerStages
  <2>7. Waits'
    BY <1>5, <2>4 DEF Waits, Is
  <2>8. SessionInv'
    BY <2>4, <2>5, <2>6, <2>7, FreeIs, MoveKeeps
  <2>9. InSyncKept
    BY <1>5, SyncSame DEF InSyncKept
  <2> QED
    BY <2>8, <2>9
<1> QED
  BY <1>4, <1>5 DEF Retry

LEMMA HandleEndKeepsSession ==
    ASSUME SessionInv, NEW h \in Handlers, HandleEnd(h)
    PROVE  SessionInv' /\ InSyncKept
<1> DEFINE m == lastAssistantMessage
<1>1. /\ Is(h, "emitted") /\ lastAssistantMessage' = None
      /\ UNCHANGED <<streaming, signalled, store, connected, cancelled, pendingBash,
                     answers, commands>>
  BY DEF HandleEnd
<1>2. TypeOK /\ EntriesCut /\ h \in Tasks /\ h # Command /\ h \notin Callers /\ Quiet(h)
  BY <1>1, SessionIs, TaskKinds, BusyIsQuiet DEF Is
<1>3. CASE m.kind = "retryable" /\ Retry(h) /\ UNCHANGED autoController
  BY <1>1, <1>2, <1>3, RetryKeeps DEF compaction
<1>4. CASE StartCompaction(h, m) /\ UNCHANGED retry
  <2>1. Rest
    BY <1>1, <1>4 DEF Rest
  <2>2. Overflowed(m) => FailsLast
    BY <1>1, SessionIs DEF AnswersFirst, FailsLast, Failed, Failures, Overflowed
  <2> HIDE DEF m
  <2> QED
    BY <1>2, <1>4, <2>1, <2>2, StartCompactionKeeps
<1>5. CASE task' = [task EXCEPT ![h] = Free] /\ UNCHANGED <<messages, retry, autoController>>
  <2>1. Sets(h, Free)
    BY <1>5 DEF Sets
  <2>2. DataTyped' /\ EntriesCut'
    BY <1>1, <1>2, <1>5, DataIs DEF DataTyped, store, retry, EntriesCut, Kept
  <2>3. StageFits(h, Free) /\ Ties(h, Free)
    BY <1>1, <1>2, FreeIs DEF StageFits, Ties, HandlerStages
  <2>4. SessionInv'
    BY <1>2, <1>5, <2>1, <2>2, <2>3, FreeIs, SetKeeps DEF retry
  <2>5. InSyncKept
    BY <1>1, <1>5, SyncSame DEF InSyncKept
  <2> QED
    BY <2>4, <2>5
<1> QED
  BY <1>3, <1>4, <1>5 DEF HandleEnd

LEMMA RetryDelayOverKeepsSession ==
    ASSUME SessionInv, NEW h \in Handlers, RetryDelayOver(h)
    PROVE  SessionInv' /\ InSyncKept
<1> DEFINE x == At("timer")
<1>1. TypeOK /\ EntriesCut /\ h \in Tasks /\ h # Command /\ h \notin Callers /\ Quiet(h)
  BY SessionIs, TaskKinds, TurnIsQuiet DEF RetryDelayOver
<1>2. x \in TaskType /\ x.at = "timer" /\ Sets(h, x)
  BY AtTyped, StagesAre DEF Sets, RetryDelayOver
<1>3. /\ retryController' = Nobody
      /\ UNCHANGED <<messages, streaming, signalled, store, connected, lastAssistantMessage,
                     retryAttempt, retryPromise, compaction, pendingBash, answers, commands>>
  BY DEF RetryDelayOver, agent
<1> HIDE DEF x
<1>4. DataTyped' /\ EntriesCut'
  BY <1>1, <1>3, DataIs DEF DataTyped, store, compaction, EntriesCut, Kept
<1>5. StageFits(h, x) /\ Ties(h, x)
  BY <1>1, <1>2, <1>3 DEF StageFits, Ties, HandlerStages
<1>6. SessionInv'
  BY <1>1, <1>2, <1>3, <1>4, <1>5, SetKeeps
<1>7. InSyncKept
  BY <1>3, SyncSame DEF InSyncKept
<1> QED
  BY <1>6, <1>7

LEMMA ContinueKeepsSession ==
    ASSUME SessionInv, NEW h \in Handlers, Continue(h)
    PROVE  SessionInv' /\ InSyncKept
<1>1. TypeOK /\ EntriesCut /\ h \in Tasks /\ h # Command /\ h \notin Callers /\ Quiet(h)
  BY SessionIs, TaskKinds, TurnIsQuiet DEF Continue
<1>2. /\ Sets(h, Free) /\ streaming' \in BOOLEAN /\ signalled' \in BOOLEAN
      /\ UNCHANGED <<messages, store, connected, lastAssistantMessage, retry, compaction,
                     pendingBash, answers, commands>>
  BY <1>1, DataIs DEF Continue, Sets, DataTyped
<1>3. DataTyped' /\ EntriesCut'
  BY <1>1, <1>2, DataIs DEF DataTyped, store, retry, compaction, EntriesCut, Kept
<1>4. StageFits(h, Free) /\ Ties(h, Free)
  BY <1>1, <1>2, FreeIs DEF StageFits, Ties, HandlerStages
<1>5. SessionInv'
  BY <1>1, <1>2, <1>3, <1>4, FreeIs, SetKeeps DEF retry
<1>6. InSyncKept
  BY <1>2, SyncSame DEF InSyncKept
<1> QED
  BY <1>5, <1>6

\* An answer is the last message of the context, and of the session when it is heard.
LEMMA AnswerKeepsSession ==
    ASSUME SessionInv, NEW kind \in Kinds, Answer(kind)
    PROVE  SessionInv' /\ InSyncKept
<1> DEFINE m == Dated(kind)
           recovers == connected /\ ~Failed(m) /\ retryAttempt > 0
           resumed == IF recovers THEN Released(task) ELSE task
           returned == [t \in Tasks |-> IF Is(t, "running") THEN At("returning") ELSE resumed[t]]
<1>1. /\ Turn /\ streaming
      /\ messages' = Append(messages, m)
      /\ entries' = IF connected THEN Stored(<<m>>) ELSE entries
      /\ lastAssistantMessage' = IF connected THEN m ELSE lastAssistantMessage
      /\ retryAttempt' = IF recovers THEN 0 ELSE retryAttempt
      /\ retryPromise' = (retryPromise /\ ~recovers)
      /\ answers' = IF answers < MaxAnswers THEN answers + 1 ELSE answers
      /\ \/ kind = "tool" /\ task' = resumed /\ UNCHANGED <<streaming, signalled>>
         \/ /\ kind # "tool"
            /\ streaming' = FALSE /\ signalled' = FALSE
            /\ \/ ~connected /\ task' = returned
               \/ connected /\ \E h \in Handlers : /\ Is(h, "free")
                                                  /\ task' = [returned EXCEPT ![h] = At("emitted")]
      /\ UNCHANGED <<sessionFile, connected, retryController, compaction, pendingBash, commands>>
  BY DEF Answer
<1>2. TypeOK /\ EntriesCut /\ Waits /\ TasksFit /\ Connects
  BY SessionIs
<1>3. kind \in AllAnswers \cup {"aborted"}
  BY SessionAssumption DEF Kinds, AllAnswers
<1>4. m \in MessageType /\ m.kind = kind /\ m.kind # "summary"
  BY <1>2, <1>3, DatedIs DEF MessageKinds, AllAnswers, Failures
<1>5. recovers \in BOOLEAN
  BY <1>2, TypesAre DEF Failed
<1> HIDE DEF m
<1>6. resumed \in [Tasks -> TaskType] /\ \A t \in Tasks : resumed[t] = task[t] \/ (resumed[t] = Free /\ task[t].at = "retrying")
  BY <1>2, TypesAre, ReleasedTyped
<1>7. recovers => \A c \in Callers : resumed[c].at # "retrying"
  <2>1. task \in [Tasks -> TaskType]
    BY <1>2, TypesAre
  <2>2. \A t \in Tasks : Released(task)[t] = IF task[t].at = "retrying" THEN Free ELSE task[t]
    BY <2>1, ReleasedTyped
  <2>3. \A t \in Tasks : Released(task)[t].at # "retrying"
    BY <2>2, FreeIs
  <2> QED
    BY <2>3, TaskKinds
<1> HIDE DEF resumed
<1>8. /\ returned \in [Tasks -> TaskType]
      /\ \A t \in Tasks : returned[t] = IF task[t].at = "running" THEN At("returning") ELSE resumed[t]
  <2>1. At("returning") \in TaskType
    BY AtTyped, StagesAre
  <2> QED
    BY <1>6, <2>1 DEF Is
<1> HIDE DEF returned, recovers
<1>9. <<m>> \in Seq(MessageType) /\ NoSummary(<<m>>) /\ \A i \in 1..Len(<<m>>) : Kept(<<m>>[i])
  BY <1>4, OneMessage
<1>10. messages' = messages \o <<m>> /\ messages' \in Seq(MessageType)
  BY <1>1, <1>2, <1>4, TypesAre, AppendIs
<1>11. EntriesCut' /\ entries' \in [Sessions -> Seq(MessageType)]
  <2>1. CASE connected
    BY <1>1, <1>2, <1>9, <2>1, StoredCut, StoredIs
  <2>2. CASE ~connected
    <3>1. entries' = entries
      BY <1>1, <2>2
    <3> QED
      BY <1>2, <3>1, TypesAre DEF EntriesCut, Kept
  <2> QED
    BY <2>1, <2>2
<1>12. DataTyped'
  <2>1. answers' \in 0..MaxAnswers /\ retryAttempt' \in 0..MaxRetries
    <3>1. answers \in 0..MaxAnswers /\ retryAttempt \in 0..MaxRetries /\ MaxAnswers \in Nat /\ MaxRetries \in Nat
      BY <1>2, TypesAre, SessionAssumption
    <3> QED
      BY <1>1, <3>1
  <2>2. retryPromise' \in BOOLEAN /\ lastAssistantMessage' \in MessageType \cup {None}
    BY <1>1, <1>2, <1>4, TypesAre
  <2>3. streaming' \in BOOLEAN /\ signalled' \in BOOLEAN
    BY <1>1, <1>2, DataIs DEF DataTyped
  <2> QED
    BY <1>1, <1>2, <1>10, <1>11, <2>1, <2>2, <2>3, DataIs DEF DataTyped, compaction
\* Where the tasks are: the command and the handlers, but the one of this end, stay.
<1> DEFINE Ends(h) == h \in Handlers /\ connected /\ task[h].at = "free" /\ task'[h] = At("emitted") /\ ~streaming'
<1>13. \A u \in Tasks : task[u].at \in {"running", "retrying"} => u \in Callers
  BY <1>2, TaskKinds DEF TasksFit, StagesOK, HandlerStages, CommandStages
<1>14. At("returning").at = "returning" /\ At("emitted").at = "emitted" /\ At("emitted") \in TaskType
       /\ At("returning") \in TaskType
  BY AtTyped, StagesAre
<1>15. /\ task' \in [Tasks -> TaskType]
       /\ \/ \A u \in Tasks : task'[u] \in {resumed[u], returned[u]}
          \/ \E h \in Handlers : Ends(h) /\ \A u \in Tasks \ {h} : task'[u] = returned[u]
  <2>1. CASE task' = resumed
    BY <1>6, <2>1
  <2>2. CASE task' = returned
    BY <1>8, <2>2
  <2>3. CASE \E h \in Handlers : /\ connected /\ ~streaming' /\ Is(h, "free")
                                 /\ task' = [returned EXCEPT ![h] = At("emitted")]
    <3>1. PICK h \in Handlers : /\ connected /\ ~streaming' /\ Is(h, "free")
                                /\ task' = [returned EXCEPT ![h] = At("emitted")]
      BY <2>3
    <3>2. h \in Tasks
      BY TaskKinds
    <3>3. task' \in [Tasks -> TaskType] /\ Ends(h) /\ \A u \in Tasks \ {h} : task'[u] = returned[u]
      BY <1>8, <1>14, <3>1, <3>2 DEF Is
    <3> QED
      BY <3>3
  <2> QED
    BY <1>1, <2>1, <2>2, <2>3
<1>16. \A u \in Tasks : \/ task'[u] = task[u]
                        \/ u \in Callers /\ task'[u] \in {Free, At("returning")}
                        \/ Ends(u)
  BY <1>6, <1>8, <1>13, <1>15
<1>17. TasksFit'
  <2>1. \A u \in Tasks : u \in Callers => task'[u].at \in CallerStages
    BY <1>2, <1>14, <1>16, FreeIs, TaskKinds DEF TasksFit, StagesOK, CallerStages
  <2>2. \A u \in Tasks : u \in Handlers => task'[u].at \in HandlerStages
    BY <1>2, <1>14, <1>16, TaskKinds DEF TasksFit, StagesOK, HandlerStages
  <2>3. task'[Command] = task[Command]
    BY <1>16, TaskKinds
  <2>4. \A u \in Tasks : task'[u].at \in {"compacting", "summarising"} => task'[u].kept > 0
    BY <1>2, <1>14, <1>16, FreeIs DEF TasksFit, TasksCut
  <2>5. DOMAIN task' = Tasks
    BY <1>15
  <2> QED
    BY <1>2, <2>1, <2>2, <2>3, <2>4, <2>5, TaskKinds DEF TasksFit, StagesOK, TasksCut, Is
<1>18. Connects'
  <2>1. task'[Command] = task[Command] /\ connected' = connected
    BY <1>1, <1>16, TaskKinds
  <2> QED
    BY <1>2, <2>1 DEF Connects
<1>19. \A u \in Tasks : task[u].at \notin {"checking", "sending", "emitted", "returning"}
  BY <1>1, TurnIsQuiet
<1>20. AnswersFirst'
  <2>1. SUFFICES ASSUME NEW h \in Handlers, task'[h].at = "emitted"
        PROVE  /\ connected' /\ ~streaming'
               /\ messages' # <<>> /\ Last(messages') = lastAssistantMessage'
               /\ \A t \in Tasks \ {h} : task'[t].at \notin {"emitted", "checking", "sending"}
    BY DEF AnswersFirst, Is
  <2>2. Ends(h) /\ h \in Tasks
    BY <1>14, <1>16, <1>19, <2>1, FreeIs, TaskKinds
  <2>3. connected' /\ ~streaming' /\ lastAssistantMessage' = m
    BY <1>1, <2>2
  <2>4. messages' # <<>> /\ Last(messages') = m
    <3>1. messages \in Seq(MessageType)
      BY <1>2, TypesAre
    <3>2. Append(messages, m) \in Seq(MessageType) /\ Len(Append(messages, m)) = Len(messages) + 1
          /\ Append(messages, m)[Len(messages) + 1] = m /\ Len(messages) \in Nat
      BY <1>4, <3>1, AppendProperties
    <3> QED
      BY <1>1, <3>2 DEF Last
  <2>5. \A t \in Tasks \ {h} : task'[t].at \notin {"emitted", "checking", "sending"}
    <3>1. \A u \in Tasks : resumed[u].at # "emitted" /\ returned[u].at # "emitted"
      BY <1>6, <1>8, <1>14, <1>19, FreeIs
    <3>2. \E g \in Handlers : Ends(g) /\ \A u \in Tasks \ {g} : task'[u] = returned[u]
      BY <1>15, <2>1, <2>2, <3>1
    <3>3. \A u \in Tasks : returned[u].at \notin {"emitted", "checking", "sending"}
      BY <1>6, <1>8, <1>14, <1>19, FreeIs
    <3> QED
      BY <2>1, <2>2, <3>2, <3>3
  <2> QED
    BY <2>3, <2>4, <2>5
<1>21. Waits'
  <2>1. retryPromise' => retryAttempt' > 0
    BY <1>1, <1>2 DEF Waits
  <2>2. ASSUME NEW c \in Callers, task'[c].at = "retrying" PROVE retryPromise'
    <3>1. c \in Tasks /\ c \notin Handlers
      BY TaskKinds
    <3>2. task'[c] \in {resumed[c], returned[c]}
      BY <1>15, <3>1
    <3>3. task'[c] = resumed[c]
      BY <1>8, <1>14, <2>2, <3>1, <3>2
    <3>4. ~recovers /\ task[c].at = "retrying"
      BY <1>6, <1>7, <2>2, <3>1, <3>3, FreeIs
    <3> QED
      BY <1>1, <1>2, <3>4 DEF Waits, Is
  <2> QED
    BY <2>1, <2>2 DEF Waits, Is
<1>22. SessionInv'
  <2>1. TypeOK'
    BY <1>12, <1>15, StagesAre DEF TypeOK, TaskType, DataTyped
  <2> QED
    BY <1>11, <1>17, <1>18, <1>20, <1>21, <2>1 DEF SessionInv, WaitsForAttempt, Waits, TasksFit
<1>23. InSyncKept
  <2> SUFFICES ASSUME connected, InSync PROVE InSync'
    BY DEF InSyncKept
  <2>1. entries' = Stored(<<m>>)
    BY <1>1
  <2> QED
    BY <1>1, <1>2, <1>9, <1>10, <2>1, SyncAppends
<1> QED
  BY <1>22, <1>23

-------------------------------------------------------------------------------
(* The user's commands.                                                       *)

LEMMA CountsOn ==
    ASSUME TypeOK, NEW name, MayCommand(name)
    PROVE  Turn /\ Quiet(Command) /\ commands' \in 0..MaxCommands
<1>1. commands \in 0..MaxCommands /\ commands < MaxCommands /\ commands' = commands + 1 /\ MaxCommands \in Nat
  BY SessionAssumption DEF TypeOK, MayCommand
<1> QED
  BY <1>1, TurnIsQuiet DEF MayCommand

LEMMA StopRetryIs ==
    ASSUME TypeOK, StopRetry
    PROVE  /\ retryAttempt' \in 0..MaxRetries /\ retryPromise' \in BOOLEAN /\ ~retryPromise'
           /\ retryController' = Nobody
<1>1. retryAttempt \in 0..MaxRetries /\ MaxRetries \in Nat
  BY TypesAre, SessionAssumption
<1>2. retryAttempt' \in {0, retryAttempt} /\ retryPromise' = FALSE /\ retryController' = Nobody
  BY DEF StopRetry
<1>3. retryAttempt' \in 0..MaxRetries
  BY <1>1, <1>2
<1>4. retryPromise' \in BOOLEAN /\ ~retryPromise'
  BY <1>2, Zenon
<1> QED
  BY <1>2, <1>3, <1>4

\* Whoever waits for a retry is let go, and the command goes on to x.
LEMMA AbortedMoves ==
    ASSUME SessionInv, NEW x \in TaskType, x.at # "retrying",
           (task' = AbortedRetry /\ x = task[Command]) \/ task' = [AbortedRetry EXCEPT ![Command] = x]
    PROVE  Moves(Command, x) /\ \A c \in Callers : task'[c].at # "retrying"
<1>1. TypeOK /\ task[Command].at # "retrying" /\ retryController # Command
  BY SessionIs, TypesAre, TaskKinds DEF TasksFit, StagesOK, CommandStages
<1>2. /\ AbortedRetry \in [Tasks -> TaskType]
      /\ \A t \in Tasks : AbortedRetry[t] =
            IF t = retryController \/ task[t].at = "retrying" THEN Free ELSE task[t]
  BY <1>1, AbortedTyped
<1>3. AbortedRetry[Command] = task[Command]
  BY <1>1, <1>2, TaskKinds
<1>4. task' \in [Tasks -> TaskType] /\ task'[Command] = x
      /\ \A u \in Tasks \ {Command} : task'[u] = AbortedRetry[u]
  <2>1. CASE task' = AbortedRetry /\ x = task[Command]
    BY <1>2, <1>3, <2>1
  <2>2. CASE task' = [AbortedRetry EXCEPT ![Command] = x]
    BY <1>2, <2>2, TaskKinds
  <2> QED
    BY <2>1, <2>2
<1>5. \A u \in Tasks \ {Command} : Loosened(u)
  BY <1>2, <1>4 DEF Loosened
<1>6. \A c \in Callers : task'[c].at # "retrying"
  BY <1>2, <1>4, FreeIs, TaskKinds
<1> QED
  BY <1>4, <1>5, <1>6, TaskKinds DEF Moves

LEMMA CommandIs ==
    ASSUME SessionInv
    PROVE  /\ TypeOK /\ EntriesCut /\ task[Command] \in TaskType /\ Command \in Tasks
           /\ task[Command].at \in CommandStages
           /\ StageFits(Command, task[Command])
           /\ connected = (task[Command].at \notin Off)
           /\ Moves(Command, task[Command]) \/ task' # task
<1>1. TypeOK /\ EntriesCut /\ TasksFit /\ Connects /\ task \in [Tasks -> TaskType]
  BY SessionIs, TypesAre
<1>2. task[Command] \in TaskType /\ Command \in Tasks
  BY <1>1, TaskKinds
<1>3. StageFits(Command, task[Command])
  BY <1>1, <1>2, TaskKinds DEF StageFits, TasksFit, StagesOK, TasksCut, Is
<1>4. task' = task => Moves(Command, task[Command])
  BY <1>1, <1>2 DEF Moves, Loosened
<1> QED
  BY <1>1, <1>2, <1>3, <1>4 DEF Connects, Off, TasksFit, StagesOK

\* abort and abortRetry.
LEMMA AbortKeepsSession ==
    ASSUME SessionInv, Abort \/ AbortRetry
    PROVE  SessionInv' /\ InSyncKept
<1> DEFINE x == task[Command]
<1>1. /\ StopRetry /\ task' = AbortedRetry
      /\ UNCHANGED <<messages, streaming, store, connected, lastAssistantMessage, compaction,
                     pendingBash, answers>>
      /\ signalled' \in {signalled, streaming}
      /\ Quiet(Command) /\ commands' \in 0..MaxCommands
  BY SessionIs, CountsOn DEF Abort, AbortRetry, agent
<1>2. TypeOK /\ EntriesCut /\ x \in TaskType /\ StageFits(Command, x) /\ x.at \in CommandStages
      /\ connected = (x.at \notin Off)
  BY CommandIs
<1> HIDE DEF x
<1>3. x.at # "retrying" /\ x.at # "emitted"
  BY <1>2 DEF CommandStages
<1>4. Moves(Command, x) /\ \A c \in Callers : task'[c].at # "retrying"
  BY <1>1, <1>2, <1>3, AbortedMoves DEF x
<1>5. /\ retryAttempt' \in 0..MaxRetries /\ retryPromise' \in BOOLEAN /\ ~retryPromise'
      /\ retryController' = Nobody
  BY <1>1, <1>2, StopRetryIs
<1>6. DataTyped' /\ EntriesCut'
  BY <1>1, <1>2, <1>5, DataIs DEF DataTyped, store, compaction, EntriesCut, Kept
<1>7. Waits' /\ Ties(Command, x)
  BY <1>1, <1>2, <1>4, <1>5 DEF Waits, Is, Ties
<1>8. SessionInv'
  BY <1>1, <1>2, <1>3, <1>4, <1>6, <1>7, MoveKeeps
<1>9. InSyncKept
  BY <1>1, SyncSame DEF InSyncKept
<1> QED
  BY <1>8, <1>9

\* compact and switchSession.
LEMMA DisconnectKeepsSession ==
    ASSUME SessionInv, NEW x \in TaskType, x.at \in {"stopping", "switching"},
           x.at = "switching" => x.of \in Sessions,
           Disconnect(x), NEW name, MayCommand(name)
    PROVE  SessionInv' /\ InSyncKept
<1>1. /\ StopRetry /\ task' = [AbortedRetry EXCEPT ![Command] = x] /\ connected' = FALSE
      /\ UNCHANGED <<messages, streaming, store, lastAssistantMessage, compaction,
                     pendingBash, answers>>
      /\ signalled' = streaming
  BY DEF Disconnect
<1>2. TypeOK /\ EntriesCut /\ Quiet(Command) /\ commands' \in 0..MaxCommands
  BY SessionIs, CountsOn
<1>3. x.at # "retrying" /\ x.at # "emitted"
  OBVIOUS
<1>4. Moves(Command, x) /\ \A c \in Callers : task'[c].at # "retrying"
  BY <1>1, <1>3, AbortedMoves
<1>5. /\ retryAttempt' \in 0..MaxRetries /\ retryPromise' \in BOOLEAN /\ ~retryPromise'
      /\ retryController' = Nobody
  BY <1>1, <1>2, StopRetryIs
<1>6. connected' \in BOOLEAN
  BY <1>1, Zenon
<1>7. DataTyped' /\ EntriesCut'
  BY <1>1, <1>2, <1>5, <1>6, DataIs DEF DataTyped, store, compaction, EntriesCut, Kept
<1>8. Waits' /\ Ties(Command, x) /\ StageFits(Command, x)
  BY <1>1, <1>4, <1>5, TaskKinds DEF Waits, Is, Ties, Off, StageFits, CommandStages
<1>9. SessionInv'
  BY <1>2, <1>3, <1>4, <1>7, <1>8, MoveKeeps
<1>10. InSyncKept
  BY <1>1 DEF InSyncKept
<1> QED
  BY <1>9, <1>10

LEMMA CompactKeepsSession ==
    ASSUME SessionInv, Compact
    PROVE  SessionInv' /\ InSyncKept
<1> DEFINE x == At("stopping")
<1>1. x \in TaskType /\ x.at = "stopping" /\ MayCommand("compact") /\ Disconnect(x)
  BY AtTyped, StagesAre DEF Compact
<1> HIDE DEF x
<1> QED
  BY <1>1, DisconnectKeepsSession

LEMMA SwitchKeepsSession ==
    ASSUME SessionInv, NEW s \in Sessions, Switch(s)
    PROVE  SessionInv' /\ InSyncKept
<1> DEFINE x == [At("switching") EXCEPT !.of = s]
<1>1. x \in TaskType /\ x.at = "switching" /\ x.of \in Sessions /\ MayCommand("switch") /\ Disconnect(x)
  BY SwitchingIs DEF Switch
<1> HIDE DEF x
<1> QED
  BY <1>1, DisconnectKeepsSession

LEMMA AbortCompactionKeepsSession ==
    ASSUME SessionInv, AbortCompaction
    PROVE  SessionInv' /\ InSyncKept
<1> DEFINE x == task[Command]
<1>1. /\ UNCHANGED <<messages, streaming, signalled, store, connected, lastAssistantMessage, retry,
                     autoController, pendingBash, task, answers>>
      /\ cancelled' = cancelled \cup ({autoController} \ {Nobody})
                              \cup {t \in {Command} : Is(t, "summarising")}
      /\ Quiet(Command) /\ commands' \in 0..MaxCommands
  BY SessionIs, CountsOn DEF AbortCompaction, agent
<1>2. TypeOK /\ EntriesCut /\ x \in TaskType /\ StageFits(Command, x) /\ x.at \in CommandStages
      /\ connected = (x.at \notin Off) /\ Moves(Command, x)
  BY <1>1, CommandIs
<1> HIDE DEF x
<1>3. x.at # "retrying" /\ x.at # "emitted"
  BY <1>2 DEF CommandStages
<1>4. cancelled' \subseteq Tasks
  BY <1>1, <1>2, DataIs, TaskKinds DEF DataTyped
<1>5. DataTyped' /\ EntriesCut'
  BY <1>1, <1>2, <1>4, DataIs DEF DataTyped, store, retry, EntriesCut, Kept
<1>6. Waits' /\ Ties(Command, x)
  BY <1>1, <1>2, SessionIs DEF Waits, Is, Ties, retry
<1>7. SessionInv'
  BY <1>1, <1>2, <1>3, <1>5, <1>6, MoveKeeps
<1>8. InSyncKept
  BY <1>1, SyncSame DEF InSyncKept
<1> QED
  BY <1>7, <1>8

LEMMA RecordBashKeepsSession ==
    ASSUME SessionInv, RecordBash
    PROVE  SessionInv' /\ InSyncKept
<1> DEFINE x == task[Command]  m == Message("bash")
<1>1. /\ \/ pendingBash' = Append(pendingBash, m) /\ UNCHANGED <<messages, entries>>
         \/ messages' = Append(messages, m) /\ entries' = Stored(<<m>>) /\ UNCHANGED pendingBash
      /\ UNCHANGED <<streaming, signalled, sessionFile, connected, lastAssistantMessage, retry,
                     compaction, task, answers>>
      /\ Quiet(Command) /\ commands' \in 0..MaxCommands
  BY SessionIs, CountsOn DEF RecordBash
<1>2. TypeOK /\ EntriesCut /\ x \in TaskType /\ StageFits(Command, x) /\ x.at \in CommandStages
      /\ connected = (x.at \notin Off) /\ Moves(Command, x)
  BY <1>1, CommandIs
<1>3. m \in MessageType /\ m.kind = "bash"
  BY MessageIs DEF MessageKinds
<1>4. pendingBash \in Seq({m}) /\ Append(pendingBash, m) \in Seq({m})
  BY <1>2, TypesAre
<1>5. pendingBash' \in Seq({Message("bash")})
  BY <1>1, <1>4
<1> HIDE DEF x, m
<1>6. x.at # "retrying" /\ x.at # "emitted"
  BY <1>2 DEF CommandStages
<1>7. <<m>> \in Seq(MessageType) /\ NoSummary(<<m>>) /\ \A i \in 1..Len(<<m>>) : Kept(<<m>>[i])
  BY <1>3, OneMessage
<1>8. messages \in Seq(MessageType) /\ Append(messages, m) = messages \o <<m>>
      /\ Append(messages, m) \in Seq(MessageType)
  BY <1>2, <1>3, TypesAre, AppendIs
<1>9. /\ EntriesCut' /\ entries' \in [Sessions -> Seq(MessageType)]
      /\ messages' \in Seq(MessageType) /\ (connected /\ InSync => InSync')
  <2>1. CASE UNCHANGED <<messages, entries>>
    <3>1. UNCHANGED store
      BY <1>1, <2>1 DEF store
    <3>2. EntriesCut' /\ entries' \in [Sessions -> Seq(MessageType)]
      BY <1>2, <2>1, TypesAre DEF EntriesCut, Kept
    <3> QED
      BY <1>8, <2>1, <3>1, <3>2, SyncSame
  <2>2. CASE messages' = Append(messages, m) /\ entries' = Stored(<<m>>)
    <3>1. EntriesCut' /\ entries' \in [Sessions -> Seq(MessageType)]
      BY <1>2, <1>7, <2>2, StoredCut, StoredIs
    <3>2. InSync => InSync'
      BY <1>1, <1>2, <1>7, <1>8, <2>2, SyncAppends
    <3> QED
      BY <1>8, <2>2, <3>1, <3>2
  <2> QED
    BY <1>1, <2>1, <2>2
<1>10. DataTyped'
  BY <1>1, <1>2, <1>5, <1>9, DataIs DEF DataTyped, retry, compaction
<1>11. Waits' /\ Ties(Command, x)
  BY <1>1, <1>2, SessionIs DEF Waits, Is, Ties, retry
<1>12. SessionInv'
  BY <1>1, <1>2, <1>6, <1>9, <1>10, <1>11, MoveKeeps
<1> QED
  BY <1>9, <1>12 DEF InSyncKept

LEMMA BeginSummaryKeepsSession ==
    ASSUME SessionInv, BeginSummary
    PROVE  SessionInv' /\ InSyncKept
<1>1. /\ TypeOK /\ EntriesCut /\ Is(Command, "stopping") /\ ~connected
      /\ UNCHANGED <<messages, streaming, signalled, store, lastAssistantMessage, retry,
                     compaction, pendingBash, answers, commands>>
  BY SessionIs DEF BeginSummary, Connects, Is, agent
<1>2. Quiet(Command)
  BY <1>1, SessionIs DEF Quiet, AnswersFirst, Is
<1>3. PICK x \in TaskType : /\ Sets(Command, x) /\ x.at \in {"summarising", "free"}
                            /\ x.at = "summarising" => x.kept > 0
                            /\ connected' = (x.at \notin Off)
  <2>1. CASE /\ Prepared /\ task' = [task EXCEPT ![Command] = Preparation("summarising", FALSE)]
             /\ UNCHANGED connected
    <3> DEFINE x == Preparation("summarising", FALSE)
    <3>1. x \in TaskType /\ x.at = "summarising" /\ x.kept > 0
      BY <1>1, <2>1, PreparationIs, StagesAre
    <3>2. Sets(Command, x) /\ connected' = connected
      BY <2>1 DEF Sets
    <3> HIDE DEF x
    <3>3. connected' = (x.at \notin Off)
      BY <1>1, <3>1, <3>2, TypesAre DEF Off
    <3> QED
      BY <3>1, <3>2, <3>3
  <2>2. CASE task' = [task EXCEPT ![Command] = Free] /\ connected' = TRUE
    BY <2>2, FreeIs DEF Sets, Off
  <2> QED
    BY <2>1, <2>2 DEF BeginSummary
<1>4. connected' \in BOOLEAN
  BY <1>3
<1>5. DataTyped' /\ EntriesCut'
  BY <1>1, <1>4, DataIs DEF DataTyped, store, retry, compaction, EntriesCut, Kept
<1>6. StageFits(Command, x) /\ Ties(Command, x) /\ Command \in Tasks
  BY <1>3, TaskKinds DEF StageFits, Ties, CommandStages
<1>7. SessionInv'
  BY <1>1, <1>2, <1>3, <1>5, <1>6, SetKeeps DEF retry
<1> QED
  BY <1>1, <1>7 DEF InSyncKept

\* The command is over, and the session listens again.
LEMMA CommandEnds ==
    ASSUME SessionInv, task[Command].at \in Off, task' = [task EXCEPT ![Command] = Free],
           connected' = TRUE, UNCHANGED <<retryAttempt, retryPromise>>, DataTyped', EntriesCut'
    PROVE  SessionInv' /\ InSyncKept
<1>1. ~connected
  BY SessionIs DEF Connects, Off
<1>2. Quiet(Command)
  BY <1>1, SessionIs DEF Quiet, AnswersFirst, Is
<1>3. Sets(Command, Free)
  BY DEF Sets
<1>4. StageFits(Command, Free) /\ Ties(Command, Free) /\ Command \in Tasks
  BY FreeIs, TaskKinds DEF StageFits, Ties, CommandStages, Off
<1>5. SessionInv'
  BY <1>2, <1>3, <1>4, FreeIs, SetKeeps
<1> QED
  BY <1>1, <1>5 DEF InSyncKept

LEMMA EndSummaryKeepsSession ==
    ASSUME SessionInv, EndSummary
    PROVE  SessionInv' /\ InSyncKept
<1>1. /\ Is(Command, "summarising")
      /\ \/ entries' = Stored(<<Summary(Command)>>) /\ messages' = Context(entries'[sessionFile], sessionFile)
         \/ UNCHANGED <<messages, entries>>
      /\ task' = [task EXCEPT ![Command] = Free]
      /\ connected' = TRUE
      /\ cancelled' = cancelled \ {Command}
      /\ UNCHANGED <<streaming, signalled, sessionFile, lastAssistantMessage, retry,
                     autoController, pendingBash, answers, commands>>
  BY DEF EndSummary
<1>2. TypeOK /\ EntriesCut /\ Command \in Tasks /\ task[Command].kept > 0
  BY <1>1, SessionIs, TaskKinds DEF TasksFit, TasksCut, Is
<1>3. messages' \in Seq(MessageType) /\ entries' \in [Sessions -> Seq(MessageType)] /\ EntriesCut'
  <2>1. CASE entries' = Stored(<<Summary(Command)>>) /\ messages' = Context(entries'[sessionFile], sessionFile)
    BY <1>2, <2>1, SummaryStored
  <2>2. CASE UNCHANGED <<messages, entries>>
    BY <1>2, <2>2, TypesAre DEF EntriesCut, Kept
  <2> QED
    BY <1>1, <2>1, <2>2
<1>4. connected' \in BOOLEAN
  BY <1>1, Zenon
<1>5. DataTyped'
  BY <1>1, <1>2, <1>3, <1>4, DataIs DEF DataTyped, retry
<1> QED
  BY <1>1, <1>3, <1>5, CommandEnds DEF Is, Off, retry

LEMMA OpenSessionKeepsSession ==
    ASSUME SessionInv, OpenSession
    PROVE  SessionInv' /\ InSyncKept
<1>1. /\ Is(Command, "switching")
      /\ sessionFile' = task[Command].of
      /\ messages' = Context(entries[sessionFile'], sessionFile')
      /\ task' = [task EXCEPT ![Command] = Free]
      /\ connected' = TRUE
      /\ UNCHANGED <<streaming, signalled, entries, lastAssistantMessage, retry, compaction,
                     pendingBash, answers, commands>>
  BY DEF OpenSession
<1>2. TypeOK /\ EntriesCut /\ sessionFile' \in Sessions
  BY <1>1, SessionIs DEF TasksFit, TasksCut, Is
<1> DEFINE s == sessionFile'  es == entries[s]
<1>3. es \in Seq(MessageType) /\ CutRight(es)
  BY <1>2, TypesAre DEF EntriesCut, CutRight
<1> HIDE DEF es, s
<1>4. Context(es, s) \in Seq(MessageType)
  BY <1>3, ContextTyped
<1>5. messages' \in Seq(MessageType)
  BY <1>1, <1>4 DEF es, s
<1>6. connected' \in BOOLEAN
  BY <1>1, Zenon
<1>7. DataTyped' /\ EntriesCut'
  BY <1>1, <1>2, <1>5, <1>6, DataIs DEF DataTyped, retry, compaction, EntriesCut, Kept
<1> QED
  BY <1>1, <1>7, CommandEnds DEF Is, Off, retry

-------------------------------------------------------------------------------
(* The theorems.                                                              *)

LEMMA InitIsSession == Init => SessionInv
<1> SUFFICES ASSUME Init PROVE SessionInv
  OBVIOUS
<1>1. task = [t \in Tasks |-> Free] /\ DOMAIN task = Tasks /\ \A t \in Tasks : task[t] = Free
  BY DEF Init
<1>2. DataTyped
  <2>1. <<>> \in Seq(MessageType) /\ <<>> \in Seq({Message("bash")})
    OBVIOUS
  <2>2. 0 \in 0..MaxRetries /\ 0 \in 0..MaxAnswers /\ 0 \in 0..MaxCommands
    BY SessionAssumption
  <2>3. TRUE \in BOOLEAN /\ FALSE \in BOOLEAN
    OBVIOUS
  <2>4. entries \in [Sessions -> Seq(MessageType)]
    BY <2>1 DEF Init
  <2>5. /\ messages \in Seq(MessageType) /\ streaming \in BOOLEAN /\ signalled \in BOOLEAN
        /\ connected \in BOOLEAN /\ retryPromise \in BOOLEAN
    BY <2>1, <2>3 DEF Init
  <2> QED
    BY <2>1, <2>2, <2>4, <2>5, SessionAssumption DEF Init, DataTyped
<1>3. TypeOK
  BY <1>1, <1>2, FreeIs, StagesAre DEF TypeOK, TaskType, DataTyped
<1>4. Waits
  BY <1>1, FreeIs, TaskKinds DEF Init, Waits, Is
<1>5. TasksFit
  BY <1>1, FreeIs, TaskKinds DEF TasksFit, StagesOK, TasksCut, Is, CallerStages, HandlerStages, CommandStages
<1>6. Connects /\ AnswersFirst
  BY <1>1, FreeIs, TaskKinds DEF Init, Connects, AnswersFirst, Is
<1>7. EntriesCut
  <2>1. \A s \in Sessions : entries[s] = <<>>
    BY DEF Init
  <2>2. Len(<<>>) = 0
    OBVIOUS
  <2> QED
    BY <2>1, <2>2 DEF EntriesCut
<1> QED
  BY <1>3, <1>4, <1>5, <1>6, <1>7, SessionIs

LEMMA SessionStep == SessionInv /\ [Next]_vars => SessionInv' /\ InSyncKept
<1> SUFFICES ASSUME SessionInv, [Next]_vars PROVE SessionInv' /\ InSyncKept
  OBVIOUS
<1>1. CASE Next
  <2>1. ASSUME NEW c \in Callers, Prompt(c) \/ CallerStep(c) PROVE SessionInv' /\ InSyncKept
    <3>1. CASE Prompt(c)
      BY <3>1, PromptKeepsSession
    <3>2. CASE CheckBeforePrompt(c)
      BY <3>2, CheckKeepsSession
    <3>3. CASE Send(c)
      BY <3>3, SendKeepsSession
    <3>4. CASE WaitForRetry(c)
      BY <3>4, WaitForRetryKeepsSession
    <3>5. CASE EndCompaction(c)
      BY <3>5, CompactionDoneKeeps, CompactionFailsKeeps DEF EndCompaction
    <3> QED
      BY <2>1, <3>1, <3>2, <3>3, <3>4, <3>5 DEF CallerStep
  <2>2. ASSUME NEW h \in Handlers, HandlerStep(h) PROVE SessionInv' /\ InSyncKept
    <3>1. CASE HandleEnd(h)
      BY <3>1, HandleEndKeepsSession
    <3>2. CASE RetryDelayOver(h)
      BY <3>2, RetryDelayOverKeepsSession
    <3>3. CASE Continue(h)
      BY <3>3, ContinueKeepsSession
    <3>4. CASE EndCompaction(h)
      BY <3>4, CompactionDoneKeeps, CompactionFailsKeeps DEF EndCompaction
    <3> QED
      BY <2>2, <3>1, <3>2, <3>3, <3>4 DEF HandlerStep
  <2>3. CASE CommandStep
    BY <2>3, BeginSummaryKeepsSession, EndSummaryKeepsSession, OpenSessionKeepsSession DEF CommandStep
  <2>4. CASE AnswerStep
    BY <2>4, AnswerKeepsSession DEF AnswerStep
  <2>5. CASE Abort \/ AbortRetry
    BY <2>5, AbortKeepsSession
  <2>6. CASE AbortCompaction
    BY <2>6, AbortCompactionKeepsSession
  <2>7. CASE RecordBash
    BY <2>7, RecordBashKeepsSession
  <2>8. CASE Compact
    BY <2>8, CompactKeepsSession
  <2>9. ASSUME NEW s \in Sessions, Switch(s) PROVE SessionInv' /\ InSyncKept
    BY <2>9, SwitchKeepsSession
  <2> QED
    BY <1>1, <2>1, <2>2, <2>3, <2>4, <2>5, <2>6, <2>7, <2>8, <2>9 DEF Next
<1>2. CASE UNCHANGED vars
  <2>1. /\ UNCHANGED <<messages, streaming, signalled, sessionFile, entries, connected,
                       lastAssistantMessage, retryAttempt, retryPromise, retryController,
                       autoController, cancelled, pendingBash, task, answers, commands>>
    BY <1>2 DEF vars, agent, store, retry, compaction
  <2>2. SessionInv'
    BY <2>1 DEF SessionInv, WaitsForAttempt, TypeOK, StagesOK, Connects, EntriesCut, TasksCut,
       AnswersFirst, Is, Kept
  <2>3. InSyncKept
    BY <2>1, SyncSame DEF InSyncKept, store
  <2> QED
    BY <2>2, <2>3
<1> QED
  BY <1>1, <1>2

\* Nobody waits for a retry in vain, and retryAttempt never exceeds the budget:
\* a pending promise belongs to an attempt, and prompt() waits only for a promise
\* which the session still holds (agent-session.ts, waitForRetry and _resolveRetry).
THEOREM NobodyWaitsInVain == Spec => []WaitsForAttempt
<1>1. SessionInv => WaitsForAttempt
  BY DEF SessionInv
<1>2. SessionInv /\ [Next]_vars => SessionInv'
  BY SessionStep
<1> QED
  BY <1>1, <1>2, InitIsSession, PTL DEF Spec

\* While the session listens to the agent, no step lets the agent's context and the
\* open session diverge (agent-session.ts: message_end, retries, compactions, bash).
THEOREM SessionStaysInSync == Spec => SyncKept
<1>1. SessionInv /\ [Next]_vars => SessionInv'
  BY SessionStep
<1>2. SessionInv /\ [Next]_vars => [connected /\ connected' /\ InSync => InSync']_vars
  <2> SUFFICES ASSUME SessionInv, [Next]_vars
               PROVE  connected /\ connected' /\ InSync => InSync'
    OBVIOUS
  <2> QED
    BY SessionStep DEF InSyncKept
<1> QED
  BY <1>1, <1>2, InitIsSession, PTL DEF Spec, SyncKept

-------------------------------------------------------------------------------
(* The interactive mode.  Its inductive invariant.                            *)

\* compact() and switchSession() hear nothing of the agent, and a controller of
\* a retry is that of one which sleeps.
Fields ==
    /\ connected = (task[Command].at \notin {"stopping", "summarising", "switching"})
    /\ streaming \in BOOLEAN /\ retryAttempt \in Nat
    /\ retryController \in {Nobody} \cup {h \in Handlers : Is(h, "sleeping")}

ListensOrNot == Fields /\ loading \in BOOLEAN /\ (loading => connected)

\* The handler of a run's end comes before everything else.
EndsFirst ==
    \A h \in Handlers : Is(h, "emitted") =>
        /\ connected /\ ~streaming /\ flushing = NoFlush
        /\ \A t \in Tasks \ {h} : task[t].at \notin {"emitted", "checking", "sending"}

\* What Escape calls, and what it will call again.
Calls == {"none", "main", "abortRetry", "abortCompaction"}
Saved == [now : Calls, retry : Calls, auto : Calls, manual : Calls]

EscapeShape ==
    /\ escape \in Saved
    /\ \/ escape.now = "main" /\ escape.retry = "none" /\ escape.auto = "none" /\ escape.manual = "none"
       \/ escape.now = "abortRetry" /\ escape.retry = "main" /\ escape.auto = "none" /\ escape.manual = "none"
       \/ escape.now = "abortCompaction" /\ escape.retry = "none" /\ escape.auto = "main" /\ escape.manual = "none"
       \/ escape.now = "abortCompaction" /\ escape.retry = "none" /\ escape.auto = "none" /\ escape.manual = "main"

Sleepers ==
    \A h \in Handlers : Is(h, "sleeping") =>
        /\ connected /\ ~streaming /\ retryController = h /\ retryAttempt > 0
        /\ escape.retry = "main" /\ \A g \in Handlers : ~Is(g, "emitted")

Compactions ==
    /\ escape.auto = "main" <=> \E t \in Tasks : Is(t, "compacting")
    /\ \A t \in Tasks : Is(t, "compacting") =>
          /\ autoController = t
          /\ \A u \in Tasks \ {t} : task[u].at \notin {"compacting", "checking", "sending"}
    /\ escape.manual = "main" <=> task[Command].at \in {"stopping", "summarising"}

Checks ==
    /\ \A c, d \in Callers : Is(c, "checking") /\ Is(d, "checking") => c = d
    /\ task[Command].at \in {"stopping", "summarising"} \/ flushing # NoFlush
         => \A c \in Callers : ~Is(c, "checking")
    /\ flushing # NoFlush => escape.auto = "none" /\ escape.manual = "none"

Apart ==
    /\ EscapeShape /\ Sleepers /\ Compactions /\ Checks
    /\ streaming /\ loading => escape.now = "main"

ModeInv ==
    /\ StagesOK /\ ListensOrNot /\ EndsFirst /\ overlapped \in BOOLEAN
    /\ ~overlapped => Apart

-------------------------------------------------------------------------------
(* Constants, and the handlers of Escape.                                     *)

LEMMA KindsOfTasks ==
    /\ Callers \subseteq Tasks /\ Handlers \subseteq Tasks /\ Command \in Tasks
    /\ Tasks = Callers \cup Handlers \cup {Command}
    /\ Callers \cap Handlers = {} /\ Command \notin Callers \cup Handlers
    /\ Nobody \notin Callers \cup Handlers /\ Nobody # Command
    /\ Main \in Callers
BY SessionAssumption, InteractiveAssumption DEF Tasks, Command, Nobody

LEMMA ReplaceIs ==
    ASSUME NEW e \in Saved, NEW h \in Calls
    PROVE  /\ LET f == Replace(e, "retry", h)
              IN  f \in Saved /\ f.now = h /\ f.retry = e.now /\ f.auto = e.auto /\ f.manual = e.manual
           /\ LET f == Replace(e, "auto", h)
              IN  f \in Saved /\ f.now = h /\ f.retry = e.retry /\ f.auto = e.now /\ f.manual = e.manual
           /\ LET f == Replace(e, "manual", h)
              IN  f \in Saved /\ f.now = h /\ f.retry = e.retry /\ f.auto = e.auto /\ f.manual = e.now
BY DEF Saved, Replace

LEMMA PutBackIs ==
    ASSUME NEW e \in Saved
    PROVE  /\ e.retry = "none" => PutBack(e, "retry") = e
           /\ e.auto = "none" => PutBack(e, "auto") = e
           /\ e.manual = "none" => PutBack(e, "manual") = e
           /\ e.retry # "none" => LET f == PutBack(e, "retry")
                                  IN  f \in Saved /\ f.now = e.retry /\ f.retry = "none" /\ f.auto = e.auto /\ f.manual = e.manual
           /\ e.auto # "none" => LET f == PutBack(e, "auto")
                                 IN  f \in Saved /\ f.now = e.auto /\ f.retry = e.retry /\ f.auto = "none" /\ f.manual = e.manual
           /\ e.manual # "none" => LET f == PutBack(e, "manual")
                                   IN  f \in Saved /\ f.now = e.manual /\ f.retry = e.retry /\ f.auto = e.auto /\ f.manual = "none"
<1>1. e["retry"] = e.retry /\ e["auto"] = e.auto /\ e["manual"] = e.manual
  OBVIOUS
<1>2. "none" \in Calls /\ e.retry \in Calls /\ e.auto \in Calls /\ e.manual \in Calls
  BY DEF Calls, Saved
<1>3. /\ e.retry = "none" => PutBack(e, "retry") = e
      /\ e.auto = "none" => PutBack(e, "auto") = e
      /\ e.manual = "none" => PutBack(e, "manual") = e
  BY <1>1 DEF PutBack
<1>4. ASSUME e.retry # "none"
      PROVE  LET f == PutBack(e, "retry")
             IN  f \in Saved /\ f.now = e.retry /\ f.retry = "none" /\ f.auto = e.auto /\ f.manual = e.manual
  <2>1. PutBack(e, "retry") = [e EXCEPT !.now = e.retry, !.retry = "none"]
    BY <1>1, <1>4 DEF PutBack
  <2> QED
    BY <1>2, <2>1 DEF Saved
<1>5. ASSUME e.auto # "none"
      PROVE  LET f == PutBack(e, "auto")
             IN  f \in Saved /\ f.now = e.auto /\ f.retry = e.retry /\ f.auto = "none" /\ f.manual = e.manual
  <2>1. PutBack(e, "auto") = [e EXCEPT !.now = e.auto, !.auto = "none"]
    BY <1>1, <1>5 DEF PutBack
  <2> QED
    BY <1>2, <2>1 DEF Saved
<1>6. ASSUME e.manual # "none"
      PROVE  LET f == PutBack(e, "manual")
             IN  f \in Saved /\ f.now = e.manual /\ f.retry = e.retry /\ f.auto = e.auto /\ f.manual = "none"
  <2>1. PutBack(e, "manual") = [e EXCEPT !.now = e.manual, !.manual = "none"]
    BY <1>1, <1>6 DEF PutBack
  <2> QED
    BY <1>2, <2>1 DEF Saved
<1> QED
  BY <1>3, <1>4, <1>5, <1>6

LEMMA OneWork ==
    ASSUME NEW S \in SUBSET {"run", "retry", "compaction"}, ~(Cardinality(S) > 1)
    PROVE  \A a, b \in S : a = b
<1> SUFFICES ASSUME NEW a \in S, NEW b \in S, a # b PROVE FALSE
  OBVIOUS
<1>1. IsFiniteSet({"run", "retry", "compaction"})
  <2>1. IsFiniteSet({"run"}) /\ IsFiniteSet({"retry"}) /\ IsFiniteSet({"compaction"})
    BY FS_Singleton
  <2>2. IsFiniteSet({"run"} \cup {"retry"})
    BY <2>1, FS_Union
  <2>3. IsFiniteSet(({"run"} \cup {"retry"}) \cup {"compaction"})
    BY <2>1, <2>2, FS_Union
  <2>4. ({"run"} \cup {"retry"}) \cup {"compaction"} = {"run", "retry", "compaction"}
    OBVIOUS
  <2> QED
    BY <2>3, <2>4
<1>2. IsFiniteSet(S)
  BY <1>1, FS_Subset
<1>3. IsFiniteSet(S \ {a}) /\ Cardinality(S \ {a}) = Cardinality(S) - 1 /\ Cardinality(S) \in Nat
  BY <1>2, FS_RemoveElement, FS_CardinalityType
<1>4. Cardinality(S \ {a}) # 0
  BY <1>3, FS_EmptySet
<1>5. Cardinality(S \ {a}) \in Nat
  BY <1>3, FS_CardinalityType
<1> QED
  BY <1>3, <1>4, <1>5

LEMMA HearKeeps ==
    ASSUME Hear, overlapped \in BOOLEAN, loading \in BOOLEAN, streaming \in BOOLEAN,
           streaming' \in BOOLEAN
    PROVE  /\ overlapped' \in BOOLEAN /\ loading' \in BOOLEAN
           /\ loading' => AgentStarts \/ (loading /\ ~AgentEnds /\ ~ExecuteCompaction
                                            /\ ~Enters(Command, "switching"))
           /\ ~overlapped' => /\ ~overlapped
                              /\ ~(streaming' /\ loading' /\ \E t \in Tasks : task'[t].at = "sleeping")
                              /\ ~(streaming' /\ loading' /\ \E t \in Tasks : task'[t].at \in {"compacting", "summarising"})
                              /\ ~((\E t \in Tasks : task'[t].at = "sleeping")
                                     /\ \E t \in Tasks : task'[t].at \in {"compacting", "summarising"})
                              /\ \A place \in {"retry", "auto", "manual"} : escape'[place] \in {"none", "main"}
<1>1. overlapped' \in BOOLEAN /\ loading' \in BOOLEAN
  BY DEF Hear
<1>2. loading' => AgentStarts \/ (loading /\ ~AgentEnds /\ ~ExecuteCompaction
                                    /\ ~Enters(Command, "switching"))
  BY DEF Hear
<1>3. ASSUME ~overlapped'
      PROVE  /\ ~overlapped /\ ~(Cardinality(Works') > 1)
             /\ \A place \in {"retry", "auto", "manual"} : escape'[place] \in {"none", "main"}
  BY <1>3 DEF Hear
<1>4. Works' \in SUBSET {"run", "retry", "compaction"}
  BY DEF Works
<1>5. /\ streaming' /\ loading' => "run" \in Works'
      /\ (\E t \in Tasks : task'[t].at = "sleeping") => "retry" \in Works'
      /\ (\E t \in Tasks : task'[t].at \in {"compacting", "summarising"}) => "compaction" \in Works'
  BY DEF Works, Busy
<1>6. ASSUME ~overlapped'
      PROVE  \A a, b \in Works' : a = b
  BY <1>3, <1>4, <1>6, OneWork
<1>7. "run" # "retry" /\ "run" # "compaction" /\ "retry" # "compaction"
  OBVIOUS
<1> QED
  BY <1>1, <1>2, <1>3, <1>5, <1>6, <1>7

-------------------------------------------------------------------------------
(* The handlers after each event.                                             *)

HeardCompaction == CompactionStarts \/ CompactionOver
HeardCommand == ExecuteCompaction \/ Executed
SavedApart == \A place \in {"retry", "auto", "manual"} : escape'[place] \in {"none", "main"}

LEMMA ShapeSaved ==
    ASSUME EscapeShape
    PROVE  escape \in Saved /\ \A h \in {"abortRetry", "abortCompaction"} : h \in Calls
BY DEF EscapeShape, Calls

LEMMA HearRetry ==
    ASSUME Hear, EscapeShape, ~HeardCompaction, ~HeardCommand, ~RetryStarts
    PROVE  /\ EscapeShape' /\ escape'.auto = escape.auto /\ escape'.manual = escape.manual
           /\ RetryOver \/ AgentStarts => escape'.retry = "none"
           /\ ~RetryOver /\ ~AgentStarts => escape' = escape
<1> DEFINE e == IF RetryOver THEN PutBack(escape, "retry") ELSE escape
<1>1. escape' = IF AgentStarts THEN PutBack(e, "retry") ELSE e
  BY DEF Hear, HearStart, HeardCompaction, HeardCommand
<1>2. /\ escape.retry = "none" => PutBack(escape, "retry") = escape
      /\ escape.retry # "none" => LET f == PutBack(escape, "retry")
                                  IN  f \in Saved /\ f.now = escape.retry /\ f.retry = "none"
                                        /\ f.auto = escape.auto /\ f.manual = escape.manual
  BY ShapeSaved, PutBackIs
<1>3. e \in Saved /\ (RetryOver => e.retry = "none") /\ (~RetryOver => e = escape)
  BY <1>2, ShapeSaved
<1>4. e = escape \/ e = PutBack(escape, "retry")
  OBVIOUS
<1> HIDE DEF e
<1>5. /\ e.retry = "none" => PutBack(e, "retry") = e
      /\ e.retry # "none" => LET f == PutBack(e, "retry")
                             IN  f \in Saved /\ f.now = e.retry /\ f.retry = "none"
                                   /\ f.auto = e.auto /\ f.manual = e.manual
  BY <1>3, PutBackIs
<1>6. escape' = escape \/ escape' = PutBack(escape, "retry")
  <2>1. CASE RetryOver
    BY <1>1, <1>3, <1>4, <1>5, <2>1
  <2>2. CASE ~RetryOver
    BY <1>1, <1>3, <2>2
  <2> QED
    BY <2>1, <2>2
<1>7. /\ RetryOver \/ AgentStarts => escape'.retry = "none"
      /\ ~RetryOver /\ ~AgentStarts => escape' = escape
  BY <1>1, <1>3, <1>5
<1>8. EscapeShape' /\ escape'.auto = escape.auto /\ escape'.manual = escape.manual
  BY <1>2, <1>6 DEF EscapeShape
<1> QED
  BY <1>7, <1>8

LEMMA HearCompactionStart ==
    ASSUME Hear, EscapeShape, SavedApart,
           CompactionStarts, ~CompactionOver, ~HeardCommand, ~RetryStarts, ~RetryOver, ~AgentStarts
    PROVE  EscapeShape' /\ escape.now = "main" /\ escape'.auto = "main"
<1>1. escape' = Replace(escape, "auto", "abortCompaction")
  BY DEF Hear, HearStart, HeardCommand
<1>2. /\ escape' \in Saved /\ escape'.now = "abortCompaction" /\ escape'.retry = escape.retry
      /\ escape'.auto = escape.now /\ escape'.manual = escape.manual
  BY <1>1, ShapeSaved, ReplaceIs
<1>3. escape'.auto \in {"none", "main"}
  BY <1>2 DEF SavedApart, Saved
<1> QED
  BY <1>2, <1>3 DEF EscapeShape

LEMMA HearCompactionEnd ==
    ASSUME Hear, EscapeShape,
           CompactionOver, ~CompactionStarts, ~HeardCommand, ~RetryStarts, ~RetryOver, ~AgentStarts
    PROVE  /\ EscapeShape' /\ escape'.auto = "none"
           /\ escape'.retry = escape.retry /\ escape'.manual = escape.manual
<1>1. escape' = PutBack(escape, "auto")
  BY DEF Hear, HearStart, HeardCommand
<1>2. /\ escape.auto = "none" => escape' = escape
      /\ escape.auto # "none" => /\ escape' \in Saved /\ escape'.now = escape.auto
                                 /\ escape'.retry = escape.retry /\ escape'.auto = "none"
                                 /\ escape'.manual = escape.manual
  BY <1>1, ShapeSaved, PutBackIs
<1> QED
  BY <1>2 DEF EscapeShape

LEMMA HearRetryStart ==
    ASSUME Hear, EscapeShape, SavedApart,
           RetryStarts, ~HeardCompaction, ~HeardCommand, ~RetryOver, ~AgentStarts
    PROVE  EscapeShape' /\ escape.now = "main" /\ escape'.retry = "main"
<1>1. escape' = Replace(escape, "retry", "abortRetry")
  BY DEF Hear, HearStart, HeardCommand, HeardCompaction
<1>2. /\ escape' \in Saved /\ escape'.now = "abortRetry" /\ escape'.retry = escape.now
      /\ escape'.auto = escape.auto /\ escape'.manual = escape.manual
  BY <1>1, ShapeSaved, ReplaceIs
<1>3. escape'.retry \in {"none", "main"}
  BY <1>2 DEF SavedApart, Saved
<1> QED
  BY <1>2, <1>3 DEF EscapeShape

LEMMA HearCompact ==
    ASSUME Hear, EscapeShape, SavedApart,
           ExecuteCompaction, ~Executed, ~HeardCompaction, ~RetryStarts, ~AgentStarts
    PROVE  EscapeShape' /\ escape.now = "main" /\ escape'.manual = "main"
<1> DEFINE e == Replace(escape, "manual", "abortCompaction")
<1>1. escape' = IF RetryOver THEN PutBack(e, "retry") ELSE e
  BY DEF Hear, HearStart, HeardCompaction
<1>2. /\ e \in Saved /\ e.now = "abortCompaction" /\ e.retry = escape.retry
      /\ e.auto = escape.auto /\ e.manual = escape.now
  BY ShapeSaved, ReplaceIs
<1> HIDE DEF e
<1>3. /\ e.retry = "none" => PutBack(e, "retry") = e
      /\ e.retry # "none" => PutBack(e, "retry") \in Saved /\ PutBack(e, "retry").manual = e.manual
  BY <1>2, PutBackIs
<1>4. escape' \in Saved /\ escape'.manual = escape.now
  BY <1>1, <1>2, <1>3
<1>5. escape'.manual \in {"none", "main"}
  BY <1>4 DEF SavedApart, Saved
<1>6. escape.now = "main" /\ escape.retry = "none"
  BY <1>4, <1>5 DEF EscapeShape
<1>7. escape' = e
  BY <1>1, <1>2, <1>3, <1>6
<1> QED
  BY <1>2, <1>6, <1>7 DEF EscapeShape

LEMMA HearExecuted ==
    ASSUME Hear, EscapeShape,
           Executed, ~ExecuteCompaction, ~HeardCompaction, ~RetryStarts, ~RetryOver, ~AgentStarts
    PROVE  /\ EscapeShape' /\ escape'.manual = "none"
           /\ escape'.retry = escape.retry /\ escape'.auto = escape.auto
<1>1. escape' = PutBack(escape, "manual")
  BY DEF Hear, HearStart, HeardCompaction
<1>2. /\ escape.manual = "none" => escape' = escape
      /\ escape.manual # "none" => /\ escape' \in Saved /\ escape'.now = escape.manual
                                   /\ escape'.retry = escape.retry /\ escape'.manual = "none"
                                   /\ escape'.auto = escape.auto
  BY <1>1, ShapeSaved, PutBackIs
<1> QED
  BY <1>2 DEF EscapeShape

-------------------------------------------------------------------------------
(* What a step does to the tasks.                                             *)

\* Callers may be let go from one wait to another, and a sleeping retry be aborted.
Alike(u) ==
    \/ task'[u].at = task[u].at
    \/ /\ u \in Callers /\ task[u].at \in {"running", "returning", "retrying"}
       /\ task'[u].at \in {"free", "returning", "retrying"}
    \/ u = retryController /\ retryController' = Nobody /\ task'[u].at = "free"

Goes(t, stage) ==
    /\ t \in Tasks /\ DOMAIN task' = Tasks
    /\ task'[t].at = stage
    /\ \A u \in Tasks \ {t} : Alike(u)

Stay == DOMAIN task' = Tasks /\ \A u \in Tasks : Alike(u)

LEMMA AtIs ==
    /\ Free.at = "free"
    /\ \A stage : At(stage).at = stage
    /\ \A stage, willRetry : Preparation(stage, willRetry).at = stage
    /\ \A stage, s : [At(stage) EXCEPT !.of = s].at = stage
BY DEF Free, At, Preparation

LEMMA ReleasedIs ==
    ASSUME NEW tasks
    PROVE  /\ DOMAIN Released(tasks) = Tasks
           /\ \A t \in Tasks : Released(tasks)[t].at = IF tasks[t].at = "retrying" THEN "free" ELSE tasks[t].at
BY AtIs DEF Released

LEMMA AbortedIs ==
    ASSUME StagesOK, ListensOrNot
    PROVE  /\ DOMAIN AbortedRetry = Tasks
           /\ \A t \in Tasks : AbortedRetry[t].at =
                 IF t = retryController \/ task[t].at = "retrying" THEN "free" ELSE task[t].at
<1> DEFINE aborted == [t \in Tasks |-> IF t = retryController THEN Free ELSE task[t]]
<1>1. \A t \in Tasks : aborted[t].at = IF t = retryController THEN "free" ELSE task[t].at
  BY AtIs
<1>2. AbortedRetry = Released(aborted)
  BY DEF AbortedRetry
<1> HIDE DEF aborted
<1> QED
  BY <1>1, <1>2, ReleasedIs

\* Only callers wait for a retry.
LEMMA OnlyCallersWait ==
    ASSUME StagesOK, NEW t \in Tasks, task[t].at \in {"retrying", "running"}
    PROVE  t \in Callers
BY KindsOfTasks DEF StagesOK, HandlerStages, CommandStages

LEMMA StagesGo ==
    ASSUME StagesOK, ListensOrNot, NEW t, NEW stage, Goes(t, stage),
           t \in Callers => stage \in CallerStages,
           t \in Handlers => stage \in HandlerStages,
           t = Command => stage \in CommandStages
    PROVE  StagesOK'
BY KindsOfTasks DEF StagesOK, Goes, Alike, ListensOrNot, Fields, CallerStages, HandlerStages, CommandStages

LEMMA StagesStay ==
    ASSUME StagesOK, ListensOrNot, Stay
    PROVE  StagesOK'
BY KindsOfTasks DEF StagesOK, Stay, Alike, ListensOrNot, Fields, CallerStages, HandlerStages, CommandStages

LEMMA EventsOfGoing ==
    ASSUME StagesOK, ListensOrNot, NEW t, NEW stage, Goes(t, stage)
    PROVE  /\ RetryStarts <=> t \in Handlers /\ task[t].at # "sleeping" /\ stage = "sleeping"
           /\ CompactionStarts <=> task[t].at # "compacting" /\ stage = "compacting"
           /\ CompactionOver <=> \/ task[t].at = "compacting" /\ stage # "compacting"
                                 \/ task[t].at = "checking" /\ stage = "sending"
           /\ ExecuteCompaction <=> t = Command /\ task[t].at # "stopping" /\ stage = "stopping"
           /\ Executed <=> t = Command /\ \/ task[t].at = "summarising" /\ stage # "summarising"
                                          \/ task[t].at = "stopping" /\ stage = "free"
           /\ Enters(Command, "switching") <=> t = Command /\ task[t].at # "switching" /\ stage = "switching"
<1>1. t \in Tasks /\ task'[t].at = stage
  BY DEF Goes
<1>2. \A u \in Tasks \ {t} : \A s \in {"compacting", "stopping", "summarising", "switching", "checking", "sending"} :
          task'[u].at = s <=> task[u].at = s
  BY KindsOfTasks DEF Goes, Alike, ListensOrNot, Fields, Is
<1>3. \A u \in Tasks \ {t} : task'[u].at = "sleeping" => task[u].at = "sleeping"
  BY DEF Goes, Alike
<1>4. \A u \in Tasks \ {t} : u = Command => task'[u].at = task[u].at
  BY KindsOfTasks DEF Goes, Alike, ListensOrNot, Fields
<1>5. RetryStarts <=> t \in Handlers /\ task[t].at # "sleeping" /\ stage = "sleeping"
  BY <1>1, <1>3, KindsOfTasks DEF RetryStarts, Enters
<1>6. CompactionStarts <=> task[t].at # "compacting" /\ stage = "compacting"
  BY <1>1, <1>2 DEF CompactionStarts, Enters
<1>7. CompactionOver <=> \/ task[t].at = "compacting" /\ stage # "compacting"
                         \/ task[t].at = "checking" /\ stage = "sending"
  BY <1>1, <1>2 DEF CompactionOver, Leaves, Is
<1> QED
  BY <1>1, <1>4, <1>5, <1>6, <1>7, KindsOfTasks DEF ExecuteCompaction, Executed, Enters, Leaves, Is

LEMMA EventsOfStaying ==
    ASSUME StagesOK, ListensOrNot, Stay
    PROVE  ~RetryStarts /\ ~HeardCompaction /\ ~HeardCommand /\ ~Enters(Command, "switching")
<1>1. \A u \in Tasks : \A s \in {"compacting", "stopping", "summarising", "switching", "checking", "sending"} :
          task'[u].at = s <=> task[u].at = s
  BY KindsOfTasks DEF Stay, Alike, ListensOrNot, Fields, Is
<1>2. \A u \in Tasks : task'[u].at = "sleeping" => task[u].at = "sleeping"
  BY DEF Stay, Alike
<1>3. task'[Command].at = task[Command].at
  BY KindsOfTasks DEF Stay, Alike, ListensOrNot, Fields
<1> QED
  BY <1>1, <1>2, <1>3, KindsOfTasks DEF RetryStarts, HeardCompaction, HeardCommand, CompactionStarts,
     CompactionOver, ExecuteCompaction, Executed, Enters, Leaves, Is

\* The handler of a run's end is the only step that may go on when there is one.
LEMMA NoneEnds ==
    ASSUME StagesOK, ListensOrNot, NEW t, NEW stage, Goes(t, stage),
           stage # "emitted", \A h \in Handlers \ {t} : ~Is(h, "emitted")
    PROVE  EndsFirst'
<1>1. \A h \in Handlers : task'[h].at # "emitted"
  BY KindsOfTasks DEF Goes, Alike, Is
<1> QED
  BY <1>1 DEF EndsFirst, Is

LEMMA CommandStill ==
    ASSUME ListensOrNot, NEW t, NEW stage, Stay \/ (Goes(t, stage) /\ t # Command)
    PROVE  task'[Command].at = task[Command].at
BY KindsOfTasks DEF Goes, Stay, Alike, ListensOrNot, Fields

LEMMA FollowKeeps ==
    ASSUME Follow, flushing = NoFlush
    PROVE  flushing' = flushing \/ CompactionOver \/ Executed
BY DEF Follow

-------------------------------------------------------------------------------
(* Steps that start nothing, steps that start a run.                          *)

\* A task starts nothing that Escape is about.
Fades(u) ==
    /\ task'[u].at = "compacting" <=> task[u].at = "compacting"
    /\ task'[u].at \in {"stopping", "summarising"} <=> task[u].at \in {"stopping", "summarising"}
    /\ task'[u].at \in {"checking", "sending", "sleeping"} => task'[u].at = task[u].at

LEMMA AllFade ==
    ASSUME ListensOrNot, NEW t, NEW stage, Stay \/ (Goes(t, stage) /\ Fades(t))
    PROVE  \A u \in Tasks : Fades(u)
<1>1. \A u \in Tasks : Alike(u) => Fades(u)
  BY KindsOfTasks DEF Alike, Fades, ListensOrNot, Fields, Is
<1> QED
  BY <1>1 DEF Stay, Goes

LEMMA ApartRests ==
    ASSUME Apart, StagesOK', \A u \in Tasks : Fades(u),
           EscapeShape', escape'.auto = escape.auto, escape'.manual = escape.manual,
           escape' = escape \/ escape'.retry = "none",
           \A h \in Handlers : task'[h].at = "sleeping" =>
               /\ connected' /\ ~streaming' /\ retryController' = retryController
               /\ retryAttempt' > 0 /\ escape' = escape
               /\ \A g \in Handlers : task'[g].at # "emitted",
           autoController' = autoController \/ \A t \in Tasks : ~Is(t, "compacting"),
           flushing' = flushing,
           streaming' /\ loading' => streaming /\ loading
    PROVE  Apart'
<1>1. Sleepers'
  <2> SUFFICES ASSUME NEW h \in Handlers, task'[h].at = "sleeping"
               PROVE  /\ connected' /\ ~streaming' /\ retryController' = h
                      /\ retryAttempt' > 0 /\ escape'.retry = "main"
                      /\ \A g \in Handlers : task'[g].at # "emitted"
    BY DEF Sleepers, Is
  <2>1. Is(h, "sleeping")
    BY KindsOfTasks DEF Fades, Is
  <2> QED
    BY <2>1 DEF Apart, Sleepers
<1>2. Compactions'
  <2>1. escape'.auto = "main" <=> \E t \in Tasks : task'[t].at = "compacting"
    BY DEF Apart, Compactions, Fades, Is
  <2>2. escape'.manual = "main" <=> task'[Command].at \in {"stopping", "summarising"}
    BY KindsOfTasks DEF Apart, Compactions, Fades
  <2>3. ASSUME NEW t \in Tasks, task'[t].at = "compacting"
        PROVE  /\ autoController' = t
               /\ \A u \in Tasks \ {t} : task'[u].at \notin {"compacting", "checking", "sending"}
    <3>1. Is(t, "compacting")
      BY <2>3 DEF Fades, Is
    <3> QED
      BY <3>1 DEF Apart, Compactions, Fades, Is
  <2> QED
    BY <2>1, <2>2, <2>3 DEF Compactions, Is
<1>3. Checks'
  <2>1. \A c \in Callers : task'[c].at = "checking" => Is(c, "checking")
    BY KindsOfTasks DEF Fades, Is
  <2>2. task'[Command].at \in {"stopping", "summarising"} => task[Command].at \in {"stopping", "summarising"}
    BY KindsOfTasks DEF Fades
  <2> QED
    BY <2>1, <2>2 DEF Apart, Checks, Is
<1>4. streaming' /\ loading' => escape'.now = "main"
  <2> SUFFICES ASSUME streaming', loading' PROVE escape'.now = "main"
    OBVIOUS
  <2>1. escape.now = "main"
    BY DEF Apart
  <2> QED
    BY <2>1 DEF Apart, EscapeShape
<1> QED
  BY <1>1, <1>2, <1>3, <1>4 DEF Apart

\* What a step that the mode hears leaves to be shown.
LEMMA HeardStep ==
    ASSUME ModeInv, Hear, StagesOK', Fields', EndsFirst',
           connected => connected' \/ (~AgentStarts /\ (ExecuteCompaction \/ Enters(Command, "switching"))),
           ~overlapped /\ ~overlapped' /\ ListensOrNot' => Apart'
    PROVE  ModeInv'
<1>1. overlapped \in BOOLEAN /\ loading \in BOOLEAN /\ streaming \in BOOLEAN /\ streaming' \in BOOLEAN
  BY DEF ModeInv, ListensOrNot, Fields
<1>2. /\ overlapped' \in BOOLEAN /\ loading' \in BOOLEAN
      /\ loading' => AgentStarts \/ (loading /\ ~ExecuteCompaction /\ ~Enters(Command, "switching"))
      /\ ~overlapped' => ~overlapped
  BY <1>1, HearKeeps
<1>3. loading' => connected'
  BY <1>2 DEF ModeInv, ListensOrNot, AgentStarts
<1>4. ListensOrNot'
  BY <1>2, <1>3 DEF ListensOrNot
<1> QED
  BY <1>2, <1>4 DEF ModeInv

LEMMA PlainKeeps ==
    ASSUME ModeInv, flushing = NoFlush, Hear, Follow, StagesOK', Fields', EndsFirst',
           connected => connected' \/ Enters(Command, "switching"),
           \A u \in Tasks : Fades(u),
           ~HeardCompaction, ~HeardCommand, ~RetryStarts, streaming' => streaming,
           Apart => \A h \in Handlers : task'[h].at = "sleeping" =>
                        /\ connected' /\ ~streaming' /\ retryController' = retryController
                        /\ retryAttempt' = retryAttempt
                        /\ \A g \in Handlers : task'[g].at # "emitted",
           autoController' = autoController \/ (Apart => \A t \in Tasks : ~Is(t, "compacting"))
    PROVE  ModeInv'
<1>1. ~AgentStarts
  BY DEF AgentStarts
<1>2. ASSUME ~overlapped, ~overlapped', ListensOrNot' PROVE Apart'
  <2>1. Apart /\ EscapeShape
    BY <1>2 DEF ModeInv, Apart
  <2>2. /\ EscapeShape' /\ escape'.auto = escape.auto /\ escape'.manual = escape.manual
        /\ RetryOver => escape'.retry = "none"
        /\ ~RetryOver => escape' = escape
    BY <1>1, <2>1, HearRetry
  <2>3. \A h \in Handlers : task'[h].at = "sleeping" =>
            /\ connected' /\ ~streaming' /\ retryController' = retryController
            /\ retryAttempt' > 0 /\ escape' = escape
            /\ \A g \in Handlers : task'[g].at # "emitted"
    <3> SUFFICES ASSUME NEW h \in Handlers, task'[h].at = "sleeping"
                 PROVE  /\ connected' /\ ~streaming' /\ retryController' = retryController
                        /\ retryAttempt' > 0 /\ escape' = escape
                        /\ \A g \in Handlers : task'[g].at # "emitted"
      OBVIOUS
    <3>1. Is(h, "sleeping")
      BY KindsOfTasks DEF Fades, Is
    <3>2. retryAttempt > 0 /\ retryAttempt' = retryAttempt
      BY <2>1, <3>1 DEF Apart, Sleepers
    <3>3. ~RetryOver
      BY <3>2 DEF RetryOver
    <3> QED
      BY <2>1, <2>2, <3>2, <3>3
  <2>4. flushing' = flushing
    BY FollowKeeps DEF HeardCompaction, HeardCommand
  <2>5. streaming' /\ loading' => streaming /\ loading
    BY <1>1, HearKeeps DEF ModeInv, ListensOrNot, Fields
  <2> QED
    BY <2>1, <2>2, <2>3, <2>4, <2>5, ApartRests
<1> QED
  BY <1>1, <1>2, HeardStep

\* A run starts: heard, unless a command has disconnected the session.
LEMMA RunKeeps ==
    ASSUME ModeInv, flushing = NoFlush, Hear, Follow,
           NEW t \in Callers \cup Handlers, NEW stage \in {"running", "free"}, Goes(t, stage),
           t \in Handlers => stage = "free",
           task[t].at \in {"checking", "sending", "timer", "delayed"},
           \A h \in Handlers : ~Is(h, "emitted"),
           ~streaming, streaming' = TRUE,
           UNCHANGED <<connected, retryAttempt, retryController, autoController>>
    PROVE  ModeInv'
<1>1. StagesOK /\ ListensOrNot /\ t # Command /\ t \in Tasks
  BY KindsOfTasks DEF ModeInv
<1>2. StagesOK'
  BY <1>1, StagesGo, KindsOfTasks DEF CallerStages, HandlerStages
<1>3. ~RetryStarts /\ ~HeardCompaction /\ ~HeardCommand /\ ~Enters(Command, "switching")
  BY <1>1, EventsOfGoing DEF HeardCompaction, HeardCommand
<1>4. task'[Command].at = task[Command].at
  BY <1>1, CommandStill
<1>5. \A h \in Handlers : Is(h, "sleeping") => task'[h].at = "sleeping"
  BY <1>1, KindsOfTasks DEF Goes, Alike, Is, ListensOrNot, Fields
<1>6. Fields'
  BY <1>1, <1>4, <1>5 DEF ListensOrNot, Fields, Is
<1>7. EndsFirst'
  BY <1>1, NoneEnds
<1>8. \A u \in Tasks : Fades(u)
  <2>1. Fades(t)
    BY DEF Goes, Fades
  <2> QED
    BY <1>1, <2>1, AllFade
<1>9. ASSUME ~overlapped, ~overlapped', ListensOrNot' PROVE Apart'
  <2>1. Apart /\ EscapeShape
    BY <1>9 DEF ModeInv, Apart
  <2>2. /\ EscapeShape' /\ escape'.auto = escape.auto /\ escape'.manual = escape.manual
        /\ AgentStarts => escape'.retry = "none"
        /\ ~RetryOver
    BY <1>3, <2>1, HearRetry DEF RetryOver
  <2>3. escape' = escape \/ escape'.retry = "none"
    BY <1>3, <2>1, <2>2, HearRetry
  <2>4. flushing' = flushing
    BY <1>3, FollowKeeps DEF HeardCompaction, HeardCommand
  <2>5. CASE connected
    <3>1. AgentStarts /\ loading'
      BY <1>3, <2>5 DEF AgentStarts, Hear
    <3>2. /\ \A u \in Tasks : task'[u].at # "sleeping"
          /\ \A u \in Tasks : task'[u].at \notin {"compacting", "summarising"}
      BY <1>1, <1>9, <3>1, HearKeeps DEF ModeInv, ListensOrNot, Fields
    <3>3. escape.auto # "main" /\ escape.manual # "main"
      <4>1. \A u \in Tasks : ~Is(u, "compacting")
        BY <1>8, <3>2 DEF Fades, Is
      <4>2. task[Command].at \notin {"stopping", "summarising"}
        BY <1>1, <2>5 DEF ListensOrNot, Fields
      <4> QED
        BY <2>1, <4>1, <4>2 DEF Apart, Compactions
    <3>4. escape'.now = "main"
      BY <2>2, <3>1, <3>3 DEF EscapeShape
    <3>5. Sleepers'
      BY <3>2, KindsOfTasks DEF Sleepers, Is
    <3>6. Compactions'
      <4>1. escape'.auto # "main" /\ \A u \in Tasks : task'[u].at # "compacting"
        BY <2>2, <3>2, <3>3
      <4>2. escape'.manual # "main" /\ task'[Command].at \notin {"stopping", "summarising"}
        BY <1>1, <1>4, <2>2, <2>5, <3>3 DEF ListensOrNot, Fields
      <4> QED
        BY <4>1, <4>2 DEF Compactions, Is
    <3>7. Checks'
      <4>1. \A c \in Callers : task'[c].at = "checking" => Is(c, "checking")
        BY <1>8, KindsOfTasks DEF Fades, Is
      <4> QED
        BY <1>4, <2>1, <2>2, <2>4, <4>1 DEF Apart, Checks, Is
    <3> QED
      BY <2>2, <3>4, <3>5, <3>6, <3>7 DEF Apart
  <2>6. CASE ~connected
    <3>1. ~AgentStarts /\ ~loading'
      BY <1>1, <2>6, HearKeeps DEF AgentStarts, ListensOrNot, Fields, ModeInv
    <3>2. \A h \in Handlers : task'[h].at # "sleeping"
      BY <1>8, <2>1, <2>6, KindsOfTasks DEF Fades, Apart, Sleepers, Is
    <3> QED
      BY <1>2, <1>8, <2>1, <2>2, <2>3, <2>4, <3>1, <3>2, ApartRests
  <2> QED
    BY <1>1, <2>5, <2>6
<1> QED
  BY <1>2, <1>6, <1>7, <1>9, HeardStep DEF ModeInv

-------------------------------------------------------------------------------
(* Steps of the session after which Escape is what it was.                    *)

\* A task moves on, nothing else does that Escape is about.
LEMMA StillKeeps ==
    ASSUME ModeInv, flushing = NoFlush, Hear, Follow,
           NEW t \in Tasks, NEW stage, Goes(t, stage), Fades(t), stage \notin {"stopping", "emitted"},
           t \in Callers => stage \in CallerStages,
           t \in Handlers => stage \in HandlerStages,
           t = Command => stage = "summarising",
           task[t].at # "sleeping", \A h \in Handlers \ {t} : ~Is(h, "emitted"),
           UNCHANGED <<connected, streaming, retryAttempt, retryController>>,
           autoController' = autoController \/ (Apart => \A u \in Tasks : ~Is(u, "compacting"))
    PROVE  ModeInv'
<1>1. StagesOK /\ ListensOrNot
  BY DEF ModeInv
<1>2. StagesOK'
  BY <1>1, StagesGo DEF CommandStages
<1>3. ~RetryStarts /\ ~HeardCompaction /\ ~HeardCommand
  <2>1. task'[t].at = stage /\ (stage = "sleeping" => task[t].at = stage)
    BY DEF Goes, Fades
  <2> QED
    BY <1>1, <2>1, EventsOfGoing DEF Fades, HeardCompaction, HeardCommand
<1>4. \A u \in Tasks : Fades(u)
  BY <1>1, AllFade
<1>5. \A h \in Handlers : Is(h, "sleeping") => task'[h].at = "sleeping"
  BY <1>1, KindsOfTasks DEF Goes, Alike, Is, ListensOrNot, Fields
<1>6. task[Command].at \in {"stopping", "summarising", "switching"}
        <=> task'[Command].at \in {"stopping", "summarising", "switching"}
  <2>1. CASE t = Command
    BY <2>1 DEF Goes, Fades
  <2>2. CASE t # Command
    BY <1>1, <2>2, CommandStill
  <2> QED
    BY <2>1, <2>2
<1>7. Fields'
  BY <1>1, <1>5, <1>6 DEF ListensOrNot, Fields, Is
<1>8. EndsFirst'
  BY <1>1, NoneEnds
<1>9. Apart => \A h \in Handlers : task'[h].at = "sleeping" => connected /\ ~streaming
  BY <1>4, KindsOfTasks DEF Apart, Sleepers, Fades, Is
<1>10. \A g \in Handlers : task'[g].at # "emitted"
  BY KindsOfTasks DEF Goes, Alike, Is
<1> QED
  BY <1>2, <1>3, <1>4, <1>7, <1>8, <1>9, <1>10, PlainKeeps

\* The tasks stay where they are, or are let go.
LEMMA StayKeeps ==
    ASSUME ModeInv, flushing = NoFlush, Hear, Follow, Stay, \A h \in Handlers : ~Is(h, "emitted"),
           UNCHANGED <<connected, autoController>>, streaming' \in BOOLEAN, streaming' => streaming,
           retryAttempt' \in Nat,
           retryController' \in {Nobody} \cup {h \in Handlers : task'[h].at = "sleeping"},
           Apart => \A h \in Handlers : task'[h].at = "sleeping" =>
                        /\ ~streaming' /\ retryController' = retryController
                        /\ retryAttempt' = retryAttempt
    PROVE  ModeInv'
<1>1. StagesOK /\ ListensOrNot
  BY DEF ModeInv
<1>2. StagesOK'
  BY <1>1, StagesStay
<1>3. ~RetryStarts /\ ~HeardCompaction /\ ~HeardCommand
  BY <1>1, EventsOfStaying
<1>4. \A u \in Tasks : Fades(u)
  BY <1>1, AllFade
<1>5. task'[Command].at = task[Command].at
  BY <1>1, CommandStill
<1>6. Fields'
  BY <1>1, <1>5 DEF ListensOrNot, Fields, Is
<1>7. \A g \in Handlers : task'[g].at # "emitted"
  BY KindsOfTasks DEF Stay, Alike, Is
<1>8. EndsFirst'
  BY <1>7 DEF EndsFirst, Is
<1>9. Apart => \A h \in Handlers : task'[h].at = "sleeping" => connected
  BY <1>4, KindsOfTasks DEF Apart, Sleepers, Fades, Is
<1> QED
  BY <1>2, <1>3, <1>4, <1>6, <1>8, <1>9, <1>7, PlainKeeps

LEMMA TasksAre == ModeInv => DOMAIN task = Tasks /\ StagesOK /\ ListensOrNot /\ EndsFirst
BY DEF ModeInv, StagesOK

LEMMA WaitForRetryKeeps ==
    ASSUME ModeInv, NEW c \in Callers, Seen(WaitForRetry(c))
    PROVE  ModeInv'
<1>1. /\ flushing = NoFlush /\ Hear /\ Follow
      /\ Is(c, "returning") /\ \A h \in Handlers : ~Is(h, "emitted")
      /\ task' = [task EXCEPT ![c] = IF retryPromise THEN At("retrying") ELSE Free]
      /\ UNCHANGED <<connected, streaming, retryAttempt, retryController, autoController>>
  BY DEF Seen, WaitForRetry, agent, retry, compaction
<1>2. c \in Tasks /\ c \notin Handlers /\ c # Command
  BY KindsOfTasks
<1>3. PICK stage \in {"retrying", "free"} : Goes(c, stage)
  <2>1. CASE retryPromise
    BY <1>1, <1>2, <2>1, TasksAre, AtIs DEF Goes, Alike
  <2>2. CASE ~retryPromise
    BY <1>1, <1>2, <2>2, TasksAre, AtIs DEF Goes, Alike
  <2> QED
    BY <2>1, <2>2
<1>4. Fades(c) /\ stage \in CallerStages
  BY <1>1, <1>3 DEF Goes, Fades, Is, CallerStages
<1> QED
  BY <1>1, <1>2, <1>3, <1>4, StillKeeps DEF Is

\* A prompt that is rejected, or sent: by the check before it, or later.
LEMMA SentKeeps ==
    ASSUME ModeInv, flushing = NoFlush, Hear, Follow, NEW c \in Callers,
           task[c].at \in {"checking", "sending"}, Run(c) \/ Rejected(c),
           UNCHANGED <<connected, retryAttempt, retryController, autoController>>
    PROVE  ModeInv'
<1>1. c \in Tasks /\ c \notin Handlers /\ c # Command
  BY KindsOfTasks
<1>2. \A h \in Handlers : ~Is(h, "emitted")
  BY <1>1, TasksAre DEF EndsFirst
<1>3. CASE Run(c)
  <2>1. Goes(c, "running")
    BY <1>1, <1>3, TasksAre, AtIs DEF Run, Goes, Alike
  <2> QED
    BY <1>1, <1>2, <1>3, <2>1, RunKeeps DEF Run
<1>4. CASE Rejected(c)
  <2>1. Goes(c, "free")
    BY <1>1, <1>4, TasksAre, AtIs DEF Rejected, Goes, Alike
  <2>2. Fades(c) /\ "free" \in CallerStages
    BY <2>1 DEF Goes, Fades, CallerStages
  <2>3. UNCHANGED streaming
    BY <1>4 DEF Rejected, agent
  <2> QED
    BY <1>1, <1>2, <2>1, <2>2, <2>3, StillKeeps
<1> QED
  BY <1>3, <1>4

LEMMA SendKeeps ==
    ASSUME ModeInv, NEW c \in Callers, Seen(Send(c))
    PROVE  ModeInv'
BY SentKeeps DEF Seen, Send, Is, retry, compaction

LEMMA RetryDelayOverKeeps ==
    ASSUME ModeInv, NEW h \in Handlers, Seen(RetryDelayOver(h))
    PROVE  ModeInv'
<1>1. /\ flushing = NoFlush /\ Hear /\ Follow /\ Turn /\ Is(h, "sleeping")
      /\ task' = [task EXCEPT ![h] = At("timer")] /\ retryController' = Nobody
      /\ UNCHANGED <<connected, streaming, retryAttempt, autoController>>
  BY DEF Seen, RetryDelayOver, agent, compaction
<1>2. h \in Tasks /\ h \notin Callers /\ h # Command
  BY KindsOfTasks
<1>3. Goes(h, "timer") /\ \A u \in Tasks \ {h} : task'[u] = task[u]
  BY <1>1, <1>2, TasksAre, AtIs DEF Goes, Alike
<1>4. StagesOK /\ ListensOrNot
  BY TasksAre
<1>5. StagesOK'
  BY <1>2, <1>3, <1>4, StagesGo DEF HandlerStages
<1>6. ~RetryStarts /\ ~HeardCompaction /\ ~HeardCommand
  BY <1>1, <1>2, <1>3, <1>4, EventsOfGoing DEF HeardCompaction, HeardCommand, Is
<1>7. \A u \in Tasks : Fades(u)
  <2>1. Fades(h)
    BY <1>1, <1>3 DEF Goes, Fades, Is
  <2> QED
    BY <1>3, <1>4, <2>1, AllFade
<1>8. Fields'
  BY <1>1, <1>2, <1>3, <1>4, CommandStill DEF ListensOrNot, Fields
<1>9. EndsFirst'
  BY <1>1, <1>3, <1>4, NoneEnds, KindsOfTasks DEF Turn, Is
<1>10. Apart => \A g \in Handlers : task'[g].at # "sleeping"
  BY <1>1, <1>3, KindsOfTasks DEF Apart, Sleepers, Is, Goes
<1> QED
  BY <1>1, <1>5, <1>6, <1>7, <1>8, <1>9, <1>10, PlainKeeps

LEMMA ContinueKeeps ==
    ASSUME ModeInv, NEW h \in Handlers, Seen(Continue(h))
    PROVE  ModeInv'
<1>1. /\ flushing = NoFlush /\ Hear /\ Follow /\ Turn /\ task[h].at \in {"timer", "delayed"}
      /\ task' = [task EXCEPT ![h] = Free]
      /\ UNCHANGED <<connected, retryAttempt, retryController, autoController>>
      /\ (~streaming /\ streaming' = TRUE) \/ UNCHANGED streaming
  BY DEF Seen, Continue, retry, compaction
<1>2. h \in Tasks /\ h \notin Callers /\ h # Command
  BY KindsOfTasks
<1>3. Goes(h, "free")
  BY <1>1, <1>2, TasksAre, AtIs DEF Goes, Alike
<1>4. \A g \in Handlers : ~Is(g, "emitted")
  BY <1>1, KindsOfTasks DEF Turn, Is
<1>5. CASE ~streaming /\ streaming' = TRUE
  BY <1>1, <1>3, <1>4, <1>5, RunKeeps
<1>6. CASE UNCHANGED streaming
  <2>1. Fades(h) /\ "free" \in HandlerStages
    BY <1>1, <1>3 DEF Goes, Fades, HandlerStages
  <2> QED
    BY <1>1, <1>2, <1>3, <1>4, <1>6, <2>1, StillKeeps
<1> QED
  BY <1>1, <1>5, <1>6

-------------------------------------------------------------------------------
(* Steps that start or end what Escape is about.                              *)

\* A summary is awaited: nothing else went on, or works have overlapped.
LEMMA CompactionStartKeeps ==
    ASSUME ModeInv, flushing = NoFlush, Hear, Follow,
           NEW t \in Callers \cup Handlers, Goes(t, "compacting"), autoController' = t,
           task[t].at \in {"checking", "emitted"},
           \A h \in Handlers \ {t} : ~Is(h, "emitted"),
           \A c \in Callers \ {t} : ~Is(c, "sending"),
           UNCHANGED <<connected, streaming, retryAttempt, retryController>>
    PROVE  ModeInv'
<1>1. StagesOK /\ ListensOrNot /\ t # Command /\ t \in Tasks
  BY KindsOfTasks DEF ModeInv
<1>2. StagesOK'
  BY <1>1, StagesGo, KindsOfTasks DEF CallerStages, HandlerStages
<1>3. CompactionStarts /\ ~RetryStarts /\ ~CompactionOver /\ ~HeardCommand
  BY <1>1, EventsOfGoing DEF HeardCommand
<1>4. task'[Command].at = task[Command].at
  BY <1>1, CommandStill
<1>5. \A h \in Handlers : Is(h, "sleeping") => task'[h].at = "sleeping"
  BY <1>1, KindsOfTasks DEF Goes, Alike, Is, ListensOrNot, Fields
<1>6. Fields'
  BY <1>1, <1>4, <1>5 DEF ListensOrNot, Fields, Is
<1>7. EndsFirst'
  BY <1>1, NoneEnds
<1>8. ~RetryOver /\ ~AgentStarts
  BY DEF RetryOver, AgentStarts
<1>9. ASSUME ~overlapped, ~overlapped', ListensOrNot' PROVE Apart'
  <2>1. Apart /\ EscapeShape /\ SavedApart
    BY <1>1, <1>9, HearKeeps DEF ModeInv, Apart, SavedApart, ListensOrNot, Fields
  <2>2. EscapeShape' /\ escape.now = "main" /\ escape'.auto = "main"
    BY <1>3, <1>8, <2>1, HearCompactionStart
  <2>3. escape.retry = "none" /\ escape.auto = "none" /\ escape.manual = "none"
    BY <2>1, <2>2 DEF EscapeShape
  <2>4. escape'.retry = "none" /\ escape'.manual = "none"
    BY <2>2 DEF EscapeShape
  <2>5. /\ \A h \in Handlers : ~Is(h, "sleeping")
        /\ \A u \in Tasks : ~Is(u, "compacting")
        /\ task[Command].at \notin {"stopping", "summarising"}
    BY <2>1, <2>3 DEF Apart, Sleepers, Compactions
  <2>6. \A u \in Tasks \ {t} : task[u].at \notin {"checking", "sending"}
    <3> SUFFICES ASSUME NEW u \in Tasks \ {t}, task[u].at \in {"checking", "sending"} PROVE FALSE
      OBVIOUS
    <3>1. u \in Callers
      BY <1>1, KindsOfTasks DEF StagesOK, HandlerStages, CommandStages
    <3>2. Is(u, "checking")
      BY <3>1 DEF Is
    <3>3. CASE t \in Handlers
      BY <3>2, <3>3, KindsOfTasks, <1>1 DEF ModeInv, EndsFirst, StagesOK, HandlerStages, Is
    <3>4. CASE t \in Callers
      <4>1. Is(t, "checking")
        BY <1>1, <3>4 DEF StagesOK, CallerStages, Is
      <4> QED
        BY <2>1, <3>1, <3>2, <3>4, <4>1 DEF Apart, Checks
    <3> QED
      BY <3>3, <3>4
  <2>7. \A u \in Tasks \ {t} : task'[u].at \notin {"sleeping", "compacting", "checking", "sending"}
    BY <1>1, <2>5, <2>6, KindsOfTasks DEF Goes, Alike, Is, StagesOK, CallerStages, CommandStages
  <2>8. task'[t].at = "compacting"
    BY DEF Goes
  <2>9. Sleepers'
    BY <2>7, <2>8, KindsOfTasks DEF Sleepers, Is
  <2>10. Compactions'
    BY <1>1, <1>4, <2>2, <2>4, <2>5, <2>7, <2>8 DEF Compactions, Is
  <2>11. flushing' = flushing
    BY <1>3, FollowKeeps DEF HeardCommand
  <2>12. Checks'
    BY <1>4, <2>5, <2>7, <2>8, <2>11, KindsOfTasks DEF Checks, Is
  <2>13. ~(streaming' /\ loading')
    BY <1>1, <1>9, <2>8, HearKeeps DEF ModeInv, ListensOrNot, Fields
  <2> QED
    BY <2>2, <2>9, <2>10, <2>12, <2>13 DEF Apart
<1> QED
  BY <1>2, <1>6, <1>7, <1>9, HeardStep

\* The end of a compaction, or the one of a compaction that had nothing to do.
LEMMA CompactionEndKeeps ==
    ASSUME ModeInv, flushing = NoFlush, Hear, Follow,
           NEW t \in Callers \cup Handlers, NEW stage, Goes(t, stage),
           stage \in {"sending", "delayed", "free"}, t \in Callers => stage = "sending",
           t \in Handlers => stage # "sending",
           \/ Is(t, "compacting")
           \/ t \in Callers /\ Is(t, "checking"),
           \A h \in Handlers : ~Is(h, "emitted"),
           UNCHANGED <<connected, streaming, retryAttempt, retryController>>
    PROVE  ModeInv'
<1>1. StagesOK /\ ListensOrNot /\ t # Command /\ t \in Tasks
  BY KindsOfTasks DEF ModeInv
<1>2. StagesOK'
  BY <1>1, StagesGo, KindsOfTasks DEF CallerStages, HandlerStages
<1>3. CompactionOver /\ ~RetryStarts /\ ~CompactionStarts /\ ~HeardCommand
  BY <1>1, EventsOfGoing DEF HeardCommand, Is
<1>4. task'[Command].at = task[Command].at
  BY <1>1, CommandStill
<1>5. \A h \in Handlers : Is(h, "sleeping") => task'[h].at = "sleeping"
  BY <1>1, KindsOfTasks DEF Goes, Alike, Is, ListensOrNot, Fields
<1>6. Fields'
  BY <1>1, <1>4, <1>5 DEF ListensOrNot, Fields, Is
<1>7. EndsFirst'
  BY <1>1, NoneEnds
<1>8. ~RetryOver /\ ~AgentStarts
  BY DEF RetryOver, AgentStarts
<1>9. ASSUME ~overlapped, ~overlapped', ListensOrNot' PROVE Apart'
  <2>1. Apart /\ EscapeShape
    BY <1>9 DEF ModeInv, Apart
  <2>2. /\ EscapeShape' /\ escape'.auto = "none"
        /\ escape'.retry = escape.retry /\ escape'.manual = escape.manual
    BY <1>3, <1>8, <2>1, HearCompactionEnd
  <2>3. \A u \in Tasks \ {t} : ~Is(u, "compacting") /\ ~Is(u, "checking")
    <3>1. CASE Is(t, "compacting")
      BY <1>1, <2>1, <3>1 DEF Apart, Compactions, Is
    <3>2. CASE t \in Callers /\ Is(t, "checking")
      <4>1. \A u \in Tasks : ~Is(u, "compacting")
        BY <1>1, <2>1, <3>2 DEF Apart, Compactions, Is
      <4>2. \A u \in Tasks : Is(u, "checking") => u \in Callers
        BY <1>1, KindsOfTasks DEF StagesOK, HandlerStages, CommandStages, Is
      <4> QED
        BY <2>1, <3>2, <4>1, <4>2 DEF Apart, Checks
    <3> QED
      BY <3>1, <3>2
  <2>4. task[Command].at \notin {"stopping", "summarising"} /\ escape.manual # "main"
    <3>1. CASE Is(t, "compacting")
      BY <1>1, <2>1, <3>1 DEF Apart, Compactions, EscapeShape
    <3>2. CASE t \in Callers /\ Is(t, "checking")
      BY <2>1, <3>2 DEF Apart, Checks, Compactions
    <3> QED
      BY <3>1, <3>2
  <2>5. \A u \in Tasks : task'[u].at \notin {"compacting", "checking"}
    BY <1>1, <2>3, KindsOfTasks DEF Goes, Alike, Is, StagesOK, CallerStages, CommandStages
  <2>6. \A h \in Handlers : task'[h].at = "sleeping" => Is(h, "sleeping")
    BY KindsOfTasks DEF Goes, Alike, Is
  <2>7. \A h \in Handlers : task'[h].at # "emitted"
    BY KindsOfTasks DEF Goes, Alike, Is
  <2>8. Sleepers'
    BY <2>1, <2>2, <2>6, <2>7 DEF Apart, Sleepers, Is
  <2>9. Compactions'
    BY <1>4, <2>2, <2>4, <2>5 DEF Compactions, Is
  <2>10. escape'.manual = "none"
    BY <2>1, <2>2, <2>4 DEF EscapeShape
  <2>11. Checks'
    BY <1>4, <2>2, <2>4, <2>5, <2>10, KindsOfTasks DEF Checks, Is
  <2>12. streaming' /\ loading' => escape'.now = "main"
    <3> SUFFICES ASSUME streaming', loading' PROVE escape'.now = "main"
      OBVIOUS
    <3>1. loading
      BY <1>1, <1>8, HearKeeps DEF ModeInv, ListensOrNot, Fields
    <3>2. escape.now = "main"
      BY <2>1, <3>1 DEF Apart
    <3> QED
      BY <2>1, <2>2, <3>2 DEF EscapeShape
  <2> QED
    BY <2>2, <2>8, <2>9, <2>11, <2>12 DEF Apart
<1> QED
  BY <1>2, <1>6, <1>7, <1>9, HeardStep

\* compact() is through.
LEMMA ExecutedKeeps ==
    ASSUME ModeInv, flushing = NoFlush, Hear, Follow,
           task[Command].at \in {"stopping", "summarising"}, Goes(Command, "free"), connected' = TRUE,
           UNCHANGED <<streaming, retryAttempt, retryController, autoController>>
    PROVE  ModeInv'
<1>1. StagesOK /\ ListensOrNot /\ ~connected
  BY DEF ModeInv, ListensOrNot, Fields
<1>2. StagesOK'
  BY <1>1, StagesGo, KindsOfTasks DEF CommandStages
<1>3. Executed /\ ~ExecuteCompaction /\ ~RetryStarts /\ ~HeardCompaction
  BY <1>1, EventsOfGoing, KindsOfTasks DEF HeardCompaction
<1>4. \A h \in Handlers : ~Is(h, "emitted")
  BY <1>1 DEF ModeInv, EndsFirst
<1>5. \A h \in Handlers : Is(h, "sleeping") => task'[h].at = "sleeping"
  BY <1>1, KindsOfTasks DEF Goes, Alike, Is, ListensOrNot, Fields
<1>6. Fields'
  BY <1>1, <1>5 DEF ListensOrNot, Fields, Is, Goes
<1>7. EndsFirst'
  BY <1>1, <1>4, NoneEnds, KindsOfTasks
<1>8. ~RetryOver /\ ~AgentStarts
  BY DEF RetryOver, AgentStarts
<1>9. ASSUME ~overlapped, ~overlapped', ListensOrNot' PROVE Apart'
  <2>1. Apart /\ EscapeShape
    BY <1>9 DEF ModeInv, Apart
  <2>2. /\ EscapeShape' /\ escape'.manual = "none"
        /\ escape'.retry = escape.retry /\ escape'.auto = escape.auto
    BY <1>3, <1>8, <2>1, HearExecuted
  <2>3. escape.manual = "main" /\ escape.auto = "none"
    BY <2>1 DEF Apart, Compactions, EscapeShape
  <2>4. \A h \in Handlers : ~Is(h, "sleeping")
    BY <1>1, <2>1 DEF Apart, Sleepers
  <2>5. \A u \in Tasks : task'[u].at \notin {"sleeping", "compacting", "checking"}
    <3>1. \A u \in Tasks : ~Is(u, "compacting") /\ ~Is(u, "checking") /\ ~Is(u, "sleeping")
      BY <1>1, <2>1, <2>3, <2>4, KindsOfTasks
         DEF Apart, Compactions, Checks, Is, StagesOK, CallerStages, HandlerStages, CommandStages
    <3> QED
      BY <3>1 DEF Goes, Alike, Is
  <2>6. task'[Command].at = "free"
    BY DEF Goes
  <2>7. ~loading'
    BY <1>1, <1>8, HearKeeps DEF ModeInv, ListensOrNot, Fields
  <2>8. Sleepers' /\ Compactions' /\ Checks'
    BY <2>2, <2>3, <2>5, <2>6, KindsOfTasks DEF Sleepers, Compactions, Checks, Is
  <2> QED
    BY <2>2, <2>7, <2>8 DEF Apart
<1> QED
  BY <1>1, <1>2, <1>6, <1>7, <1>9, HeardStep

-------------------------------------------------------------------------------
(* The remaining steps, one by one.                                           *)

LEMMA CheckBeforePromptKeeps ==
    ASSUME ModeInv, NEW c \in Callers, Seen(CheckBeforePrompt(c))
    PROVE  ModeInv'
<1>1. /\ flushing = NoFlush /\ Hear /\ Follow /\ Is(c, "checking")
      /\ \A t \in Callers : ~Is(t, "sending")
      /\ UNCHANGED <<connected, retryAttempt, retryController>>
  BY DEF Seen, CheckBeforePrompt, retry
<1>2. c \in Tasks /\ c \notin Handlers /\ c # Command
  BY KindsOfTasks
<1>3. \A h \in Handlers : ~Is(h, "emitted")
  BY <1>1, <1>2, TasksAre DEF EndsFirst, Is
<1>4. CASE streaming' = streaming /\ autoController' = c
           /\ \E willRetry : task' = [task EXCEPT ![c] = Preparation("compacting", willRetry)]
  <2>1. Goes(c, "compacting")
    BY <1>2, <1>4, TasksAre, AtIs DEF Goes, Alike
  <2> QED
    BY <1>1, <1>3, <1>4, <2>1, CompactionStartKeeps DEF Is
<1>5. CASE streaming' = streaming /\ task' = [task EXCEPT ![c] = At("sending")]
  <2>1. Goes(c, "sending")
    BY <1>2, <1>5, TasksAre, AtIs DEF Goes, Alike
  <2> QED
    BY <1>1, <1>2, <1>3, <1>5, <2>1, CompactionEndKeeps
<1>6. CASE (Run(c) \/ Rejected(c)) /\ UNCHANGED autoController
  BY <1>1, <1>6, SentKeeps DEF Is
<1> QED
  BY <1>4, <1>5, <1>6 DEF Seen, CheckBeforePrompt, StartCompaction

LEMMA EndCompactionKeeps ==
    ASSUME ModeInv, NEW t \in Callers \cup Handlers, Seen(EndCompaction(t))
    PROVE  ModeInv'
<1>1. /\ flushing = NoFlush /\ Hear /\ Follow /\ Turn /\ Is(t, "compacting")
      /\ UNCHANGED <<connected, streaming, retryAttempt, retryController>>
      /\ \E again \in {TRUE, FALSE, task[t].retry} :
            task' = [task EXCEPT ![t] = IF t \in Callers THEN At("sending")
                                        ELSE IF again THEN At("delayed") ELSE Free]
  BY DEF Seen, EndCompaction, CompactionDone, CompactionFails, Proceed, retry
<1>2. t \in Tasks /\ t # Command /\ ~(t \in Callers /\ t \in Handlers)
  BY KindsOfTasks
<1>3. \A h \in Handlers : ~Is(h, "emitted")
  BY <1>1, KindsOfTasks DEF Turn, Is
<1>4. /\ Goes(t, "sending") \/ Goes(t, "delayed") \/ Goes(t, "free")
      /\ t \in Callers => Goes(t, "sending")
      /\ t \notin Callers => Goes(t, "delayed") \/ Goes(t, "free")
  BY <1>1, <1>2, TasksAre, AtIs DEF Goes, Alike
<1>5. PICK stage \in {"sending", "delayed", "free"} :
          Goes(t, stage) /\ (t \in Callers => stage = "sending") /\ (t \in Handlers => stage # "sending")
  BY <1>2, <1>4
<1> QED
  BY <1>1, <1>3, <1>5, CompactionEndKeeps

\* A failed answer is retried after a sleep.
LEMMA SleepKeeps ==
    ASSUME ModeInv, flushing = NoFlush, Hear, Follow, NEW h \in Handlers, Is(h, "emitted"),
           Goes(h, "sleeping"), retryAttempt' = retryAttempt + 1, retryController' = h,
           UNCHANGED <<connected, streaming, autoController>>
    PROVE  ModeInv'
<1>1. StagesOK /\ ListensOrNot /\ EndsFirst /\ h # Command /\ h \in Tasks /\ h \notin Callers
  BY KindsOfTasks DEF ModeInv
<1>2. /\ connected /\ ~streaming
      /\ \A t \in Tasks \ {h} : task[t].at \notin {"emitted", "checking", "sending"}
  BY <1>1 DEF EndsFirst
<1>3. StagesOK'
  BY <1>1, StagesGo DEF HandlerStages
<1>4. RetryStarts /\ ~HeardCompaction /\ ~HeardCommand
  BY <1>1, EventsOfGoing DEF HeardCompaction, HeardCommand, Is
<1>5. task'[Command].at = task[Command].at
  BY <1>1, CommandStill
<1>6. Fields'
  <2>1. retryAttempt' \in Nat
    BY <1>1 DEF ListensOrNot, Fields
  <2> QED
    BY <1>1, <1>5, <2>1 DEF ListensOrNot, Fields, Is, Goes
<1>7. EndsFirst'
  BY <1>1, <1>2, NoneEnds, KindsOfTasks DEF Is
<1>8. ~RetryOver /\ ~AgentStarts
  BY <1>1 DEF RetryOver, AgentStarts, ListensOrNot, Fields
<1>9. ASSUME ~overlapped, ~overlapped', ListensOrNot' PROVE Apart'
  <2>1. Apart /\ EscapeShape /\ SavedApart
    BY <1>1, <1>9, HearKeeps DEF ModeInv, Apart, SavedApart, ListensOrNot, Fields
  <2>2. EscapeShape' /\ escape.now = "main" /\ escape'.retry = "main"
    BY <1>4, <1>8, <2>1, HearRetryStart
  <2>3. escape.retry = "none" /\ escape.auto = "none" /\ escape.manual = "none"
    BY <2>1, <2>2 DEF EscapeShape
  <2>4. escape'.auto = "none" /\ escape'.manual = "none"
    BY <2>2 DEF EscapeShape
  <2>5. /\ \A g \in Handlers : ~Is(g, "sleeping")
        /\ \A u \in Tasks : ~Is(u, "compacting")
        /\ task[Command].at \notin {"stopping", "summarising"}
    BY <2>1, <2>3 DEF Apart, Sleepers, Compactions
  <2>6. \A u \in Tasks \ {h} : task'[u].at \notin {"sleeping", "compacting", "checking", "sending", "emitted"}
    <3>1. \A u \in Tasks : ~Is(u, "sleeping")
      BY <1>1, <2>5, KindsOfTasks DEF StagesOK, CallerStages, CommandStages, Is
    <3> QED
      BY <1>2, <2>5, <3>1 DEF Goes, Alike, Is
  <2>7. task'[h].at = "sleeping" /\ retryAttempt' > 0
    BY <1>1 DEF Goes, ListensOrNot, Fields
  <2>8. Sleepers'
    BY <1>1, <1>2, <2>2, <2>6, <2>7, KindsOfTasks DEF Sleepers, Is
  <2>9. Compactions'
    BY <1>5, <2>4, <2>5, <2>6, <2>7 DEF Compactions, Is
  <2>10. flushing' = flushing
    BY <1>4, FollowKeeps DEF HeardCommand, HeardCompaction
  <2>11. Checks'
    BY <2>4, <2>6, <2>7, KindsOfTasks DEF Checks, Is
  <2> QED
    BY <1>2, <2>2, <2>8, <2>9, <2>11 DEF Apart
<1> QED
  BY <1>3, <1>6, <1>7, <1>9, HeardStep

LEMMA HandleEndKeeps ==
    ASSUME ModeInv, NEW h \in Handlers, Seen(HandleEnd(h))
    PROVE  ModeInv'
<1>1. /\ flushing = NoFlush /\ Hear /\ Follow /\ Is(h, "emitted")
      /\ UNCHANGED <<connected, streaming>>
  BY DEF Seen, HandleEnd
<1>2. h \in Tasks /\ h \notin Callers /\ h # Command
  BY KindsOfTasks
<1>3. StagesOK /\ ListensOrNot /\ EndsFirst /\ DOMAIN task = Tasks
  BY TasksAre
<1>4. /\ connected /\ ~streaming
      /\ \A t \in Tasks \ {h} : task[t].at \notin {"emitted", "checking", "sending"}
  BY <1>1, <1>3 DEF EndsFirst
<1>5. \A g \in Handlers \ {h} : ~Is(g, "emitted")
  BY <1>4, KindsOfTasks DEF Is
<1>6. CASE /\ retryAttempt' = retryAttempt + 1 /\ retryController' = h
           /\ task' = [task EXCEPT ![h] = At("sleeping")] /\ UNCHANGED autoController
  <2>1. Goes(h, "sleeping")
    BY <1>2, <1>3, <1>6, AtIs DEF Goes, Alike
  <2> QED
    BY <1>1, <1>6, <2>1, SleepKeeps
<1>7. CASE /\ retryAttempt' = 0 /\ task' = [Released(task) EXCEPT ![h] = Free]
           /\ UNCHANGED <<retryController, autoController>>
  <2>1. /\ DOMAIN Released(task) = Tasks
        /\ \A t \in Tasks : Released(task)[t].at = IF task[t].at = "retrying" THEN "free" ELSE task[t].at
    BY ReleasedIs
  <2>2. DOMAIN task' = Tasks /\ task'[h].at = "free"
    BY <1>2, <1>7, <2>1, AtIs
  <2>3. \A u \in Tasks \ {h} : task'[u].at = IF task[u].at = "retrying" THEN "free" ELSE task[u].at
    BY <1>7, <2>1
  <2>4. Goes(h, "free")
    BY <1>2, <1>3, <2>2, <2>3, OnlyCallersWait DEF Goes, Alike
  <2>5. StagesOK'
    BY <1>2, <1>3, <2>4, StagesGo DEF HandlerStages
  <2>6. ~RetryStarts /\ ~HeardCompaction /\ ~HeardCommand
    BY <1>1, <1>2, <1>3, <2>4, EventsOfGoing DEF HeardCompaction, HeardCommand, Is
  <2>7. \A u \in Tasks : Fades(u)
    <3>1. Fades(h)
      BY <1>1, <2>4 DEF Goes, Fades, Is
    <3> QED
      BY <1>3, <2>4, <3>1, AllFade
  <2>8. \A g \in Handlers : Is(g, "sleeping") => task'[g].at = "sleeping"
    BY <1>1, <1>2, <2>3, KindsOfTasks DEF Is
  <2>9. Fields'
    BY <1>1, <1>2, <1>3, <1>7, <2>4, <2>8, CommandStill DEF ListensOrNot, Fields, Is
  <2>10. EndsFirst'
    BY <1>3, <1>5, <2>4, NoneEnds
  <2>11. Apart => \A g \in Handlers : task'[g].at # "sleeping"
    BY <1>1, <1>2, <2>7, KindsOfTasks DEF Apart, Sleepers, Fades, Is
  <2> QED
    BY <1>1, <1>7, <2>5, <2>6, <2>7, <2>9, <2>10, <2>11, PlainKeeps
<1>8. CASE /\ autoController' = h /\ UNCHANGED retry
           /\ \E willRetry : task' = [task EXCEPT ![h] = Preparation("compacting", willRetry)]
  <2>1. Goes(h, "compacting")
    BY <1>2, <1>3, <1>8, AtIs DEF Goes, Alike
  <2>2. \A c \in Callers \ {h} : ~Is(c, "sending")
    BY <1>4, KindsOfTasks DEF Is
  <2> QED
    BY <1>1, <1>5, <1>8, <2>1, <2>2, CompactionStartKeeps DEF Is, retry
<1>9. CASE task' = [task EXCEPT ![h] = Free] /\ UNCHANGED <<retry, autoController>>
  <2>1. Goes(h, "free")
    BY <1>2, <1>3, <1>9, AtIs DEF Goes, Alike
  <2>2. Fades(h) /\ "free" \in HandlerStages
    BY <1>1, <2>1 DEF Goes, Fades, HandlerStages, Is
  <2> QED
    BY <1>1, <1>2, <1>5, <1>9, <2>1, <2>2, StillKeeps DEF Is, retry
<1> QED
  BY <1>6, <1>7, <1>8, <1>9 DEF Seen, HandleEnd, Retry, StartCompaction

LEMMA CommandStepKeeps ==
    ASSUME ModeInv, SeenCommand
    PROVE  ModeInv'
<1>1. flushing = NoFlush /\ Hear /\ Follow /\ CommandStep
  BY DEF SeenCommand, Seen
<1>2. StagesOK /\ ListensOrNot /\ EndsFirst /\ DOMAIN task = Tasks /\ Command \in Tasks
      /\ Command \notin Callers /\ Command \notin Handlers
  BY TasksAre, KindsOfTasks
<1>3. ASSUME task[Command].at \in {"stopping", "summarising", "switching"}
      PROVE  ~connected /\ \A h \in Handlers : ~Is(h, "emitted")
  BY <1>2, <1>3 DEF ListensOrNot, Fields, EndsFirst
<1>4. CASE BeginSummary
  <2>1. Is(Command, "stopping") /\ UNCHANGED <<streaming, retryAttempt, retryController, autoController>>
    BY <1>4 DEF BeginSummary, agent, retry, compaction
  <2>2. CASE task' = [task EXCEPT ![Command] = Preparation("summarising", FALSE)] /\ UNCHANGED connected
    <3>1. Goes(Command, "summarising")
      BY <1>2, <2>2, AtIs DEF Goes, Alike
    <3>2. Fades(Command)
      BY <2>1, <3>1 DEF Goes, Fades, Is
    <3> QED
      BY <1>1, <1>2, <1>3, <2>1, <2>2, <3>1, <3>2, StillKeeps DEF Is
  <2>3. CASE task' = [task EXCEPT ![Command] = Free] /\ connected' = TRUE
    <3>1. Goes(Command, "free")
      BY <1>2, <2>3, AtIs DEF Goes, Alike
    <3> QED
      BY <1>1, <2>1, <2>3, <3>1, ExecutedKeeps DEF Is
  <2> QED
    BY <1>4, <2>2, <2>3 DEF BeginSummary
<1>5. CASE EndSummary
  <2>1. /\ Is(Command, "summarising") /\ task' = [task EXCEPT ![Command] = Free] /\ connected' = TRUE
        /\ UNCHANGED <<streaming, retryAttempt, retryController, autoController>>
    BY <1>5 DEF EndSummary, retry
  <2>2. Goes(Command, "free")
    BY <1>2, <2>1, AtIs DEF Goes, Alike
  <2> QED
    BY <1>1, <2>1, <2>2, ExecutedKeeps DEF Is
<1>6. CASE OpenSession
  <2>1. /\ Is(Command, "switching") /\ task' = [task EXCEPT ![Command] = Free] /\ connected' = TRUE
        /\ UNCHANGED <<streaming, retryAttempt, retryController, autoController>>
    BY <1>6 DEF OpenSession, retry, compaction
  <2>2. Goes(Command, "free")
    BY <1>2, <2>1, AtIs DEF Goes, Alike
  <2>3. StagesOK'
    BY <1>2, <2>2, StagesGo DEF CommandStages
  <2>4. ~RetryStarts /\ ~HeardCompaction /\ ~HeardCommand
    BY <1>2, <2>1, <2>2, EventsOfGoing DEF HeardCompaction, HeardCommand, Is
  <2>5. \A u \in Tasks : Fades(u)
    <3>1. Fades(Command)
      BY <2>1, <2>2 DEF Goes, Fades, Is
    <3> QED
      BY <1>2, <2>2, <3>1, AllFade
  <2>6. \A h \in Handlers : Is(h, "sleeping") => task'[h].at = "sleeping"
    BY <1>2, KindsOfTasks, <2>1 DEF Is
  <2>7. Fields'
    BY <1>2, <2>1, <2>2, <2>6 DEF ListensOrNot, Fields, Is, Goes
  <2>8. EndsFirst'
    BY <1>2, <1>3, <2>1, <2>2, NoneEnds DEF Is
  <2>9. Apart => \A h \in Handlers : task'[h].at # "sleeping"
    BY <1>3, <2>1, <2>5, KindsOfTasks DEF Apart, Sleepers, Fades, Is
  <2> QED
    BY <1>1, <1>3, <2>1, <2>3, <2>4, <2>5, <2>7, <2>8, <2>9, PlainKeeps DEF Is
<1> QED
  BY <1>1, <1>4, <1>5, <1>6 DEF CommandStep

LEMMA AnswerKeeps ==
    ASSUME ModeInv, NEW kind, Seen(Answer(kind))
    PROVE  ModeInv'
<1> DEFINE recovers == connected /\ ~Failed(Dated(kind)) /\ retryAttempt > 0
           resumed == IF recovers THEN Released(task) ELSE task
           returned == [t \in Tasks |-> IF Is(t, "running") THEN At("returning") ELSE resumed[t]]
<1>1. /\ flushing = NoFlush /\ Hear /\ Follow /\ Turn /\ streaming
      /\ retryAttempt' = IF recovers THEN 0 ELSE retryAttempt
      /\ UNCHANGED <<connected, retryController, autoController>>
      /\ \/ task' = resumed /\ UNCHANGED streaming
         \/ /\ streaming' = FALSE
            /\ \/ ~connected /\ task' = returned
               \/ connected /\ \E h \in Handlers : Is(h, "free") /\ task' = [returned EXCEPT ![h] = At("emitted")]
  BY DEF Seen, Answer, compaction
<1>2. StagesOK /\ ListensOrNot /\ DOMAIN task = Tasks
  BY TasksAre
<1>3. \A t \in Tasks : task[t].at \notin {"checking", "sending", "emitted", "returning"}
  BY <1>1 DEF Turn
<1>4. \A h \in Handlers : ~Is(h, "emitted")
  BY <1>3, KindsOfTasks DEF Is
<1>5. retryAttempt' \in Nat /\ streaming' \in BOOLEAN
  BY <1>1, <1>2 DEF ListensOrNot, Fields
<1>6. /\ DOMAIN resumed = Tasks
      /\ \A t \in Tasks : resumed[t].at = task[t].at \/ (task[t].at = "retrying" /\ resumed[t].at = "free")
  BY <1>2, ReleasedIs
<1>7. /\ DOMAIN returned = Tasks
      /\ \A t \in Tasks : \/ task[t].at = "running" /\ returned[t].at = "returning"
                          \/ returned[t].at = resumed[t].at
  BY AtIs DEF Is
<1> HIDE DEF recovers, resumed, returned
<1>8. Apart => \A h \in Handlers : ~Is(h, "sleeping")
  BY <1>1 DEF Apart, Sleepers
<1>9. CASE task' = resumed /\ UNCHANGED streaming
  <2>1. Stay /\ \A h \in Handlers : Is(h, "sleeping") => task'[h].at = "sleeping"
    BY <1>2, <1>6, <1>9, OnlyCallersWait, KindsOfTasks DEF Stay, Alike, Is
  <2>2. retryController' \in {Nobody} \cup {h \in Handlers : task'[h].at = "sleeping"}
    BY <1>1, <1>2, <2>1 DEF ListensOrNot, Fields
  <2>3. \A h \in Handlers : task'[h].at = "sleeping" => Is(h, "sleeping")
    BY <1>6, <1>9, KindsOfTasks DEF Is
  <2> QED
    BY <1>1, <1>4, <1>5, <1>8, <1>9, <2>1, <2>2, <2>3, StayKeeps
<1>10. CASE streaming' = FALSE /\ ~connected /\ task' = returned
  <2>1. Stay /\ \A h \in Handlers : Is(h, "sleeping") => task'[h].at = "sleeping"
    BY <1>2, <1>6, <1>7, <1>10, OnlyCallersWait, KindsOfTasks DEF Stay, Alike, Is
  <2>2. retryController' \in {Nobody} \cup {h \in Handlers : task'[h].at = "sleeping"}
    BY <1>1, <1>2, <2>1 DEF ListensOrNot, Fields
  <2>3. \A h \in Handlers : task'[h].at = "sleeping" => Is(h, "sleeping")
    BY <1>6, <1>7, <1>10, KindsOfTasks DEF Is
  <2> QED
    BY <1>1, <1>4, <1>5, <1>8, <1>10, <2>1, <2>2, <2>3, StayKeeps
<1>11. ASSUME NEW h \in Handlers, Is(h, "free"), task' = [returned EXCEPT ![h] = At("emitted")],
              streaming' = FALSE, connected
       PROVE  ModeInv'
  <2>1. h \in Tasks /\ h \notin Callers /\ h # Command
    BY KindsOfTasks
  <2>2. DOMAIN task' = Tasks /\ task'[h].at = "emitted" /\ \A u \in Tasks \ {h} : task'[u] = returned[u]
    BY <1>7, <1>11, <2>1, AtIs
  <2>3. Goes(h, "emitted")
    BY <1>2, <1>6, <1>7, <2>1, <2>2, OnlyCallersWait DEF Goes, Alike
  <2>4. StagesOK'
    BY <1>2, <2>1, <2>3, StagesGo DEF HandlerStages
  <2>5. ~RetryStarts /\ ~HeardCompaction /\ ~HeardCommand
    BY <1>2, <1>11, <2>1, <2>3, EventsOfGoing DEF HeardCompaction, HeardCommand, Is
  <2>6. \A u \in Tasks : Fades(u)
    <3>1. Fades(h)
      BY <1>11, <2>3 DEF Goes, Fades, Is
    <3> QED
      BY <1>2, <2>3, <3>1, AllFade
  <2>7. \A g \in Handlers : Is(g, "sleeping") => task'[g].at = "sleeping"
    BY <1>6, <1>7, <1>11, <2>1, <2>2, KindsOfTasks DEF Is
  <2>8. Fields'
    BY <1>1, <1>2, <1>5, <2>1, <2>3, <2>7, CommandStill DEF ListensOrNot, Fields, Is
  <2>9. EndsFirst'
    <3>1. flushing' = flushing
      BY <1>1, <2>5, FollowKeeps DEF HeardCompaction, HeardCommand
    <3>2. \A u \in Tasks \ {h} : task'[u].at \notin {"emitted", "checking", "sending"}
      BY <1>3, <2>3 DEF Goes, Alike
    <3> QED
      BY <1>1, <1>11, <3>1, <3>2, KindsOfTasks DEF EndsFirst, Is
  <2>10. Apart => \A g \in Handlers : task'[g].at # "sleeping"
    BY <1>8, <2>6, KindsOfTasks DEF Fades, Is
  <2> QED
    BY <1>1, <1>11, <2>4, <2>5, <2>6, <2>8, <2>9, <2>10, PlainKeeps
<1> QED
  BY <1>1, <1>9, <1>10, <1>11

\* A command that ends the sleep of a retry.
LEMMA AbortRetryKeeps ==
    ASSUME ModeInv, flushing = NoFlush, AbortRetry, Hear, Follow
    PROVE  ModeInv'
<1>1. /\ Turn /\ task' = AbortedRetry /\ retryController' = Nobody
      /\ retryAttempt' = IF retryController = Nobody THEN retryAttempt ELSE 0
      /\ UNCHANGED <<connected, streaming, autoController>>
  BY DEF AbortRetry, MayCommand, StopRetry, agent, compaction
<1>2. StagesOK /\ ListensOrNot /\ DOMAIN task = Tasks
  BY TasksAre
<1>3. /\ DOMAIN task' = Tasks
      /\ \A t \in Tasks : task'[t].at =
            IF t = retryController \/ task[t].at = "retrying" THEN "free" ELSE task[t].at
  BY <1>1, <1>2, AbortedIs
<1>4. Stay
  BY <1>1, <1>2, <1>3, OnlyCallersWait DEF Stay, Alike
<1>5. \A h \in Handlers : ~Is(h, "emitted")
  BY <1>1, KindsOfTasks DEF Turn, Is
<1>6. Apart => \A h \in Handlers : task'[h].at # "sleeping"
  BY <1>3, KindsOfTasks DEF Apart, Sleepers, Is
<1>7. retryAttempt' \in Nat /\ streaming' \in BOOLEAN
  BY <1>1, <1>2 DEF ListensOrNot, Fields
<1> QED
  BY <1>1, <1>4, <1>5, <1>6, <1>7, StayKeeps

\* A step of the session that moves no task and touches no retry.
LEMMA QuietKeeps ==
    ASSUME ModeInv, flushing = NoFlush, Turn, Hear, Follow,
           UNCHANGED <<task, connected, streaming, retryAttempt, retryController, autoController>>
    PROVE  ModeInv'
<1>1. StagesOK /\ ListensOrNot /\ DOMAIN task = Tasks
  BY TasksAre
<1>2. Stay
  BY <1>1 DEF Stay, Alike
<1>3. \A h \in Handlers : ~Is(h, "emitted")
  BY KindsOfTasks DEF Turn, Is
<1>4. Apart => \A h \in Handlers : task'[h].at = "sleeping" => ~streaming
  BY DEF Apart, Sleepers, Is
<1>5. /\ retryAttempt' \in Nat /\ streaming' \in BOOLEAN
      /\ retryController' \in {Nobody} \cup {h \in Handlers : task'[h].at = "sleeping"}
  BY <1>1 DEF ListensOrNot, Fields, Is
<1> QED
  BY <1>2, <1>3, <1>4, <1>5, StayKeeps

\* The effect of disconnecting on the tasks.
LEMMA DisconnectGoes ==
    ASSUME StagesOK, ListensOrNot, NEW stage, NEW record, record.at = stage, Disconnect(record)
    PROVE  /\ Is(Command, "free") /\ connected' = FALSE /\ Goes(Command, stage)
           /\ retryController' = Nobody
           /\ retryAttempt' = IF retryController = Nobody THEN retryAttempt ELSE 0
           /\ UNCHANGED <<streaming, autoController>>
           /\ \A t \in Tasks \ {Command} : task'[t].at =
                 IF t = retryController \/ task[t].at = "retrying" THEN "free" ELSE task[t].at
<1>1. /\ Is(Command, "free") /\ connected' = FALSE /\ retryController' = Nobody
      /\ retryAttempt' = IF retryController = Nobody THEN retryAttempt ELSE 0
      /\ task' = [AbortedRetry EXCEPT ![Command] = record]
      /\ UNCHANGED <<streaming, autoController>>
  BY DEF Disconnect, StopRetry, compaction
<1>2. /\ DOMAIN AbortedRetry = Tasks
      /\ \A t \in Tasks : AbortedRetry[t].at =
            IF t = retryController \/ task[t].at = "retrying" THEN "free" ELSE task[t].at
  BY AbortedIs
<1>3. DOMAIN task' = Tasks /\ task'[Command] = record
      /\ \A t \in Tasks \ {Command} : task'[t] = AbortedRetry[t]
  BY <1>1, <1>2, KindsOfTasks
<1>4. Goes(Command, stage)
  BY <1>1, <1>2, <1>3, OnlyCallersWait, KindsOfTasks DEF Goes, Alike
<1> QED
  BY <1>1, <1>2, <1>3, <1>4

LEMMA CompactKeeps ==
    ASSUME ModeInv, Seen(Compact)
    PROVE  ModeInv'
<1>1. flushing = NoFlush /\ Hear /\ Follow /\ Turn /\ ~isCompacting /\ Disconnect(At("stopping"))
  BY DEF Seen, Compact, MayCommand
<1>2. StagesOK /\ ListensOrNot /\ DOMAIN task = Tasks
  BY TasksAre
<1>3. At("stopping").at = "stopping"
  BY AtIs
<1>4. /\ Is(Command, "free") /\ connected' = FALSE /\ Goes(Command, "stopping")
      /\ retryController' = Nobody
      /\ retryAttempt' = IF retryController = Nobody THEN retryAttempt ELSE 0
      /\ UNCHANGED <<streaming, autoController>>
  BY <1>1, <1>2, <1>3, DisconnectGoes
<1>5. \A u \in Tasks : task[u].at \notin {"checking", "sending", "emitted"}
  BY <1>1 DEF Turn
<1>6. StagesOK'
  BY <1>2, <1>4, StagesGo, KindsOfTasks DEF CommandStages
<1>7. ExecuteCompaction /\ ~Executed /\ ~RetryStarts /\ ~HeardCompaction
  BY <1>2, <1>4, EventsOfGoing, KindsOfTasks DEF HeardCompaction, Is
<1>8. Fields'
  BY <1>2, <1>4 DEF ListensOrNot, Fields, Goes
<1>9. EndsFirst'
  BY <1>2, <1>4, <1>5, NoneEnds, KindsOfTasks DEF Is
<1>10. ~AgentStarts
  BY <1>4 DEF AgentStarts
<1>11. ASSUME ~overlapped, ~overlapped', ListensOrNot' PROVE Apart'
  <2>1. Apart /\ EscapeShape /\ SavedApart
    BY <1>1, <1>2, <1>4, <1>11, HearKeeps DEF ModeInv, Apart, SavedApart, ListensOrNot, Fields
  <2>2. EscapeShape' /\ escape.now = "main" /\ escape'.manual = "main"
    BY <1>1, <1>7, <1>10, <2>1, HearCompact
  <2>3. /\ escape.retry = "none" /\ escape.auto = "none"
        /\ escape'.retry = "none" /\ escape'.auto = "none"
    BY <2>1, <2>2 DEF EscapeShape
  <2>4. /\ \A h \in Handlers : ~Is(h, "sleeping")
        /\ \A u \in Tasks : ~Is(u, "compacting")
    BY <2>1, <2>3 DEF Apart, Sleepers, Compactions
  <2>5. task'[Command].at = "stopping"
    BY <1>4 DEF Goes
  <2>6. \A u \in Tasks \ {Command} : task'[u].at \notin {"compacting", "checking"}
    BY <1>4, <1>5, <2>4 DEF Goes, Alike, Is
  <2>7. \A h \in Handlers : task'[h].at # "sleeping"
    BY <1>4, <2>4, KindsOfTasks DEF Goes, Alike, Is
  <2>8. flushing' = flushing
    BY <1>1, <1>7 DEF Follow, HeardCompaction, ExecuteCompaction, Enters
  <2>9. Sleepers' /\ Compactions' /\ Checks'
    BY <1>1, <2>2, <2>3, <2>5, <2>6, <2>7, <2>8, KindsOfTasks DEF Sleepers, Compactions, Checks, Is
  <2>10. ~loading'
    BY <1>1, <1>2, <1>4, <1>7, <1>10, HearKeeps DEF ModeInv, ListensOrNot, Fields
  <2> QED
    BY <2>2, <2>9, <2>10 DEF Apart
<1> QED
  BY <1>1, <1>6, <1>7, <1>8, <1>9, <1>10, <1>11, HeardStep

LEMMA SwitchKeeps ==
    ASSUME ModeInv, NEW s, Seen(Switch(s))
    PROVE  ModeInv'
<1> DEFINE record == [At("switching") EXCEPT !.of = s]
<1>1. flushing = NoFlush /\ Hear /\ Follow /\ Turn /\ Disconnect(record)
  BY DEF Seen, Switch, MayCommand
<1>2. StagesOK /\ ListensOrNot /\ DOMAIN task = Tasks
  BY TasksAre
<1>3. record.at = "switching"
  BY AtIs
<1> HIDE DEF record
<1>4. /\ Is(Command, "free") /\ connected' = FALSE /\ Goes(Command, "switching")
      /\ retryController' = Nobody
      /\ retryAttempt' = IF retryController = Nobody THEN retryAttempt ELSE 0
      /\ UNCHANGED <<streaming, autoController>>
      /\ \A t \in Tasks \ {Command} : task'[t].at =
            IF t = retryController \/ task[t].at = "retrying" THEN "free" ELSE task[t].at
  BY <1>1, <1>2, <1>3, DisconnectGoes
<1>5. \A u \in Tasks : task[u].at # "emitted"
  BY <1>1 DEF Turn
<1>6. StagesOK'
  BY <1>2, <1>4, StagesGo, KindsOfTasks DEF CommandStages
<1>7. ~RetryStarts /\ ~HeardCompaction /\ ~HeardCommand /\ Enters(Command, "switching")
  BY <1>2, <1>4, EventsOfGoing, KindsOfTasks DEF HeardCompaction, HeardCommand, Is
<1>8. \A u \in Tasks : Fades(u)
  <2>1. Fades(Command)
    BY <1>4 DEF Goes, Fades, Is
  <2> QED
    BY <1>2, <1>4, <2>1, AllFade
<1>9. Fields'
  BY <1>2, <1>4 DEF ListensOrNot, Fields, Goes
<1>10. EndsFirst'
  BY <1>2, <1>4, <1>5, NoneEnds, KindsOfTasks DEF Is
<1>11. Apart => \A h \in Handlers : task'[h].at # "sleeping"
  BY <1>4, KindsOfTasks DEF Apart, Sleepers, Is
<1> QED
  BY <1>1, <1>4, <1>6, <1>7, <1>8, <1>9, <1>10, <1>11, PlainKeeps

\* A prompt that is typed, or flushed.
LEMMA PromptKeeps ==
    ASSUME ModeInv, NEW c \in Callers, StartPrompt(c), UNCHANGED keys, flushing' = NoFlush,
           \A h \in Handlers : ~Is(h, "emitted"),
           Apart => /\ \A d \in Callers : ~Is(d, "checking")
                    /\ \A t \in Tasks : ~Is(t, "compacting")
                    /\ task[Command].at \notin {"stopping", "summarising"}
    PROVE  ModeInv'
<1>1. /\ Is(c, "free") /\ task' = [task EXCEPT ![c] = At("checking")]
      /\ UNCHANGED <<streaming, connected, retryAttempt, retryController, autoController>>
  BY DEF StartPrompt, retry, compaction
<1>2. StagesOK /\ ListensOrNot /\ DOMAIN task = Tasks /\ c \in Tasks /\ c \notin Handlers /\ c # Command
  BY TasksAre, KindsOfTasks
<1>3. DOMAIN task' = Tasks /\ task'[c].at = "checking" /\ \A u \in Tasks \ {c} : task'[u] = task[u]
  BY <1>1, <1>2, AtIs
<1>4. Goes(c, "checking")
  BY <1>2, <1>3 DEF Goes, Alike
<1>5. StagesOK'
  BY <1>2, <1>4, StagesGo DEF CallerStages
<1>6. \A h \in Handlers : task'[h] = task[h]
  BY <1>2, <1>3, KindsOfTasks
<1>7. task'[Command] = task[Command]
  BY <1>2, <1>3, KindsOfTasks
<1>8. UNCHANGED <<escape, loading, overlapped>>
  BY DEF keys
<1>9. ListensOrNot'
  BY <1>1, <1>2, <1>6, <1>7, <1>8 DEF ListensOrNot, Fields, Is
<1>10. EndsFirst'
  BY <1>2, <1>4, NoneEnds
<1>11. ASSUME Apart PROVE Apart'
  <2>1. EscapeShape' /\ (streaming' /\ loading' => escape'.now = "main")
    BY <1>1, <1>8, <1>11 DEF Apart, EscapeShape
  <2>2. Sleepers'
    BY <1>1, <1>6, <1>8, <1>11 DEF Apart, Sleepers, Is
  <2>3. \A t \in Tasks : task'[t].at # "compacting"
    BY <1>3, <1>11 DEF Is
  <2>4. Compactions'
    BY <1>1, <1>7, <1>8, <1>11, <2>3 DEF Apart, Compactions, Is
  <2>5. Checks'
    <3>1. \A d \in Callers : task'[d].at = "checking" => d = c
      BY <1>3, <1>11, KindsOfTasks DEF Is
    <3> QED
      BY <1>7, <1>11, <3>1 DEF Checks, Is
  <2> QED
    BY <2>1, <2>2, <2>4, <2>5 DEF Apart
<1> QED
  BY <1>5, <1>8, <1>9, <1>10, <1>11 DEF ModeInv

\* What a text does that waits somewhere else.
LEMMA OtherwiseKeeps ==
    ASSUME ModeInv, UNCHANGED <<task, connected, streaming, retryAttempt, retryController,
                                autoController, escape, loading, overlapped>>,
           flushing' \in {flushing, NoFlush}
    PROVE  ModeInv'
<1>1. StagesOK' /\ ListensOrNot' /\ overlapped' \in BOOLEAN
  BY DEF ModeInv, StagesOK, ListensOrNot, Fields, Is
<1>2. EndsFirst'
  BY DEF ModeInv, EndsFirst, Is
<1>3. ASSUME Apart PROVE Apart'
  <2>1. EscapeShape' /\ Sleepers' /\ Compactions' /\ (streaming' /\ loading' => escape'.now = "main")
    BY <1>3 DEF Apart, EscapeShape, Sleepers, Compactions, Is
  <2>2. Checks'
    BY <1>3 DEF Apart, Checks, Is
  <2> QED
    BY <2>1, <2>2 DEF Apart
<1> QED
  BY <1>1, <1>2, <1>3 DEF ModeInv

LEMMA FlushKeeps ==
    ASSUME ModeInv, Flush
    PROVE  ModeInv'
<1>1. flushing # NoFlush /\ flushing' = NoFlush /\ UNCHANGED keys
  BY DEF Flush, NoFlush
<1>2. CASE UNCHANGED vars
  BY <1>1, <1>2, OtherwiseKeeps DEF vars, agent, retry, compaction, keys
<1>3. ASSUME NEW c \in Callers, StartPrompt(c) PROVE ModeInv'
  <2>1. \A h \in Handlers : ~Is(h, "emitted")
    BY <1>1 DEF ModeInv, EndsFirst
  <2>2. Apart => /\ \A d \in Callers : ~Is(d, "checking")
                 /\ \A t \in Tasks : ~Is(t, "compacting")
                 /\ task[Command].at \notin {"stopping", "summarising"}
    BY <1>1 DEF Apart, Checks, Compactions
  <2> QED
    BY <1>1, <1>3, <2>1, <2>2, PromptKeeps
<1> QED
  BY <1>2, <1>3 DEF Flush

LEMMA EnterKeeps ==
    ASSUME ModeInv, Enter
    PROVE  ModeInv'
<1>1. Turn /\ flushing = NoFlush /\ flushing' = flushing /\ UNCHANGED keys
  BY DEF Enter, Pressed
<1>2. CASE UNCHANGED sessionVars
  BY <1>1, <1>2, OtherwiseKeeps DEF sessionVars, agent, retry, compaction, keys
<1>3. CASE Prompt(Main)
  <2>1. Main \in Callers /\ StartPrompt(Main) /\ ~isCompacting /\ ~streaming
    BY <1>3, KindsOfTasks DEF Prompt, StartPrompt
  <2>2. /\ \A h \in Handlers : ~Is(h, "emitted")
        /\ \A d \in Callers : ~Is(d, "checking")
    BY <1>1, KindsOfTasks DEF Turn, Is
  <2>3. task[Command].at \notin {"stopping", "summarising"}
    BY <1>1, <2>1 DEF Turn, isCompacting, Is
  <2>4. Apart => \A t \in Tasks : ~Is(t, "compacting")
    <3> SUFFICES ASSUME Apart, NEW t \in Tasks, Is(t, "compacting") PROVE FALSE
      OBVIOUS
    <3>1. autoController = t /\ autoController = Nobody
      BY <2>1 DEF Apart, Compactions, isCompacting
    <3> QED
      BY <3>1, KindsOfTasks
  <2> QED
    BY <1>1, <2>1, <2>2, <2>3, <2>4, PromptKeeps
<1> QED
  BY <1>2, <1>3 DEF Enter

LEMMA InitIsApart == ModeInit => ModeInv
<1> SUFFICES ASSUME ModeInit PROVE ModeInv
  OBVIOUS
<1>1. /\ streaming = FALSE /\ connected = TRUE /\ retryAttempt = 0 /\ retryController = Nobody
      /\ autoController = Nobody /\ loading = FALSE /\ overlapped = FALSE /\ flushing = NoFlush
      /\ DOMAIN task = Tasks /\ \A t \in Tasks : task[t].at = "free"
  BY AtIs DEF ModeInit, Init
<1>2. StagesOK
  BY <1>1, KindsOfTasks DEF StagesOK, CallerStages, HandlerStages, CommandStages
<1>3. ListensOrNot
  BY <1>1, KindsOfTasks DEF ListensOrNot, Fields
<1>4. EndsFirst
  BY <1>1, KindsOfTasks DEF EndsFirst, Is
<1>5. EscapeShape
  BY DEF ModeInit, EscapeShape, Saved, Calls
<1>6. escape.auto = "none" /\ escape.manual = "none"
  BY DEF ModeInit
<1>7. Sleepers /\ Compactions /\ Checks
  BY <1>1, <1>6, KindsOfTasks DEF Sleepers, Compactions, Checks, Is
<1> QED
  BY <1>1, <1>2, <1>3, <1>4, <1>5, <1>7 DEF ModeInv, Apart

LEMMA ModeStep == ModeInv /\ [ModeNext]_<<vars, modeVars>> => ModeInv'
<1> SUFFICES ASSUME ModeInv, [ModeNext]_<<vars, modeVars>> PROVE ModeInv'
  OBVIOUS
<1>1. ASSUME NEW c \in Callers, SeenCaller(c) PROVE ModeInv'
  <2>1. \/ Seen(CheckBeforePrompt(c)) \/ Seen(Send(c)) \/ Seen(WaitForRetry(c))
        \/ Seen(EndCompaction(c))
    BY <1>1 DEF SeenCaller, Seen, CallerStep
  <2> QED
    BY <2>1, CheckBeforePromptKeeps, SendKeeps, WaitForRetryKeeps, EndCompactionKeeps
<1>2. ASSUME NEW h \in Handlers, SeenHandler(h) PROVE ModeInv'
  <2>1. \/ Seen(HandleEnd(h)) \/ Seen(RetryDelayOver(h)) \/ Seen(Continue(h))
        \/ Seen(EndCompaction(h))
    BY <1>2 DEF SeenHandler, Seen, HandlerStep
  <2> QED
    BY <2>1, HandleEndKeeps, RetryDelayOverKeeps, ContinueKeeps, EndCompactionKeeps
<1>3. CASE SeenCommand
  BY <1>3, CommandStepKeeps
<1>4. CASE AnswerSeen
  BY <1>4, AnswerKeeps DEF AnswerSeen
<1>5. CASE Poll
  BY <1>5, OtherwiseKeeps DEF Poll, retry, compaction, keys
<1>6. CASE Flush
  BY <1>6, FlushKeeps
<1>7. CASE Enter
  BY <1>7, EnterKeeps
<1>8. CASE Dequeue
  BY <1>8, OtherwiseKeeps DEF Dequeue, Restore, sessionVars, agent, retry, compaction, keys
<1>9. CASE Escape
  <2>1. CASE Interrupt
    BY <2>1, OtherwiseKeeps DEF Interrupt, Restore, retry, compaction, keys
  <2>2. CASE flushing = NoFlush /\ AbortRetry /\ Hear /\ Follow
    BY <2>2, AbortRetryKeeps
  <2>3. CASE flushing = NoFlush /\ AbortCompaction /\ Hear /\ Follow
    BY <2>3, QuietKeeps DEF AbortCompaction, MayCommand, agent, retry
  <2> QED
    BY <1>9, <2>1, <2>2, <2>3 DEF Escape
<1>10. CASE Seen(RecordBash)
  BY <1>10, QuietKeeps DEF Seen, RecordBash, MayCommand, retry, compaction
<1>11. CASE Seen(Compact)
  BY <1>11, CompactKeeps
<1>12. ASSUME NEW s \in Sessions, Seen(Switch(s)) PROVE ModeInv'
  BY <1>12, SwitchKeeps
<1>13. CASE UNCHANGED <<vars, modeVars>>
  BY <1>13, OtherwiseKeeps DEF vars, modeVars, keys, texts, agent, retry, compaction
<1> QED
  BY <1>1, <1>2, <1>3, <1>4, <1>5, <1>6, <1>7, <1>8, <1>9, <1>10, <1>11, <1>12, <1>13 DEF ModeNext, Proceeds

\* What Apart says, put as what Escape does.
LEMMA ApartIsTrue == ModeInv => EscapeTrue
<1> SUFFICES ASSUME ModeInv, ~overlapped PROVE EscapeTrue
  BY DEF EscapeTrue
<1>1. Apart /\ StagesOK
  BY DEF ModeInv
<1>2. "run" \in Works => streaming /\ loading
  BY DEF Works
<1>3. "retry" \in Works => \E h \in Handlers : Is(h, "sleeping")
  BY <1>1, KindsOfTasks DEF Works, Busy, Is, StagesOK, CallerStages, CommandStages
<1>4. "compaction" \in Works => \/ \E t \in Tasks : Is(t, "compacting")
                                \/ task[Command].at = "summarising"
  BY <1>1, KindsOfTasks DEF Works, Busy, Is, StagesOK, CallerStages, HandlerStages
<1>5. "run" \in Works => escape.now = "main"
  BY <1>1, <1>2 DEF Apart
<1>6. "retry" \in Works => escape.now = "abortRetry"
  BY <1>1, <1>3 DEF Apart, Sleepers, EscapeShape
<1>7. "compaction" \in Works => escape.now = "abortCompaction"
  BY <1>1, <1>4 DEF Apart, Compactions, EscapeShape
<1> QED
  BY <1>5, <1>6, <1>7 DEF EscapeTrue

\* As long as no two works overlap, Escape aborts what goes on: the run, the
\* delay of a retry or the compaction, whatever callers, handlers of a run's end
\* and commands there are (interactive-mode.ts:1863-2088).
THEOREM EscapeStaysTrue == ModeSpec => []EscapeTrue
<1>1. ModeInit => ModeInv
  BY InitIsApart
<1>2. ModeInv /\ [ModeNext]_<<vars, modeVars>> => ModeInv'
  BY ModeStep
<1>3. ModeInv => EscapeTrue
  BY ApartIsTrue
<1> QED
  BY <1>1, <1>2, <1>3, PTL DEF ModeSpec

-------------------------------------------------------------------------------
(* Texts.                                                                     *)

\* A line of texts, none of which is in it twice.
Line(s) == s \in Seq(Nat) /\ IsInjective(s)

LEMMA LineEmpty == Line(<<>>) /\ ToSet(<<>>) = {}
<1>1. DOMAIN <<>> = {} /\ <<>> \in Seq(Nat)
  OBVIOUS
<1> QED
  BY <1>1 DEF Line, ToSet, IsInjective

LEMMA LineConcat ==
    ASSUME NEW s, NEW u, Line(s), Line(u), ToSet(s) \cap ToSet(u) = {}
    PROVE  Line(s \o u) /\ ToSet(s \o u) = ToSet(s) \cup ToSet(u)
<1> DEFINE w == s \o u
           m == Len(s)
           n == Len(u)
<1>1. /\ s \in Seq(Nat) /\ u \in Seq(Nat) /\ m \in Nat /\ n \in Nat /\ DOMAIN s = 1..m /\ DOMAIN u = 1..n
      /\ \A i, j \in 1..m : s[i] = s[j] => i = j
      /\ \A i, j \in 1..n : u[i] = u[j] => i = j
      /\ \A i \in 1..m, j \in 1..n : s[i] # u[j]
  <2>1. s \in Seq(Nat) /\ u \in Seq(Nat) /\ m \in Nat /\ n \in Nat /\ DOMAIN s = 1..m /\ DOMAIN u = 1..n
    BY DEF Line
  <2>2. \A i, j \in DOMAIN s : s[i] = s[j] => i = j
    BY DEF Line, IsInjective
  <2>3. \A i, j \in DOMAIN u : u[i] = u[j] => i = j
    BY DEF Line, IsInjective
  <2>4. \A i \in DOMAIN s, j \in DOMAIN u : s[i] # u[j]
    BY DEF ToSet
  <2> QED
    BY <2>1, <2>2, <2>3, <2>4
<1>2. /\ w \in Seq(Nat) /\ Len(w) = m + n
      /\ \A i \in 1..(m + n) : w[i] = IF i <= m THEN s[i] ELSE u[i - m]
  BY <1>1, ConcatProperties
<1> HIDE DEF w, m, n
<1>3. DOMAIN w = 1..(m + n)
  BY <1>1, <1>2
<1>4. \A i \in 1..m : i \in 1..(m + n) /\ w[i] = s[i]
  BY <1>1, <1>2
<1>5. \A i \in 1..n : i + m \in 1..(m + n) /\ w[i + m] = u[i]
  BY <1>1, <1>2
<1>6. \A i \in 1..(m + n) : \/ i \in 1..m /\ w[i] = s[i]
                            \/ i - m \in 1..n /\ w[i] = u[i - m]
  BY <1>1, <1>2
<1>7. ToSet(w) = ToSet(s) \cup ToSet(u)
  <2>1. ToSet(w) \subseteq ToSet(s) \cup ToSet(u)
    BY <1>1, <1>3, <1>6 DEF ToSet
  <2>2. ToSet(s) \subseteq ToSet(w)
    BY <1>1, <1>3, <1>4 DEF ToSet
  <2>3. ToSet(u) \subseteq ToSet(w)
    <3>1. \A i \in 1..n : u[i] \in ToSet(w)
      BY <1>3, <1>5 DEF ToSet
    <3> QED
      BY <1>1, <3>1 DEF ToSet
  <2> QED
    BY <2>1, <2>2, <2>3
<1>8. IsInjective(w)
  <2> SUFFICES ASSUME NEW i \in 1..(m + n), NEW j \in 1..(m + n), w[i] = w[j] PROVE i = j
    BY <1>3 DEF IsInjective
  <2> QED
    BY <1>1, <1>6
<1> QED
  BY <1>2, <1>7, <1>8 DEF w, Line

LEMMA LineOne ==
    ASSUME NEW e \in Nat
    PROVE  Line(<<e>>) /\ ToSet(<<e>>) = {e}
<1>1. <<e>> \in Seq(Nat) /\ DOMAIN <<e>> = {1} /\ <<e>>[1] = e
  OBVIOUS
<1> QED
  BY <1>1 DEF Line, ToSet, IsInjective

LEMMA LineAppend ==
    ASSUME NEW s, Line(s), NEW e \in Nat, e \notin ToSet(s)
    PROVE  Line(Append(s, e)) /\ ToSet(Append(s, e)) = ToSet(s) \cup {e}
<1>1. Append(s, e) = s \o <<e>>
  BY AppendIs DEF Line
<1>2. Line(<<e>>) /\ ToSet(<<e>>) = {e}
  BY LineOne
<1> DEFINE one == <<e>>
<1>3. Line(one) /\ ToSet(one) = {e} /\ ToSet(s) \cap ToSet(one) = {} /\ Append(s, e) = s \o one
  BY <1>1, <1>2
<1> HIDE DEF one
<1>4. Line(s \o one) /\ ToSet(s \o one) = ToSet(s) \cup ToSet(one)
  BY <1>3, LineConcat
<1> QED
  BY <1>3, <1>4

LEMMA LineTail ==
    ASSUME NEW s, Line(s), s # <<>>
    PROVE  /\ Head(s) \in Nat /\ Head(s) \in ToSet(s)
           /\ Line(Tail(s)) /\ ToSet(Tail(s)) = ToSet(s) \ {Head(s)}
<1> DEFINE w == Tail(s)
           n == Len(s)
<1>1. /\ s \in Seq(Nat) /\ n \in Nat /\ n > 0 /\ DOMAIN s = 1..n
      /\ \A i, j \in 1..n : s[i] = s[j] => i = j
      /\ w \in Seq(Nat) /\ Len(w) = n - 1 /\ \A i \in 1..(n - 1) : w[i] = s[i + 1]
      /\ Head(s) = s[1]
  BY HeadTailProperties DEF Line, IsInjective
<1> HIDE DEF w, n
<1>2. DOMAIN w = 1..(n - 1)
  BY <1>1
<1>3. \A i \in 1..(n - 1) : i + 1 \in 1..n /\ i + 1 # 1 /\ w[i] = s[i + 1]
  BY <1>1
<1>4. \A i \in 1..n : i = 1 \/ (i - 1 \in 1..(n - 1) /\ w[i - 1] = s[i])
  BY <1>1
<1>5. 1 \in 1..n
  BY <1>1
<1>6. ToSet(w) = ToSet(s) \ {s[1]}
  <2>1. \A i \in 1..(n - 1) : w[i] \in ToSet(s) \ {s[1]}
    <3>1. \A i \in 1..(n - 1) : w[i] = s[i + 1] /\ s[i + 1] # s[1]
      BY <1>1, <1>3, <1>5
    <3>2. \A i \in 1..(n - 1) : s[i + 1] \in ToSet(s)
      BY <1>1, <1>3 DEF ToSet
    <3> QED
      BY <3>1, <3>2
  <2>2. \A i \in 1..n : s[i] # s[1] => s[i] \in ToSet(w)
    BY <1>2, <1>4 DEF ToSet
  <2>3. ToSet(w) \subseteq ToSet(s) \ {s[1]}
    BY <1>2, <2>1 DEF ToSet
  <2>4. ToSet(s) \ {s[1]} \subseteq ToSet(w)
    BY <1>1, <2>2 DEF ToSet
  <2> QED
    BY <2>3, <2>4
<1>7. IsInjective(w)
  BY <1>1, <1>2, <1>3 DEF IsInjective
<1>8. s[1] \in Nat /\ s[1] \in ToSet(s)
  BY <1>1, <1>5 DEF ToSet
<1> QED
  BY <1>1, <1>6, <1>7, <1>8 DEF w, Line

LEMMA LineRemove ==
    ASSUME NEW s, Line(s), NEW e
    PROVE  Line(RemoveFirst(s, e)) /\ ToSet(RemoveFirst(s, e)) = ToSet(s) \ {e}
<1>1. s \in Seq(Nat) /\ IsInjective(s) /\ DOMAIN s = 1..Len(s)
  BY DEF Line
<1>2. CASE \E i \in 1..Len(s) : s[i] = e
  <2>1. PICK i \in 1..Len(s) : s[i] = e
    BY <1>2
  <2> DEFINE I == {j \in 1..Len(s) : s[j] = e}
  <2>2. I = {i}
    BY <1>1, <2>1 DEF IsInjective
  <2>3. SelectInSeq(s, LAMBDA v : v = e) = IF I # {} THEN Min(I) ELSE 0
    BY DEF SelectInSeq
  <2>4. Min({i}) = i
    BY DEF Min
  <2>5. SelectInSeq(s, LAMBDA v : v = e) = i
    BY <2>2, <2>3, <2>4
  <2>6. RemoveFirst(s, e) = RemoveAt(s, i)
    BY <1>2, <2>5 DEF RemoveFirst
  <2>7. RemoveAt(s, i) \in Seq(Nat) /\ IsInjective(RemoveAt(s, i)) /\ ToSet(RemoveAt(s, i)) = ToSet(s) \ {s[i]}
    BY <1>1, RemoveAtInjective
  <2> QED
    BY <2>1, <2>6, <2>7 DEF Line
<1>3. CASE ~\E i \in 1..Len(s) : s[i] = e
  <2>1. RemoveFirst(s, e) = s
    BY <1>3 DEF RemoveFirst
  <2>2. e \notin ToSet(s)
    BY <1>1, <1>3 DEF ToSet
  <2> QED
    BY <2>1, <2>2
<1> QED
  BY <1>2, <1>3

\* Who was given a text and has neither sent nor lost it yet.
Prompted == {c \in Callers : Pending(c)}
HeadOf(c) == Head(batch[c])

Waiting ==
    /\ typed \in Nat
    /\ Line(delivered) /\ Line(queued) /\ Line(compactionQueuedMessages) /\ Line(flushing.texts)
    /\ Line(editor) /\ Line(shown)
    /\ ToSet(shown) \subseteq ToSet(queued)

\* A prompt has a text of its own; a typed one has only that.
Batches ==
    /\ DOMAIN batch = Callers
    /\ \A c \in Prompted : HeadOf(c) \in Nat /\ (c = Main => ToSet(batch[c]) = {HeadOf(c)})
    /\ \A c, d \in Prompted : HeadOf(c) = HeadOf(d) => c = d

\* Each text is in one of the sets.
Parts(n, D, Q, C, F, E, P, X) ==
    /\ D \cup Q \cup C \cup F \cup E \cup P \cup X = 1..n
    /\ D \cap (Q \cup C \cup F \cup E \cup P \cup X) = {}
    /\ Q \cap (C \cup F \cup E \cup P \cup X) = {}
    /\ C \cap (F \cup E \cup P \cup X) = {}
    /\ F \cap (E \cup P \cup X) = {}
    /\ E \cap (P \cup X) = {}
    /\ P \cap X = {}

Heads == {HeadOf(c) : c \in Prompted}
Shared == Parts(typed, ToSet(delivered), ToSet(queued), ToSet(compactionQueuedMessages),
                ToSet(flushing.texts), ToSet(editor), Heads, dropped)

TextInv == astray \/ (Waiting /\ Batches /\ Shared)

\* What stands where nothing but the prompts changes.
LEMMA PromptedSame ==
    ASSUME Batches, batch' = batch, Prompted' = Prompted
    PROVE  Batches' /\ Heads' = Heads
<1>1. \A c : HeadOf(c)' = HeadOf(c)
  BY DEF HeadOf
<1> QED
  BY <1>1 DEF Batches, Heads

\* A prompt is sent, or fails.
LEMMA PromptedLess ==
    ASSUME Batches, batch' = batch, NEW t \in Prompted, Prompted' = Prompted \ {t}
    PROVE  Batches' /\ Heads' = Heads \ {HeadOf(t)} /\ HeadOf(t) \in Heads /\ HeadOf(t) \in Nat
<1>1. \A c : HeadOf(c)' = HeadOf(c)
  BY DEF HeadOf
<1>2. Batches'
  BY <1>1 DEF Batches
<1>3. Heads' = Heads \ {HeadOf(t)}
  <2>1. Heads' = {HeadOf(c) : c \in Prompted \ {t}}
    BY <1>1 DEF Heads
  <2>2. \A c \in Prompted \ {t} : HeadOf(c) # HeadOf(t)
    BY DEF Batches
  <2> QED
    BY <2>1, <2>2 DEF Heads
<1> QED
  BY <1>2, <1>3 DEF Batches, Heads

\* The pairs of stages that a step of one task goes through.
Step(t, stage) ==
    /\ t \in Callers =>
          <<task[t].at, stage>> \in {<<"checking", "compacting">>, <<"checking", "sending">>, <<"checking", "running">>,
                                     <<"checking", "free">>, <<"sending", "running">>, <<"sending", "free">>,
                                     <<"returning", "retrying">>, <<"returning", "free">>, <<"compacting", "sending">>}
    /\ t = Command =>
          <<task[t].at, stage>> \in {<<"free", "stopping">>, <<"free", "switching">>, <<"stopping", "summarising">>,
                                     <<"stopping", "free">>, <<"summarising", "free">>, <<"switching", "free">>}

\* Nobody else starts, sends or fails.
LEMMA OthersSame ==
    ASSUME StagesOK, ListensOrNot, NEW u \in Callers, Alike(u)
    PROVE  Pending(u)' = Pending(u) /\ u \notin Starts /\ u \notin Rejects
<1>1. u # retryController
  BY KindsOfTasks DEF ListensOrNot, Fields
<1>2. \/ task'[u].at = task[u].at
      \/ /\ task[u].at \in {"running", "returning", "retrying"}
         /\ task'[u].at \in {"free", "returning", "retrying"}
  BY <1>1 DEF Alike
<1> QED
  BY <1>2 DEF Pending, Starts, Rejects, Enters

\* Nobody's prompt is touched: only the end of a compaction, or a session being
\* opened, moves texts.
LEMMA TextsAside ==
    ASSUME TextInv, flushing = NoFlush, Follow, Starts = {}, Rejects = {}, Prompted' = Prompted,
           ~((CompactionOver \/ Executed) /\ Enters(Command, "switching"))
    PROVE  TextInv'
<1> SUFFICES ASSUME ~astray, Waiting, Batches, Shared PROVE Waiting' /\ Batches' /\ Shared'
  BY DEF TextInv, Follow
<1>1. /\ UNCHANGED <<typed, batch, editor, queued>> /\ delivered' = delivered
      /\ shown' \in {shown, <<>>}
      /\ IF CompactionOver \/ Executed THEN TakeQueue
         ELSE IF Enters(Command, "switching")
              THEN compactionQueuedMessages' = <<>> /\ UNCHANGED flushing
              ELSE UNCHANGED <<compactionQueuedMessages, flushing>>
      /\ dropped' = dropped
             \cup (IF Main \in Rejects THEN ToSet(batch[Main]) ELSE {})
             \cup (IF Enters(Command, "switching") THEN ToSet(compactionQueuedMessages) ELSE {})
  BY DEF Follow
<1>2. Batches' /\ Heads' = Heads
  BY <1>1, PromptedSame
<1>3. flushing.texts = <<>> /\ ToSet(flushing.texts) = {} /\ Line(<<>>) /\ ToSet(<<>>) = {}
  BY LineEmpty DEF NoFlush
<1>4. CASE CompactionOver \/ Executed
  <2>1. TakeQueue /\ dropped' = dropped
    BY <1>1, <1>4
  <2>2. compactionQueuedMessages' = <<>> /\ flushing'.texts = compactionQueuedMessages
    BY <2>1 DEF TakeQueue, NoFlush
  <2>3. Waiting'
    BY <1>1, <1>3, <2>2 DEF Waiting
  <2>4. Shared'
    BY <1>1, <1>2, <1>3, <2>1, <2>2 DEF Shared, Parts
  <2> QED
    BY <1>2, <2>3, <2>4
<1>5. CASE ~(CompactionOver \/ Executed) /\ Enters(Command, "switching")
  <2>1. /\ compactionQueuedMessages' = <<>> /\ flushing' = flushing
        /\ dropped' = dropped \cup ToSet(compactionQueuedMessages)
    BY <1>1, <1>5
  <2>2. Waiting'
    BY <1>1, <1>3, <2>1 DEF Waiting
  <2>3. Shared'
    BY <1>1, <1>2, <1>3, <2>1 DEF Shared, Parts
  <2> QED
    BY <1>2, <2>2, <2>3
<1>6. CASE ~(CompactionOver \/ Executed) /\ ~Enters(Command, "switching")
  <2>1. UNCHANGED <<compactionQueuedMessages, flushing, dropped>>
    BY <1>1, <1>6
  <2>2. Waiting'
    BY <1>1, <1>3, <2>1 DEF Waiting
  <2>3. Shared'
    BY <1>1, <1>2, <2>1 DEF Shared
  <2> QED
    BY <1>2, <2>2, <2>3
<1> QED
  BY <1>4, <1>5, <1>6

\* A prompt becomes a run.
LEMMA TextsStart ==
    ASSUME TextInv, flushing = NoFlush, Follow, NEW t \in Prompted, Starts = {t}, Rejects = {},
           Prompted' = Prompted \ {t}, ~CompactionOver, ~Executed, ~Enters(Command, "switching"),
           ~Leaves(Command, "switching")
    PROVE  TextInv'
<1> SUFFICES ASSUME ~astray, Waiting, Batches, Shared PROVE Waiting' /\ Batches' /\ Shared'
  BY DEF TextInv, Follow
<1>1. /\ UNCHANGED <<typed, batch, editor, queued, shown, compactionQueuedMessages, flushing, dropped>>
      /\ delivered' = Append(delivered, Head(batch[CHOOSE c \in Starts : TRUE]))
  BY DEF Follow
<1>2. (CHOOSE c \in Starts : TRUE) = t
  OBVIOUS
<1>3. delivered' = Append(delivered, HeadOf(t))
  BY <1>1, <1>2 DEF HeadOf
<1>4. Batches' /\ Heads' = Heads \ {HeadOf(t)} /\ HeadOf(t) \in Heads /\ HeadOf(t) \in Nat
  BY <1>1, PromptedLess
<1>5. HeadOf(t) \notin ToSet(delivered) /\ Line(delivered)
  BY <1>4 DEF Shared, Parts, Waiting
<1>6. Line(delivered') /\ ToSet(delivered') = ToSet(delivered) \cup {HeadOf(t)}
  <2> DEFINE e == HeadOf(t)
  <2>1. e \in Nat /\ e \notin ToSet(delivered) /\ Line(delivered) /\ delivered' = Append(delivered, e)
    BY <1>3, <1>4, <1>5
  <2> HIDE DEF e
  <2>2. Line(Append(delivered, e)) /\ ToSet(Append(delivered, e)) = ToSet(delivered) \cup {e}
    BY <2>1, LineAppend
  <2> QED
    BY <2>1, <2>2 DEF e
<1>7. Waiting'
  BY <1>1, <1>6 DEF Waiting
<1>8. Shared'
  <2> DEFINE e == HeadOf(t)
  <2>1. e \in Heads /\ Heads' = Heads \ {e} /\ ToSet(delivered') = ToSet(delivered) \cup {e}
    BY <1>4, <1>6
  <2> HIDE DEF e
  <2> QED
    BY <1>1, <2>1 DEF Shared, Parts
<1> QED
  BY <1>4, <1>7, <1>8

\* A prompt is rejected.
LEMMA TextsReject ==
    ASSUME TextInv, flushing = NoFlush, Follow, NEW t \in Prompted, Starts = {}, Rejects = {t},
           Prompted' = Prompted \ {t}, ~CompactionOver, ~Executed, ~Enters(Command, "switching"),
           ~Leaves(Command, "switching")
    PROVE  TextInv'
<1>1. CASE t # Main
  <2>1. astray'
    BY <1>1 DEF Follow, RestoreQueue
  <2> QED
    BY <2>1 DEF TextInv
<1>2. CASE t = Main
  <2> SUFFICES ASSUME ~astray, Waiting, Batches, Shared PROVE Waiting' /\ Batches' /\ Shared'
    BY <1>2 DEF TextInv, Follow
  <2>1. /\ UNCHANGED <<typed, batch, editor, queued, shown, compactionQueuedMessages, flushing, delivered>>
        /\ dropped' = dropped \cup ToSet(batch[t])
    BY <1>2 DEF Follow
  <2>2. Batches' /\ Heads' = Heads \ {HeadOf(t)} /\ HeadOf(t) \in Heads
    BY <2>1, PromptedLess
  <2>3. ToSet(batch[t]) = {HeadOf(t)}
    BY <1>2 DEF Batches
  <2>4. Waiting'
    BY <2>1 DEF Waiting
  <2>5. Shared'
    <3> DEFINE e == HeadOf(t)
    <3>1. e \in Heads /\ Heads' = Heads \ {e} /\ dropped' = dropped \cup {e}
      BY <2>1, <2>2, <2>3
    <3> HIDE DEF e
    <3> QED
      BY <2>1, <3>1 DEF Shared, Parts
  <2> QED
    BY <2>2, <2>4, <2>5
<1> QED
  BY <1>1, <1>2

LEMMA TextsGo ==
    ASSUME TextInv, StagesOK, ListensOrNot, flushing = NoFlush, Follow,
           NEW t, NEW stage, Goes(t, stage), Step(t, stage)
    PROVE  TextInv'
<1>1. /\ t \in Tasks /\ task'[t].at = stage
      /\ \A u \in Callers \ {t} : Pending(u)' = Pending(u) /\ u \notin Starts /\ u \notin Rejects
  BY OthersSame, KindsOfTasks DEF Goes
<1>2. /\ Starts \subseteq Callers /\ Rejects \subseteq Callers
      /\ t \in Starts <=> t \in Callers /\ task[t].at # "running" /\ stage = "running"
      /\ t \in Rejects <=> t \in Callers /\ task[t].at \in {"checking", "sending"} /\ stage = "free"
      /\ t \in Prompted <=> t \in Callers /\ task[t].at \in {"checking", "sending", "compacting"}
      /\ t \in Prompted' <=> t \in Callers /\ stage \in {"checking", "sending", "compacting"}
  BY <1>1 DEF Starts, Rejects, Enters, Prompted, Pending
<1>3. Prompted' \ {t} = Prompted \ {t}
  BY <1>1 DEF Prompted
<1>4. CASE t \in Callers /\ task[t].at \in {"checking", "sending"} /\ stage \in {"running", "free"}
  <2>1. t \in Prompted /\ t \notin Prompted'
    BY <1>2, <1>4
  <2>2. Prompted' = Prompted \ {t}
    BY <1>3, <2>1
  <2>3. ~CompactionOver /\ ~Executed /\ ~Enters(Command, "switching") /\ ~Leaves(Command, "switching")
    <3>1. ~CompactionOver /\ ~Executed /\ ~Enters(Command, "switching")
      BY <1>4, EventsOfGoing, KindsOfTasks
    <3>2. task'[Command].at = task[Command].at
      BY <1>4, CommandStill, KindsOfTasks
    <3> QED
      BY <3>1, <3>2 DEF Leaves
  <2>4. CASE stage = "running"
    <3>1. Starts = {t} /\ Rejects = {}
      BY <1>1, <1>2, <1>4, <2>4
    <3> QED
      BY <2>1, <2>2, <2>3, <3>1, TextsStart
  <2>5. CASE stage = "free"
    <3>1. Starts = {} /\ Rejects = {t}
      BY <1>1, <1>2, <1>4, <2>5
    <3> QED
      BY <2>1, <2>2, <2>3, <3>1, TextsReject
  <2> QED
    BY <1>4, <2>4, <2>5
<1>5. CASE ~(t \in Callers /\ task[t].at \in {"checking", "sending"} /\ stage \in {"running", "free"})
  <2>1. t \in Callers => /\ stage # "running" /\ ~(task[t].at \in {"checking", "sending"} /\ stage = "free")
                         /\ task[t].at \in {"checking", "sending", "compacting"}
                               <=> stage \in {"checking", "sending", "compacting"}
    BY <1>5 DEF Step
  <2>2. Starts = {} /\ Rejects = {}
    BY <1>1, <1>2, <2>1
  <2>3. t \in Prompted <=> t \in Prompted'
    BY <1>2, <2>1
  <2>4. Prompted' = Prompted
    BY <1>3, <2>3
  <2>5. ~((CompactionOver \/ Executed) /\ Enters(Command, "switching"))
    <3> SUFFICES ASSUME Enters(Command, "switching") PROVE ~CompactionOver /\ ~Executed
      OBVIOUS
    <3>1. t = Command /\ stage = "switching"
      BY EventsOfGoing
    <3>2. task[t].at = "free"
      BY <3>1 DEF Step
    <3> QED
      BY <3>1, <3>2, EventsOfGoing
  <2> QED
    BY <2>2, <2>4, <2>5, TextsAside
<1> QED
  BY <1>4, <1>5

LEMMA TextsStay ==
    ASSUME TextInv, StagesOK, ListensOrNot, flushing = NoFlush, Follow, Stay
    PROVE  TextInv'
<1>1. \A u \in Callers : Pending(u)' = Pending(u) /\ u \notin Starts /\ u \notin Rejects
  BY OthersSame, KindsOfTasks DEF Stay
<1>2. Starts = {} /\ Rejects = {} /\ Prompted' = Prompted
  BY <1>1 DEF Starts, Rejects, Prompted
<1>3. ~Enters(Command, "switching")
  BY EventsOfStaying
<1> QED
  BY <1>2, <1>3, TextsAside

\* A task moves on, and nobody else.
LEMMA TextsMove ==
    ASSUME ModeInv, TextInv, flushing = NoFlush, Follow, NEW t \in Tasks, NEW record, NEW stage,
           record.at = stage, task' = [task EXCEPT ![t] = record], Step(t, stage)
    PROVE  TextInv'
<1>1. StagesOK /\ ListensOrNot /\ DOMAIN task = Tasks
  BY TasksAre
<1>2. Goes(t, stage)
  BY <1>1 DEF Goes, Alike
<1> QED
  BY <1>1, <1>2, TextsGo

LEMMA WaitForRetryTexts ==
    ASSUME ModeInv, TextInv, NEW c \in Callers, Seen(WaitForRetry(c))
    PROVE  TextInv'
<1>1. /\ flushing = NoFlush /\ Follow /\ task[c].at = "returning"
      /\ task' = [task EXCEPT ![c] = IF retryPromise THEN At("retrying") ELSE Free]
  BY DEF Seen, WaitForRetry, Is
<1>2. c \in Tasks /\ c # Command
  BY KindsOfTasks
<1>3. Step(c, "retrying") /\ Step(c, "free")
  BY <1>1, <1>2 DEF Step
<1>4. CASE retryPromise
  BY <1>1, <1>2, <1>3, <1>4, AtIs, TextsMove
<1>5. CASE ~retryPromise
  BY <1>1, <1>2, <1>3, <1>5, AtIs, TextsMove
<1> QED
  BY <1>4, <1>5

LEMMA SentTexts ==
    ASSUME ModeInv, TextInv, flushing = NoFlush, Follow, NEW c \in Callers,
           task[c].at \in {"checking", "sending"}, Run(c) \/ Rejected(c)
    PROVE  TextInv'
<1>1. c \in Tasks /\ c # Command
  BY KindsOfTasks
<1>2. Step(c, "running") /\ Step(c, "free")
  BY <1>1 DEF Step
<1>3. task' = [task EXCEPT ![c] = At("running")] \/ task' = [task EXCEPT ![c] = Free]
  BY DEF Run, Rejected
<1>4. CASE task' = [task EXCEPT ![c] = At("running")]
  BY <1>1, <1>2, <1>4, AtIs, TextsMove
<1>5. CASE task' = [task EXCEPT ![c] = Free]
  BY <1>1, <1>2, <1>5, AtIs, TextsMove
<1> QED
  BY <1>3, <1>4, <1>5

LEMMA CheckBeforePromptTexts ==
    ASSUME ModeInv, TextInv, NEW c \in Callers, Seen(CheckBeforePrompt(c))
    PROVE  TextInv'
<1>1. flushing = NoFlush /\ Follow /\ task[c].at = "checking"
  BY DEF Seen, CheckBeforePrompt, Is
<1>2. c \in Tasks /\ c # Command
  BY KindsOfTasks
<1>3. Step(c, "compacting") /\ Step(c, "sending")
  BY <1>1, <1>2 DEF Step
<1>4. ASSUME NEW willRetry, task' = [task EXCEPT ![c] = Preparation("compacting", willRetry)] PROVE TextInv'
  <2>1. Preparation("compacting", willRetry).at = "compacting"
    BY AtIs
  <2> QED
    BY <1>1, <1>2, <1>3, <1>4, <2>1, TextsMove
<1>5. CASE task' = [task EXCEPT ![c] = At("sending")]
  BY <1>1, <1>2, <1>3, <1>5, AtIs, TextsMove
<1>6. CASE Run(c) \/ Rejected(c)
  BY <1>1, <1>6, SentTexts
<1> QED
  BY <1>4, <1>5, <1>6 DEF Seen, CheckBeforePrompt, StartCompaction

LEMMA EndCompactionTexts ==
    ASSUME ModeInv, TextInv, NEW t \in Callers \cup Handlers, Seen(EndCompaction(t))
    PROVE  TextInv'
<1>1. /\ flushing = NoFlush /\ Follow /\ task[t].at = "compacting"
      /\ \E again \in {TRUE, FALSE, task[t].retry} :
            task' = [task EXCEPT ![t] = IF t \in Callers THEN At("sending")
                                        ELSE IF again THEN At("delayed") ELSE Free]
  BY DEF Seen, EndCompaction, CompactionDone, CompactionFails, Proceed, Is
<1>2. t \in Tasks /\ t # Command
  BY KindsOfTasks
<1>3. CASE t \in Callers
  <2>1. Step(t, "sending") /\ task' = [task EXCEPT ![t] = At("sending")]
    BY <1>1, <1>2, <1>3 DEF Step
  <2> QED
    BY <1>1, <1>2, <2>1, AtIs, TextsMove
<1>4. CASE t \notin Callers
  <2>1. Step(t, "delayed") /\ Step(t, "free")
    BY <1>2, <1>4 DEF Step
  <2>2. task' = [task EXCEPT ![t] = At("delayed")] \/ task' = [task EXCEPT ![t] = Free]
    BY <1>1, <1>4
  <2>3. CASE task' = [task EXCEPT ![t] = At("delayed")]
    BY <1>1, <1>2, <2>1, <2>3, AtIs, TextsMove
  <2>4. CASE task' = [task EXCEPT ![t] = Free]
    BY <1>1, <1>2, <2>1, <2>4, AtIs, TextsMove
  <2> QED
    BY <2>2, <2>3, <2>4
<1> QED
  BY <1>3, <1>4

LEMMA HandlerStepTexts ==
    ASSUME ModeInv, TextInv, NEW h \in Handlers, SeenHandler(h)
    PROVE  TextInv'
<1>1. flushing = NoFlush /\ Follow /\ h \in Tasks /\ \A stage : Step(h, stage)
  BY KindsOfTasks DEF SeenHandler, Seen, Step
<1>2. CASE HandleEnd(h)
  <2>1. StagesOK /\ ListensOrNot /\ DOMAIN task = Tasks
    BY TasksAre
  <2>2. CASE task' = [task EXCEPT ![h] = At("sleeping")]
    BY <1>1, <2>2, AtIs, TextsMove
  <2>3. CASE task' = [Released(task) EXCEPT ![h] = Free]
    <3>1. /\ DOMAIN Released(task) = Tasks
          /\ \A t \in Tasks : Released(task)[t].at = IF task[t].at = "retrying" THEN "free" ELSE task[t].at
      BY ReleasedIs
    <3>2. DOMAIN task' = Tasks /\ task'[h].at = "free"
      BY <1>1, <2>3, <3>1, AtIs
    <3>3. \A u \in Tasks \ {h} : task'[u].at = IF task[u].at = "retrying" THEN "free" ELSE task[u].at
      BY <2>3, <3>1
    <3>4. Goes(h, "free")
      BY <1>1, <2>1, <3>2, <3>3, OnlyCallersWait DEF Goes, Alike
    <3> QED
      BY <1>1, <2>1, <3>4, TextsGo
  <2>4. ASSUME NEW willRetry, task' = [task EXCEPT ![h] = Preparation("compacting", willRetry)] PROVE TextInv'
    BY <1>1, <2>4, AtIs, TextsMove
  <2>5. CASE task' = [task EXCEPT ![h] = Free]
    BY <1>1, <2>5, AtIs, TextsMove
  <2> QED
    BY <1>2, <2>2, <2>3, <2>4, <2>5 DEF HandleEnd, Retry, StartCompaction
<1>3. CASE RetryDelayOver(h)
  <2>1. task' = [task EXCEPT ![h] = At("timer")]
    BY <1>3 DEF RetryDelayOver
  <2> QED
    BY <1>1, <2>1, AtIs, TextsMove
<1>4. CASE Continue(h)
  <2>1. task' = [task EXCEPT ![h] = Free]
    BY <1>4 DEF Continue
  <2> QED
    BY <1>1, <2>1, AtIs, TextsMove
<1>5. CASE EndCompaction(h)
  <2>1. Seen(EndCompaction(h))
    BY <1>5 DEF SeenHandler, Seen
  <2> QED
    BY <2>1, EndCompactionTexts
<1> QED
  BY <1>2, <1>3, <1>4, <1>5 DEF SeenHandler, Seen, HandlerStep

LEMMA CommandStepTexts ==
    ASSUME ModeInv, TextInv, SeenCommand
    PROVE  TextInv'
<1>1. flushing = NoFlush /\ Follow /\ Command \in Tasks /\ Command \notin Callers /\ CommandStep
  BY KindsOfTasks DEF SeenCommand, Seen
<1>2. CASE task[Command].at = "stopping" /\ task' = [task EXCEPT ![Command] = Preparation("summarising", FALSE)]
  <2>1. Step(Command, "summarising")
    BY <1>1, <1>2 DEF Step
  <2>2. Preparation("summarising", FALSE).at = "summarising"
    BY AtIs
  <2> QED
    BY <1>1, <1>2, <2>1, <2>2, TextsMove
<1>3. CASE /\ task[Command].at \in {"stopping", "summarising", "switching"}
           /\ task' = [task EXCEPT ![Command] = Free]
  <2>1. Step(Command, "free")
    BY <1>1, <1>3 DEF Step
  <2> QED
    BY <1>1, <1>3, <2>1, AtIs, TextsMove
<1> QED
  BY <1>1, <1>2, <1>3 DEF CommandStep, BeginSummary, EndSummary, OpenSession, Is

LEMMA AnswerTexts ==
    ASSUME ModeInv, TextInv, NEW kind, Seen(Answer(kind))
    PROVE  TextInv'
<1> DEFINE recovers == connected /\ ~Failed(Dated(kind)) /\ retryAttempt > 0
           resumed == IF recovers THEN Released(task) ELSE task
           returned == [t \in Tasks |-> IF Is(t, "running") THEN At("returning") ELSE resumed[t]]
<1>1. /\ flushing = NoFlush /\ Follow
      /\ \/ task' = resumed \/ task' = returned
         \/ \E h \in Handlers : task' = [returned EXCEPT ![h] = At("emitted")]
  BY DEF Seen, Answer
<1>2. StagesOK /\ ListensOrNot /\ DOMAIN task = Tasks
  BY TasksAre
<1>3. /\ DOMAIN resumed = Tasks
      /\ \A t \in Tasks : resumed[t].at = task[t].at \/ (task[t].at = "retrying" /\ resumed[t].at = "free")
  BY <1>2, ReleasedIs
<1>4. /\ DOMAIN returned = Tasks
      /\ \A t \in Tasks : \/ task[t].at = "running" /\ returned[t].at = "returning"
                          \/ returned[t].at = resumed[t].at
  BY AtIs DEF Is
<1> HIDE DEF recovers, resumed, returned
<1>5. CASE task' = resumed \/ task' = returned
  <2>1. Stay
    BY <1>2, <1>3, <1>4, <1>5, OnlyCallersWait DEF Stay, Alike
  <2> QED
    BY <1>1, <1>2, <2>1, TextsStay
<1>6. ASSUME NEW h \in Handlers, task' = [returned EXCEPT ![h] = At("emitted")] PROVE TextInv'
  <2>1. h \in Tasks /\ h \notin Callers /\ h # Command
    BY KindsOfTasks
  <2>2. DOMAIN task' = Tasks /\ task'[h].at = "emitted" /\ \A u \in Tasks \ {h} : task'[u] = returned[u]
    BY <1>4, <1>6, <2>1, AtIs
  <2>3. Goes(h, "emitted")
    BY <1>2, <1>3, <1>4, <2>1, <2>2, OnlyCallersWait DEF Goes, Alike
  <2>4. Step(h, "emitted")
    BY <2>1 DEF Step
  <2> QED
    BY <1>1, <1>2, <2>3, <2>4, TextsGo
<1> QED
  BY <1>1, <1>5, <1>6

LEMMA AbortRetryTexts ==
    ASSUME ModeInv, TextInv, flushing = NoFlush, AbortRetry, Follow
    PROVE  TextInv'
<1>1. task' = AbortedRetry /\ retryController' = Nobody
  BY DEF AbortRetry, StopRetry
<1>2. StagesOK /\ ListensOrNot /\ DOMAIN task = Tasks
  BY TasksAre
<1>3. /\ DOMAIN task' = Tasks
      /\ \A t \in Tasks : task'[t].at =
            IF t = retryController \/ task[t].at = "retrying" THEN "free" ELSE task[t].at
  BY <1>1, <1>2, AbortedIs
<1>4. Stay
  BY <1>1, <1>2, <1>3, OnlyCallersWait DEF Stay, Alike
<1> QED
  BY <1>2, <1>4, TextsStay

LEMMA QuietTexts ==
    ASSUME ModeInv, TextInv, flushing = NoFlush, Follow, UNCHANGED task
    PROVE  TextInv'
<1>1. StagesOK /\ ListensOrNot /\ DOMAIN task = Tasks
  BY TasksAre
<1>2. Stay
  BY <1>1 DEF Stay, Alike
<1> QED
  BY <1>1, <1>2, TextsStay

\* A command disconnects the session.
LEMMA DisconnectTexts ==
    ASSUME ModeInv, TextInv, flushing = NoFlush, Follow, NEW record,
           record.at \in {"stopping", "switching"}, Disconnect(record)
    PROVE  TextInv'
<1>1. StagesOK /\ ListensOrNot
  BY TasksAre
<1>2. PICK stage \in {"stopping", "switching"} : record.at = stage
  OBVIOUS
<1>3. Is(Command, "free") /\ Goes(Command, stage)
  BY <1>1, <1>2, DisconnectGoes
<1>4. Step(Command, stage)
  BY <1>3, KindsOfTasks DEF Step, Is
<1> QED
  BY <1>1, <1>3, <1>4, TextsGo

-------------------------------------------------------------------------------
(* Steps of the mode itself.                                                  *)

\* A prompt that starts has a text of its own.
LEMMA PromptedMore ==
    ASSUME ModeInv, Batches, NEW c \in Callers, StartPrompt(c),
           NEW new, NEW e \in Nat, batch' = [batch EXCEPT ![c] = new], Head(new) = e, e \notin Heads,
           c = Main => ToSet(new) = {e}
    PROVE  Batches' /\ Heads' = Heads \cup {e}
<1>1. Is(c, "free") /\ task' = [task EXCEPT ![c] = At("checking")] /\ DOMAIN task = Tasks /\ c \in Tasks
  BY TasksAre, KindsOfTasks DEF StartPrompt
<1>2. /\ DOMAIN batch' = Callers /\ batch'[c] = new
      /\ \A d \in Callers \ {c} : batch'[d] = batch[d]
  BY DEF Batches
<1>3. task'[c].at = "checking" /\ \A d \in Callers \ {c} : task'[d] = task[d]
  BY <1>1, AtIs, KindsOfTasks
<1>4. c \notin Prompted /\ Prompted' = Prompted \cup {c}
  BY <1>1, <1>3 DEF Prompted, Pending, Is
<1>5. HeadOf(c)' = e /\ \A d \in Prompted : HeadOf(d)' = HeadOf(d) /\ batch'[d] = batch[d] /\ HeadOf(d) # e
  BY <1>2, <1>4 DEF HeadOf, Prompted, Heads
<1>6. Batches'
  <2>1. \A d \in Prompted' : HeadOf(d)' \in Nat /\ (d = Main => ToSet(batch'[d]) = {HeadOf(d)'})
    BY <1>2, <1>4, <1>5 DEF Batches
  <2>2. \A d, f \in Prompted' : HeadOf(d)' = HeadOf(f)' => d = f
    BY <1>4, <1>5 DEF Batches
  <2> QED
    BY <1>2, <2>1, <2>2 DEF Batches
<1>7. Heads' = Heads \cup {e}
  BY <1>4, <1>5 DEF Heads
<1> QED
  BY <1>6, <1>7

\* No text is beyond those typed.
LEMMA NewText ==
    ASSUME Waiting, Batches, Shared
    PROVE  /\ typed \in Nat /\ typed + 1 \in Nat
           /\ 1..(typed + 1) = (1..typed) \cup {typed + 1}
           /\ typed + 1 \notin ToSet(delivered) \cup ToSet(queued) \cup ToSet(compactionQueuedMessages)
                                  \cup ToSet(flushing.texts) \cup ToSet(editor) \cup Heads \cup dropped
<1>1. typed \in Nat
  BY DEF Waiting
<1>2. typed + 1 \in Nat /\ 1..(typed + 1) = (1..typed) \cup {typed + 1} /\ typed + 1 \notin 1..typed
  BY <1>1
<1> QED
  BY <1>1, <1>2 DEF Shared, Parts

LEMMA EnterTexts ==
    ASSUME ModeInv, TextInv, Enter
    PROVE  TextInv'
<1> SUFFICES ASSUME ~astray, Waiting, Batches, Shared PROVE Waiting' /\ Batches' /\ Shared'
  BY DEF TextInv, Enter
<1> DEFINE text == typed + 1
<1>1. typed' = text /\ UNCHANGED <<flushing, editor, delivered>>
  BY DEF Enter
<1>2. /\ text \in Nat /\ 1..text = (1..typed) \cup {text}
      /\ text \notin ToSet(delivered) \cup ToSet(queued) \cup ToSet(compactionQueuedMessages)
                        \cup ToSet(flushing.texts) \cup ToSet(editor) \cup Heads \cup dropped
  BY NewText
<1>3. Line(queued) /\ Line(shown) /\ Line(compactionQueuedMessages) /\ text \notin ToSet(shown)
  BY <1>2 DEF Waiting
<1>4. Enter
  OBVIOUS
<1>5. /\ \/ /\ compactionQueuedMessages' = Append(compactionQueuedMessages, text)
            /\ UNCHANGED <<sessionVars, batch, queued, shown, dropped>>
         \/ /\ queued' = Append(queued, text) /\ shown' = Append(shown, text)
            /\ UNCHANGED <<sessionVars, batch, compactionQueuedMessages, dropped>>
         \/ /\ Prompt(Main) /\ batch' = [batch EXCEPT ![Main] = <<text>>]
            /\ UNCHANGED <<compactionQueuedMessages, queued, shown, dropped>>
         \/ /\ dropped' = dropped \cup {text}
            /\ UNCHANGED <<sessionVars, batch, compactionQueuedMessages, queued, shown>>
  BY <1>4 DEF Enter
<1> HIDE DEF text
<1>6. UNCHANGED <<sessionVars, batch>> => Batches' /\ Heads' = Heads
  <2>1. UNCHANGED task => Prompted' = Prompted
    BY DEF Prompted, Pending
  <2> QED
    BY <2>1, PromptedSame DEF sessionVars
<1>7. CASE /\ compactionQueuedMessages' = Append(compactionQueuedMessages, text)
          /\ UNCHANGED <<sessionVars, batch, queued, shown, dropped>>
  <2>1. /\ Line(compactionQueuedMessages')
        /\ ToSet(compactionQueuedMessages') = ToSet(compactionQueuedMessages) \cup {text}
    BY <1>2, <1>3, <1>7, LineAppend
  <2>2. Batches' /\ Heads' = Heads
    BY <1>6, <1>7
  <2>3. Waiting'
    BY <1>1, <1>2, <1>7, <2>1 DEF Waiting
  <2>4. Shared'
    BY <1>1, <1>2, <1>7, <2>1, <2>2 DEF Shared, Parts
  <2> QED
    BY <2>2, <2>3, <2>4
<1>8. CASE /\ queued' = Append(queued, text) /\ shown' = Append(shown, text)
          /\ UNCHANGED <<sessionVars, batch, compactionQueuedMessages, dropped>>
  <2>1. Line(queued') /\ ToSet(queued') = ToSet(queued) \cup {text}
    BY <1>2, <1>3, <1>8, LineAppend
  <2>2. Line(shown') /\ ToSet(shown') = ToSet(shown) \cup {text}
    BY <1>2, <1>3, <1>8, LineAppend
  <2>3. Batches' /\ Heads' = Heads
    BY <1>6, <1>8
  <2>4. Waiting'
    BY <1>1, <1>2, <1>8, <2>1, <2>2 DEF Waiting
  <2>5. Shared'
    BY <1>1, <1>2, <1>8, <2>1, <2>3 DEF Shared, Parts
  <2> QED
    BY <2>3, <2>4, <2>5
<1>9. CASE /\ Prompt(Main) /\ batch' = [batch EXCEPT ![Main] = <<text>>]
          /\ UNCHANGED <<compactionQueuedMessages, queued, shown, dropped>>
  <2>1. Main \in Callers /\ StartPrompt(Main)
    BY <1>9, KindsOfTasks DEF Prompt
  <2> DEFINE new == <<text>>
  <2>2. Head(new) = text /\ ToSet(new) = {text} /\ text \in Nat /\ text \notin Heads
    BY <1>2, LineOne
  <2>3. batch' = [batch EXCEPT ![Main] = new]
    BY <1>9
  <2> HIDE DEF new
  <2>4. Batches' /\ Heads' = Heads \cup {text}
    BY <2>1, <2>2, <2>3, PromptedMore
  <2>5. Waiting'
    BY <1>1, <1>2, <1>9 DEF Waiting
  <2>6. Shared'
    BY <1>1, <1>2, <1>9, <2>4 DEF Shared, Parts
  <2> QED
    BY <2>4, <2>5, <2>6
<1>10. CASE /\ dropped' = dropped \cup {text}
           /\ UNCHANGED <<sessionVars, batch, compactionQueuedMessages, queued, shown>>
  <2>1. Batches' /\ Heads' = Heads
    BY <1>6, <1>10
  <2>2. Waiting'
    BY <1>1, <1>2, <1>10 DEF Waiting
  <2>3. Shared'
    BY <1>1, <1>2, <1>10, <2>1 DEF Shared, Parts
  <2> QED
    BY <2>1, <2>2, <2>3
<1> QED
  BY <1>5, <1>7, <1>8, <1>9, <1>10

\* What is queued goes back to the editor.
LEMMA RestoreTexts ==
    ASSUME TextInv, Restore, UNCHANGED task
    PROVE  TextInv'
<1> SUFFICES ASSUME ~astray, Waiting, Batches, Shared PROVE Waiting' /\ Batches' /\ Shared'
  BY DEF TextInv, Restore
<1>1. /\ UNCHANGED <<typed, flushing, batch, delivered>>
      /\ editor' = editor \o (shown \o compactionQueuedMessages)
      /\ queued' = <<>> /\ shown' = <<>> /\ compactionQueuedMessages' = <<>>
      /\ dropped' = dropped \cup (ToSet(queued) \ ToSet(shown))
  BY DEF Restore, AllQueued
<1>2. Prompted' = Prompted
  BY DEF Prompted, Pending
<1>3. Batches' /\ Heads' = Heads
  BY <1>1, <1>2, PromptedSame
<1>4. /\ Line(editor) /\ Line(shown) /\ Line(compactionQueuedMessages) /\ ToSet(shown) \subseteq ToSet(queued)
      /\ ToSet(shown) \cap ToSet(compactionQueuedMessages) = {}
      /\ ToSet(editor) \cap (ToSet(shown) \cup ToSet(compactionQueuedMessages)) = {}
  BY DEF Waiting, Shared, Parts
<1> DEFINE both == shown \o compactionQueuedMessages
<1>5. Line(both) /\ ToSet(both) = ToSet(shown) \cup ToSet(compactionQueuedMessages) /\ editor' = editor \o both
  BY <1>1, <1>4, LineConcat
<1> HIDE DEF both
<1>6. /\ Line(editor')
      /\ ToSet(editor') = ToSet(editor) \cup (ToSet(shown) \cup ToSet(compactionQueuedMessages))
  BY <1>4, <1>5, LineConcat
<1>7. Line(<<>>) /\ ToSet(<<>>) = {}
  BY LineEmpty
<1>8. Waiting'
  BY <1>1, <1>6, <1>7 DEF Waiting
<1>9. Shared'
  BY <1>1, <1>3, <1>4, <1>6, <1>7 DEF Shared, Parts
<1> QED
  BY <1>3, <1>8, <1>9

\* The agent takes what it was given first.
LEMMA PollTexts ==
    ASSUME TextInv, Poll
    PROVE  TextInv'
<1> SUFFICES ASSUME ~astray, connected, Waiting, Batches, Shared PROVE Waiting' /\ Batches' /\ Shared'
  BY DEF TextInv, Poll
<1> DEFINE e == Head(queued)
<1>1. /\ queued # <<>> /\ queued' = Tail(queued) /\ shown' = RemoveFirst(shown, e)
      /\ delivered' = Append(delivered, e)
      /\ UNCHANGED <<task, typed, compactionQueuedMessages, flushing, batch, editor, dropped>>
  BY DEF Poll
<1>2. Prompted' = Prompted
  BY <1>1 DEF Prompted, Pending
<1>3. Batches' /\ Heads' = Heads
  BY <1>1, <1>2, PromptedSame
<1>4. Line(queued) /\ Line(shown) /\ Line(delivered)
  BY DEF Waiting
<1>5. e \in Nat /\ e \in ToSet(queued) /\ Line(queued') /\ ToSet(queued') = ToSet(queued) \ {e}
  BY <1>1, <1>4, LineTail
<1> HIDE DEF e
<1>6. Line(shown') /\ ToSet(shown') = ToSet(shown) \ {e}
  BY <1>1, <1>4, LineRemove
<1>7. e \notin ToSet(delivered)
  BY <1>5 DEF Shared, Parts
<1>8. Line(delivered') /\ ToSet(delivered') = ToSet(delivered) \cup {e}
  BY <1>1, <1>4, <1>5, <1>7, LineAppend
<1>9. Waiting'
  BY <1>1, <1>5, <1>6, <1>8 DEF Waiting
<1>10. Shared'
  BY <1>1, <1>3, <1>5, <1>8 DEF Shared, Parts
<1> QED
  BY <1>3, <1>9, <1>10

\* What waited for the end of a compaction is steered or prompted.
LEMMA FlushTexts ==
    ASSUME ModeInv, TextInv, Flush
    PROVE  TextInv'
<1>0. astray => astray'
  BY DEF Flush, RestoreQueue
<1> SUFFICES ASSUME ~astray, ~astray', Waiting, Batches, Shared PROVE Waiting' /\ Batches' /\ Shared'
  BY <1>0 DEF TextInv
<1> DEFINE f == flushing.texts
<1>1. f # <<>> /\ flushing' = NoFlush /\ UNCHANGED <<typed, editor, delivered>>
  BY DEF Flush
<1>2. /\ Line(f) /\ Line(queued) /\ Line(shown) /\ ToSet(shown) \subseteq ToSet(queued)
      /\ ToSet(queued) \cap ToSet(f) = {} /\ ToSet(f) \cap Heads = {}
  BY DEF Waiting, Shared, Parts
<1>3. flushing'.texts = <<>> /\ Line(<<>>) /\ ToSet(<<>>) = {}
  BY <1>1, LineEmpty DEF NoFlush
<1>4. ToSet(flushing.texts) = ToSet(f)
  OBVIOUS
<1>5. \/ /\ queued' = queued \o f /\ shown' = shown \o f
         /\ UNCHANGED <<vars, batch, compactionQueuedMessages, dropped>>
      \/ \E c \in Callers \ {Main} :
             /\ StartPrompt(c) /\ batch' = [batch EXCEPT ![c] = f]
             /\ queued' = queued \o Tail(f) /\ shown' = shown \o Tail(f)
             /\ UNCHANGED <<compactionQueuedMessages, dropped>>
  BY DEF Flush, RestoreQueue
<1> HIDE DEF f
<1>6. CASE /\ queued' = queued \o f /\ shown' = shown \o f
           /\ UNCHANGED <<vars, batch, compactionQueuedMessages, dropped>>
  <2>1. Line(queued') /\ ToSet(queued') = ToSet(queued) \cup ToSet(f)
    BY <1>2, <1>6, LineConcat
  <2>2. ToSet(shown) \cap ToSet(f) = {}
    BY <1>2
  <2>3. Line(shown') /\ ToSet(shown') = ToSet(shown) \cup ToSet(f)
    BY <1>2, <1>6, <2>2, LineConcat
  <2>4. Prompted' = Prompted
    BY <1>6 DEF Prompted, Pending, vars
  <2>5. Batches' /\ Heads' = Heads
    BY <1>6, <2>4, PromptedSame
  <2>6. Waiting'
    BY <1>1, <1>2, <1>3, <1>6, <2>1, <2>3 DEF Waiting
  <2>7. Shared'
    BY <1>1, <1>3, <1>4, <1>6, <2>1, <2>5 DEF Shared, Parts
  <2> QED
    BY <2>5, <2>6, <2>7
<1>7. ASSUME NEW c \in Callers \ {Main}, StartPrompt(c), batch' = [batch EXCEPT ![c] = f],
             queued' = queued \o Tail(f), shown' = shown \o Tail(f),
             UNCHANGED <<compactionQueuedMessages, dropped>>
      PROVE  Waiting' /\ Batches' /\ Shared'
  <2> DEFINE e == Head(f)
             rest == Tail(f)
  <2>1. e \in Nat /\ e \in ToSet(f) /\ Line(rest) /\ ToSet(rest) = ToSet(f) \ {e}
    BY <1>1, <1>2, LineTail
  <2>2. queued' = queued \o rest /\ shown' = shown \o rest /\ Head(f) = e
    BY <1>7
  <2> HIDE DEF e, rest
  <2>3. e \notin Heads /\ ToSet(queued) \cap ToSet(rest) = {} /\ ToSet(shown) \cap ToSet(rest) = {}
    BY <1>2, <2>1
  <2>4. Batches' /\ Heads' = Heads \cup {e}
    BY <1>7, <2>1, <2>2, <2>3, PromptedMore
  <2>5. Line(queued') /\ ToSet(queued') = ToSet(queued) \cup ToSet(rest)
    BY <1>2, <2>1, <2>2, <2>3, LineConcat
  <2>6. Line(shown') /\ ToSet(shown') = ToSet(shown) \cup ToSet(rest)
    BY <1>2, <2>1, <2>2, <2>3, LineConcat
  <2>7. Waiting'
    BY <1>1, <1>2, <1>3, <1>7, <2>5, <2>6 DEF Waiting
  <2>8. Shared'
    BY <1>1, <1>3, <1>4, <1>7, <2>1, <2>4, <2>5 DEF Shared, Parts
  <2> QED
    BY <2>4, <2>7, <2>8
<1> QED
  BY <1>5, <1>6, <1>7

LEMMA TextsInit == ModeInit => TextInv
<1> SUFFICES ASSUME ModeInit PROVE Waiting /\ Batches /\ Shared
  BY DEF TextInv
<1>1. /\ typed = 0 /\ delivered = <<>> /\ queued = <<>> /\ compactionQueuedMessages = <<>>
      /\ flushing.texts = <<>> /\ editor = <<>> /\ shown = <<>> /\ dropped = {}
      /\ batch = [c \in Callers |-> <<>>] /\ task = [t \in Tasks |-> Free]
  BY DEF ModeInit, Init, NoFlush
<1>2. Line(<<>>) /\ ToSet(<<>>) = {}
  BY LineEmpty
<1>3. Prompted = {}
  BY <1>1, AtIs, KindsOfTasks DEF Prompted, Pending
<1>4. Heads = {}
  BY <1>3 DEF Heads
<1>5. Waiting /\ Batches
  BY <1>1, <1>2, <1>3 DEF Waiting, Batches
<1>6. 1..0 = {}
  OBVIOUS
<1>7. Shared
  BY <1>1, <1>2, <1>4, <1>6 DEF Shared, Parts
<1> QED
  BY <1>5, <1>7

LEMMA TextsStutter ==
    ASSUME TextInv, UNCHANGED <<vars, modeVars>>
    PROVE  TextInv'
<1> SUFFICES ASSUME ~astray, Waiting, Batches, Shared PROVE Waiting' /\ Batches' /\ Shared'
  BY DEF TextInv, modeVars, texts
<1>1. UNCHANGED <<task, typed, delivered, queued, compactionQueuedMessages, flushing, editor, shown,
                  batch, dropped>>
  BY DEF vars, modeVars, texts
<1>2. Prompted' = Prompted
  BY <1>1 DEF Prompted, Pending
<1>3. Batches' /\ Heads' = Heads
  BY <1>1, <1>2, PromptedSame
<1>4. Waiting' /\ Shared'
  BY <1>1, <1>3 DEF Waiting, Shared
<1> QED
  BY <1>3, <1>4

LEMMA TextsStep == ModeInv /\ TextInv /\ [ModeNext]_<<vars, modeVars>> => TextInv'
<1> SUFFICES ASSUME ModeInv, TextInv, [ModeNext]_<<vars, modeVars>> PROVE TextInv'
  OBVIOUS
<1>1. ASSUME NEW c \in Callers, SeenCaller(c) PROVE TextInv'
  <2>1. \/ Seen(CheckBeforePrompt(c)) \/ Seen(Send(c)) \/ Seen(WaitForRetry(c))
        \/ Seen(EndCompaction(c))
    BY <1>1 DEF SeenCaller, Seen, CallerStep
  <2>2. CASE Seen(Send(c))
    BY <2>2, SentTexts DEF Seen, Send, Is
  <2> QED
    BY <2>1, <2>2, CheckBeforePromptTexts, WaitForRetryTexts, EndCompactionTexts
<1>2. ASSUME NEW h \in Handlers, SeenHandler(h) PROVE TextInv'
  BY <1>2, HandlerStepTexts
<1>3. CASE SeenCommand
  BY <1>3, CommandStepTexts
<1>4. CASE AnswerSeen
  BY <1>4, AnswerTexts DEF AnswerSeen
<1>5. CASE Poll
  BY <1>5, PollTexts
<1>6. CASE Flush
  BY <1>6, FlushTexts
<1>7. CASE Enter
  BY <1>7, EnterTexts
<1>8. CASE Dequeue
  BY <1>8, RestoreTexts DEF Dequeue, sessionVars
<1>9. CASE Escape
  <2>1. CASE Interrupt
    BY <2>1, RestoreTexts DEF Interrupt
  <2>2. CASE flushing = NoFlush /\ AbortRetry /\ Follow
    BY <2>2, AbortRetryTexts
  <2>3. CASE flushing = NoFlush /\ AbortCompaction /\ Follow
    BY <2>3, QuietTexts DEF AbortCompaction
  <2> QED
    BY <1>9, <2>1, <2>2, <2>3 DEF Escape
<1>10. CASE Seen(RecordBash)
  BY <1>10, QuietTexts DEF Seen, RecordBash
<1>11. CASE Seen(Compact)
  <2>1. At("stopping").at = "stopping"
    BY AtIs
  <2> QED
    BY <1>11, <2>1, DisconnectTexts DEF Seen, Compact
<1>12. ASSUME NEW s \in Sessions, Seen(Switch(s)) PROVE TextInv'
  <2> DEFINE record == [At("switching") EXCEPT !.of = s]
  <2>1. record.at = "switching"
    BY AtIs
  <2>2. flushing = NoFlush /\ Follow /\ Disconnect(record)
    BY <1>12 DEF Seen, Switch
  <2> HIDE DEF record
  <2> QED
    BY <2>1, <2>2, DisconnectTexts
<1>13. CASE UNCHANGED <<vars, modeVars>>
  BY <1>13, TextsStutter
<1> QED
  BY <1>1, <1>2, <1>3, <1>4, <1>5, <1>6, <1>7, <1>8, <1>9, <1>10, <1>11, <1>12, <1>13 DEF ModeNext, Proceeds

\* Where a line has a text.
PlacesIn(s, text) == {i \in DOMAIN s : s[i] = text}

LEMMA LineSpots ==
    ASSUME NEW s, Line(s), NEW text
    PROVE  /\ text \notin ToSet(s) => PlacesIn(s, text) = {}
           /\ text \in ToSet(s) => \E i : PlacesIn(s, text) = {i}
<1>1. CASE text \notin ToSet(s)
  BY <1>1 DEF ToSet, PlacesIn
<1>2. CASE text \in ToSet(s)
  <2>1. PICK i \in DOMAIN s : s[i] = text
    BY <1>2 DEF ToSet
  <2>2. PlacesIn(s, text) = {i}
    BY <2>1 DEF Line, IsInjective, PlacesIn
  <2> QED
    BY <1>2, <2>2
<1> QED
  BY <1>1, <1>2

Givers(text) == {c \in Callers : Pending(c) /\ Head(batch[c]) = text}

LEMMA SpotsAre ==
    ASSUME NEW text
    PROVE  Spots(text) = ({"context"} \X PlacesIn(delivered, text)) \cup ({"agent"} \X PlacesIn(queued, text))
                         \cup ({"mode"} \X PlacesIn(compactionQueuedMessages, text))
                         \cup ({"flushed"} \X PlacesIn(flushing.texts, text))
                         \cup ({"editor"} \X PlacesIn(editor, text)) \cup ({"prompt"} \X Givers(text))
<1>1. /\ DOMAIN Lines = {"context", "agent", "mode", "flushed", "editor"}
      /\ Lines["context"] = delivered /\ Lines["agent"] = queued /\ Lines["mode"] = compactionQueuedMessages
      /\ Lines["flushed"] = flushing.texts /\ Lines["editor"] = editor
  BY DEF Lines
<1> DEFINE Spot(name) == {name} \X {i \in DOMAIN Lines[name] : Lines[name][i] = text}
<1>2. /\ Spot("context") = {"context"} \X PlacesIn(delivered, text)
      /\ Spot("agent") = {"agent"} \X PlacesIn(queued, text)
      /\ Spot("mode") = {"mode"} \X PlacesIn(compactionQueuedMessages, text)
      /\ Spot("flushed") = {"flushed"} \X PlacesIn(flushing.texts, text)
      /\ Spot("editor") = {"editor"} \X PlacesIn(editor, text)
  BY <1>1 DEF PlacesIn
<1>3. Spots(text) = (UNION {Spot(name) : name \in DOMAIN Lines}) \cup ({"prompt"} \X Givers(text))
  BY DEF Spots, Givers
<1> HIDE DEF Spot
<1>4. (UNION {Spot(name) : name \in DOMAIN Lines}) =
          Spot("context") \cup Spot("agent") \cup Spot("mode") \cup Spot("flushed") \cup Spot("editor")
  BY <1>1
<1>5. Spots(text) = (Spot("context") \cup Spot("agent") \cup Spot("mode") \cup Spot("flushed") \cup Spot("editor"))
                    \cup ({"prompt"} \X Givers(text))
  BY <1>3, <1>4, Zenon
<1> QED
  BY <1>2, <1>5, Zenon

LEMMA GiversAre ==
    ASSUME Batches, NEW text
    PROVE  /\ text \notin Heads => Givers(text) = {}
           /\ text \in Heads => \E c : Givers(text) = {c}
<1>1. Givers(text) = {c \in Prompted : HeadOf(c) = text}
  BY DEF Givers, Prompted, HeadOf
<1>2. CASE text \notin Heads
  BY <1>1, <1>2 DEF Heads
<1>3. CASE text \in Heads
  <2>1. PICK c \in Prompted : HeadOf(c) = text
    BY <1>3 DEF Heads
  <2>2. Givers(text) = {c}
    BY <1>1, <2>1 DEF Batches
  <2> QED
    BY <1>3, <2>2
<1> QED
  BY <1>2, <1>3

\* What TextsKept says of every state.
TextsOnce == astray \/ \A text \in 1..typed : InOnePlace(text)

LEMMA SpotsCounted == TextInv => TextsOnce
<1> SUFFICES ASSUME Waiting, Batches, Shared, NEW text \in 1..typed
             PROVE  Cardinality(Spots(text)) = IF text \in dropped THEN 0 ELSE 1
  BY DEF TextInv, TextsOnce, InOnePlace
<1> DEFINE Cx == PlacesIn(delivered, text)  Ag == PlacesIn(queued, text)
           Mo == PlacesIn(compactionQueuedMessages, text)
           Fl == PlacesIn(flushing.texts, text)  Ed == PlacesIn(editor, text)  Gi == Givers(text)
<1>1. /\ text \notin ToSet(delivered) => Cx = {}
      /\ text \in ToSet(delivered) => \E i : Cx = {i}
  BY LineSpots DEF Waiting
<1>2. /\ text \notin ToSet(queued) => Ag = {}
      /\ text \in ToSet(queued) => \E i : Ag = {i}
  BY LineSpots DEF Waiting
<1>3. /\ text \notin ToSet(compactionQueuedMessages) => Mo = {}
      /\ text \in ToSet(compactionQueuedMessages) => \E i : Mo = {i}
  BY LineSpots DEF Waiting
<1>4. /\ text \notin ToSet(flushing.texts) => Fl = {}
      /\ text \in ToSet(flushing.texts) => \E i : Fl = {i}
  BY LineSpots DEF Waiting
<1>5. /\ text \notin ToSet(editor) => Ed = {}
      /\ text \in ToSet(editor) => \E i : Ed = {i}
  BY LineSpots DEF Waiting
<1>6. /\ text \notin Heads => Gi = {}
      /\ text \in Heads => \E i : Gi = {i}
  BY GiversAre
<1>7. Spots(text) = ({"context"} \X Cx) \cup ({"agent"} \X Ag) \cup ({"mode"} \X Mo)
                    \cup ({"flushed"} \X Fl) \cup ({"editor"} \X Ed) \cup ({"prompt"} \X Gi)
  BY SpotsAre
<1> HIDE DEF Cx, Ag, Mo, Fl, Ed, Gi
<1>8. \/ /\ text \in dropped
         /\ Cx = {} /\ Ag = {} /\ Mo = {} /\ Fl = {} /\ Ed = {} /\ Gi = {}
      \/ /\ text \notin dropped
         /\ \/ (\E i : Cx = {i}) /\ Ag = {} /\ Mo = {} /\ Fl = {} /\ Ed = {} /\ Gi = {}
            \/ (\E i : Ag = {i}) /\ Cx = {} /\ Mo = {} /\ Fl = {} /\ Ed = {} /\ Gi = {}
            \/ (\E i : Mo = {i}) /\ Cx = {} /\ Ag = {} /\ Fl = {} /\ Ed = {} /\ Gi = {}
            \/ (\E i : Fl = {i}) /\ Cx = {} /\ Ag = {} /\ Mo = {} /\ Ed = {} /\ Gi = {}
            \/ (\E i : Ed = {i}) /\ Cx = {} /\ Ag = {} /\ Mo = {} /\ Fl = {} /\ Gi = {}
            \/ (\E i : Gi = {i}) /\ Cx = {} /\ Ag = {} /\ Mo = {} /\ Fl = {} /\ Ed = {}
  BY <1>1, <1>2, <1>3, <1>4, <1>5, <1>6 DEF Shared, Parts
<1>9. text \in dropped => Spots(text) = {}
  BY <1>7, <1>8
<1>10. text \notin dropped => \E p : Spots(text) = {p}
  <2>1. \A name, i : {name} \X {i} = {<<name, i>>} /\ {name} \X {} = {}
    OBVIOUS
  <2>2. ASSUME NEW i, Cx = {i}, Ag = {}, Mo = {}, Fl = {}, Ed = {}, Gi = {} PROVE Spots(text) = {<<"context", i>>}
    BY <1>7, <2>2, <2>1
  <2>3. ASSUME NEW i, Ag = {i}, Cx = {}, Mo = {}, Fl = {}, Ed = {}, Gi = {} PROVE Spots(text) = {<<"agent", i>>}
    BY <1>7, <2>3, <2>1
  <2>4. ASSUME NEW i, Mo = {i}, Cx = {}, Ag = {}, Fl = {}, Ed = {}, Gi = {} PROVE Spots(text) = {<<"mode", i>>}
    BY <1>7, <2>4, <2>1
  <2>5. ASSUME NEW i, Fl = {i}, Cx = {}, Ag = {}, Mo = {}, Ed = {}, Gi = {} PROVE Spots(text) = {<<"flushed", i>>}
    BY <1>7, <2>5, <2>1
  <2>6. ASSUME NEW i, Ed = {i}, Cx = {}, Ag = {}, Mo = {}, Fl = {}, Gi = {} PROVE Spots(text) = {<<"editor", i>>}
    BY <1>7, <2>6, <2>1
  <2>7. ASSUME NEW i, Gi = {i}, Cx = {}, Ag = {}, Mo = {}, Fl = {}, Ed = {} PROVE Spots(text) = {<<"prompt", i>>}
    BY <1>7, <2>7, <2>1
  <2> QED
    BY <1>8, <2>2, <2>3, <2>4, <2>5, <2>6, <2>7
<1> QED
  BY <1>9, <1>10, FS_EmptySet, FS_Singleton

\* Nothing that is typed is lost or sent twice: whatever runs, retries, compactions
\* and commands come in between, each text is in one place, the context, a queue,
\* the editor or a prompt that is about to be sent, unless the code has given it up
\* (interactive-mode.ts:2277-2307 queues it, 4626-4679 takes it back, 4700-4778
\* flushes it).
THEOREM TextsStayOnce == ModeSpec => []TextsOnce
<1>1. ModeInit => ModeInv /\ TextInv
  BY InitIsApart, TextsInit
<1>2. ModeInv /\ TextInv /\ [ModeNext]_<<vars, modeVars>> => ModeInv' /\ TextInv'
  BY ModeStep, TextsStep
<1>3. TextInv => TextsOnce
  BY SpotsCounted
<1> QED
  BY <1>1, <1>2, <1>3, PTL DEF ModeSpec

================================================================================
