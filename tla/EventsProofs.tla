------------------------------ MODULE EventsProofs ------------------------------
(***************************************************************************)
(* The scheduler of events, for every number of files, writes, starts and  *)
(* every length of time: its timers and the directory agree, and no        *)
(* version of a file runs twice.  At the end, the channel of the bot that  *)
(* they wake, for every number of messages, events and failures: what      *)
(* waits in its queue, what its messages show, and what its session knows. *)
(***************************************************************************)
EXTENDS Events, Mom, SequenceLemmas, FiniteSetTheorems, TLAPS

\* A stopped watcher keeps nothing.
AtRest == ~watching => jobs = {} /\ \A c \in DOMAIN reading : reading[c] = 0

\* The two maps name the jobs of their file, timeouts here and cron jobs there.
MapsTrue ==
    \A f \in Files, m \in Timers : scheduled[f][m] # NoJob =>
        scheduled[f][m].name = f /\ (m = "timers") = (scheduled[f][m].event.type = "one-shot")

\* Unless a failed attempt was repeated, a name has one job, which a change of
\* its file will find and cancel, and its file is not being read.
OneJob ==
    \A job \in jobs : job.name \notin retried =>
        /\ job.name \in known /\ job \in Cancelled(job.name) /\ reading[<<job.name, 1>>] = 0
        /\ \A other \in jobs : other.name = job.name => other = job

\* A first attempt is under way at most once.
ReadOnce == \A f \in Files : reading[<<f, 1>>] <= 1

\* A version is what one file holds, or held when its job was made.
VersionsApart ==
    /\ \A f \in Files : file[f] = Absent \/ file[f].version > 0
    /\ \A f, g \in Files : file[f] # Absent /\ file[f].version = file[g].version => f = g
    /\ \A job \in jobs :
           /\ job.event.version \in 1..version /\ job.event.type \in {"one-shot", "periodic"}
           /\ \A f \in Files : job.event.version = file[f].version => job.name = f /\ job.event = file[f]
           /\ \A other \in jobs : other.event.version = job.event.version => other.name = job.name

\* What has run is gone, from the directory and from the timers.
RanIsGone ==
    \A v \in 1..MaxWrites : executed[v] > 0 =>
        /\ v <= version
        /\ retried = {} => /\ executed[v] = 1
                           /\ \A f \in Files : file[f].version # v
                           /\ \A job \in jobs : job.event.version # v

JobsInv == EventsTypeOK /\ AtRest /\ MapsTrue /\ OneJob /\ ReadOnce
EventsInv == JobsInv /\ TimersMatchFiles /\ VersionsApart /\ RanIsGone

-------------------------------------------------------------------------------
(* Types. *)

LEMMA AbsentContents == Absent \in Contents /\ 0 \in Times
BY EventsAssumption DEF Absent, Contents, Times

LEMMA FirstAttempt == 1 \in 1..MaxRetries
BY DEF MaxRetries

LEMMA NoJobs ==
    [f \in Files |-> [m \in Timers |-> NoJob]] \in [Files -> [Timers -> {NoJob} \cup {}]]
OBVIOUS

LEMMA EventsInitInv == EventsInit => EventsInv
<1> SUFFICES ASSUME EventsInit PROVE EventsInv
  OBVIOUS
<1>1. /\ file = [f \in Files |-> Absent] /\ jobs = {} /\ retried = {} /\ watching = FALSE
      /\ reading = [c \in Files \X (1..MaxRetries) |-> 0]
      /\ scheduled = [f \in Files |-> [m \in Timers |-> NoJob]]
      /\ executed = [v \in 1..MaxWrites |-> 0] /\ version = 0 /\ now \in Times
  BY DEF EventsInit
<1>2. EventsTypeOK
  <2>1. file \in [Files -> Contents] /\ \A f \in Files : file[f].mtime <= now /\ file[f].version <= version
    BY <1>1, AbsentContents DEF Absent, Times
  <2>2. reading \in [Files \X (1..MaxRetries) -> Nat] /\ executed \in [1..MaxWrites -> Nat]
    BY <1>1
  <2>3. scheduled \in [Files -> [Timers -> {NoJob} \cup jobs]]
    BY <1>1, NoJobs
  <2>4. starts \in 0..MaxStarts /\ startTime \in Times /\ version \in 0..MaxWrites
    BY AbsentContents, EventsAssumption DEF EventsInit
  <2>5. debounce \subseteq Files /\ known \subseteq Files /\ retried \subseteq Files
    BY DEF EventsInit
  <2> QED
    BY <1>1, <2>1, <2>2, <2>3, <2>4, <2>5 DEF EventsTypeOK
<1>3. AtRest /\ ReadOnce /\ OneJob
  BY <1>1 DEF AtRest, ReadOnce, OneJob, MaxRetries
<1>4. MapsTrue
  BY <1>1 DEF MapsTrue
<1>5. TimersMatchFiles
  BY <1>1, <1>2 DEF TimersMatchFiles, Settled
<1>6. VersionsApart /\ RanIsGone
  BY <1>1 DEF VersionsApart, RanIsGone
<1> QED
  BY <1>2, <1>3, <1>4, <1>5, <1>6 DEF EventsInv, JobsInv

\* Steps that leave the jobs, the maps and the reading of files alone.
LEMMA JobsFrame ==
    ASSUME JobsInv, EventsTypeOK', UNCHANGED <<watching, known, reading, jobs, scheduled, retried>>
    PROVE  JobsInv'
BY DEF JobsInv, AtRest, MapsTrue, OneJob, ReadOnce, Cancelled

\* Versions stay apart when files and jobs go.
LEMMA VersionsFrame ==
    ASSUME EventsTypeOK, VersionsApart, RanIsGone, UNCHANGED <<version, executed>>,
           jobs' \subseteq jobs, retried \subseteq retried',
           \A f \in Files : file'[f] \in {file[f], Absent}
    PROVE  VersionsApart' /\ RanIsGone'
<1>1. Absent.version = 0 /\ \A job \in jobs : job.event.version > 0
  BY DEF Absent, VersionsApart, EventsTypeOK
<1>2. VersionsApart'
  BY <1>1 DEF VersionsApart
<1>3. RanIsGone'
  BY <1>1 DEF RanIsGone
<1> QED
  BY <1>2, <1>3

-------------------------------------------------------------------------------
(* The clock, and those who write and delete files. *)

LEMMA TickInv == ASSUME EventsInv, Tick PROVE EventsInv'
<1>1. UNCHANGED <<file, version, watcher, schedule, history>> /\ now' \in Times /\ now' >= now
  BY EventsAssumption DEF Tick, EventsInv, JobsInv, EventsTypeOK, Times
<1>2. EventsTypeOK'
  <2>1. \A f \in Files : file'[f].mtime <= now' /\ file'[f].version <= version'
    <3>1. now \in Int /\ now' \in Int /\ \A f \in Files : file[f].mtime \in Int
      BY <1>1, EventsAssumption DEF EventsInv, JobsInv, EventsTypeOK, Times, Contents
    <3> QED
      BY <1>1, <3>1 DEF EventsInv, JobsInv, EventsTypeOK
  <2> QED
    BY <1>1, <2>1 DEF watcher, schedule, history, EventsInv, JobsInv, EventsTypeOK
<1>3. JobsInv'
  BY <1>1, <1>2, JobsFrame DEF watcher, schedule, history, EventsInv
<1>4. VersionsApart' /\ RanIsGone'
  BY <1>1, VersionsFrame DEF watcher, schedule, history, EventsInv, JobsInv
<1>5. TimersMatchFiles'
  BY <1>1, <1>2 DEF watcher, schedule, history, EventsInv, TimersMatchFiles, Settled
<1> QED
  BY <1>3, <1>4, <1>5 DEF EventsInv

\* A change is noticed, so the name is not settled.
LEMMA NoticedMatch ==
    ASSUME EventsInv, EventsTypeOK', NEW f \in Files, Notice(f),
           UNCHANGED <<watching, reading, jobs, scheduled, retried>>,
           \A g \in Files \ {f} : file'[g] = file[g]
    PROVE  TimersMatchFiles'
<1>1. \A g \in Files : Settled(g)' => Settled(g) /\ g # f
  BY DEF Settled, Notice
<1> QED
  BY <1>1 DEF EventsInv, JobsInv, TimersMatchFiles, EventsTypeOK

LEMMA WriteInv == ASSUME EventsInv, NEW f \in Files, NEW kind \in Kinds, Write(f, kind) PROVE EventsInv'
<1> DEFINE new == [type |-> kind.type, at |-> kind.at, version |-> version + 1, mtime |-> now]
<1>1. /\ version' = version + 1 /\ version \in 0..MaxWrites /\ version + 1 \in 1..MaxWrites
      /\ UNCHANGED <<now, starts, watching, startTime, known, reading, schedule, history>> /\ Notice(f)
  BY EventsAssumption DEF Write, EventsInv, JobsInv, EventsTypeOK
<1>2. file' = [file EXCEPT ![f] = new]
  BY DEF Write
<1>3. /\ new \in Contents /\ new.version = version + 1 /\ new.mtime = now
      /\ new.type \in {"partial", "immediate", "one-shot", "periodic"}
  <2>1. kind.type \in {"partial", "immediate", "one-shot", "periodic"} /\ kind.at \in Times
    BY EventsAssumption DEF Kinds, Times
  <2>2. now \in Times
    BY DEF EventsInv, JobsInv, EventsTypeOK
  <2> QED
    BY <1>1, <2>1, <2>2 DEF Contents
<1> HIDE DEF new
<1>4. file'[f] = new /\ \A g \in Files \ {f} : file'[g] = file[g]
  BY <1>2 DEF EventsInv, JobsInv, EventsTypeOK
<1>5. EventsTypeOK'
  <2>1. file' \in [Files -> Contents]
    BY <1>2, <1>3 DEF EventsInv, JobsInv, EventsTypeOK
  <2>2. \A g \in Files : file'[g].mtime <= now' /\ file'[g].version <= version'
    <3>1. now \in Int /\ \A g \in Files : file[g].version \in Int
      BY EventsAssumption DEF EventsInv, JobsInv, EventsTypeOK, Times, Contents
    <3> QED
      BY <1>1, <1>3, <1>4, <3>1 DEF EventsInv, JobsInv, EventsTypeOK
  <2>3. debounce' \subseteq Files
    BY <1>1 DEF Notice, EventsInv, JobsInv, EventsTypeOK
  <2> QED
    BY <1>1, <2>1, <2>2, <2>3 DEF schedule, history, EventsInv, JobsInv, EventsTypeOK
<1>6. JobsInv'
  BY <1>1, <1>5, JobsFrame DEF schedule, history, EventsInv
<1>7. TimersMatchFiles'
  BY <1>1, <1>4, <1>5, NoticedMatch DEF schedule, history
<1>8. UNCHANGED <<jobs, executed, retried>>
  BY <1>1 DEF schedule, history
<1>9. VersionsApart'
  <2>1. version \in Int /\ \A g \in Files : file[g].version \in Int /\ file[g].version <= version
    BY EventsAssumption DEF EventsInv, JobsInv, EventsTypeOK, Contents
  <2>2. \A job \in jobs : job.event.version \in 1..version
    BY DEF EventsInv, VersionsApart
  <2>3. \A g \in Files : file'[g] = Absent \/ file'[g].version > 0
    BY <1>1, <1>3, <1>4 DEF EventsInv, VersionsApart
  <2>4. \A g, h \in Files : file'[g] # Absent /\ file'[g].version = file'[h].version => g = h
    BY <1>1, <1>3, <1>4, <2>1 DEF EventsInv, VersionsApart
  <2>5. \A job \in jobs' :
           /\ job.event.version \in 1..version' /\ job.event.type \in {"one-shot", "periodic"}
           /\ \A g \in Files : job.event.version = file'[g].version => job.name = g /\ job.event = file'[g]
           /\ \A other \in jobs' : other.event.version = job.event.version => other.name = job.name
    BY <1>1, <1>3, <1>4, <1>8, <2>1, <2>2 DEF EventsInv, VersionsApart
  <2> QED
    BY <2>3, <2>4, <2>5 DEF VersionsApart
<1>10. RanIsGone'
  BY <1>1, <1>3, <1>4, <1>8 DEF EventsInv, RanIsGone
<1> QED
  BY <1>6, <1>7, <1>9, <1>10 DEF EventsInv

LEMMA DeleteInv == ASSUME EventsInv, NEW f \in Files, Delete(f) PROVE EventsInv'
<1>1. /\ file' = [file EXCEPT ![f] = Absent] /\ Notice(f)
      /\ UNCHANGED <<now, version, starts, watching, startTime, known, reading, schedule, history>>
  BY DEF Delete
<1>2. \A g \in Files : file'[g] = IF g = f THEN Absent ELSE file[g]
  BY <1>1 DEF EventsInv, JobsInv, EventsTypeOK
<1>3. EventsTypeOK'
  <2>1. file' \in [Files -> Contents]
    BY <1>1, AbsentContents DEF EventsInv, JobsInv, EventsTypeOK
  <2>2. \A g \in Files : file'[g].mtime <= now' /\ file'[g].version <= version'
    <3>1. Absent.mtime = 0 /\ Absent.version = 0 /\ 0 <= now /\ 0 <= version
      BY EventsAssumption DEF EventsInv, JobsInv, EventsTypeOK, Times, Absent
    <3> QED
      BY <1>1, <1>2, <3>1 DEF EventsInv, JobsInv, EventsTypeOK
  <2>3. debounce' \subseteq Files
    BY <1>1 DEF Notice, EventsInv, JobsInv, EventsTypeOK
  <2> QED
    BY <1>1, <2>1, <2>2, <2>3 DEF schedule, history, EventsInv, JobsInv, EventsTypeOK
<1>4. JobsInv'
  BY <1>1, <1>3, JobsFrame DEF schedule, history, EventsInv
<1>5. TimersMatchFiles'
  BY <1>1, <1>2, <1>3, NoticedMatch DEF schedule, history
<1>6. VersionsApart' /\ RanIsGone'
  BY <1>1, <1>2, VersionsFrame DEF schedule, history, EventsInv, JobsInv
<1> QED
  BY <1>4, <1>5, <1>6 DEF EventsInv

-------------------------------------------------------------------------------
(* The watcher handles a change. *)

LEMMA CancelProperties ==
    ASSUME JobsInv, NEW f \in Files, Cancel(f)
    PROVE  /\ jobs' \subseteq jobs
           /\ scheduled' \in [Files -> [Timers -> {NoJob} \cup jobs']]
           /\ \A m \in Timers : scheduled'[f][m] = NoJob
           /\ \A g \in Files \ {f} : scheduled'[g] = scheduled[g]
           /\ f \notin retried => \A job \in jobs' : job.name # f
<1>1. /\ jobs' = jobs \ Cancelled(f)
      /\ scheduled' = [scheduled EXCEPT ![f] = [m \in Timers |-> NoJob]]
      /\ scheduled \in [Files -> [Timers -> {NoJob} \cup jobs]]
  BY DEF Cancel, JobsInv, EventsTypeOK
<1>2. /\ \A m \in Timers : scheduled'[f][m] = NoJob
      /\ \A g \in Files \ {f} : scheduled'[g] = scheduled[g]
  BY <1>1
<1>3. ASSUME NEW g \in Files \ {f}, NEW m \in Timers, scheduled[g][m] # NoJob
      PROVE  scheduled[g][m] \notin Cancelled(f)
  <2>1. scheduled[g][m].name = g
    BY <1>3 DEF JobsInv, MapsTrue
  <2>2. \A k \in Timers : scheduled[f][k] # NoJob => scheduled[f][k].name = f
    BY DEF JobsInv, MapsTrue
  <2> QED
    BY <1>3, <2>1, <2>2 DEF Cancelled
<1>4. scheduled' \in [Files -> [Timers -> {NoJob} \cup jobs']]
  <2>1. \A m \in Timers : [k \in Timers |-> NoJob] \in [Timers -> {NoJob} \cup jobs']
    OBVIOUS
  <2>2. ASSUME NEW g \in Files \ {f} PROVE scheduled[g] \in [Timers -> {NoJob} \cup jobs']
    <3>1. scheduled[g] \in [Timers -> {NoJob} \cup jobs]
      BY <1>1
    <3>2. \A m \in Timers : scheduled[g][m] = NoJob \/ scheduled[g][m] \in jobs'
      BY <1>1, <1>3, <3>1
    <3> QED
      BY <3>1, <3>2
  <2>3. [k \in Timers |-> NoJob] \in [Timers -> {NoJob} \cup jobs']
    OBVIOUS
  <2> QED
    BY <1>1, <2>2, <2>3
<1>5. f \notin retried => \A job \in jobs' : job.name # f
  BY <1>1 DEF JobsInv, OneJob
<1> QED
  BY <1>1, <1>2, <1>4, <1>5

LEMMA HandleChangeInv == ASSUME EventsInv, NEW f \in Files, HandleChange(f) PROVE EventsInv'
<1>1. /\ watching /\ f \in debounce /\ reading[<<f, 1>>] = 0 /\ debounce' = debounce \ {f}
      /\ UNCHANGED <<now, file, version, starts, watching, startTime, executed, retried>>
  BY DEF HandleChange, history
<1>2. /\ known' = known \/ known' = known \ {f}
      /\ known' # known => file[f] = Absent
      /\ reading' = IF file[f] = Absent THEN reading ELSE [reading EXCEPT ![<<f, 1>>] = @ + 1]
  BY DEF HandleChange, Reread
<1>3. /\ jobs' \subseteq jobs
      /\ scheduled' \in [Files -> [Timers -> {NoJob} \cup jobs']]
      /\ \A g \in Files, m \in Timers : scheduled'[g][m] = NoJob \/ scheduled'[g][m] = scheduled[g][m]
      /\ \A g \in Files \ {f} : scheduled'[g] = scheduled[g]
      /\ f \notin retried => \A job \in jobs' : job.name # f
  <2>1. CASE f \in known
    BY <2>1, CancelProperties DEF HandleChange, EventsInv
  <2>2. CASE f \notin known
    <3>1. UNCHANGED <<jobs, scheduled>>
      BY <2>2 DEF HandleChange, schedule
    <3> QED
      BY <2>2, <3>1 DEF EventsInv, JobsInv, EventsTypeOK, OneJob
  <2> QED
    BY <2>1, <2>2
<1>4. /\ reading' \in [Files \X (1..MaxRetries) -> Nat]
      /\ reading'[<<f, 1>>] = IF file[f] = Absent THEN 0 ELSE 1
      /\ \A g \in Files \ {f}, n \in 1..MaxRetries : reading'[<<g, n>>] = reading[<<g, n>>]
  <2>1. reading \in [Files \X (1..MaxRetries) -> Nat] /\ 1 \in 1..MaxRetries
    BY DEF EventsInv, JobsInv, EventsTypeOK, MaxRetries
  <2> QED
    BY <1>1, <1>2, <2>1
<1>5. EventsTypeOK'
  <2>1. known' \subseteq Files /\ debounce' \subseteq Files
    BY <1>1, <1>2 DEF EventsInv, JobsInv, EventsTypeOK
  <2> QED
    BY <1>1, <1>3, <1>4, <2>1 DEF EventsInv, JobsInv, EventsTypeOK
<1>6. JobsInv'
  <2>1. AtRest'
    BY <1>1 DEF AtRest
  <2>2. MapsTrue'
    BY <1>3 DEF EventsInv, JobsInv, MapsTrue
  <2>3. OneJob'
    <3> SUFFICES ASSUME NEW job \in jobs', job.name \notin retried'
                 PROVE  /\ job.name \in known' /\ job \in Cancelled(job.name)' /\ reading'[<<job.name, 1>>] = 0
                        /\ \A other \in jobs' : other.name = job.name => other = job
      BY DEF OneJob
    <3>1. job \in jobs /\ job.name \in Files /\ job.name # f /\ job.name \notin retried
      BY <1>1, <1>3 DEF EventsInv, JobsInv, EventsTypeOK
    <3>2. /\ job.name \in known /\ job \in Cancelled(job.name) /\ reading[<<job.name, 1>>] = 0
          /\ \A other \in jobs : other.name = job.name => other = job
      BY <3>1 DEF EventsInv, JobsInv, OneJob
    <3>3. job \in Cancelled(job.name)'
      BY <1>3, <3>1, <3>2 DEF Cancelled
    <3>4. reading'[<<job.name, 1>>] = 0
      BY <1>4, <3>1, <3>2, FirstAttempt
    <3> QED
      BY <1>2, <1>3, <3>1, <3>2, <3>3, <3>4
  <2>4. ReadOnce'
    <3> SUFFICES ASSUME NEW g \in Files PROVE reading'[<<g, 1>>] <= 1
      BY DEF ReadOnce
    <3>1. CASE g = f
      BY <1>4, <3>1
    <3>2. CASE g # f
      BY <1>4, <3>2, FirstAttempt DEF EventsInv, JobsInv, ReadOnce
    <3> QED
      BY <3>1, <3>2
  <2> QED
    BY <1>5, <2>1, <2>2, <2>3, <2>4 DEF JobsInv
<1>7. TimersMatchFiles'
  <2>1. \A g \in Files : Settled(g)' => (file[f] = Absent /\ g = f) \/ (Settled(g) /\ g # f)
    <3> SUFFICES ASSUME NEW g \in Files, Settled(g)'
                 PROVE  (file[f] = Absent /\ g = f) \/ (Settled(g) /\ g # f)
      OBVIOUS
    <3>1. CASE g = f
      BY <1>4, <3>1, FirstAttempt DEF Settled
    <3>2. CASE g # f
      BY <1>1, <1>4, <3>2 DEF Settled
    <3> QED
      BY <3>1, <3>2
  <2>2. \A g \in Files : Settled(g)' /\ file'[g] # Absent => \E m \in Timers : scheduled'[g][m].event = file'[g]
    BY <1>1, <1>3, <2>1 DEF EventsInv, TimersMatchFiles
  <2>3. \A job \in jobs' : Settled(job.name)' /\ job.event # file'[job.name] => job.name \in retried'
    BY <1>1, <1>3, <2>1 DEF EventsInv, JobsInv, EventsTypeOK, TimersMatchFiles
  <2> QED
    BY <1>5, <2>2, <2>3 DEF TimersMatchFiles
<1>8. VersionsApart' /\ RanIsGone'
  BY <1>1, <1>3, VersionsFrame DEF EventsInv, JobsInv
<1> QED
  BY <1>6, <1>7, <1>8 DEF EventsInv

-------------------------------------------------------------------------------
(* An attempt to read a file. *)

LEMMA AttemptReads ==
    ASSUME JobsInv, NEW f \in Files, NEW n \in 1..MaxRetries, Attempt(f, n)
    PROVE  /\ watching /\ UNCHANGED <<now, version, starts, watching, startTime>>
           /\ retried' = IF n > 1 THEN retried \cup {f} ELSE retried
           /\ reading' \in [Files \X (1..MaxRetries) -> Nat]
           /\ \A g \in Files \ {f}, k \in 1..MaxRetries : reading'[<<g, k>>] = reading[<<g, k>>]
           /\ reading'[<<f, 1>>] = IF n = 1 THEN 0 ELSE reading[<<f, 1>>]
           /\ Unreadable(f) /\ n < MaxRetries => \E k \in 1..MaxRetries : reading'[<<f, k>>] > 0
           /\ reading[<<f, n>>] > 0
<1> DEFINE Again == IF Unreadable(f) /\ n < MaxRetries THEN {n + 1} ELSE {}
<1>1. /\ reading \in [Files \X (1..MaxRetries) -> Nat] /\ <<f, n>> \in Files \X (1..MaxRetries)
      /\ n \in 1..3 /\ MaxRetries = 3 /\ 1 \in 1..MaxRetries
  BY DEF JobsInv, EventsTypeOK, MaxRetries
<1>2. /\ reading[<<f, n>>] > 0
      /\ reading' = [c \in DOMAIN reading |->
                        CASE c = <<f, n>> -> reading[c] - 1
                          [] c[1] = f /\ c[2] \in Again -> reading[c] + 1
                          [] OTHER -> reading[c]]
  BY DEF Attempt
<1>3. watching
  BY <1>1, <1>2 DEF JobsInv, AtRest
<1>4. ASSUME NEW g \in Files, NEW k \in 1..MaxRetries
      PROVE  reading'[<<g, k>>] = IF g = f /\ k = n THEN reading[<<g, k>>] - 1
                                  ELSE IF g = f /\ k \in Again THEN reading[<<g, k>>] + 1
                                  ELSE reading[<<g, k>>]
  <2>1. <<g, k>> \in DOMAIN reading /\ <<g, k>>[1] = g /\ <<g, k>>[2] = k
    BY <1>1
  <2> QED
    BY <1>2, <2>1
<1>5. \A k \in Again : k \in 1..MaxRetries /\ k # 1 /\ k # n
  BY <1>1
<1>6. reading' \in [Files \X (1..MaxRetries) -> Nat]
  <2>1. \A c \in Files \X (1..MaxRetries) :
            (CASE c = <<f, n>> -> reading[c] - 1
               [] c[1] = f /\ c[2] \in Again -> reading[c] + 1
               [] OTHER -> reading[c]) \in Nat
    <3> HIDE DEF Again
    <3> QED
      BY <1>1, <1>2
  <2> HIDE DEF Again
  <2> QED
    BY <1>1, <1>2, <2>1
<1>7. \A g \in Files \ {f}, k \in 1..MaxRetries : reading'[<<g, k>>] = reading[<<g, k>>]
  <2> HIDE DEF Again
  <2> QED
    BY <1>4
<1>8. reading'[<<f, 1>>] = IF n = 1 THEN 0 ELSE reading[<<f, 1>>]
  <2>1. CASE n = 1
    <3>1. reading'[<<f, n>>] = reading[<<f, n>>] - 1
      <4> HIDE DEF Again
      <4> QED
        BY <1>4
    <3>2. reading[<<f, 1>>] \in Nat /\ reading[<<f, 1>>] > 0 /\ reading[<<f, 1>>] <= 1
      BY <1>1, <1>2, <2>1 DEF JobsInv, ReadOnce
    <3> QED
      BY <2>1, <3>1, <3>2
  <2>2. CASE n # 1
    <3>1. 1 \notin Again
      BY <1>5
    <3> HIDE DEF Again
    <3> QED
      BY <1>1, <1>4, <2>2, <3>1
  <2> QED
    BY <2>1, <2>2
<1>9. ASSUME Unreadable(f), n < MaxRetries PROVE \E k \in 1..MaxRetries : reading'[<<f, k>>] > 0
  <2>1. n + 1 \in Again /\ n + 1 \in 1..MaxRetries /\ n + 1 # n
    BY <1>1, <1>9
  <2>2. reading'[<<f, n + 1>>] = reading[<<f, n + 1>>] + 1 /\ reading[<<f, n + 1>>] \in Nat
    <3> HIDE DEF Again
    <3> QED
      BY <1>1, <1>4, <2>1
  <2> QED
    BY <2>1, <2>2
<1> QED
  BY <1>2, <1>3, <1>6, <1>7, <1>8, <1>9 DEF Attempt

\* A name that is being read for the first time has no job.
LEMMA FirstHasNoJob ==
    ASSUME JobsInv, NEW f \in Files, f \notin retried, reading[<<f, 1>>] > 0
    PROVE  \A job \in jobs : job.name # f
<1>1. reading[<<f, 1>>] \in Nat
  BY FirstAttempt DEF JobsInv, EventsTypeOK
<1> QED
  BY <1>1 DEF JobsInv, OneJob

\* The file goes; what its name had waiting stays.
LEMMA RemoveInv ==
    ASSUME EventsInv, NEW f \in Files, NEW n \in 1..MaxRetries, Attempt(f, n),
           RemoveFile(f), UNCHANGED schedule, executed' \in [1..MaxWrites -> Nat]
    PROVE  JobsInv' /\ TimersMatchFiles' /\ (executed' = executed => VersionsApart' /\ RanIsGone')
<1>1. /\ watching /\ UNCHANGED <<now, version, starts, watching, startTime>>
      /\ retried' = IF n > 1 THEN retried \cup {f} ELSE retried
      /\ reading' \in [Files \X (1..MaxRetries) -> Nat]
      /\ \A g \in Files \ {f}, k \in 1..MaxRetries : reading'[<<g, k>>] = reading[<<g, k>>]
      /\ reading'[<<f, 1>>] = IF n = 1 THEN 0 ELSE reading[<<f, 1>>]
      /\ reading[<<f, n>>] > 0
  BY AttemptReads DEF EventsInv
<1>2. /\ file' = [file EXCEPT ![f] = Absent] /\ known' = known \ {f}
      /\ debounce' = IF file[f] = Absent THEN debounce ELSE debounce \cup {f}
      /\ UNCHANGED <<jobs, scheduled>>
  BY DEF RemoveFile, schedule
<1>3. \A g \in Files : file'[g] = IF g = f THEN Absent ELSE file[g]
  BY <1>2 DEF EventsInv, JobsInv, EventsTypeOK
<1>4. f \notin retried' => n = 1 /\ f \notin retried /\ \A job \in jobs : job.name # f
  <2>1. n \in Nat /\ n >= 1
    OBVIOUS
  <2>2. f \notin retried' => n = 1 /\ f \notin retried
    BY <1>1, <2>1
  <2> QED
    BY <1>1, <2>2, FirstHasNoJob DEF EventsInv
<1>5. EventsTypeOK'
  <2>1. file' \in [Files -> Contents]
    BY <1>2, AbsentContents DEF EventsInv, JobsInv, EventsTypeOK
  <2>2. \A g \in Files : file'[g].mtime <= now' /\ file'[g].version <= version'
    <3>1. Absent.mtime = 0 /\ Absent.version = 0 /\ 0 <= now /\ 0 <= version
      BY EventsAssumption DEF EventsInv, JobsInv, EventsTypeOK, Times, Absent
    <3> QED
      BY <1>1, <1>3, <3>1 DEF EventsInv, JobsInv, EventsTypeOK
  <2>3. debounce' \subseteq Files /\ known' \subseteq Files /\ retried' \subseteq Files
    BY <1>1, <1>2 DEF EventsInv, JobsInv, EventsTypeOK
  <2> QED
    BY <1>1, <1>2, <2>1, <2>2, <2>3 DEF EventsInv, JobsInv, EventsTypeOK
<1>6. JobsInv'
  <2>1. AtRest' /\ MapsTrue'
    BY <1>1, <1>2 DEF EventsInv, JobsInv, AtRest, MapsTrue
  <2>2. OneJob'
    <3> SUFFICES ASSUME NEW job \in jobs, job.name \notin retried'
                 PROVE  /\ job.name \in known' /\ job \in Cancelled(job.name)' /\ reading'[<<job.name, 1>>] = 0
                        /\ \A other \in jobs' : other.name = job.name => other = job
      BY <1>2 DEF OneJob
    <3>1. job.name \in Files /\ job.name # f /\ job.name \notin retried
      BY <1>1, <1>4 DEF EventsInv, JobsInv, EventsTypeOK
    <3>2. /\ job.name \in known /\ job \in Cancelled(job.name) /\ reading[<<job.name, 1>>] = 0
          /\ \A other \in jobs : other.name = job.name => other = job
      BY <3>1 DEF EventsInv, JobsInv, OneJob
    <3> QED
      BY <1>1, <1>2, <3>1, <3>2, FirstAttempt DEF Cancelled
  <2>3. ReadOnce'
    <3> SUFFICES ASSUME NEW g \in Files PROVE reading'[<<g, 1>>] <= 1
      BY DEF ReadOnce
    <3>1. reading'[<<g, 1>>] \in {0, reading[<<g, 1>>]}
      BY <1>1, FirstAttempt
    <3> QED
      BY <3>1 DEF EventsInv, JobsInv, ReadOnce
  <2> QED
    BY <1>5, <2>1, <2>2, <2>3 DEF JobsInv
<1>7. TimersMatchFiles'
  <2>1. \A g \in Files \ {f} : Settled(g)' => Settled(g)
    BY <1>1, <1>2 DEF Settled
  <2>2. \A g \in Files : Settled(g)' /\ file'[g] # Absent => \E m \in Timers : scheduled'[g][m].event = file'[g]
    BY <1>2, <1>3, <2>1 DEF EventsInv, TimersMatchFiles
  <2>3. ASSUME NEW job \in jobs', Settled(job.name)', job.event # file'[job.name], job.name \notin retried'
        PROVE  FALSE
    <3>1. job \in jobs /\ job.name \in Files /\ job.name # f /\ job.name \notin retried
      BY <1>1, <1>2, <1>4, <2>3 DEF EventsInv, JobsInv, EventsTypeOK
    <3> QED
      BY <1>3, <2>1, <2>3, <3>1 DEF EventsInv, TimersMatchFiles
  <2> QED
    BY <1>5, <2>2, <2>3 DEF TimersMatchFiles
<1>8. ASSUME executed' = executed PROVE VersionsApart' /\ RanIsGone'
  <2>1. retried \subseteq retried'
    BY <1>1
  <2> QED
    BY <1>1, <1>2, <1>3, <1>8, <2>1, VersionsFrame DEF EventsInv, JobsInv
<1> QED
  BY <1>6, <1>7, <1>8

\* One more run of what a version said, which is then gone: RanIsGone holds.
LEMMA RanOnce ==
    ASSUME EventsInv, NEW v \in 1..version,
           executed' \in {executed, [executed EXCEPT ![v] = @ + 1]}, version' = version,
           retried \subseteq retried', jobs' \subseteq jobs,
           \A f \in Files : file'[f] \in {file[f], Absent},
           \/ \E f \in Files : file[f].version = v
           \/ \E job \in jobs : job.event.version = v,
           retried' = {} => \A f \in Files : file'[f].version # v,
           retried' = {} => \A job \in jobs' : job.event.version # v
    PROVE  VersionsApart' /\ RanIsGone'
<1>1. Absent.version = 0 /\ (\A job \in jobs : job.event.version > 0) /\ version \in 0..MaxWrites
  BY DEF Absent, EventsInv, VersionsApart, JobsInv, EventsTypeOK
<1>2. VersionsApart'
  BY <1>1 DEF EventsInv, VersionsApart
<1>3. ASSUME NEW w \in 1..MaxWrites, executed'[w] > 0
      PROVE  /\ w <= version'
             /\ retried' = {} => /\ executed'[w] = 1
                                 /\ \A f \in Files : file'[f].version # w
                                 /\ \A job \in jobs' : job.event.version # w
  <2>1. CASE executed'[w] = executed[w]
    BY <1>1, <1>3, <2>1 DEF EventsInv, RanIsGone
  <2>2. CASE executed'[w] # executed[w]
    <3>1. w = v /\ executed'[w] = executed[w] + 1
      BY <2>2 DEF EventsInv, JobsInv, EventsTypeOK
    <3>2. ASSUME retried' = {} PROVE executed[w] = 0
      <4>1. retried = {}
        BY <3>2
      <4>2. executed[w] \in Nat
        BY DEF EventsInv, JobsInv, EventsTypeOK
      <4> QED
        BY <3>1, <4>1, <4>2 DEF EventsInv, RanIsGone
    <3> QED
      BY <3>1, <3>2
  <2> QED
    BY <2>1, <2>2
<1>4. RanIsGone'
  BY <1>3 DEF RanIsGone
<1> QED
  BY <1>2, <1>4

\* A file that was read makes a job; an earlier one is left when it was read twice.
LEMMA ScheduleInv ==
    ASSUME EventsInv, NEW f \in Files, NEW n \in 1..MaxRetries, Attempt(f, n),
           file[f].type \in {"one-shot", "periodic"}, Schedule(f, file[f]), Know(f),
           UNCHANGED <<file, debounce, executed>>
    PROVE  EventsInv'
<1> DEFINE map == IF file[f].type = "one-shot" THEN "timers" ELSE "crons"
<1>1. /\ watching /\ UNCHANGED <<now, version, starts, watching, startTime>>
      /\ retried' = IF n > 1 THEN retried \cup {f} ELSE retried
      /\ reading' \in [Files \X (1..MaxRetries) -> Nat]
      /\ \A g \in Files \ {f}, k \in 1..MaxRetries : reading'[<<g, k>>] = reading[<<g, k>>]
      /\ reading'[<<f, 1>>] = IF n = 1 THEN 0 ELSE reading[<<f, 1>>]
      /\ reading[<<f, n>>] > 0
  BY AttemptReads DEF EventsInv
<1>2. PICK job : /\ job.name = f /\ job.event = file[f] /\ jobs' = jobs \cup {job}
                 /\ scheduled' = [scheduled EXCEPT ![f][map] = job]
  <2> DEFINE new == [id |-> 1 + Max({0} \cup {j.id : j \in jobs}), name |-> f, event |-> file[f],
                     due |-> IF file[f].type = "one-shot" THEN Due(file[f]) ELSE 0]
  <2>1. jobs' = jobs \cup {new} /\ scheduled' = [scheduled EXCEPT ![f][map] = new]
    BY Zenon DEF Schedule
  <2>2. new.name = f /\ new.event = file[f]
    OBVIOUS
  <2> HIDE DEF new, map
  <2> QED
    BY <2>1, <2>2
<1>3. known' = known \cup {f} /\ map \in Timers
  BY DEF Know, Timers
<1>4. /\ scheduled \in [Files -> [Timers -> {NoJob} \cup jobs]]
      /\ \A g \in Files : file[g] \in Contents
  BY DEF EventsInv, JobsInv, EventsTypeOK
<1>5. /\ scheduled' \in [Files -> [Timers -> {NoJob} \cup jobs']]
      /\ scheduled'[f][map] = job
      /\ \A g \in Files, m \in Timers : scheduled'[g][m] = job \/ scheduled'[g][m] = scheduled[g][m]
      /\ \A g \in Files, m \in Timers : g # f \/ m # map => scheduled'[g][m] = scheduled[g][m]
  <2> HIDE DEF map
  <2>1. scheduled'[f] = [scheduled[f] EXCEPT ![map] = job] /\ \A g \in Files \ {f} : scheduled'[g] = scheduled[g]
    BY <1>2, <1>3, <1>4
  <2>2. /\ scheduled'[f][map] = job /\ \A m \in Timers \ {map} : scheduled'[f][m] = scheduled[f][m]
        /\ scheduled'[f] \in [Timers -> {NoJob} \cup jobs']
    BY <1>2, <1>3, <1>4, <2>1
  <2>3. \A g \in Files \ {f} : scheduled'[g] \in [Timers -> {NoJob} \cup jobs']
    BY <1>2, <1>4, <2>1
  <2>4. DOMAIN scheduled' = Files /\ scheduled' = [g \in Files |-> scheduled'[g]]
    BY <1>2, <1>4
  <2> QED
    BY <2>1, <2>2, <2>3, <2>4
<1>6. f \notin retried' => n = 1 /\ f \notin retried /\ \A other \in jobs : other.name # f
  <2>1. n \in Nat /\ n >= 1
    OBVIOUS
  <2>2. f \notin retried' => n = 1 /\ f \notin retried
    BY <1>1, <2>1
  <2> QED
    BY <1>1, <2>2, FirstHasNoJob DEF EventsInv
<1>7. EventsTypeOK'
  <2>1. known' \subseteq Files /\ retried' \subseteq Files
    BY <1>1, <1>3 DEF EventsInv, JobsInv, EventsTypeOK
  <2>2. \A other \in jobs' : other.name \in Files /\ other.event \in Contents
    BY <1>2, <1>4 DEF EventsInv, JobsInv, EventsTypeOK
  <2> QED
    BY <1>1, <1>5, <2>1, <2>2 DEF EventsInv, JobsInv, EventsTypeOK
<1>8. JobsInv'
  <2>1. AtRest'
    BY <1>1 DEF AtRest
  <2>2. MapsTrue'
    <3> SUFFICES ASSUME NEW g \in Files, NEW m \in Timers, scheduled'[g][m] # NoJob
                 PROVE  scheduled'[g][m].name = g /\ (m = "timers") = (scheduled'[g][m].event.type = "one-shot")
      BY DEF MapsTrue
    <3>1. CASE g = f /\ m = map
      BY <1>2, <1>5, <3>1
    <3>2. CASE g # f \/ m # map
      BY <1>5, <3>2 DEF EventsInv, JobsInv, MapsTrue
    <3> QED
      BY <3>1, <3>2
  <2>3. OneJob'
    <3> SUFFICES ASSUME NEW other \in jobs', other.name \notin retried'
                 PROVE  /\ other.name \in known' /\ other \in Cancelled(other.name)' /\ reading'[<<other.name, 1>>] = 0
                        /\ \A third \in jobs' : third.name = other.name => third = other
      BY DEF OneJob
    <3>1. CASE other.name = f
      <4>1. other = job /\ n = 1 /\ \A third \in jobs : third.name # f
        BY <1>2, <1>6, <3>1
      <4>2. job \in Cancelled(f)'
        BY <1>3, <1>5 DEF Cancelled
      <4> QED
        BY <1>1, <1>2, <1>3, <3>1, <4>1, <4>2
    <3>2. CASE other.name # f
      <4>1. other \in jobs /\ other.name \in Files /\ other.name \notin retried
        BY <1>1, <1>2, <3>2 DEF EventsInv, JobsInv, EventsTypeOK
      <4>2. /\ other.name \in known /\ other \in Cancelled(other.name) /\ reading[<<other.name, 1>>] = 0
            /\ \A third \in jobs : third.name = other.name => third = other
        BY <4>1 DEF EventsInv, JobsInv, OneJob
      <4>3. other \in Cancelled(other.name)'
        BY <1>5, <3>2, <4>1, <4>2 DEF Cancelled
      <4>4. reading'[<<other.name, 1>>] = 0
        BY <1>1, <3>2, <4>1, <4>2, FirstAttempt
      <4> QED
        BY <1>2, <1>3, <3>2, <4>2, <4>3, <4>4
    <3> QED
      BY <3>1, <3>2
  <2>4. ReadOnce'
    <3> SUFFICES ASSUME NEW g \in Files PROVE reading'[<<g, 1>>] <= 1
      BY DEF ReadOnce
    <3>1. reading'[<<g, 1>>] \in {0, reading[<<g, 1>>]}
      BY <1>1, FirstAttempt
    <3> QED
      BY <3>1 DEF EventsInv, JobsInv, ReadOnce
  <2> QED
    BY <1>7, <2>1, <2>2, <2>3, <2>4 DEF JobsInv
<1>9. TimersMatchFiles'
  <2>1. \A g \in Files \ {f} : Settled(g)' => Settled(g)
    BY <1>1 DEF Settled
  <2>2. ASSUME NEW g \in Files, Settled(g)', file'[g] # Absent
        PROVE  \E m \in Timers : scheduled'[g][m].event = file'[g]
    <3>1. CASE g = f
      BY <1>2, <1>3, <1>5, <3>1
    <3>2. CASE g # f
      BY <1>5, <2>1, <2>2, <3>2 DEF EventsInv, TimersMatchFiles
    <3> QED
      BY <3>1, <3>2
  <2>3. ASSUME NEW other \in jobs', Settled(other.name)', other.event # file'[other.name], other.name \notin retried'
        PROVE  FALSE
    <3>1. other \in jobs
      BY <1>2, <2>3
    <3>2. other.name \in Files /\ other.name # f /\ other.name \notin retried
      BY <1>1, <1>6, <2>3, <3>1 DEF EventsInv, JobsInv, EventsTypeOK
    <3> QED
      BY <2>1, <2>3, <3>1, <3>2 DEF EventsInv, TimersMatchFiles
  <2> QED
    BY <1>7, <2>2, <2>3 DEF TimersMatchFiles
<1>10. VersionsApart'
  <2>1. /\ file[f] # Absent /\ file[f].version \in 1..version
    <3>1. file[f] # Absent /\ file[f].version > 0
      BY DEF Absent, EventsInv, VersionsApart
    <3> QED
      BY <1>4, <3>1, EventsAssumption DEF Contents, EventsInv, JobsInv, EventsTypeOK
  <2>2. \A other \in jobs' :
           /\ other.event.version \in 1..version' /\ other.event.type \in {"one-shot", "periodic"}
           /\ \A g \in Files : other.event.version = file'[g].version => other.name = g /\ other.event = file'[g]
    BY <1>1, <1>2, <2>1 DEF EventsInv, VersionsApart
  <2>3. \A other, third \in jobs' : other.event.version = third.event.version => other.name = third.name
    BY <1>2, <2>1 DEF EventsInv, VersionsApart
  <2> QED
    BY <1>1, <2>2, <2>3 DEF EventsInv, VersionsApart
<1>11. RanIsGone'
  <2>1. retried' = {} => retried = {}
    BY <1>1
  <2> QED
    BY <1>1, <1>2, <2>1 DEF EventsInv, RanIsGone
<1> QED
  BY <1>8, <1>9, <1>10, <1>11 DEF EventsInv

LEMMA ExecutedType ==
    ASSUME EventsTypeOK, NEW event, Execute(event)
    PROVE  executed' \in {executed, [executed EXCEPT ![event.version] = @ + 1]} /\ executed' \in [1..MaxWrites -> Nat]
<1>1. executed' \in {executed, [executed EXCEPT ![event.version] = @ + 1]}
  BY DEF Execute
<1>2. executed \in [1..MaxWrites -> Nat]
  BY DEF EventsTypeOK
<1> QED
  BY <1>1, <1>2

LEMMA AttemptInv ==
    ASSUME EventsInv, NEW f \in Files, NEW n \in 1..MaxRetries, Attempt(f, n)
    PROVE  EventsInv'
<1>1. /\ watching /\ UNCHANGED <<now, version, starts, watching, startTime>>
      /\ retried' = IF n > 1 THEN retried \cup {f} ELSE retried
      /\ reading' \in [Files \X (1..MaxRetries) -> Nat]
      /\ \A g \in Files \ {f}, k \in 1..MaxRetries : reading'[<<g, k>>] = reading[<<g, k>>]
      /\ reading'[<<f, 1>>] = IF n = 1 THEN 0 ELSE reading[<<f, 1>>]
      /\ Unreadable(f) /\ n < MaxRetries => \E k \in 1..MaxRetries : reading'[<<f, k>>] > 0
      /\ reading[<<f, n>>] > 0
  BY AttemptReads DEF EventsInv
<1>2. \/ /\ file[f].type \in {"one-shot", "periodic"}
         /\ Schedule(f, file[f]) /\ Know(f) /\ UNCHANGED <<file, debounce, executed>>
      \/ RemoveFile(f) /\ UNCHANGED <<schedule, executed>>
      \/ /\ file[f].type = "immediate"
         /\ Execute(file[f]) /\ RemoveFile(f) /\ UNCHANGED schedule
      \/ /\ Unreadable(f) /\ n < MaxRetries
         /\ UNCHANGED <<file, debounce, known, schedule, executed>>
  BY DEF Attempt
<1>3. CASE file[f].type \in {"one-shot", "periodic"} /\ Schedule(f, file[f]) /\ Know(f)
           /\ UNCHANGED <<file, debounce, executed>>
  BY <1>3, ScheduleInv
<1>4. CASE RemoveFile(f) /\ UNCHANGED <<schedule, executed>>
  BY <1>4, RemoveInv DEF EventsInv, JobsInv, EventsTypeOK
<1>5. CASE file[f].type = "immediate" /\ Execute(file[f]) /\ RemoveFile(f) /\ UNCHANGED schedule
  <2> DEFINE v == file[f].version
  <2>1. JobsInv' /\ TimersMatchFiles'
    BY <1>5, ExecutedType, RemoveInv DEF EventsInv, JobsInv
  <2>2. file[f] # Absent /\ v \in 1..version
    <3>1. file[f] # Absent /\ v > 0
      BY <1>5 DEF Absent, EventsInv, VersionsApart
    <3> QED
      BY <3>1, EventsAssumption DEF Contents, EventsInv, JobsInv, EventsTypeOK
  <2>3. \A g \in Files : file'[g] = IF g = f THEN Absent ELSE file[g]
    BY <1>5 DEF RemoveFile, EventsInv, JobsInv, EventsTypeOK
  <2>4. \A g \in Files : file'[g].version # v
    BY <2>2, <2>3 DEF Absent, EventsInv, VersionsApart
  <2>5. \A job \in jobs : job.event.version # v
    BY <1>5 DEF EventsInv, VersionsApart
  <2>6. /\ executed' \in {executed, [executed EXCEPT ![v] = @ + 1]}
        /\ retried \subseteq retried' /\ jobs' = jobs
    BY <1>1, <1>5, ExecutedType DEF schedule, EventsInv, JobsInv
  <2> HIDE DEF v
  <2>7. \E g \in Files : file[g].version = v
    BY DEF v
  <2>8. VersionsApart' /\ RanIsGone'
    BY <1>1, <2>2, <2>3, <2>4, <2>5, <2>6, <2>7, RanOnce
  <2> QED
    BY <2>1, <2>8 DEF EventsInv
<1>6. CASE Unreadable(f) /\ n < MaxRetries /\ UNCHANGED <<file, debounce, known, schedule, executed>>
  <2>1. UNCHANGED <<jobs, scheduled>> /\ retried \subseteq retried'
    BY <1>1, <1>6 DEF schedule
  <2>2. EventsTypeOK'
    <3>1. retried' \subseteq Files
      BY <1>1 DEF EventsInv, JobsInv, EventsTypeOK
    <3> QED
      BY <1>1, <1>6, <2>1, <3>1 DEF EventsInv, JobsInv, EventsTypeOK
  <2>3. JobsInv'
    <3>1. \A g \in Files : reading'[<<g, 1>>] \in {0, reading[<<g, 1>>]}
      BY <1>1, FirstAttempt
    <3>2. AtRest' /\ MapsTrue' /\ ReadOnce'
      BY <1>1, <2>1, <3>1 DEF EventsInv, JobsInv, AtRest, MapsTrue, ReadOnce
    <3>3. OneJob'
      BY <1>6, <2>1, <3>1 DEF EventsInv, JobsInv, EventsTypeOK, OneJob, Cancelled
    <3> QED
      BY <2>2, <3>2, <3>3 DEF JobsInv
  <2>4. TimersMatchFiles'
    <3>1. \A g \in Files : Settled(g)' => Settled(g) /\ g # f
      <4> SUFFICES ASSUME NEW g \in Files, Settled(g)' PROVE Settled(g) /\ g # f
        OBVIOUS
      <4>1. PICK k \in 1..MaxRetries : reading'[<<f, k>>] > 0
        BY <1>1, <1>6
      <4>2. g # f
        BY <4>1 DEF Settled
      <4> QED
        BY <1>1, <1>6, <4>2 DEF Settled
    <3>2. \A job \in jobs : job.name \in Files
      BY DEF EventsInv, JobsInv, EventsTypeOK
    <3> QED
      BY <1>6, <2>1, <2>2, <3>1, <3>2 DEF EventsInv, TimersMatchFiles
  <2>5. VersionsApart' /\ RanIsGone'
    BY <1>1, <1>6, <2>1, VersionsFrame DEF EventsInv, JobsInv
  <2> QED
    BY <2>3, <2>4, <2>5 DEF EventsInv
<1> QED
  BY <1>2, <1>3, <1>4, <1>5, <1>6

-------------------------------------------------------------------------------
(* A timeout fires; the process starts and stops. *)

LEMMA FireInv == ASSUME EventsInv, NEW job \in jobs, Fire(job) PROVE EventsInv'
<1> DEFINE f == job.name
           v == job.event.version
<1>1. /\ jobs' = jobs \ {job} /\ ForgetTimer(f) /\ RemoveFile(f) /\ Execute(job.event)
      /\ job.event.type = "one-shot"
      /\ UNCHANGED <<now, version, starts, watching, startTime, reading, retried>>
  BY DEF Fire
<1>2. /\ job.name \in Files /\ f \in Files /\ job.event.version \in 1..version
  BY DEF EventsInv, JobsInv, EventsTypeOK, VersionsApart
<1> HIDE DEF f, v
<1>3. /\ file' = [file EXCEPT ![f] = Absent] /\ known' = known \ {f}
      /\ debounce' = IF file[f] = Absent THEN debounce ELSE debounce \cup {f}
  BY <1>1 DEF RemoveFile
<1>4. \A g \in Files : file'[g] = IF g = f THEN Absent ELSE file[g]
  BY <1>3 DEF EventsInv, JobsInv, EventsTypeOK
<1>5. /\ scheduled \in [Files -> [Timers -> {NoJob} \cup jobs]] /\ "timers" \in Timers
      /\ scheduled' = [scheduled EXCEPT ![f]["timers"] = NoJob]
  BY <1>1 DEF ForgetTimer, Timers, EventsInv, JobsInv, EventsTypeOK
<1>6. /\ scheduled'[f] = [scheduled[f] EXCEPT !["timers"] = NoJob]
      /\ \A g \in Files \ {f} : scheduled'[g] = scheduled[g]
      /\ \A g \in Files, m \in Timers : scheduled'[g][m] = NoJob \/ scheduled'[g][m] = scheduled[g][m]
  BY <1>2, <1>5
<1>7. \A g \in Files, m \in Timers : scheduled'[g][m] = NoJob \/ scheduled'[g][m] # job
  <2> SUFFICES ASSUME NEW g \in Files, NEW m \in Timers, scheduled'[g][m] # NoJob, scheduled'[g][m] = job
               PROVE  FALSE
    OBVIOUS
  <2>1. scheduled[g][m] = job /\ scheduled[g][m] # NoJob
    BY <1>6
  <2>2. g = f /\ m = "timers"
    BY <1>1, <2>1 DEF f, EventsInv, JobsInv, MapsTrue
  <2> QED
    BY <1>5, <1>6, <2>2
<1>8. scheduled' \in [Files -> [Timers -> {NoJob} \cup jobs']]
  <2>1. scheduled'[f] \in [Timers -> {NoJob} \cup jobs]
    BY <1>2, <1>5, <1>6
  <2>2. \A g \in Files : scheduled'[g] \in [Timers -> {NoJob} \cup jobs]
    BY <1>5, <1>6, <2>1
  <2>3. \A g \in Files : scheduled'[g] \in [Timers -> {NoJob} \cup jobs']
    <3> SUFFICES ASSUME NEW g \in Files PROVE scheduled'[g] \in [Timers -> {NoJob} \cup jobs']
      OBVIOUS
    <3>1. \A m \in Timers : scheduled'[g][m] \in {NoJob} \cup jobs'
      BY <1>1, <1>7, <2>2
    <3> QED
      BY <2>2, <3>1
  <2>4. scheduled' = [g \in Files |-> scheduled'[g]]
    BY <1>5
  <2> QED
    BY <2>3, <2>4
<1>9. /\ executed' \in {executed, [executed EXCEPT ![v] = @ + 1]}
      /\ executed' \in [1..MaxWrites -> Nat]
  BY <1>1, ExecutedType DEF v, EventsInv, JobsInv
<1>10. f \notin retried => \A other \in jobs' : other.name # f
  BY <1>1 DEF f, EventsInv, JobsInv, OneJob
<1>11. EventsTypeOK'
  <2>1. file' \in [Files -> Contents]
    BY <1>3, AbsentContents DEF EventsInv, JobsInv, EventsTypeOK
  <2>2. \A g \in Files : file'[g].mtime <= now' /\ file'[g].version <= version'
    <3>1. Absent.mtime = 0 /\ Absent.version = 0 /\ 0 <= now /\ 0 <= version
      BY EventsAssumption DEF EventsInv, JobsInv, EventsTypeOK, Times, Absent
    <3> QED
      BY <1>1, <1>4, <3>1 DEF EventsInv, JobsInv, EventsTypeOK
  <2>3. debounce' \subseteq Files /\ known' \subseteq Files
    BY <1>2, <1>3 DEF EventsInv, JobsInv, EventsTypeOK
  <2> QED
    BY <1>1, <1>8, <1>9, <2>1, <2>2, <2>3 DEF EventsInv, JobsInv, EventsTypeOK
<1>12. JobsInv'
  <2>1. AtRest'
    BY <1>1 DEF EventsInv, JobsInv, AtRest
  <2>2. MapsTrue'
    BY <1>6 DEF EventsInv, JobsInv, MapsTrue
  <2>3. OneJob'
    <3> SUFFICES ASSUME NEW other \in jobs', other.name \notin retried'
                 PROVE  /\ other.name \in known' /\ other \in Cancelled(other.name)' /\ reading'[<<other.name, 1>>] = 0
                        /\ \A third \in jobs' : third.name = other.name => third = other
      BY DEF OneJob
    <3>1. other \in jobs /\ other.name \in Files /\ other.name # f /\ other.name \notin retried
      BY <1>1, <1>10 DEF EventsInv, JobsInv, EventsTypeOK
    <3>2. /\ other.name \in known /\ other \in Cancelled(other.name) /\ reading[<<other.name, 1>>] = 0
          /\ \A third \in jobs : third.name = other.name => third = other
      BY <3>1 DEF EventsInv, JobsInv, OneJob
    <3> QED
      BY <1>1, <1>3, <1>6, <3>1, <3>2 DEF Cancelled
  <2>4. ReadOnce'
    BY <1>1 DEF EventsInv, JobsInv, ReadOnce
  <2> QED
    BY <1>11, <2>1, <2>2, <2>3, <2>4 DEF JobsInv
<1>13. TimersMatchFiles'
  <2>1. \A g \in Files : Settled(g)' => Settled(g)
    BY <1>1, <1>3 DEF Settled
  <2>2. \A g \in Files : Settled(g)' /\ file'[g] # Absent => \E m \in Timers : scheduled'[g][m].event = file'[g]
    BY <1>4, <1>6, <2>1 DEF EventsInv, TimersMatchFiles
  <2>3. ASSUME NEW other \in jobs', Settled(other.name)', other.event # file'[other.name], other.name \notin retried'
        PROVE  FALSE
    <3>1. other \in jobs /\ other.name \in Files /\ other.name # f /\ other.name \notin retried
      BY <1>1, <1>10, <2>3 DEF EventsInv, JobsInv, EventsTypeOK
    <3> QED
      BY <1>4, <2>1, <2>3, <3>1 DEF EventsInv, TimersMatchFiles
  <2> QED
    BY <1>11, <2>2, <2>3 DEF TimersMatchFiles
<1>14. VersionsApart' /\ RanIsGone'
  <2>1. \A g \in Files : file'[g].version # v
    <3>1. Absent.version = 0 /\ v \in Int /\ v > 0
      BY <1>2, EventsAssumption DEF v, Absent, EventsInv, JobsInv, EventsTypeOK
    <3>2. \A g \in Files : file[g].version = v => g = f
      BY DEF v, f, EventsInv, VersionsApart
    <3> QED
      BY <1>4, <3>1, <3>2
  <2>2. ASSUME retried' = {} PROVE \A other \in jobs' : other.event.version # v
    <3> SUFFICES ASSUME NEW other \in jobs', other.event.version = v PROVE FALSE
      OBVIOUS
    <3>1. other \in jobs /\ other.name = f
      BY <1>1 DEF v, f, EventsInv, VersionsApart
    <3> QED
      BY <1>1, <1>10, <2>2, <3>1
  <2>3. v \in 1..version /\ (\E other \in jobs : other.event.version = v) /\ jobs' \subseteq jobs
    BY <1>1, <1>2 DEF v
  <2> QED
    BY <1>1, <1>4, <1>9, <2>1, <2>2, <2>3, RanOnce
<1> QED
  BY <1>12, <1>13, <1>14 DEF EventsInv

LEMMA StartInv == ASSUME EventsInv, Start PROVE EventsInv'
<1>1. /\ ~watching /\ watching' = TRUE /\ starts' = starts + 1 /\ starts < MaxStarts /\ startTime' = now
      /\ UNCHANGED <<now, file, version, debounce, known, schedule, history>>
  BY DEF Start
<1>2. UNCHANGED <<jobs, scheduled, executed, retried>>
  BY <1>1 DEF schedule, history
<1>3. reading' = [c \in DOMAIN reading |-> IF c[2] = 1 /\ file[c[1]] # Absent THEN 1 ELSE 0]
  BY DEF Start
<1>4. /\ reading' \in [Files \X (1..MaxRetries) -> Nat]
      /\ \A f \in Files : reading'[<<f, 1>>] = IF file[f] = Absent THEN 0 ELSE 1
  <2>1. reading \in [Files \X (1..MaxRetries) -> Nat]
    BY DEF EventsInv, JobsInv, EventsTypeOK
  <2>2. \A f \in Files : <<f, 1>> \in DOMAIN reading /\ <<f, 1>>[1] = f /\ <<f, 1>>[2] = 1
    BY <2>1, FirstAttempt
  <2>3. \A f \in Files : reading'[<<f, 1>>] = IF file[f] = Absent THEN 0 ELSE 1
    BY <1>3, <2>2
  <2> QED
    BY <1>3, <2>1, <2>3
<1>5. jobs = {} /\ jobs' = {}
  BY <1>1, <1>2 DEF EventsInv, JobsInv, AtRest
<1>6. EventsTypeOK'
  <2>1. starts' \in 0..MaxStarts
    BY <1>1, EventsAssumption DEF EventsInv, JobsInv, EventsTypeOK
  <2> QED
    BY <1>1, <1>2, <1>4, <2>1 DEF EventsInv, JobsInv, EventsTypeOK
<1>7. JobsInv'
  <2>1. AtRest' /\ MapsTrue' /\ OneJob' /\ ReadOnce'
    BY <1>1, <1>2, <1>4, <1>5 DEF EventsInv, JobsInv, AtRest, MapsTrue, OneJob, ReadOnce
  <2> QED
    BY <1>6, <2>1 DEF JobsInv
<1>8. TimersMatchFiles'
  <2>1. ASSUME NEW f \in Files, Settled(f)' PROVE file'[f] = Absent
    <3>1. reading'[<<f, 1>>] = 0
      BY <2>1, FirstAttempt DEF Settled
    <3> QED
      BY <1>1, <1>4, <3>1
  <2> QED
    BY <1>5, <1>6, <2>1 DEF TimersMatchFiles
<1>9. VersionsApart' /\ RanIsGone'
  BY <1>1, <1>2, VersionsFrame DEF EventsInv, JobsInv
<1> QED
  BY <1>7, <1>8, <1>9 DEF EventsInv

LEMMA StopInv == ASSUME EventsInv, Stop PROVE EventsInv'
<1>1. /\ watching' = FALSE /\ debounce' = {} /\ known' = {} /\ jobs' = {}
      /\ reading' = [c \in DOMAIN reading |-> 0]
      /\ scheduled' = [f \in Files |-> [m \in Timers |-> NoJob]]
      /\ UNCHANGED <<now, file, version, starts, startTime, executed, retried>>
  BY DEF Stop, history
<1>2. reading' \in [Files \X (1..MaxRetries) -> Nat] /\ \A c \in DOMAIN reading' : reading'[c] = 0
  BY <1>1 DEF EventsInv, JobsInv, EventsTypeOK
<1>3. EventsTypeOK'
  <2>1. scheduled' \in [Files -> [Timers -> {NoJob} \cup jobs']]
    BY <1>1, NoJobs
  <2> QED
    BY <1>1, <1>2, <2>1 DEF EventsInv, JobsInv, EventsTypeOK
<1>4. JobsInv'
  <2>1. AtRest' /\ OneJob'
    BY <1>1, <1>2 DEF AtRest, OneJob
  <2>2. MapsTrue'
    BY <1>1 DEF MapsTrue
  <2>3. ReadOnce'
    BY <1>2, FirstAttempt DEF ReadOnce
  <2> QED
    BY <1>3, <2>1, <2>2, <2>3 DEF JobsInv
<1>5. TimersMatchFiles'
  BY <1>1, <1>3 DEF TimersMatchFiles, Settled
<1>6. VersionsApart' /\ RanIsGone'
  BY <1>1, VersionsFrame DEF EventsInv, JobsInv
<1> QED
  BY <1>4, <1>5, <1>6 DEF EventsInv

-------------------------------------------------------------------------------

LEMMA EventsNextInv == EventsInv /\ [EventsNext]_eventsVars => EventsInv'
<1> SUFFICES ASSUME EventsInv, [EventsNext]_eventsVars PROVE EventsInv'
  OBVIOUS
<1>1. CASE EventsNext
  BY <1>1, TickInv, StartInv, StopInv, DeleteInv, HandleChangeInv, WriteInv, AttemptInv, FireInv
  DEF EventsNext
<1>2. CASE UNCHANGED eventsVars
  <2>1. UNCHANGED <<now, file, version, starts, watching, startTime, debounce, known, reading, jobs,
                    scheduled, executed, retried>>
    BY <1>2 DEF eventsVars, watcher, schedule, history
  <2>2. EventsTypeOK'
    BY <2>1 DEF EventsInv, JobsInv, EventsTypeOK
  <2>3. JobsInv'
    BY <2>1, <2>2, JobsFrame DEF EventsInv
  <2>4. TimersMatchFiles'
    BY <2>1, <2>2 DEF EventsInv, TimersMatchFiles, Settled
  <2>5. VersionsApart' /\ RanIsGone'
    BY <2>1, VersionsFrame DEF EventsInv, JobsInv
  <2> QED
    BY <2>3, <2>4, <2>5 DEF EventsInv
<1> QED
  BY <1>1, <1>2

\* The inductive invariant: maps, jobs and reads belong together, and versions
\* are told apart.
THEOREM EventsInvariant == EventsSpec => []EventsInv
<1>1. EventsInit => EventsInv
  BY EventsInitInv
<1>2. EventsInv /\ [EventsNext]_eventsVars => EventsInv'
  BY EventsNextInv
<1> QED
  BY <1>1, <1>2, PTL DEF EventsSpec

\* In whatever order files are written and deleted, changes are noticed, reads
\* fail and timers fire: a name that is settled has the job of its file, and
\* only that one unless a failed attempt was repeated.
THEOREM TimersAlwaysMatch == EventsSpec => []TimersMatchFiles
<1>1. EventsInv => TimersMatchFiles
  BY DEF EventsInv
<1> QED
  BY <1>1, EventsInvariant, PTL

\* No version of a file runs twice, across changes, deletions and restarts.
THEOREM VersionsRunOnce == EventsSpec => [](\A v \in 1..MaxWrites : RunsOnce(v))
<1>1. EventsInv => \A v \in 1..MaxWrites : RunsOnce(v)
  <2> SUFFICES ASSUME EventsInv, NEW v \in 1..MaxWrites, executed[v] > 1, retried = {} PROVE FALSE
    BY DEF RunsOnce
  <2>1. executed[v] \in Nat
    BY DEF EventsInv, JobsInv, EventsTypeOK
  <2> QED
    BY <2>1 DEF EventsInv, RanIsGone
<1> QED
  BY <1>1, EventsInvariant, PTL

\* An immediate event of before the start is removed without being run, and
\* nothing else runs its version.
LEMMA StaleStep ==
    ASSUME EventsInv, [EventsNext]_eventsVars, NEW f \in Files,
           file[f].type = "immediate", Stale(file[f])
    PROVE  executed'[file[f].version] = executed[file[f].version]
<1> DEFINE v == file[f].version
<1>1. file[f] # Absent /\ \A g \in Files : file[g].version = v => g = f
  BY DEF Absent, EventsInv, VersionsApart
<1>2. executed \in [1..MaxWrites -> Nat] /\ EventsTypeOK /\ v \in 1..MaxWrites
  <2>1. executed \in [1..MaxWrites -> Nat] /\ EventsTypeOK /\ file[f].version \in 0..MaxWrites
    BY DEF EventsInv, JobsInv, EventsTypeOK, Contents
  <2>2. file[f].version > 0
    BY <1>1 DEF EventsInv, VersionsApart
  <2> QED
    BY <2>1, <2>2, EventsAssumption
<1>3. CASE UNCHANGED executed
  BY <1>3
<1>4. ASSUME NEW g \in Files, NEW n \in 1..MaxRetries, Attempt(g, n) PROVE executed'[v] = executed[v]
  <2>1. UNCHANGED executed \/ (Execute(file[g]) /\ file[g].type = "immediate" /\ ~Stale(file[g]))
    BY <1>4 DEF Attempt
  <2>2. CASE Execute(file[g]) /\ ~Stale(file[g])
    <3>1. g # f
      BY <2>2
    <3>2. file[g].version # v
      BY <1>1, <3>1
    <3> QED
      BY <1>2, <2>2, <3>2, ExecutedType
  <2> QED
    BY <2>1, <2>2
<1>5. ASSUME NEW job \in jobs, Fire(job) PROVE executed'[v] = executed[v]
  <2>1. job.event.type = "one-shot" /\ Execute(job.event)
    BY <1>5 DEF Fire
  <2>2. job.event.version # v
    BY <2>1 DEF EventsInv, VersionsApart
  <2> QED
    BY <1>2, <2>1, <2>2, ExecutedType
<1>6. \/ UNCHANGED executed
      \/ \E g \in Files, n \in 1..MaxRetries : Attempt(g, n)
      \/ \E job \in jobs : Fire(job)
  BY DEF EventsNext, eventsVars, history, Tick, Start, Stop, Delete, HandleChange, Write
<1> QED
  BY <1>3, <1>4, <1>5, <1>6

\* What was written while the bot was away is not run when it is back.
THEOREM StaleStaysDropped == EventsSpec => StaleDropped
<1>1. ASSUME EventsInv, [EventsNext]_eventsVars
      PROVE  [\A f \in Files : file[f].type = "immediate" /\ file[f].mtime < startTime
                => \A v \in {file[f].version} : executed'[v] = executed[v]]_eventsVars
  BY <1>1, StaleStep DEF Stale
<1> QED
  BY <1>1, EventsInvariant, PTL DEF EventsSpec, StaleDropped

-------------------------------------------------------------------------------
(* One channel of the bot, for every number of messages, events, texts and    *)
(* faults: its queue, and the indicator of each message.                      *)

Stages == {"none", "typing", "working", "mkdir", "ready", "prompting", "draining", "finishing", "stopped"}
Results == {"none", "ok", "silent", "overflow", "aborted"}

\* The flag that was tested before a user's message was queued is the one that
\* says whether it will have to wait.
QueueOK ==
    /\ queue \in Seq(Events) /\ processing \in BOOLEAN /\ running = processing
    /\ queue # <<>> => processing

WorkOK ==
    /\ work \in [item : Items \cup {Nothing}, at : Stages, result : Results]
    /\ IF processing THEN work.item \in Items ELSE work = Idle

\* A run whose stop is still to be reported has taken its indicator away.
IndicatorsOK ==
    /\ shown \in [Items -> {"none", "working", "done", "deleted"}]
    /\ IndicatorGone
    /\ IsAt("stopped") => shown[work.item] # "working"

ArrivalsOK ==
    /\ sent \in Seq(Texts) /\ Len(sent) <= MaxSent /\ missed \subseteq Messages
    /\ events \in 0..MaxEvents

MomInv == QueueOK /\ WorkOK /\ IndicatorsOK /\ ArrivalsOK

LEMMA ItemKinds ==
    /\ MaxSent \in Nat /\ MaxEvents \in Nat
    /\ Messages \subseteq Items /\ Events \subseteq Items /\ Nothing \notin Items
BY MomAssumption DEF Messages, Events, Items, Nothing

LEMMA MomInitInv == MomInit => MomInv
<1> SUFFICES ASSUME MomInit PROVE MomInv
  OBVIOUS
<1>1. /\ sent = <<>> /\ missed = {} /\ shown = [i \in Items |-> "none"] /\ queue = <<>>
      /\ processing = FALSE /\ running = FALSE /\ work = Idle /\ events = 0
  BY DEF MomInit
<1>2. QueueOK
  <2>1. <<>> \in Seq(Events)
    OBVIOUS
  <2> QED
    BY <1>1, <2>1 DEF QueueOK
<1>3. WorkOK /\ ~IsAt("stopped")
  BY <1>1 DEF WorkOK, IsAt, Idle, Stages, Results
<1>4. IndicatorsOK
  BY <1>1, <1>3 DEF IndicatorsOK, IndicatorGone
<1>5. ArrivalsOK
  <2>1. Len(<<>>) = 0 /\ <<>> \in Seq(Texts)
    OBVIOUS
  <2> QED
    BY <1>1, <2>1, ItemKinds DEF ArrivalsOK
<1> QED
  BY <1>2, <1>3, <1>4, <1>5 DEF MomInv

\* Work begins when the item before it shows no indicator any more, or was spoilt.
LEMMA WorkBegins ==
    ASSUME NEW item \in Items, NEW waiting \in Seq(Events), Begin(item, waiting), WorkOK,
           shown' \in [Items -> {"none", "working", "done", "deleted"}],
           \A i \in Items : shown'[i] = "working" => i \in spoilt'
    PROVE  QueueOK' /\ WorkOK' /\ IndicatorsOK'
<1>1. QueueOK'
  BY DEF Begin, QueueOK
<1>2. WorkOK'
  BY DEF Begin, WorkOK, Stages, Results
<1>3. ~IsAt("stopped")'
  BY DEF Begin, IsAt
<1>4. IndicatorsOK'
  BY <1>3 DEF IndicatorsOK, IndicatorGone
<1> QED
  BY <1>1, <1>2, <1>4

\* A user's message is given to an idle channel, an event to any.
LEMMA EnqueueKeeps ==
    ASSUME QueueOK, WorkOK, IndicatorsOK, NEW item \in Items, item \in Events \/ ~running, Enqueue(item),
           UNCHANGED <<shown, spoilt>>
    PROVE  QueueOK' /\ WorkOK' /\ IndicatorsOK'
<1>1. CASE ~processing /\ Begin(item, queue)
  <2>1. work.item = Nothing
    BY <1>1 DEF WorkOK, Idle
  <2>2. \A i \in Items : shown'[i] = "working" => i \in spoilt'
    BY <2>1, ItemKinds DEF IndicatorsOK, IndicatorGone
  <2>3. shown' \in [Items -> {"none", "working", "done", "deleted"}] /\ queue \in Seq(Events)
    BY DEF IndicatorsOK, QueueOK
  <2> QED
    BY <1>1, <2>2, <2>3, WorkBegins
<1>2. CASE /\ processing
           /\ queue' = Append(queue, item)
           /\ UNCHANGED <<processing, running, stopRequested, work, broken, outbox>>
  <2>1. item \in Events
    BY <1>2 DEF QueueOK
  <2>2. QueueOK'
    BY <1>2, <2>1, AppendProperties DEF QueueOK
  <2>3. WorkOK' /\ IndicatorsOK'
    BY <1>2 DEF WorkOK, IndicatorsOK, IndicatorGone, IsAt
  <2> QED
    BY <2>2, <2>3
<1> QED
  BY <1>1, <1>2 DEF Enqueue

\* Work that is over leaves no indicator, unless it was spoilt.
LEMMA EndWorkKeeps ==
    ASSUME QueueOK, WorkOK, IndicatorsOK, processing, EndWork,
           shown' \in [Items -> {"none", "working", "done", "deleted"}],
           \A i \in Items \ {work.item} : shown'[i] = "working" => shown[i] = "working",
           spoilt \subseteq spoilt',
           shown'[work.item] = "working" => work.item \in spoilt'
    PROVE  QueueOK' /\ WorkOK' /\ IndicatorsOK'
<1>1. \A i \in Items : shown'[i] = "working" => i \in spoilt'
  BY DEF IndicatorsOK, IndicatorGone
<1>2. CASE queue # <<>> /\ Begin(Head(queue), Tail(queue))
  <2>1. Head(queue) \in Items /\ Tail(queue) \in Seq(Events)
    BY <1>2, ItemKinds, HeadTailProperties DEF QueueOK
  <2> QED
    BY <1>1, <1>2, <2>1, WorkBegins
<1>3. CASE /\ queue = <<>> /\ processing' = FALSE /\ running' = FALSE /\ work' = Idle
           /\ UNCHANGED <<queue, stopRequested, broken, outbox>>
  <2>1. QueueOK'
    BY <1>3 DEF QueueOK
  <2>2. WorkOK' /\ ~IsAt("stopped")'
    BY <1>3 DEF WorkOK, Idle, IsAt, Stages, Results
  <2>3. IndicatorsOK'
    BY <1>1, <2>2 DEF IndicatorsOK, IndicatorGone
  <2> QED
    BY <2>1, <2>2, <2>3
<1> QED
  BY <1>2, <1>3 DEF EndWork

\* The handlers of messages, and the queue that events enter.
LEMMA ReceiveKeeps ==
    ASSUME QueueOK, WorkOK, IndicatorsOK, NEW ts \in Messages, NEW text, Receive(ts, text),
           UNCHANGED <<shown, spoilt>>
    PROVE  QueueOK' /\ WorkOK' /\ IndicatorsOK'
<1>1. CASE UNCHANGED queued
  BY <1>1 DEF queued, QueueOK, WorkOK, IndicatorsOK, IndicatorGone, IsAt
<1>2. CASE Enqueue(ts) /\ ~running
  BY <1>2, ItemKinds, EnqueueKeeps
<1> QED
  BY <1>1, <1>2 DEF Receive

LEMMA SendKeeps ==
    ASSUME MomInv, NEW text \in Texts, Send(text)
    PROVE  MomInv'
<1>1. /\ Len(sent) < MaxSent /\ sent' = Append(sent, text)
      /\ \/ Receive(Len(sent'), text) /\ missed' = missed
         \/ missed' = missed \cup {Len(sent')} /\ UNCHANGED queued
      /\ UNCHANGED <<shown, spoilt, events>>
  BY DEF Send
<1>2. sent \in Seq(Texts)
  BY DEF MomInv, ArrivalsOK
<1>3. sent' \in Seq(Texts) /\ Len(sent') = Len(sent) + 1 /\ Len(sent) \in Nat
  BY <1>1, <1>2, AppendProperties, LenProperties
<1>4. Len(sent') \in Messages /\ Len(sent') <= MaxSent
  BY <1>1, <1>3, ItemKinds DEF Messages
<1>5. QueueOK' /\ WorkOK' /\ IndicatorsOK'
  <2>1. CASE Receive(Len(sent'), text)
    BY <1>1, <1>4, <2>1, ReceiveKeeps DEF MomInv
  <2>2. CASE UNCHANGED queued
    BY <1>1, <2>2 DEF MomInv, queued, QueueOK, WorkOK, IndicatorsOK, IndicatorGone, IsAt
  <2> QED
    BY <1>1, <2>1, <2>2
<1>6. ArrivalsOK'
  <2>1. missed' \subseteq Messages
    BY <1>1, <1>4 DEF MomInv, ArrivalsOK
  <2> QED
    BY <1>1, <1>3, <1>4, <2>1 DEF MomInv, ArrivalsOK
<1> QED
  BY <1>5, <1>6 DEF MomInv

LEMMA RedeliverKeeps ==
    ASSUME MomInv, NEW ts \in missed, Redeliver(ts)
    PROVE  MomInv'
<1>1. /\ missed' = missed \ {ts} /\ Receive(ts, sent[ts])
      /\ UNCHANGED <<sent, shown, spoilt, events>>
  BY DEF Redeliver
<1>2. ts \in Messages
  BY DEF MomInv, ArrivalsOK
<1>3. QueueOK' /\ WorkOK' /\ IndicatorsOK'
  BY <1>1, <1>2, ReceiveKeeps DEF MomInv
<1>4. ArrivalsOK'
  BY <1>1 DEF MomInv, ArrivalsOK
<1> QED
  BY <1>3, <1>4 DEF MomInv

LEMMA EnqueueEventKeeps ==
    ASSUME MomInv, EnqueueEvent
    PROVE  MomInv'
<1>1. /\ events < MaxEvents /\ events' = events + 1
      /\ Enqueue(MaxSent + events') \/ UNCHANGED queued
      /\ UNCHANGED <<sent, missed, shown, spoilt>>
  BY DEF EnqueueEvent, slackVars
<1>2. events \in Nat /\ events' \in 0..MaxEvents /\ MaxSent + events' \in Events
  BY <1>1, ItemKinds DEF MomInv, ArrivalsOK, Events
<1>3. QueueOK' /\ WorkOK' /\ IndicatorsOK'
  <2>1. CASE Enqueue(MaxSent + events')
    BY <1>1, <1>2, <2>1, ItemKinds, EnqueueKeeps DEF MomInv
  <2>2. CASE UNCHANGED queued
    BY <1>1, <2>2 DEF MomInv, queued, QueueOK, WorkOK, IndicatorsOK, IndicatorGone, IsAt
  <2> QED
    BY <1>1, <2>1, <2>2
<1>4. ArrivalsOK'
  BY <1>1, <1>2 DEF MomInv, ArrivalsOK
<1> QED
  BY <1>3, <1>4 DEF MomInv

\* Work that moves on to another stage, whatever it shows.
LEMMA AdvanceKeeps ==
    ASSUME QueueOK, WorkOK, IndicatorsOK, work.at # "none", NEW stage \in Stages,
           work' \in [item : Items \cup {Nothing}, at : Stages, result : Results],
           work'.item = work.item, work'.at = stage,
           UNCHANGED <<queue, processing, running, spoilt>>,
           shown' \in [Items -> {"none", "working", "done", "deleted"}],
           \A i \in Items \ {work.item} : shown'[i] = "working" => shown[i] = "working",
           stage = "stopped" => shown'[work.item] # "working"
    PROVE  QueueOK' /\ WorkOK' /\ IndicatorsOK'
<1>1. QueueOK'
  BY DEF QueueOK
<1>2. processing /\ work.item \in Items
  BY DEF WorkOK, Idle
<1>3. WorkOK' /\ work'.item = work.item /\ work'.at = stage
  BY <1>2 DEF WorkOK
<1>4. \A i \in Items : shown'[i] = "working" /\ work'.item # i => i \in spoilt'
  BY <1>3 DEF IndicatorsOK, IndicatorGone
<1>5. IsAt("stopped")' => shown'[work'.item] # "working"
  BY <1>3 DEF IsAt
<1> QED
  BY <1>1, <1>3, <1>4, <1>5 DEF IndicatorsOK, IndicatorGone

LEMMA AtMoves ==
    ASSUME WorkOK, NEW stage \in Stages, At(stage)
    PROVE  /\ work' \in [item : Items \cup {Nothing}, at : Stages, result : Results]
           /\ work'.item = work.item /\ work'.at = stage
<1>1. work \in [item : Items \cup {Nothing}, at : Stages, result : Results]
  BY DEF WorkOK
<1> QED
  BY <1>1 DEF At

\* Work cut short is spoilt.
LEMMA CutShortKeeps ==
    ASSUME QueueOK, WorkOK, IndicatorsOK, work.at # "none", CutShort, UNCHANGED shown
    PROVE  QueueOK' /\ WorkOK' /\ IndicatorsOK'
<1>1. processing
  BY DEF WorkOK, Idle
<1> QED
  BY <1>1, EndWorkKeeps DEF CutShort, IndicatorsOK

\* A step that leaves the work alone.
LEMMA OthersKeep ==
    ASSUME MomInv, UNCHANGED <<queued, shown, spoilt, sent, missed, events>>
    PROVE  MomInv'
BY DEF MomInv, queued, QueueOK, WorkOK, IndicatorsOK, IndicatorGone, IsAt, ArrivalsOK

\* What a step of the work does to the channel is all that matters.
LEMMA ArrivalsKept ==
    ASSUME MomInv, UNCHANGED <<sent, missed, events>>, QueueOK' /\ WorkOK' /\ IndicatorsOK'
    PROVE  MomInv'
BY DEF MomInv, ArrivalsOK

LEMMA ShowKeeps ==
    ASSUME WorkOK, IndicatorsOK, NEW state \in {"working", "done", "deleted"}, Show(state),
           work.at # "none"
    PROVE  /\ shown' \in [Items -> {"none", "working", "done", "deleted"}]
           /\ \A i \in Items \ {work.item} : shown'[i] = shown[i]
           /\ shown'[work.item] = state
BY DEF Show, WorkOK, IndicatorsOK, Idle

LEMMA AnnounceKeeps ==
    ASSUME MomInv, NEW ok \in BOOLEAN, Announce(ok)
    PROVE  MomInv'
<1> USE DEF MomInv
<1>1. work.at # "none" /\ UNCHANGED <<sent, missed, events>>
  BY DEF Announce, IsAt
<1>2. CASE /\ Show("working")
           /\ At(IF IsAt("typing") THEN "working" ELSE "mkdir")
           /\ UNCHANGED <<queue, processing, running, spoilt>>
  <2>1. PICK stage \in {"working", "mkdir"} : At(stage)
    BY <1>2
  <2>2. /\ shown' \in [Items -> {"none", "working", "done", "deleted"}]
        /\ \A i \in Items \ {work.item} : shown'[i] = shown[i]
    BY <1>1, <1>2, ShowKeeps
  <2>3. stage \in Stages /\ stage # "stopped"
    BY DEF Stages
  <2>4. QueueOK' /\ WorkOK' /\ IndicatorsOK'
    BY <1>1, <1>2, <2>1, <2>2, <2>3, AtMoves, AdvanceKeeps
  <2> QED
    BY <1>1, <2>4, ArrivalsKept
<1>3. CASE CutShort /\ UNCHANGED shown
  BY <1>1, <1>3, CutShortKeeps, ArrivalsKept
<1> QED
  BY <1>2, <1>3 DEF Announce

LEMMA SyncKeeps ==
    ASSUME MomInv, Sync
    PROVE  MomInv'
<1>1. /\ work.at # "none" /\ At("ready") /\ "ready" \in Stages
      /\ UNCHANGED <<sent, missed, shown, events, queue, processing, running, spoilt>>
  BY DEF Sync, IsAt, slackVars, Stages
<1>2. shown' \in [Items -> {"none", "working", "done", "deleted"}]
  BY <1>1 DEF MomInv, IndicatorsOK
<1>3. QueueOK' /\ WorkOK' /\ IndicatorsOK'
  BY <1>1, <1>2, AtMoves, AdvanceKeeps DEF MomInv
<1> QED
  BY <1>1, <1>3, ArrivalsKept

LEMMA PromptKeeps ==
    ASSUME MomInv, Prompt
    PROVE  MomInv'
<1>1. work.at # "none" /\ UNCHANGED <<sent, missed, events, shown>>
  BY DEF Prompt, IsAt, slackVars
<1>2. CASE At("prompting") /\ UNCHANGED <<queue, processing, running, spoilt>>
  <2>1. shown' \in [Items -> {"none", "working", "done", "deleted"}] /\ "prompting" \in Stages
    BY <1>1 DEF MomInv, IndicatorsOK, Stages
  <2>2. QueueOK' /\ WorkOK' /\ IndicatorsOK'
    BY <1>1, <1>2, <2>1, AtMoves, AdvanceKeeps DEF MomInv
  <2> QED
    BY <1>1, <2>2, ArrivalsKept
<1>3. CASE CutShort
  BY <1>1, <1>3, CutShortKeeps, ArrivalsKept DEF MomInv
<1> QED
  BY <1>2, <1>3 DEF Prompt

LEMMA AnswerKeeps ==
    ASSUME MomInv, NEW result \in {"ok", "silent", "overflow", "aborted"}, Answer(result)
    PROVE  MomInv'
<1>1. /\ UNCHANGED <<sent, missed, shown, events, queue, processing, running, spoilt>>
      /\ \/ IsAt("prompting") /\ work' = [work EXCEPT !.at = "draining", !.result = result]
         \/ work' = work
  BY DEF Answer, Returns, slackVars
<1>2. CASE work' = work
  BY <1>1, <1>2, OthersKeep DEF queued
<1>3. CASE IsAt("prompting") /\ work' = [work EXCEPT !.at = "draining", !.result = result]
  <2>1. /\ shown' \in [Items -> {"none", "working", "done", "deleted"}]
        /\ "draining" \in Stages /\ result \in Results /\ work.at # "none"
    BY <1>1, <1>3 DEF MomInv, IndicatorsOK, Stages, Results, IsAt
  <2>2. /\ work' \in [item : Items \cup {Nothing}, at : Stages, result : Results]
        /\ work'.item = work.item /\ work'.at = "draining"
    BY <1>3, <2>1 DEF MomInv, WorkOK
  <2>3. QueueOK' /\ WorkOK' /\ IndicatorsOK'
    BY <1>1, <2>1, <2>2, AdvanceKeeps DEF MomInv
  <2> QED
    BY <1>1, <2>3, ArrivalsKept
<1> QED
  BY <1>1, <1>2, <1>3

LEMMA ConcludeKeeps ==
    ASSUME MomInv, NEW ok \in BOOLEAN, Conclude(ok)
    PROVE  MomInv'
<1>1. /\ work.at # "none" /\ At("finishing") /\ "finishing" \in Stages
      /\ Show("deleted") \/ UNCHANGED shown
      /\ UNCHANGED <<sent, missed, events, queue, processing, running, spoilt>>
  BY DEF Conclude, IsAt, Stages
<1>2. /\ shown' \in [Items -> {"none", "working", "done", "deleted"}]
      /\ \A i \in Items \ {work.item} : shown'[i] = shown[i]
  <2>1. CASE UNCHANGED shown
    BY <2>1 DEF MomInv, IndicatorsOK
  <2> QED
    BY <1>1, <2>1, ShowKeeps DEF MomInv
<1>3. QueueOK' /\ WorkOK' /\ IndicatorsOK'
  BY <1>1, <1>2, AtMoves, AdvanceKeeps DEF MomInv
<1> QED
  BY <1>1, <1>3, ArrivalsKept

LEMMA FinishKeeps ==
    ASSUME MomInv, NEW ok \in BOOLEAN, Finish(ok)
    PROVE  MomInv'
<1>1. work.at # "none" /\ processing /\ UNCHANGED <<sent, missed, events>>
  BY DEF Finish, IsAt, MomInv, WorkOK, Idle
<1>2. CASE CutShort /\ UNCHANGED shown
  BY <1>1, <1>2, CutShortKeeps, ArrivalsKept DEF MomInv
<1>3. CASE /\ Unmark /\ UNCHANGED spoilt
           /\ EndWork \/ (At("stopped") /\ UNCHANGED <<queue, processing, running>>)
  <2>1. /\ shown' \in [Items -> {"none", "working", "done", "deleted"}]
        /\ \A i \in Items \ {work.item} : shown'[i] = shown[i]
        /\ shown'[work.item] # "working"
    <3>1. CASE shown[work.item] = "working"
      BY <1>1, <1>3, <3>1, ShowKeeps DEF MomInv, Unmark
    <3>2. CASE shown[work.item] # "working"
      BY <1>3, <3>2 DEF MomInv, Unmark, IndicatorsOK
    <3> QED
      BY <3>1, <3>2
  <2>2. QueueOK' /\ WorkOK' /\ IndicatorsOK'
    <3>1. CASE EndWork
      BY <1>1, <1>3, <2>1, <3>1, EndWorkKeeps DEF MomInv
    <3>2. CASE At("stopped") /\ UNCHANGED <<queue, processing, running>>
      BY <1>1, <1>3, <2>1, <3>2, AtMoves, AdvanceKeeps DEF MomInv, Stages
    <3> QED
      BY <1>3, <3>1, <3>2
  <2> QED
    BY <1>1, <2>2, ArrivalsKept
<1> QED
  BY <1>2, <1>3 DEF Finish

LEMMA ReportStopKeeps ==
    ASSUME MomInv, NEW ok \in BOOLEAN, ReportStop(ok)
    PROVE  MomInv'
<1>1. /\ IsAt("stopped") /\ work.at # "none" /\ EndWork
      /\ UNCHANGED <<sent, missed, shown, events, spoilt>>
  BY DEF ReportStop, IsAt
<1>2. processing /\ shown[work.item] # "working"
  BY <1>1 DEF MomInv, WorkOK, Idle, IndicatorsOK
<1>3. QueueOK' /\ WorkOK' /\ IndicatorsOK'
  BY <1>1, <1>2, EndWorkKeeps DEF MomInv, IndicatorsOK
<1> QED
  BY <1>1, <1>3, ArrivalsKept

LEMMA KillKeeps ==
    ASSUME MomInv, Kill
    PROVE  MomInv'
<1>1. /\ queue' = <<>> /\ processing' = FALSE /\ running' = FALSE /\ work' = Idle
      /\ spoilt' = spoilt \cup ({work.item} \ {Nothing})
      /\ UNCHANGED <<sent, missed, shown, events>>
  BY DEF Kill, slackVars
<1>2. QueueOK'
  <2>1. <<>> \in Seq(Events)
    OBVIOUS
  <2> QED
    BY <1>1, <2>1 DEF QueueOK
<1>3. WorkOK' /\ ~IsAt("stopped")'
  BY <1>1 DEF WorkOK, IsAt, Idle, Stages, Results
<1>4. IndicatorsOK'
  BY <1>1, <1>3, ItemKinds DEF MomInv, IndicatorsOK, IndicatorGone
<1> QED
  BY <1>1, <1>2, <1>3, <1>4, ArrivalsKept

LEMMA MomInvNext == MomInv /\ [MomNext]_momVars => MomInv'
<1> SUFFICES ASSUME MomInv, [MomNext]_momVars PROVE MomInv'
  OBVIOUS
<1>1. CASE UNCHANGED <<queued, shown, spoilt, sent, missed, events>>
  BY <1>1, OthersKeep
<1>2. CASE \E text \in Texts : Send(text)
  BY <1>2, SendKeeps
<1>3. CASE \E ts \in missed : Redeliver(ts)
  BY <1>3, RedeliverKeeps
<1>4. CASE EnqueueEvent
  BY <1>4, EnqueueEventKeeps
<1>5. ASSUME NEW ok \in BOOLEAN, Announce(ok) \/ Post(ok) \/ Conclude(ok) \/ Finish(ok) \/ ReportStop(ok)
      PROVE  MomInv'
  <2>1. CASE Post(ok)
    BY <1>1, <2>1 DEF Post, queued
  <2> QED
    BY <1>5, <2>1, AnnounceKeeps, ConcludeKeeps, FinishKeeps, ReportStopKeeps
<1>6. CASE Sync \/ Prompt
  BY <1>6, SyncKeeps, PromptKeeps
<1>7. CASE Tool \/ Continue \/ StopPosted
  BY <1>1, <1>7 DEF Tool, Continue, StopPosted, slackVars
<1>8. CASE \E result \in {"ok", "silent", "overflow", "aborted"} : Answer(result)
  BY <1>8, AnswerKeeps
<1>9. CASE Backfill \/ Connect \/ Started
  BY <1>1, <1>9 DEF Backfill, Connect, Started, slackVars
<1>10. CASE Kill
  BY <1>10, KillKeeps
<1>11. CASE UNCHANGED momVars
  BY <1>1, <1>11 DEF momVars, slackVars
<1> QED
  BY <1>2, <1>3, <1>4, <1>5, <1>6, <1>7, <1>8, <1>9, <1>10, <1>11 DEF MomNext

LEMMA MomInvAlways == MomSpec => []MomInv
<1>1. MomInit => MomInv
  BY MomInitInv
<1>2. MomInv /\ [MomNext]_momVars => MomInv'
  BY MomInvNext
<1> QED
  BY <1>1, <1>2, PTL DEF MomSpec

\* The queue of a channel holds only events: the flag that is asked before a
\* user's message is queued says no exactly when nothing is at work.
THEOREM UsersNeverWait == MomSpec => []UserNeverWaits
<1>1. MomInv => UserNeverWaits
  <2> SUFFICES ASSUME MomInv PROVE UserNeverWaits
    OBVIOUS
  <2>1. queue \in Seq(Events)
    BY DEF MomInv, QueueOK
  <2> QED
    BY <2>1 DEF UserNeverWaits, ToSet
<1> QED
  BY <1>1, MomInvAlways, PTL

\* The indicator of an item goes away with its work, unless a Slack call of that
\* work failed, its prompt was refused, or the process ended.
THEOREM IndicatorsGo == MomSpec => []IndicatorGone
<1>1. MomInv => IndicatorGone
  BY DEF MomInv, IndicatorsOK
<1> QED
  BY <1>1, MomInvAlways, PTL

-------------------------------------------------------------------------------
(* What the session knows.                                                    *)

\* The files name messages that were sent; what is at work was logged, and will
\* not be delivered again.
LogOK ==
    /\ missed \subseteq DOMAIN sent
    /\ log \in Seq(DOMAIN sent) /\ entries \in Seq(Texts \cup {"event"})
    /\ work.item \notin missed /\ (work.item \in Messages => work.item \in ToSet(log))

FlagsOK ==
    /\ answered \in BOOLEAN /\ bot \in {"down", "backfilled", "connected", "up"}
    /\ startupTs \in 0..(MaxSent + 1)
    /\ stopRequested \in BOOLEAN /\ stopMessage \in BOOLEAN
    /\ broken \in BOOLEAN /\ outbox \in Nat
    /\ agent \in {"idle", "running", "aborted"}
    /\ continuation \in BOOLEAN /\ unanswered \in BOOLEAN
    /\ spoilt \subseteq Items

\* A message is stopped for, logged late, or neither: there are no more posts of
\* stops than messages.
StopsOK == stopPosts \in Nat /\ stopPosts + Cardinality(missed) <= Len(sent)

\* Nothing is at work before the log is brought up to date.
DownOK == bot = "down" => ~processing

\* Once the log was brought into the session for a message, the session holds
\* what was logged before it; once it was prompted, the message itself as well.
HeardOK ==
    /\ work.at \in {"ready", "prompting", "draining", "finishing"} =>
           \A i \in DOMAIN log : log[i] = work.item =>
               \A j \in 1..i : log[j] = work.item \/ sent[log[j]] \in ToSet(entries)
    /\ work.at \in {"prompting", "draining", "finishing"} /\ work.item \in Messages =>
           sent[work.item] \in ToSet(entries)

\* A message at work that was not prompted yet counts as told.
Pending(text) ==
    IF /\ work.at \in {"typing", "working", "mkdir", "ready"}
       /\ work.item \in Messages /\ sent[work.item] = text
    THEN 1 ELSE 0

CountOK == \A text \in Texts : Cardinality(Told(text)) + Pending(text) <= Cardinality(Logged(text))

ContextInv == MomInv /\ LogOK /\ FlagsOK /\ StopsOK /\ DownOK /\ HeardOK /\ CountOK

\* The places of a sequence that hold a value of a set.
PlacesOf(s, K) == {i \in DOMAIN s : s[i] \in K}

LEMMA PlacesFinite ==
    ASSUME NEW S, NEW s \in Seq(S), NEW K
    PROVE  IsFiniteSet(PlacesOf(s, K)) /\ Cardinality(PlacesOf(s, K)) \in Nat
<1>1. Len(s) \in Nat /\ DOMAIN s = 1..Len(s)
  OBVIOUS
<1>2. IsFiniteSet(1..Len(s))
  BY <1>1, FS_Interval
<1>3. PlacesOf(s, K) \in SUBSET (1..Len(s))
  BY <1>1 DEF PlacesOf
<1> QED
  BY <1>2, <1>3, FS_Subset, FS_CardinalityType

LEMMA PlacesConcat ==
    ASSUME NEW S, NEW a \in Seq(S), NEW b \in Seq(S), NEW K
    PROVE  /\ Cardinality(PlacesOf(a, K)) <= Cardinality(PlacesOf(a \o b, K))
           /\ ToSet(b) \cap K # {} => Cardinality(PlacesOf(a, K)) + 1 <= Cardinality(PlacesOf(a \o b, K))
<1> DEFINE c == a \o b  m == Len(a)  n == Len(b)  A == PlacesOf(a, K)  C == PlacesOf(c, K)
<1>1. /\ c \in Seq(S) /\ Len(c) = m + n /\ m \in Nat /\ n \in Nat
      /\ \A i \in 1..m : c[i] = a[i]
      /\ \A i \in 1..n : c[m + i] = b[i]
  OBVIOUS
<1>2. DOMAIN a = 1..m /\ DOMAIN b = 1..n /\ DOMAIN c = 1..(m + n)
  BY <1>1
<1> HIDE DEF c, m, n
<1>3. A \in SUBSET C
  BY <1>1, <1>2 DEF PlacesOf
<1>4. /\ IsFiniteSet(A) /\ Cardinality(A) \in Nat
      /\ IsFiniteSet(C) /\ Cardinality(C) \in Nat
  BY <1>1, PlacesFinite
<1>5. Cardinality(A) <= Cardinality(C)
  BY <1>3, <1>4, FS_Subset
<1>6. ASSUME ToSet(b) \cap K # {} PROVE Cardinality(A) + 1 <= Cardinality(C)
  <2>1. PICK k \in 1..n : b[k] \in K
    BY <1>2, <1>6 DEF ToSet
  <2>2. m + k \in C /\ m + k \notin A
    BY <1>1, <1>2, <2>1 DEF PlacesOf
  <2>3. A \cup {m + k} \in SUBSET C
    BY <1>3, <2>2
  <2>4. Cardinality(A \cup {m + k}) = Cardinality(A) + 1
    BY <1>4, <2>2, FS_AddElement
  <2>5. Cardinality(A \cup {m + k}) <= Cardinality(C)
    BY <1>4, <2>3, FS_Subset
  <2> QED
    BY <2>4, <2>5
<1> QED
  BY <1>5, <1>6 DEF c

LEMMA PlacesAppend ==
    ASSUME NEW S, NEW s \in Seq(S), NEW e \in S, NEW K
    PROVE  Cardinality(PlacesOf(Append(s, e), K)) = Cardinality(PlacesOf(s, K)) + (IF e \in K THEN 1 ELSE 0)
<1> DEFINE t == Append(s, e)  n == Len(s)
<1>1. t \in Seq(S) /\ Len(t) = n + 1 /\ n \in Nat /\ t[n + 1] = e /\ \A i \in 1..n : t[i] = s[i]
  OBVIOUS
<1>2. DOMAIN s = 1..n /\ DOMAIN t = 1..(n + 1)
  BY <1>1
<1> HIDE DEF t, n
<1>3. n + 1 \notin PlacesOf(s, K)
  BY <1>1, <1>2 DEF PlacesOf
<1>4. IsFiniteSet(PlacesOf(s, K)) /\ Cardinality(PlacesOf(s, K)) \in Nat
  BY PlacesFinite
<1>5. CASE e \in K
  <2>1. PlacesOf(t, K) = PlacesOf(s, K) \cup {n + 1}
    BY <1>1, <1>2, <1>5 DEF PlacesOf
  <2>2. Cardinality(PlacesOf(s, K) \cup {n + 1}) = Cardinality(PlacesOf(s, K)) + 1
    BY <1>3, <1>4, FS_AddElement
  <2> QED
    BY <1>5, <2>1, <2>2 DEF t
<1>6. CASE e \notin K
  <2>1. PlacesOf(t, K) = PlacesOf(s, K)
    BY <1>1, <1>2, <1>6 DEF PlacesOf
  <2> QED
    BY <1>4, <1>6, <2>1 DEF t
<1> QED
  BY <1>5, <1>6

LEMMA CountedPlaces ==
    ASSUME NEW text
    PROVE  /\ Told(text) = PlacesOf(entries, {text})
           /\ log \in Seq(DOMAIN sent) => Logged(text) = PlacesOf(log, {ts \in DOMAIN sent : sent[ts] = text})
<1>1. Told(text) = PlacesOf(entries, {text})
  BY DEF Told, PlacesOf
<1>2. ASSUME log \in Seq(DOMAIN sent)
      PROVE  Logged(text) = PlacesOf(log, {ts \in DOMAIN sent : sent[ts] = text})
  <2>1. \A i \in DOMAIN log : log[i] \in DOMAIN sent
    BY <1>2
  <2> QED
    BY <2>1 DEF Logged, PlacesOf
<1> QED
  BY <1>1, <1>2

\* What is brought into the session is new to it, was logged with another message
\* than the current one, and is brought once; and nothing else is left to bring.
LEMMA NewTextsProperties ==
    ASSUME sent \in Seq(Texts), log \in Seq(DOMAIN sent), NEW current
    PROVE  /\ NewTexts(current) \in Seq(Texts) /\ IsInjective(NewTexts(current))
           /\ \A text \in ToSet(NewTexts(current)) :
                  /\ text \notin ToSet(entries)
                  /\ \E i \in DOMAIN log : log[i] # current /\ sent[log[i]] = text
           /\ \A i \in DOMAIN log :
                  log[i] = current \/ sent[log[i]] \in ToSet(entries) \cup ToSet(NewTexts(current))
<1> DEFINE n == Len(sent)  U == Unknown(current)  s == Selected(Stamps, U)
           Places == {i \in DOMAIN log : log[i] # current /\ sent[log[i]] \notin ToSet(entries)}
           First(i) == \A j \in Places : sent[log[j]] = sent[log[i]] => i <= j
<1>1. n \in Nat /\ DOMAIN sent = 1..n /\ \A ts \in 1..n : sent[ts] \in Texts
  OBVIOUS
<1>2. DOMAIN log \subseteq Nat /\ \A i \in DOMAIN log : log[i] \in 1..n
  BY <1>1
<1>3. U = {log[i] : i \in {i \in Places : First(i)}}
  BY Zenon DEF Unknown
<1>4. Stamps = [i \in 1..n |-> i]
  BY <1>1 DEF Stamps
<1> HIDE DEF n, U
<1>5. s \in Seq(1..n) /\ ToSet(s) = U \cap (1..n) /\ IsInjective(s)
  BY <1>1, <1>4, NumbersSelected
<1>6. NewTexts(current) = [k \in DOMAIN s |-> sent[s[k]]]
  BY DEF NewTexts, TextsOf, U
<1> DEFINE new == [k \in DOMAIN s |-> sent[s[k]]]
<1> HIDE DEF s
<1>7. Len(s) \in Nat /\ DOMAIN s = 1..Len(s) /\ \A k \in 1..Len(s) : s[k] \in 1..n
  <2>1. s \in Seq(1..n)
    BY <1>5
  <2>2. Len(s) \in Nat /\ DOMAIN s = 1..Len(s)
    BY <2>1, LenProperties
  <2>3. \A k \in 1..Len(s) : s[k] \in 1..n
    BY <2>1, ElementOfSeq
  <2> QED
    BY <2>2, <2>3
<1>8. new \in Seq(Texts) /\ DOMAIN new = 1..Len(s) /\ \A k \in 1..Len(s) : new[k] = sent[s[k]]
  BY <1>1, <1>7
<1> HIDE DEF new
<1>9. \A k \in 1..Len(s) : \E i \in Places : First(i) /\ s[k] = log[i]
  <2>1. \A k \in 1..Len(s) : s[k] \in ToSet(s)
    BY <1>7 DEF ToSet
  <2> HIDE DEF Places, First
  <2> QED
    BY <1>3, <1>5, <2>1
<1>10. IsInjective(new)
  <2> SUFFICES ASSUME NEW k \in 1..Len(s), NEW l \in 1..Len(s), new[k] = new[l] PROVE k = l
    BY <1>8 DEF IsInjective
  <2>1. PICK i \in Places : First(i) /\ s[k] = log[i]
    BY <1>9
  <2>2. PICK j \in Places : First(j) /\ s[l] = log[j]
    BY <1>9
  <2>3. sent[log[i]] = sent[log[j]]
    BY <1>8, <2>1, <2>2
  <2>4. i <= j /\ j <= i
    BY <2>1, <2>2, <2>3
  <2>5. i = j
    BY <1>2, <2>4
  <2>6. s[k] = s[l]
    BY <2>1, <2>2, <2>5
  <2> QED
    BY <1>5, <1>7, <2>6 DEF IsInjective
<1>11. ASSUME NEW text \in ToSet(new)
       PROVE  /\ text \notin ToSet(entries)
              /\ \E i \in DOMAIN log : log[i] # current /\ sent[log[i]] = text
  <2>1. PICK k \in 1..Len(s) : text = new[k]
    BY <1>8 DEF ToSet
  <2>2. PICK i \in Places : s[k] = log[i]
    BY <1>9
  <2>3. text = sent[log[i]]
    BY <1>8, <2>1, <2>2
  <2> QED
    BY <2>3
<1>12. ASSUME NEW i \in DOMAIN log
       PROVE  log[i] = current \/ sent[log[i]] \in ToSet(entries) \cup ToSet(new)
  <2> SUFFICES ASSUME i \in Places PROVE sent[log[i]] \in ToSet(new)
    OBVIOUS
  <2> DEFINE S == {j \in Places : sent[log[j]] = sent[log[i]]}
  <2>1. S \in SUBSET Nat /\ S # {}
    BY <1>2
  <2>2. PICK j \in S : \A x \in S : j <= x
    BY <2>1, LeastExists
  <2>3. j \in Places /\ First(j) /\ sent[log[j]] = sent[log[i]] /\ j \in DOMAIN log
    BY <2>2
  <2>4. log[j] \in U \cap (1..n)
    BY <1>2, <1>3, <2>3
  <2>5. PICK k \in 1..Len(s) : s[k] = log[j]
    BY <1>5, <1>7, <2>4 DEF ToSet
  <2>6. new[k] = sent[log[i]]
    BY <1>8, <2>3, <2>5
  <2> QED
    BY <1>8, <2>6 DEF ToSet
<1> HIDE DEF Places, First
<1> QED
  BY <1>6, <1>8, <1>10, <1>11, <1>12 DEF new

\* What is at work moves on, or is over and leaves its place to an event.
MovesOn ==
    {<<"typing", "working">>, <<"working", "mkdir">>, <<"prompting", "draining">>,
     <<"draining", "finishing">>, <<"finishing", "stopped">>}

WorkMoves ==
    \/ work'.item = work.item /\ (work'.at = work.at \/ <<work.at, work'.at>> \in MovesOn)
    \/ work'.item \notin Messages /\ work'.at \in {"none", "typing"}

LEMMA WorkMovesKeep ==
    ASSUME ArrivalsOK, LogOK, HeardOK, CountOK, UNCHANGED <<sent, missed, log, entries>>, WorkMoves
    PROVE  LogOK' /\ HeardOK' /\ CountOK'
<1>1. LogOK'
  BY DEF LogOK, WorkMoves, ArrivalsOK, Messages
<1>2. HeardOK'
  BY DEF HeardOK, WorkMoves, MovesOn, Messages
<1>3. CountOK'
  <2> SUFFICES ASSUME NEW text \in Texts
               PROVE  Cardinality(Told(text)') + Pending(text)' <= Cardinality(Logged(text)')
    BY DEF CountOK
  <2>1. Told(text)' = Told(text) /\ Logged(text)' = Logged(text)
    BY DEF Told, Logged
  <2>2. Cardinality(Told(text)) \in Nat /\ Cardinality(Logged(text)) \in Nat
    BY CountedPlaces, PlacesFinite DEF LogOK
  <2>3. Cardinality(Told(text)) + Pending(text) <= Cardinality(Logged(text))
    BY DEF CountOK
  <2>4. Pending(text) \in {0, 1} /\ Pending(text)' \in {0, 1}
    BY DEF Pending
  <2>5. Pending(text)' = 1 => Pending(text) = 1
    BY DEF Pending, WorkMoves, MovesOn, Messages
  <2> QED
    BY <2>1, <2>2, <2>3, <2>4, <2>5
<1> QED
  BY <1>1, <1>2, <1>3

\* More is sent and logged, and the first of it may be given to the work.
LEMMA LogGrows ==
    ASSUME MomInv, LogOK, HeardOK, CountOK, entries' = entries,
           sent' \in Seq(Texts), \A ts \in DOMAIN sent : ts \in DOMAIN sent' /\ sent'[ts] = sent[ts],
           NEW new \in Seq(DOMAIN sent'), log' = log \o new, work.item \notin ToSet(new),
           missed' \subseteq DOMAIN sent', work'.item \notin missed',
           \/ work' = work
           \/ work.at = "none" /\ work'.at = "typing" /\ work'.item \in ToSet(new)
    PROVE  LogOK' /\ HeardOK' /\ CountOK'
<1> DEFINE D == DOMAIN sent'  m == Len(log)  n == Len(new)
<1>1. log \in Seq(DOMAIN sent) /\ entries \in Seq(Texts \cup {"event"})
  BY DEF LogOK
<1>2. log \in Seq(D)
  <2>1. DOMAIN sent \subseteq D
    OBVIOUS
  <2> HIDE DEF D
  <2> QED
    BY <1>1, <2>1
<1>3. /\ log' \in Seq(D) /\ Len(log') = m + n /\ m \in Nat /\ n \in Nat
      /\ \A i \in 1..m : log'[i] = log[i]
      /\ \A i \in 1..n : log'[m + i] = new[i]
  <2>1. new \in Seq(D)
    OBVIOUS
  <2> HIDE DEF D
  <2> DEFINE c == log \o new
  <2>2. /\ c \in Seq(D) /\ Len(c) = m + n /\ m \in Nat /\ n \in Nat
        /\ \A i \in 1..m : c[i] = log[i]
        /\ \A i \in 1..n : c[m + i] = new[i]
    BY <1>2, <2>1
  <2>3. log' = c
    OBVIOUS
  <2> HIDE DEF c
  <2> QED
    BY <2>2, <2>3
<1>4. DOMAIN log = 1..m /\ DOMAIN new = 1..n /\ DOMAIN log' = 1..(m + n)
  BY <1>1, <1>3
<1>5. work.item \in Messages => work.item \in DOMAIN sent
  <2>1. \A i \in DOMAIN log : log[i] \in DOMAIN sent
    BY <1>1
  <2> QED
    BY <2>1 DEF LogOK, ToSet
<1> HIDE DEF D, m, n
<1>6. ToSet(log) \subseteq ToSet(log') /\ ToSet(new) \subseteq ToSet(log')
  <2>1. ASSUME NEW i \in 1..m PROVE log[i] \in ToSet(log')
    <3>1. i \in 1..(m + n) /\ log'[i] = log[i]
      BY <1>3
    <3> QED
      BY <1>4, <3>1 DEF ToSet
  <2>2. ASSUME NEW i \in 1..n PROVE new[i] \in ToSet(log')
    <3>1. m + i \in 1..(m + n) /\ log'[m + i] = new[i]
      BY <1>3
    <3> QED
      BY <1>4, <3>1 DEF ToSet
  <2> QED
    BY <1>4, <2>1, <2>2 DEF ToSet
<1>7. LogOK'
  <2>1. entries' \in Seq(Texts \cup {"event"})'
    BY <1>1
  <2>2. work'.item \in Messages => work'.item \in ToSet(log')
    BY <1>6 DEF LogOK
  <2> QED
    BY <1>3, <2>1, <2>2 DEF LogOK, D, Messages
<1>8. HeardOK'
  <2>1. CASE work' = work
    <3>1. ASSUME work.at \in {"ready", "prompting", "draining", "finishing"},
                 NEW i \in 1..(m + n), log'[i] = work.item, NEW j \in 1..i
          PROVE  log'[j] = work.item \/ sent'[log'[j]] \in ToSet(entries)
      <4>1. i \in 1..m
        <5> SUFFICES ASSUME i > m PROVE FALSE
          BY <1>3
        <5>1. i - m \in 1..n /\ i = m + (i - m)
          BY <1>3
        <5>2. log'[i] = new[i - m]
          BY <1>3, <5>1
        <5> QED
          BY <1>4, <3>1, <5>1, <5>2 DEF ToSet
      <4>2. j \in 1..m
        BY <1>3, <4>1
      <4>3. log'[i] = log[i] /\ log'[j] = log[j] /\ log[j] \in DOMAIN sent
        BY <1>1, <1>3, <1>4, <4>1, <4>2
      <4>4. log[j] = work.item \/ sent[log[j]] \in ToSet(entries)
        BY <1>4, <3>1, <4>1, <4>3 DEF HeardOK
      <4> QED
        BY <4>3, <4>4
    <3>2. work.at \in {"prompting", "draining", "finishing"} /\ work.item \in Messages
              => sent'[work.item] \in ToSet(entries)
      BY <1>5 DEF HeardOK
    <3> QED
      BY <1>4, <2>1, <3>1, <3>2 DEF HeardOK, Messages
  <2>2. CASE work'.at = "typing"
    BY <2>2 DEF HeardOK
  <2> QED
    BY <2>1, <2>2
<1>9. CountOK'
  <2> SUFFICES ASSUME NEW text \in Texts
               PROVE  Cardinality(Told(text)') + Pending(text)' <= Cardinality(Logged(text)')
    BY DEF CountOK
  <2> DEFINE K == {ts \in D : sent'[ts] = text}
  <2>1. Told(text)' = Told(text)
    BY DEF Told
  <2>2. Logged(text) = PlacesOf(log, K)
    <3>1. \A i \in DOMAIN log : log[i] \in DOMAIN sent /\ log[i] \in D /\ sent'[log[i]] = sent[log[i]]
      BY <1>1 DEF D
    <3> QED
      BY <3>1 DEF Logged, PlacesOf
  <2>3. Logged(text)' = PlacesOf(log \o new, K)
    <3>1. \A i \in DOMAIN log' : log'[i] \in D
      BY <1>3
    <3> QED
      BY <3>1 DEF Logged, PlacesOf
  <2>4. /\ Cardinality(Told(text)) \in Nat /\ Cardinality(Logged(text)) \in Nat
        /\ Cardinality(Logged(text)') \in Nat
    <3>1. log \o new \in Seq(D)
      BY <1>3
    <3> QED
      BY <1>1, <1>2, <2>2, <2>3, <3>1, CountedPlaces, PlacesFinite
  <2>5. Cardinality(Told(text)) + Pending(text) <= Cardinality(Logged(text))
    BY DEF CountOK
  <2>6. new \in Seq(D)
    BY DEF D
  <2> HIDE DEF K
  <2>7. /\ Cardinality(Logged(text)) <= Cardinality(Logged(text)')
        /\ ToSet(new) \cap K # {} => Cardinality(Logged(text)) + 1 <= Cardinality(Logged(text)')
    BY <1>2, <2>2, <2>3, <2>6, PlacesConcat
  <2>8. Pending(text) \in {0, 1} /\ Pending(text)' \in {0, 1}
    BY DEF Pending
  <2>9. CASE work' = work
    <3>1. Pending(text)' = Pending(text)
      BY <1>5, <2>9 DEF Pending, Messages
    <3> QED
      BY <2>1, <2>4, <2>5, <2>7, <2>8, <3>1
  <2>10. CASE work.at = "none" /\ work'.at = "typing" /\ work'.item \in ToSet(new)
    <3>1. Pending(text) = 0
      BY <2>10 DEF Pending
    <3>2. ASSUME Pending(text)' = 1 PROVE ToSet(new) \cap K # {}
      <4>1. work'.item \in D
        BY <2>6, <2>10, ToSetOfSeq
      <4>2. sent'[work'.item] = text
        BY <3>2 DEF Pending
      <4> QED
        BY <2>10, <4>1, <4>2 DEF K
    <3> QED
      BY <2>1, <2>4, <2>5, <2>7, <2>8, <3>1, <3>2
  <2> QED
    BY <2>9, <2>10
<1> QED
  BY <1>7, <1>8, <1>9


\* The log is brought into the session before the message is prompted.
LEMMA SyncKnows ==
    ASSUME ContextInv, Sync
    PROVE  LogOK' /\ HeardOK' /\ CountOK'
<1> DEFINE new == NewTexts(work.item)  n == Len(new)  m == Len(entries)
           All == Texts \cup {"event"}
<1>1. /\ work.at = "mkdir" /\ work' = [work EXCEPT !.at = "ready"] /\ entries' = entries \o new
      /\ UNCHANGED <<sent, missed, log>>
  BY DEF Sync, IsAt, At, slackVars
<1>2. /\ sent \in Seq(Texts) /\ log \in Seq(DOMAIN sent) /\ entries \in Seq(All)
      /\ work \in [item : Items \cup {Nothing}, at : Stages, result : Results]
  BY DEF ContextInv, MomInv, ArrivalsOK, WorkOK, LogOK
<1>3. work'.item = work.item /\ work'.at = "ready"
  BY <1>1, <1>2
<1>4. /\ new \in Seq(Texts) /\ IsInjective(new)
      /\ \A text \in ToSet(new) : /\ text \notin ToSet(entries)
                                  /\ \E i \in DOMAIN log : log[i] # work.item /\ sent[log[i]] = text
      /\ \A i \in DOMAIN log : log[i] = work.item \/ sent[log[i]] \in ToSet(entries) \cup ToSet(new)
  BY <1>2, NewTextsProperties
<1> HIDE DEF new, All
<1>5. new \in Seq(All)
  <2>1. Texts \subseteq All
    BY DEF All
  <2> QED
    BY <1>4, <2>1
<1>6. /\ entries' \in Seq(All) /\ Len(entries') = m + n /\ m \in Nat /\ n \in Nat
      /\ \A i \in 1..m : entries'[i] = entries[i]
      /\ \A i \in 1..n : entries'[m + i] = new[i]
  <2> DEFINE c == entries \o new
  <2>1. /\ c \in Seq(All) /\ Len(c) = m + n /\ m \in Nat /\ n \in Nat
        /\ \A i \in 1..m : c[i] = entries[i]
        /\ \A i \in 1..n : c[m + i] = new[i]
    BY <1>2, <1>5
  <2>2. entries' = c
    BY <1>1
  <2> HIDE DEF c
  <2> QED
    BY <2>1, <2>2
<1>7. DOMAIN entries = 1..m /\ DOMAIN new = 1..n /\ DOMAIN entries' = 1..(m + n)
  BY <1>2, <1>4, <1>6
<1> HIDE DEF m, n
<1>8. ToSet(entries) \cup ToSet(new) \subseteq ToSet(entries')
  <2>1. ASSUME NEW i \in 1..m PROVE entries[i] \in ToSet(entries')
    <3>1. i \in 1..(m + n) /\ entries'[i] = entries[i]
      BY <1>6
    <3> QED
      BY <1>7, <3>1 DEF ToSet
  <2>2. ASSUME NEW i \in 1..n PROVE new[i] \in ToSet(entries')
    <3>1. m + i \in 1..(m + n) /\ entries'[m + i] = new[i]
      BY <1>6
    <3> QED
      BY <1>7, <3>1 DEF ToSet
  <2> QED
    BY <1>7, <2>1, <2>2 DEF ToSet
<1>9. LogOK'
  BY <1>1, <1>3, <1>6 DEF ContextInv, LogOK, All, Messages
<1>10. HeardOK'
  <2>1. ASSUME NEW i \in DOMAIN log, NEW j \in 1..i
        PROVE  log[j] = work.item \/ sent[log[j]] \in ToSet(entries')
    <3>1. j \in DOMAIN log
      BY <1>2
    <3> QED
      BY <1>4, <1>8, <3>1
  <2> QED
    BY <1>1, <1>3, <2>1 DEF HeardOK
<1>11. CountOK'
  <2> SUFFICES ASSUME NEW text \in Texts
               PROVE  Cardinality(Told(text)') + Pending(text)' <= Cardinality(Logged(text)')
    BY DEF CountOK
  <2>1. Pending(text)' = Pending(text) /\ Pending(text) \in {0, 1}
    BY <1>1, <1>3 DEF Pending, Messages
  <2>2. Logged(text)' = Logged(text)
    BY <1>1 DEF Logged
  <2>3. /\ Cardinality(Told(text)) \in Nat /\ Cardinality(Logged(text)) \in Nat
        /\ IsFiniteSet(Logged(text))
        /\ Cardinality(Told(text)) + Pending(text) <= Cardinality(Logged(text))
    <3>1. Told(text) = PlacesOf(entries, {text})
      BY CountedPlaces
    <3>2. Logged(text) = PlacesOf(log, {ts \in DOMAIN sent : sent[ts] = text})
      BY <1>2, CountedPlaces
    <3>3. Cardinality(Told(text)) \in Nat
      BY <1>2, <3>1, PlacesFinite
    <3>4. Cardinality(Logged(text)) \in Nat /\ IsFiniteSet(Logged(text))
      BY <1>2, <3>2, PlacesFinite
    <3> QED
      BY <3>3, <3>4 DEF ContextInv, CountOK
  <2>4. CASE text \notin ToSet(new)
    <3>1. Told(text)' = Told(text)
      <4>1. \A i \in 1..n : new[i] # text
        BY <1>7, <2>4 DEF ToSet
      <4>2. ASSUME NEW i \in 1..(m + n), entries'[i] = text PROVE i \in Told(text)
        <5>1. CASE i \in 1..m
          BY <1>6, <1>7, <4>2, <5>1 DEF Told
        <5>2. CASE i \notin 1..m
          <6>1. i - m \in 1..n /\ i = m + (i - m)
            BY <1>6, <5>2
          <6>2. entries'[i] = new[i - m]
            BY <1>6, <6>1
          <6> QED
            BY <4>1, <4>2, <6>1, <6>2
        <5> QED
          BY <5>1, <5>2
      <4>3. ASSUME NEW i \in Told(text) PROVE i \in 1..(m + n) /\ entries'[i] = text
        BY <1>6, <1>7 DEF Told
      <4>4. Told(text)' = {i \in 1..(m + n) : entries'[i] = text}
        BY <1>7 DEF Told
      <4> QED
        BY <4>2, <4>3, <4>4
    <3> QED
      BY <2>1, <2>2, <2>3, <3>1
  <2>5. CASE text \in ToSet(new)
    <3>1. PICK k \in 1..n : new[k] = text
      BY <1>7, <2>5 DEF ToSet
    <3>2. Told(text)' = {m + k}
      <4>1. ASSUME NEW i \in 1..(m + n), entries'[i] = text PROVE i = m + k
        <5>1. i \notin 1..m
          <6>1. \A l \in 1..m : entries[l] # text
            BY <1>4, <1>7, <2>5 DEF ToSet
          <6> QED
            BY <1>6, <4>1, <6>1
        <5>2. i - m \in 1..n /\ i = m + (i - m)
          BY <1>6, <5>1
        <5>3. new[i - m] = new[k]
          BY <1>6, <3>1, <4>1, <5>2
        <5>4. i - m = k
          BY <1>4, <1>7, <5>2, <5>3 DEF IsInjective
        <5> QED
          BY <5>2, <5>4
      <4>2. m + k \in 1..(m + n) /\ entries'[m + k] = text
        BY <1>6, <3>1
      <4>3. Told(text)' = {i \in 1..(m + n) : entries'[i] = text}
        BY <1>7 DEF Told
      <4> QED
        BY <4>1, <4>2, <4>3
    <3>3. Cardinality(Told(text)') = 1
      BY <3>2, FS_Singleton
    <3>4. PICK i \in Logged(text) : log[i] # work.item
      BY <1>4, <2>5 DEF Logged
    <3>5. CASE Pending(text) = 0
      <4>1. {i} \in SUBSET Logged(text) /\ Cardinality({i}) = 1
        BY FS_Singleton
      <4>2. Cardinality({i}) <= Cardinality(Logged(text))
        BY <2>3, <4>1, FS_Subset
      <4> QED
        BY <2>1, <2>2, <2>3, <3>3, <3>5, <4>1, <4>2
    <3>6. CASE Pending(text) = 1
      <4>1. work.item \in Messages /\ sent[work.item] = text
        BY <3>6 DEF Pending
      <4>2. PICK j \in DOMAIN log : log[j] = work.item
        BY <4>1 DEF ContextInv, LogOK, ToSet
      <4>3. j \in Logged(text) /\ j # i
        BY <3>4, <4>1, <4>2 DEF Logged
      <4>4. {i} \cup {j} \in SUBSET Logged(text) /\ IsFiniteSet({i}) /\ Cardinality({i}) = 1
        BY <4>3, FS_Singleton
      <4>5. Cardinality({i} \cup {j}) = 2
        <5> DEFINE S == {i}
        <5>1. IsFiniteSet(S) /\ Cardinality(S) = 1 /\ j \notin S
          BY <4>3, <4>4
        <5> HIDE DEF S
        <5>2. Cardinality(S \cup {j}) = IF j \in S THEN Cardinality(S) ELSE Cardinality(S) + 1
          BY <5>1, FS_AddElement, Zenon
        <5>3. Cardinality(S \cup {j}) = 2
          BY <5>1, <5>2
        <5> QED
          BY <5>3 DEF S
      <4>6. Cardinality({i} \cup {j}) <= Cardinality(Logged(text))
        BY <2>3, <4>4, FS_Subset
      <4> QED
        BY <2>1, <2>2, <2>3, <3>3, <3>6, <4>5, <4>6
    <3> QED
      BY <2>1, <3>5, <3>6
  <2> QED
    BY <2>4, <2>5
<1> QED
  BY <1>9, <1>10, <1>11

\* What is prompted is at the end of the session.
LEMMA PromptKnows ==
    ASSUME ContextInv, IsAt("ready"), entries' = Append(entries, Text(work.item)), At("prompting"),
           UNCHANGED <<sent, missed, log>>
    PROVE  LogOK' /\ HeardOK' /\ CountOK'
<1> DEFINE All == Texts \cup {"event"}  e == Text(work.item)  m == Len(entries)
<1>1. /\ sent \in Seq(Texts) /\ log \in Seq(DOMAIN sent) /\ entries \in Seq(All)
      /\ work \in [item : Items \cup {Nothing}, at : Stages, result : Results]
  BY DEF ContextInv, MomInv, ArrivalsOK, WorkOK, LogOK
<1>2. work'.item = work.item /\ work'.at = "prompting" /\ work.at = "ready"
  BY <1>1 DEF At, IsAt
<1>3. e \in All
  <2>1. work.item \in Messages => work.item \in DOMAIN sent
    <3>1. \A i \in DOMAIN log : log[i] \in DOMAIN sent
      BY <1>1
    <3> QED
      BY <3>1 DEF ContextInv, LogOK, ToSet
  <2>2. \A ts \in DOMAIN sent : sent[ts] \in Texts
    BY <1>1
  <2> QED
    BY <2>1, <2>2 DEF Text
<1>4. work.item \in Messages => e = sent[work.item]
  BY DEF Text
<1> HIDE DEF All, e
<1>5. entries' = Append(entries, e)
  BY DEF e
<1>6. /\ entries' \in Seq(All) /\ Len(entries') = m + 1 /\ m \in Nat
      /\ \A i \in 1..m : entries'[i] = entries[i]
      /\ entries'[m + 1] = e
  BY <1>1, <1>3, <1>5
<1>7. DOMAIN entries = 1..m /\ DOMAIN entries' = 1..(m + 1)
  BY <1>1, <1>6
<1> HIDE DEF m
<1>8. ToSet(entries) \subseteq ToSet(entries') /\ e \in ToSet(entries')
  <2>1. ASSUME NEW i \in 1..m PROVE entries[i] \in ToSet(entries')
    <3>1. i \in 1..(m + 1) /\ entries'[i] = entries[i]
      BY <1>6
    <3> QED
      BY <1>7, <3>1 DEF ToSet
  <2>2. m + 1 \in 1..(m + 1)
    BY <1>6
  <2> QED
    BY <1>6, <1>7, <2>1, <2>2 DEF ToSet
<1>9. LogOK'
  BY <1>2, <1>6 DEF ContextInv, LogOK, All, Messages
<1>10. HeardOK'
  <2>1. ASSUME NEW i \in DOMAIN log, log[i] = work.item, NEW j \in 1..i
        PROVE  log[j] = work.item \/ sent[log[j]] \in ToSet(entries')
    BY <1>2, <1>8, <2>1 DEF ContextInv, HeardOK
  <2> QED
    BY <1>2, <1>4, <1>8, <2>1 DEF HeardOK, Messages
<1>11. CountOK'
  <2> SUFFICES ASSUME NEW text \in Texts
               PROVE  Cardinality(Told(text)') + Pending(text)' <= Cardinality(Logged(text)')
    BY DEF CountOK
  <2>1. Logged(text)' = Logged(text)
    BY DEF Logged
  <2>2. Told(text) = PlacesOf(entries, {text}) /\ Told(text)' = PlacesOf(Append(entries, e), {text})
    BY <1>5 DEF Told, PlacesOf
  <2>3. Cardinality(Told(text)') = Cardinality(Told(text)) + (IF e \in {text} THEN 1 ELSE 0)
    BY <1>1, <1>3, <2>2, PlacesAppend
  <2>4. /\ Cardinality(Told(text)) \in Nat /\ Cardinality(Logged(text)) \in Nat
        /\ Cardinality(Told(text)) + Pending(text) <= Cardinality(Logged(text))
    BY <1>1, CountedPlaces, PlacesFinite DEF ContextInv, CountOK
  <2>5. Pending(text)' = 0
    BY <1>2 DEF Pending
  <2>6. e = text => Pending(text) = 1
    <3>1. e = text => work.item \in Messages
      BY MomAssumption DEF e, Text
    <3> QED
      BY <1>2, <1>4, <3>1 DEF Pending
  <2>7. Pending(text) \in {0, 1}
    BY DEF Pending
  <2> QED
    BY <2>1, <2>3, <2>4, <2>5, <2>6, <2>7
<1> QED
  BY <1>9, <1>10, <1>11


\* What the queue gives to the work is no message.
LEMMA EndWorkMoves ==
    ASSUME QueueOK, EndWork
    PROVE  WorkMoves
<1>1. CASE queue # <<>> /\ Begin(Head(queue), Tail(queue))
  <2>1. Head(queue) \in Events
    BY <1>1, HeadTailProperties DEF QueueOK
  <2>2. work'.item = Head(queue) /\ work'.at = "typing"
    BY <1>1 DEF Begin
  <2> QED
    BY <2>1, <2>2, ItemKinds DEF WorkMoves, Messages, Events
<1>2. CASE work' = Idle
  BY <1>2, ItemKinds DEF WorkMoves, Idle, Messages, Nothing
<1> QED
  BY <1>1, <1>2 DEF EndWork

\* The flags of a piece of work are set back when it begins.
Reset ==
    \/ UNCHANGED <<stopRequested, broken, outbox>>
    \/ stopRequested' = FALSE /\ broken' = FALSE /\ outbox' = 0

LEMMA ResetKeeps ==
    ASSUME FlagsOK, Reset
    PROVE  stopRequested' \in BOOLEAN /\ broken' \in BOOLEAN /\ outbox' \in Nat
<1>1. CASE UNCHANGED <<stopRequested, broken, outbox>>
  BY <1>1 DEF FlagsOK
<1>2. CASE stopRequested' = FALSE /\ broken' = FALSE /\ outbox' = 0
  BY <1>2
<1> QED
  BY <1>1, <1>2 DEF Reset

LEMMA EndWorkResets == EndWork => Reset
BY DEF EndWork, Begin, Reset

LEMMA MissedFinite ==
    ASSUME ArrivalsOK, LogOK
    PROVE  IsFiniteSet(missed) /\ Cardinality(missed) \in Nat
<1>1. Len(sent) \in Nat /\ missed \in SUBSET (1..Len(sent))
  BY DEF ArrivalsOK, LogOK
<1>2. IsFiniteSet(1..Len(sent))
  BY <1>1, FS_Interval
<1> QED
  BY <1>1, <1>2, FS_Subset, FS_CardinalityType

\* A step that tells the session and the channel nothing.
Aside == UNCHANGED <<sent, missed, log, entries>> /\ WorkMoves

LEMMA AsideKeeps ==
    ASSUME ContextInv, Aside, MomInv', FlagsOK', StopsOK', DownOK'
    PROVE  ContextInv'
<1>1. LogOK' /\ HeardOK' /\ CountOK'
  BY WorkMovesKeep DEF ContextInv, MomInv, Aside
<1> QED
  BY <1>1 DEF ContextInv

LEMMA AnnounceAside ==
    ASSUME ContextInv, NEW ok \in BOOLEAN, Announce(ok)
    PROVE  Aside /\ FlagsOK' /\ StopsOK' /\ DownOK'
<1>1. /\ IsAt("typing") \/ IsAt("working")
      /\ UNCHANGED <<sent, missed, log, entries, answered, bot, startupTs, stopPosts, stopMessage,
                     agent, continuation, unanswered>>
  BY DEF Announce, files, session
<1>2. QueueOK /\ WorkOK /\ work.item \in Items /\ processing
  BY <1>1 DEF ContextInv, MomInv, WorkOK, IsAt, Idle
<1>3. \/ /\ At(IF IsAt("typing") THEN "working" ELSE "mkdir")
         /\ UNCHANGED <<processing, stopRequested, broken, outbox, spoilt>>
      \/ EndWork /\ spoilt' = spoilt \cup {work.item}
  BY DEF Announce, CutShort
<1>4. WorkMoves
  <2>1. CASE At(IF IsAt("typing") THEN "working" ELSE "mkdir")
    <3>1. PICK stage \in {"working", "mkdir"} : At(stage) /\ <<work.at, stage>> \in MovesOn
      BY <1>1, <2>1 DEF IsAt, MovesOn
    <3>2. work'.item = work.item /\ work'.at = stage
      BY <1>2, <3>1, AtMoves DEF Stages
    <3> QED
      BY <3>1, <3>2 DEF WorkMoves
  <2> QED
    BY <1>2, <1>3, <2>1, EndWorkMoves
<1>5. stopRequested' \in BOOLEAN /\ broken' \in BOOLEAN /\ outbox' \in Nat /\ spoilt' \subseteq Items
  <2>1. Reset
    BY <1>3, EndWorkResets DEF Reset
  <2>2. spoilt' \subseteq Items
    BY <1>2, <1>3 DEF ContextInv, FlagsOK
  <2> QED
    BY <2>1, <2>2, ResetKeeps DEF ContextInv
<1>6. FlagsOK' /\ StopsOK'
  BY <1>1, <1>5 DEF ContextInv, FlagsOK, StopsOK
<1>7. DownOK'
  BY <1>1, <1>2 DEF ContextInv, DownOK
<1> QED
  BY <1>1, <1>4, <1>6, <1>7 DEF Aside

LEMMA FinishAside ==
    ASSUME ContextInv, NEW ok \in BOOLEAN, Finish(ok)
    PROVE  Aside /\ FlagsOK' /\ StopsOK' /\ DownOK'
<1>1. /\ IsAt("finishing")
      /\ UNCHANGED <<sent, missed, log, entries, answered, bot, startupTs, stopPosts, stopMessage,
                     agent, continuation, unanswered>>
  BY DEF Finish, files, session
<1>2. QueueOK /\ WorkOK /\ work.item \in Items /\ processing
  BY <1>1 DEF ContextInv, MomInv, WorkOK, IsAt, Idle
<1>3. \/ At("stopped") /\ UNCHANGED <<processing, stopRequested, broken, outbox, spoilt>>
      \/ EndWork /\ (spoilt' = spoilt \/ spoilt' = spoilt \cup {work.item})
  BY DEF Finish, CutShort
<1>4. WorkMoves
  <2>1. CASE At("stopped")
    <3>1. work'.item = work.item /\ work'.at = "stopped"
      BY <1>2, <2>1, AtMoves DEF Stages
    <3> QED
      BY <1>1, <3>1 DEF WorkMoves, IsAt, MovesOn
  <2> QED
    BY <1>2, <1>3, <2>1, EndWorkMoves
<1>5. stopRequested' \in BOOLEAN /\ broken' \in BOOLEAN /\ outbox' \in Nat /\ spoilt' \subseteq Items
  <2>1. Reset
    BY <1>3, EndWorkResets DEF Reset
  <2>2. spoilt' \subseteq Items
    BY <1>2, <1>3 DEF ContextInv, FlagsOK
  <2> QED
    BY <2>1, <2>2, ResetKeeps DEF ContextInv
<1>6. FlagsOK' /\ StopsOK'
  BY <1>1, <1>5 DEF ContextInv, FlagsOK, StopsOK
<1>7. DownOK'
  BY <1>1, <1>2 DEF ContextInv, DownOK
<1> QED
  BY <1>1, <1>4, <1>6, <1>7 DEF Aside

LEMMA ReportStopAside ==
    ASSUME ContextInv, NEW ok \in BOOLEAN, ReportStop(ok)
    PROVE  Aside /\ FlagsOK' /\ StopsOK' /\ DownOK'
<1>1. /\ IsAt("stopped") /\ EndWork /\ stopMessage' = (stopMessage /\ ~ok)
      /\ UNCHANGED <<sent, missed, log, entries, answered, bot, startupTs, stopPosts,
                     agent, continuation, unanswered, spoilt>>
  BY DEF ReportStop, files, session
<1>2. QueueOK /\ WorkOK /\ processing
  BY <1>1 DEF ContextInv, MomInv, WorkOK, IsAt, Idle
<1>3. WorkMoves
  BY <1>1, <1>2, EndWorkMoves
<1>4. stopRequested' \in BOOLEAN /\ broken' \in BOOLEAN /\ outbox' \in Nat /\ stopMessage' \in BOOLEAN
  <2>1. stopMessage' \in BOOLEAN
    BY <1>1
  <2> QED
    BY <1>1, <2>1, EndWorkResets, ResetKeeps DEF ContextInv
<1>5. FlagsOK' /\ StopsOK'
  BY <1>1, <1>4 DEF ContextInv, FlagsOK, StopsOK
<1>6. DownOK'
  BY <1>1, <1>2 DEF ContextInv, DownOK
<1> QED
  BY <1>1, <1>3, <1>5, <1>6 DEF Aside

LEMMA AnswerAside ==
    ASSUME ContextInv, NEW result \in {"ok", "silent", "overflow", "aborted"}, Answer(result)
    PROVE  Aside /\ FlagsOK' /\ StopsOK' /\ DownOK'
<1>1. /\ UNCHANGED <<sent, missed, log, entries, bot, startupTs, processing, stopRequested,
                     stopPosts, stopMessage, broken, spoilt>>
      /\ agent' = "idle" /\ answered' = TRUE /\ Says
      /\ continuation' = (continuation \/ result = "overflow")
      /\ unanswered' = (result = "overflow")
      /\ \/ IsAt("prompting") /\ work' = [work EXCEPT !.at = "draining", !.result = result]
         \/ work' = work
  BY DEF Answer, Returns, slackVars, stops
<1>2. WorkMoves
  <2>1. CASE IsAt("prompting") /\ work' = [work EXCEPT !.at = "draining", !.result = result]
    <3>1. work \in [item : Items \cup {Nothing}, at : Stages, result : Results]
      BY DEF ContextInv, MomInv, WorkOK
    <3>2. work'.item = work.item /\ work'.at = "draining"
      BY <2>1, <3>1
    <3> QED
      BY <2>1, <3>2 DEF WorkMoves, MovesOn, IsAt
  <2>2. CASE work' = work
    BY <2>2 DEF WorkMoves
  <2> QED
    BY <1>1, <2>1, <2>2
<1>3. outbox' \in Nat
  BY <1>1 DEF Says, ContextInv, FlagsOK
<1>4. FlagsOK' /\ StopsOK' /\ DownOK'
  BY <1>1, <1>3 DEF ContextInv, FlagsOK, StopsOK, DownOK
<1> QED
  BY <1>1, <1>2, <1>4 DEF Aside

LEMMA ConcludeAside ==
    ASSUME ContextInv, NEW ok \in BOOLEAN, Conclude(ok)
    PROVE  Aside /\ FlagsOK' /\ StopsOK' /\ DownOK'
<1>1. /\ IsAt("draining") /\ At("finishing") /\ broken' = ~ok
      /\ UNCHANGED <<sent, missed, log, entries, answered, bot, startupTs, processing, stopRequested,
                     stopPosts, stopMessage, outbox, agent, continuation, unanswered, spoilt>>
  BY DEF Conclude, files, stops, session
<1>2. work'.item = work.item /\ work'.at = "finishing"
  BY <1>1, AtMoves DEF ContextInv, MomInv, Stages
<1>3. WorkMoves
  BY <1>1, <1>2 DEF WorkMoves, MovesOn, IsAt
<1>4. FlagsOK' /\ StopsOK' /\ DownOK'
  BY <1>1 DEF ContextInv, FlagsOK, StopsOK, DownOK
<1> QED
  BY <1>1, <1>3, <1>4 DEF Aside

\* The steps that leave the work alone.
LEMMA OtherAside ==
    ASSUME ContextInv,
           Tool \/ Continue \/ StopPosted \/ Connect \/ Started \/ \E ok \in BOOLEAN : Post(ok)
    PROVE  Aside /\ FlagsOK' /\ StopsOK' /\ DownOK'
<1>1. UNCHANGED <<sent, missed, log, entries, work, processing>>
  BY DEF Tool, Continue, StopPosted, Connect, Started, Post, slackVars, files, queued
<1>2. Aside
  BY <1>1 DEF Aside, WorkMoves
<1>3. CASE Tool
  <2>1. outbox' \in Nat
    BY <1>3 DEF Tool, Says, ContextInv, FlagsOK
  <2> QED
    BY <1>1, <1>2, <1>3, <2>1 DEF Tool, ContextInv, FlagsOK, StopsOK, DownOK, stops, session
<1>4. CASE Continue
  BY <1>1, <1>2, <1>4 DEF Continue, ContextInv, FlagsOK, StopsOK, DownOK, stops, files, output
<1>5. CASE StopPosted
  <2>1. Cardinality(missed) \in Nat
    BY MissedFinite DEF ContextInv, MomInv
  <2>2. StopsOK'
    <3>1. Len(sent) \in Nat
      BY DEF ContextInv, MomInv, ArrivalsOK
    <3> QED
      BY <1>1, <1>5, <2>1, <3>1 DEF StopPosted, ContextInv, StopsOK
  <2> QED
    BY <1>1, <1>2, <1>5, <2>2 DEF StopPosted, ContextInv, FlagsOK, DownOK, session, files, output
<1>6. CASE Connect
  BY <1>1, <1>2, <1>6 DEF Connect, ContextInv, FlagsOK, StopsOK, DownOK, stops, files, output, session
<1>7. CASE Started
  <2>1. startupTs' \in 0..(MaxSent + 1)
    BY <1>7, ItemKinds DEF Started, ContextInv, MomInv, ArrivalsOK
  <2> QED
    BY <1>1, <1>2, <1>7, <2>1 DEF Started, ContextInv, FlagsOK, StopsOK, DownOK, stops, files, output, session
<1>8. ASSUME NEW ok \in BOOLEAN, Post(ok) PROVE Aside /\ FlagsOK' /\ StopsOK' /\ DownOK'
  <2>1. outbox' \in Nat
    BY <1>8 DEF Post, ContextInv, FlagsOK
  <2> QED
    BY <1>1, <1>2, <1>8, <2>1 DEF Post, ContextInv, FlagsOK, StopsOK, DownOK, stops, files, session
<1> QED
  BY <1>3, <1>4, <1>5, <1>6, <1>7, <1>8

LEMMA EnqueueEventAside ==
    ASSUME ContextInv, EnqueueEvent
    PROVE  Aside /\ FlagsOK' /\ StopsOK' /\ DownOK'
<1>1. /\ events < MaxEvents /\ events' = events + 1 /\ bot # "down"
      /\ UNCHANGED <<sent, missed, log, entries, answered, bot, startupTs, stopPosts, stopMessage,
                     agent, continuation, unanswered, spoilt>>
      /\ \/ Enqueue(MaxSent + events')
         \/ UNCHANGED <<work, stopRequested, broken, outbox>>
  BY DEF EnqueueEvent, slackVars, files, session, queued
<1>2. MaxSent + events' \in Events
  BY <1>1, ItemKinds DEF ContextInv, MomInv, ArrivalsOK, Events
<1>3. \/ UNCHANGED <<work, stopRequested, broken, outbox>>
      \/ Begin(MaxSent + events', queue)
  BY <1>1 DEF Enqueue
<1>4. WorkMoves
  BY <1>2, <1>3, ItemKinds DEF WorkMoves, Begin, Messages, Events
<1>5. stopRequested' \in BOOLEAN /\ broken' \in BOOLEAN /\ outbox' \in Nat
  <2>1. Reset
    BY <1>3 DEF Begin, Reset
  <2> QED
    BY <2>1, ResetKeeps DEF ContextInv
<1> QED
  BY <1>1, <1>4, <1>5 DEF Aside, ContextInv, FlagsOK, StopsOK, DownOK


\* A message that was sent or is delivered again is logged, and may be at work.
LEMMA ReceiveKnows ==
    ASSUME ContextInv, NEW ts, NEW text, Receive(ts, text), MomInv',
           sent' \in Seq(Texts), \A k \in DOMAIN sent : k \in DOMAIN sent' /\ sent'[k] = sent[k],
           ts \in DOMAIN sent', ts \notin missed', ts # work.item, work.item \notin missed',
           missed' \subseteq DOMAIN sent',
           Cardinality(missed') + Len(sent) + 1 = Cardinality(missed) + Len(sent'),
           bot # "down",
           UNCHANGED <<entries, answered, bot, startupTs, stopMessage, continuation, unanswered, spoilt>>
    PROVE  ContextInv'
<1>1. /\ log' = Append(log, ts)
      /\ \/ work' = work
         \/ work.at = "none" /\ work'.at = "typing" /\ work'.item = ts
  <2>1. CASE UNCHANGED queued
    BY <2>1 DEF Receive, queued
  <2>2. CASE Enqueue(ts)
    BY <2>2 DEF Receive, Enqueue, Begin, ContextInv, MomInv, WorkOK, Idle
  <2> QED
    BY <2>1, <2>2 DEF Receive
<1>2. LogOK' /\ HeardOK' /\ CountOK'
  <2> DEFINE new == <<ts>>
  <2>1. new \in Seq(DOMAIN sent') /\ ToSet(new) = {ts}
    BY DEF ToSet
  <2>2. log' = log \o new
    <3>1. log \in Seq(DOMAIN sent)
      BY DEF ContextInv, LogOK
    <3> QED
      BY <1>1, <3>1
  <2>3. work'.item \notin missed'
    BY <1>1
  <2>4. work.item \notin ToSet(new)
    BY <2>1
  <2>5. \/ work' = work
        \/ work.at = "none" /\ work'.at = "typing" /\ work'.item \in ToSet(new)
    BY <1>1, <2>1
  <2> HIDE DEF new
  <2> QED
    BY <2>1, <2>2, <2>3, <2>4, <2>5, LogGrows DEF ContextInv
<1>3. Reset \/ (UNCHANGED <<broken, outbox>> /\ stopRequested' = TRUE)
  BY DEF Receive, HandleStop, Enqueue, Begin, Reset
<1>4. FlagsOK'
  <2>1. stopRequested' \in BOOLEAN /\ broken' \in BOOLEAN /\ outbox' \in Nat
    <3>1. CASE Reset
      BY <3>1, ResetKeeps DEF ContextInv
    <3>2. CASE UNCHANGED <<broken, outbox>> /\ stopRequested' = TRUE
      BY <3>2 DEF ContextInv, FlagsOK
    <3> QED
      BY <1>3, <3>1, <3>2
  <2>2. agent' \in {"idle", "running", "aborted"}
    BY DEF Receive, HandleStop, ContextInv, FlagsOK
  <2> QED
    BY <2>1, <2>2 DEF ContextInv, FlagsOK
<1>5. StopsOK'
  <2>1. stopPosts' = stopPosts \/ stopPosts' = stopPosts + 1
    BY DEF Receive, HandleStop
  <2>2. Cardinality(missed) \in Nat
    BY MissedFinite DEF ContextInv, MomInv
  <2>3. Cardinality(missed') \in Nat
    <3>1. Len(sent') \in Nat /\ missed' \in SUBSET (1..Len(sent'))
      OBVIOUS
    <3>2. IsFiniteSet(1..Len(sent'))
      BY <3>1, FS_Interval
    <3> QED
      BY <3>1, <3>2, FS_Subset, FS_CardinalityType
  <2>4. Len(sent) \in Nat /\ Len(sent') \in Nat
    BY DEF ContextInv, MomInv, ArrivalsOK
  <2> QED
    BY <2>1, <2>2, <2>3, <2>4 DEF ContextInv, StopsOK
<1>6. DownOK'
  BY DEF DownOK
<1> QED
  BY <1>2, <1>4, <1>5, <1>6 DEF ContextInv

LEMMA SendKnows ==
    ASSUME ContextInv, NEW text \in Texts, Send(text)
    PROVE  ContextInv'
<1> DEFINE ts == Len(sent) + 1
<1>1. /\ Len(sent) < MaxSent /\ sent' = Append(sent, text)
      /\ \/ bot \in {"connected", "up"} /\ Receive(Len(sent'), text) /\ missed' = missed
         \/ /\ bot \in {"down", "backfilled"} /\ missed' = missed \cup {Len(sent')}
            /\ UNCHANGED <<log, queued, stopRequested, stopPosts, agent, broken, outbox>>
      /\ UNCHANGED <<entries, answered, bot, startupTs, stopMessage, continuation, unanswered, spoilt>>
  BY DEF Send
<1>2. MomInv'
  BY SendKeeps DEF ContextInv
<1>3. sent \in Seq(Texts) /\ log \in Seq(DOMAIN sent) /\ missed \subseteq DOMAIN sent
  BY DEF ContextInv, MomInv, ArrivalsOK, LogOK
<1>4. /\ sent' \in Seq(Texts) /\ Len(sent') = ts /\ Len(sent) \in Nat
      /\ DOMAIN sent = 1..Len(sent) /\ DOMAIN sent' = 1..ts
      /\ \A k \in DOMAIN sent : k \in DOMAIN sent' /\ sent'[k] = sent[k]
  BY <1>1, <1>3
<1>5. ts \in DOMAIN sent' /\ ts \notin DOMAIN sent
  BY <1>4
<1>6. ts # work.item /\ work.item \notin missed
  <2>1. work.item \in Messages => work.item \in DOMAIN sent
    <3>1. \A i \in DOMAIN log : log[i] \in DOMAIN sent
      BY <1>3
    <3> QED
      BY <3>1 DEF ContextInv, LogOK, ToSet
  <2>2. ts \in Messages
    BY <1>1, <1>4, ItemKinds DEF Messages
  <2> QED
    BY <1>5, <2>1, <2>2 DEF ContextInv, LogOK
<1>7. IsFiniteSet(missed) /\ Cardinality(missed) \in Nat
  BY MissedFinite DEF ContextInv, MomInv
<1> HIDE DEF ts
<1>8. CASE bot \in {"connected", "up"} /\ Receive(ts, text) /\ missed' = missed
  <2>1. Cardinality(missed') + Len(sent) + 1 = Cardinality(missed) + Len(sent')
    BY <1>4, <1>7, <1>8 DEF ts
  <2>2. ts \notin missed' /\ missed' \subseteq DOMAIN sent'
    BY <1>3, <1>4, <1>5, <1>8
  <2> QED
    BY <1>1, <1>2, <1>4, <1>5, <1>6, <1>8, <2>1, <2>2, ReceiveKnows
<1>9. CASE /\ bot \in {"down", "backfilled"} /\ missed' = missed \cup {ts}
           /\ UNCHANGED <<log, queued, stopRequested, stopPosts, agent, broken, outbox>>
  <2>1. LogOK' /\ HeardOK' /\ CountOK'
    <3> DEFINE new == <<>>
    <3>1. new \in Seq(DOMAIN sent') /\ ToSet(new) = {}
      BY DEF ToSet
    <3>2. log' = log \o new
      BY <1>3, <1>9
    <3>3. missed' \subseteq DOMAIN sent' /\ work'.item \notin missed' /\ work' = work
      BY <1>3, <1>4, <1>5, <1>6, <1>9 DEF queued
    <3> HIDE DEF new
    <3> QED
      BY <1>1, <1>4, <3>1, <3>2, <3>3, LogGrows DEF ContextInv
  <2>2. Cardinality(missed') = Cardinality(missed) + 1
    BY <1>3, <1>5, <1>7, <1>9, FS_AddElement
  <2> QED
    BY <1>1, <1>2, <1>4, <1>7, <1>9, <2>1, <2>2 DEF ContextInv, FlagsOK, StopsOK, DownOK, queued, ts
<1> QED
  BY <1>1, <1>4, <1>8, <1>9

LEMMA RedeliverKnows ==
    ASSUME ContextInv, NEW ts \in missed, Redeliver(ts)
    PROVE  ContextInv'
<1>1. /\ missed' = missed \ {ts} /\ Receive(ts, sent[ts]) /\ bot # "down"
      /\ UNCHANGED <<sent, entries, answered, bot, startupTs, stopMessage, continuation, unanswered, spoilt>>
  BY DEF Redeliver
<1>2. MomInv'
  BY RedeliverKeeps DEF ContextInv
<1>3. sent \in Seq(Texts) /\ missed \subseteq DOMAIN sent /\ work.item \notin missed
  BY DEF ContextInv, MomInv, ArrivalsOK, LogOK
<1>4. IsFiniteSet(missed) /\ Cardinality(missed) \in Nat /\ Len(sent) \in Nat
  BY <1>3, MissedFinite DEF ContextInv, MomInv
<1>5. Cardinality(missed') = Cardinality(missed) - 1
  BY <1>1, <1>4, FS_RemoveElement
<1>6. Cardinality(missed') + Len(sent) + 1 = Cardinality(missed) + Len(sent')
  BY <1>1, <1>4, <1>5
<1>7. /\ sent' \in Seq(Texts) /\ \A k \in DOMAIN sent : k \in DOMAIN sent' /\ sent'[k] = sent[k]
      /\ ts \in DOMAIN sent' /\ ts \notin missed' /\ ts # work.item /\ work.item \notin missed'
      /\ missed' \subseteq DOMAIN sent'
  BY <1>1, <1>3
<1> QED
  BY <1>1, <1>2, <1>6, <1>7, ReceiveKnows

LEMMA BackfillKnows ==
    ASSUME ContextInv, Backfill
    PROVE  ContextInv'
<1>1. /\ bot = "down" /\ bot' = "backfilled" /\ log' = Backfilled
      /\ UNCHANGED <<sent, missed, entries, answered, startupTs, queued, stopRequested, stopPosts,
                     stopMessage, broken, outbox, agent, continuation, unanswered, spoilt, shown, events>>
  BY DEF Backfill, slackVars, stops, output, session
<1>2. MomInv'
  BY <1>1, OthersKeep DEF ContextInv
<1>3. sent \in Seq(Texts) /\ log \in Seq(DOMAIN sent) /\ missed \subseteq DOMAIN sent /\ Len(sent) \in Nat
  BY DEF ContextInv, MomInv, ArrivalsOK, LogOK
<1>4. work.item = Nothing
  BY <1>1 DEF ContextInv, DownOK, MomInv, WorkOK, Idle
<1>5. PICK new \in Seq(DOMAIN sent) : log' = log \o new
  <2>1. CASE log = <<>>
    <3>1. log' = log \o <<>> /\ <<>> \in Seq(DOMAIN sent)
      BY <1>1, <1>3, <2>1 DEF Backfilled
    <3> QED
      BY <3>1
  <2>2. CASE log # <<>>
    <3>1. Stamps = [i \in 1..Len(sent) |-> i] /\ DOMAIN sent = 1..Len(sent)
      BY <1>3 DEF Stamps
    <3>2. \A K : Selected(Stamps, K) \in Seq(DOMAIN sent)
      BY <1>3, <3>1, NumbersSelected
    <3> QED
      BY <1>1, <2>2, <3>2 DEF Backfilled
  <2> QED
    BY <2>1, <2>2
<1>6. work.item \notin ToSet(new)
  <2>1. ToSet(new) \subseteq DOMAIN sent
    BY ToSetOfSeq
  <2>2. Nothing \notin DOMAIN sent
    BY <1>3 DEF Nothing
  <2> QED
    BY <1>4, <2>1, <2>2
<1>7. LogOK' /\ HeardOK' /\ CountOK'
  <2>1. /\ sent' \in Seq(Texts) /\ \A k \in DOMAIN sent : k \in DOMAIN sent' /\ sent'[k] = sent[k]
        /\ new \in Seq(DOMAIN sent') /\ missed' \subseteq DOMAIN sent'
    BY <1>1, <1>3
  <2>2. work' = work /\ work'.item \notin missed'
    BY <1>1 DEF queued, ContextInv, LogOK
  <2> QED
    BY <1>1, <1>5, <1>6, <2>1, <2>2, LogGrows DEF ContextInv
<1> QED
  BY <1>1, <1>2, <1>7 DEF ContextInv, FlagsOK, StopsOK, DownOK


LEMMA KillKnows ==
    ASSUME ContextInv, Kill
    PROVE  ContextInv'
<1>1. /\ bot' = "down" /\ startupTs' = Nothing /\ entries' = (IF answered THEN entries ELSE <<>>)
      /\ processing' = FALSE /\ work' = Idle
      /\ stopRequested' = FALSE /\ stopPosts' = 0 /\ stopMessage' = FALSE
      /\ broken' = FALSE /\ outbox' = 0
      /\ agent' = "idle" /\ continuation' = FALSE /\ unanswered' = FALSE
      /\ spoilt' = spoilt \cup ({work.item} \ {Nothing})
      /\ UNCHANGED <<sent, missed, log, answered>>
  BY DEF Kill, slackVars
<1>2. MomInv'
  BY KillKeeps DEF ContextInv
<1>3. /\ sent \in Seq(Texts) /\ Len(sent) \in Nat /\ log \in Seq(DOMAIN sent) /\ missed \subseteq DOMAIN sent
      /\ entries \in Seq(Texts \cup {"event"})
      /\ work \in [item : Items \cup {Nothing}, at : Stages, result : Results]
  BY DEF ContextInv, MomInv, ArrivalsOK, LogOK, WorkOK
<1>4. work'.item = Nothing /\ work'.at = "none" /\ Nothing \notin Messages /\ Nothing \notin DOMAIN sent
  BY <1>1, <1>3, ItemKinds DEF Idle, Nothing, Messages
<1>5. LogOK'
  <2>1. entries' \in Seq(Texts \cup {"event"})
    BY <1>1, <1>3
  <2> QED
    BY <1>1, <1>3, <1>4, <2>1 DEF LogOK, Messages
<1>6. HeardOK'
  BY <1>4 DEF HeardOK
<1>7. CountOK'
  <2> SUFFICES ASSUME NEW text \in Texts
               PROVE  Cardinality(Told(text)') + Pending(text)' <= Cardinality(Logged(text)')
    BY DEF CountOK
  <2>1. Logged(text)' = Logged(text) /\ Pending(text)' = 0
    BY <1>1, <1>4 DEF Logged, Pending
  <2>2. /\ Cardinality(Told(text)) \in Nat /\ Cardinality(Logged(text)) \in Nat
        /\ Cardinality(Told(text)) + Pending(text) <= Cardinality(Logged(text))
    BY <1>3, CountedPlaces, PlacesFinite DEF ContextInv, CountOK
  <2>3. Pending(text) \in {0, 1}
    BY DEF Pending
  <2>4. CASE entries' = entries
    <3>1. Told(text)' = Told(text)
      BY <2>4 DEF Told
    <3> QED
      BY <2>1, <2>2, <2>3, <3>1
  <2>5. CASE entries' = <<>>
    <3>1. Told(text)' = {}
      BY <2>5 DEF Told
    <3> QED
      BY <2>1, <2>2, <3>1, FS_EmptySet
  <2> QED
    BY <1>1, <2>4, <2>5
<1>8. FlagsOK'
  <2>1. spoilt' \subseteq Items
    BY <1>1, <1>3 DEF ContextInv, FlagsOK
  <2>2. startupTs' \in 0..(MaxSent + 1)
    BY <1>1, ItemKinds DEF Nothing
  <2> QED
    BY <1>1, <2>1, <2>2 DEF ContextInv, FlagsOK
<1>9. StopsOK' /\ DownOK'
  <2>1. Cardinality(missed) <= Len(sent)
    <3>1. Cardinality(missed) \in Nat
      BY MissedFinite DEF ContextInv, MomInv
    <3> QED
      BY <1>3, <3>1 DEF ContextInv, StopsOK
  <2> QED
    BY <1>1, <1>3, <2>1, MissedFinite DEF ContextInv, MomInv, StopsOK, DownOK
<1> QED
  BY <1>2, <1>5, <1>6, <1>7, <1>8, <1>9 DEF ContextInv

LEMMA SyncKeepsContext ==
    ASSUME ContextInv, Sync
    PROVE  ContextInv'
<1>1. /\ UNCHANGED <<sent, missed, answered, bot, startupTs, processing, stopRequested, stopPosts,
                     stopMessage, broken, outbox, agent, continuation, spoilt>>
      /\ unanswered' = (NewTexts(work.item) # <<>>)
  BY DEF Sync, slackVars, stops
<1>2. FlagsOK' /\ StopsOK' /\ DownOK'
  BY <1>1 DEF ContextInv, FlagsOK, StopsOK, DownOK
<1>3. MomInv'
  BY SyncKeeps DEF ContextInv
<1> QED
  BY <1>2, <1>3, SyncKnows DEF ContextInv

LEMMA PromptKeepsContext ==
    ASSUME ContextInv, Prompt
    PROVE  ContextInv'
<1>1. /\ IsAt("ready")
      /\ UNCHANGED <<sent, missed, log, answered, bot, startupTs, stopPosts, stopMessage, continuation>>
  BY DEF Prompt, slackVars
<1>2. MomInv'
  BY PromptKeeps DEF ContextInv
<1>3. CASE /\ agent' = "running" /\ unanswered' = FALSE
           /\ entries' = Append(entries, Text(work.item))
           /\ At("prompting")
           /\ UNCHANGED <<processing, stopRequested, broken, outbox, spoilt>>
  <2>1. LogOK' /\ HeardOK' /\ CountOK'
    BY <1>1, <1>3, PromptKnows
  <2>2. FlagsOK' /\ StopsOK' /\ DownOK'
    BY <1>1, <1>3 DEF ContextInv, FlagsOK, StopsOK, DownOK
  <2> QED
    BY <1>2, <2>1, <2>2 DEF ContextInv
<1>4. CASE CutShort /\ UNCHANGED <<agent, unanswered, entries>>
  <2>1. QueueOK /\ WorkOK /\ work.item \in Items /\ processing
    BY <1>1 DEF ContextInv, MomInv, WorkOK, IsAt, Idle
  <2>2. Aside /\ Reset /\ spoilt' \subseteq Items
    BY <1>1, <1>4, <2>1, EndWorkMoves, EndWorkResets DEF Aside, CutShort, ContextInv, FlagsOK
  <2>3. FlagsOK' /\ StopsOK' /\ DownOK'
    BY <1>1, <1>4, <2>1, <2>2, ResetKeeps DEF ContextInv, FlagsOK, StopsOK, DownOK
  <2> QED
    BY <1>2, <2>2, <2>3, AsideKeeps
<1> QED
  BY <1>3, <1>4 DEF Prompt

LEMMA ContextInit == MomInit => ContextInv
<1> SUFFICES ASSUME MomInit PROVE ContextInv
  OBVIOUS
<1>1. /\ sent = <<>> /\ missed = {} /\ log = <<>> /\ entries = <<>> /\ answered = FALSE
      /\ bot = "down" /\ startupTs = Nothing /\ processing = FALSE
      /\ stopRequested = FALSE /\ stopPosts = 0 /\ stopMessage = FALSE
      /\ work = Idle /\ broken = FALSE /\ outbox = 0
      /\ agent = "idle" /\ continuation = FALSE /\ unanswered = FALSE /\ spoilt = {}
  BY DEF MomInit
<1>2. work.item = Nothing /\ work.at = "none" /\ Nothing \notin Messages /\ MaxSent \in Nat
  BY <1>1, ItemKinds DEF Idle, Nothing, Messages
<1>3. \A S : <<>> \in Seq(S)
  OBVIOUS
<1>4. LogOK
  BY <1>1, <1>2, <1>3 DEF LogOK
<1>5. FlagsOK
  <2>1. startupTs \in 0..(MaxSent + 1) /\ outbox \in Nat /\ spoilt \subseteq Items
    BY <1>1, <1>2 DEF Nothing
  <2>2. /\ answered \in BOOLEAN /\ stopRequested \in BOOLEAN /\ stopMessage \in BOOLEAN
        /\ broken \in BOOLEAN /\ continuation \in BOOLEAN /\ unanswered \in BOOLEAN
    BY <1>1
  <2>3. bot \in {"down", "backfilled", "connected", "up"} /\ agent \in {"idle", "running", "aborted"}
    BY <1>1
  <2> QED
    BY <2>1, <2>2, <2>3 DEF FlagsOK
<1>6. StopsOK
  <2>1. Len(<<>>) = 0 /\ Cardinality({}) = 0
    BY FS_EmptySet
  <2> QED
    BY <1>1, <2>1 DEF StopsOK
<1>7. DownOK /\ HeardOK
  BY <1>1, <1>2 DEF DownOK, HeardOK
<1>8. CountOK
  <2> SUFFICES ASSUME NEW text \in Texts
               PROVE  Cardinality(Told(text)) + Pending(text) <= Cardinality(Logged(text))
    BY DEF CountOK
  <2>1. DOMAIN <<>> = {}
    OBVIOUS
  <2>2. Told(text) = {} /\ Logged(text) = {} /\ Pending(text) = 0
    BY <1>1, <1>2, <2>1 DEF Told, Logged, Pending
  <2>3. Cardinality({}) = 0
    BY FS_EmptySet
  <2> QED
    BY <2>2, <2>3
<1> QED
  BY <1>4, <1>5, <1>6, <1>7, <1>8, MomInitInv DEF ContextInv

LEMMA ContextNext == ContextInv /\ [MomNext]_momVars => ContextInv'
<1> SUFFICES ASSUME ContextInv, [MomNext]_momVars PROVE ContextInv'
  OBVIOUS
<1>1. MomInv'
  BY MomInvNext DEF ContextInv
<1>2. CASE \E text \in Texts : Send(text)
  BY <1>2, SendKnows
<1>3. CASE \E ts \in missed : Redeliver(ts)
  BY <1>3, RedeliverKnows
<1>4. CASE EnqueueEvent
  BY <1>1, <1>4, EnqueueEventAside, AsideKeeps
<1>5. ASSUME NEW ok \in BOOLEAN, Announce(ok) \/ Post(ok) \/ Conclude(ok) \/ Finish(ok) \/ ReportStop(ok)
      PROVE  ContextInv'
  <2>1. Aside /\ FlagsOK' /\ StopsOK' /\ DownOK'
    BY <1>5, AnnounceAside, OtherAside, ConcludeAside, FinishAside, ReportStopAside
  <2> QED
    BY <1>1, <2>1, AsideKeeps
<1>6. CASE Sync \/ Prompt
  BY <1>6, SyncKeepsContext, PromptKeepsContext
<1>7. CASE Tool \/ Continue \/ StopPosted \/ Connect \/ Started
  <2>1. Aside /\ FlagsOK' /\ StopsOK' /\ DownOK'
    BY <1>7, OtherAside
  <2> QED
    BY <1>1, <2>1, AsideKeeps
<1>8. CASE \E result \in {"ok", "silent", "overflow", "aborted"} : Answer(result)
  BY <1>1, <1>8, AnswerAside, AsideKeeps
<1>9. CASE Backfill
  BY <1>9, BackfillKnows
<1>10. CASE Kill
  BY <1>10, KillKnows
<1>11. CASE UNCHANGED momVars
  <2>1. UNCHANGED <<sent, missed, log, entries, answered, bot, startupTs, processing, work, stopRequested,
                    stopPosts, stopMessage, broken, outbox, agent, continuation, unanswered, spoilt>>
    BY <1>11 DEF momVars, slackVars, files, queued, stops, output, session
  <2>2. Aside /\ FlagsOK' /\ StopsOK' /\ DownOK'
    BY <2>1 DEF Aside, WorkMoves, ContextInv, FlagsOK, StopsOK, DownOK
  <2> QED
    BY <1>1, <2>2, AsideKeeps
<1> QED
  BY <1>2, <1>3, <1>4, <1>5, <1>6, <1>7, <1>8, <1>9, <1>10, <1>11 DEF MomNext

\* A message is answered with all that was logged before it, whatever was sent
\* while the bot was busy, away or killed, and the session is never told a text
\* more often than it was logged.
THEOREM ContextStaysExact == MomSpec => []ContextExact
<1>1. ContextInv => ContextExact
  <2> SUFFICES ASSUME ContextInv PROVE ContextExact
    OBVIOUS
  <2>1. MomTypeOK
    <3>1. queue \in Seq(Items)
      BY ItemKinds DEF ContextInv, MomInv, QueueOK
    <3>2. stopPosts \in 0..MaxSent
      <4>1. Len(sent) \in Nat /\ Len(sent) <= MaxSent /\ Cardinality(missed) \in Nat /\ MaxSent \in Nat
        BY ItemKinds, MissedFinite DEF ContextInv, MomInv, ArrivalsOK
      <4> QED
        BY <4>1 DEF ContextInv, StopsOK
    <3>3. (work = Idle) = ~processing
      BY ItemKinds DEF ContextInv, MomInv, WorkOK, Idle
    <3>4. /\ sent \in Seq(Texts) /\ missed \subseteq DOMAIN sent
          /\ shown \in [Items -> {"none", "working", "done", "deleted"}]
          /\ log \in Seq(DOMAIN sent) /\ entries \in Seq(Texts \cup {"event"})
          /\ (queue # <<>> => processing) /\ (running => processing)
      BY DEF ContextInv, MomInv, QueueOK, IndicatorsOK, ArrivalsOK, LogOK
    <3> QED
      BY <3>1, <3>2, <3>3, <3>4 DEF MomTypeOK, ContextInv, FlagsOK
  <2>2. ASSUME NEW i \in DOMAIN log, log[i] = work.item,
               work.at \in {"prompting", "draining", "finishing"}, NEW j \in 1..i
        PROVE  sent[log[j]] \in ToSet(entries)
    <3>1. work.item \in Messages
      <4>1. log[i] \in DOMAIN sent
        BY DEF ContextInv, LogOK
      <4> QED
        BY <2>2, <4>1, ItemKinds DEF ContextInv, MomInv, ArrivalsOK, Messages
    <3> QED
      BY <2>2, <3>1 DEF ContextInv, HeardOK
  <2>3. ASSUME NEW text \in Texts PROVE Cardinality(Told(text)) <= Cardinality(Logged(text))
    <3>1. /\ Cardinality(Told(text)) \in Nat /\ Cardinality(Logged(text)) \in Nat
          /\ Cardinality(Told(text)) + Pending(text) <= Cardinality(Logged(text))
      BY CountedPlaces, PlacesFinite DEF ContextInv, CountOK, LogOK
    <3>2. Pending(text) \in {0, 1}
      BY DEF Pending
    <3> QED
      BY <3>1, <3>2
  <2> QED
    BY <2>1, <2>2, <2>3 DEF ContextExact
<1>2. MomInit => ContextInv
  BY ContextInit
<1>3. ContextInv /\ [MomNext]_momVars => ContextInv'
  BY ContextNext
<1> QED
  BY <1>1, <1>2, <1>3, PTL DEF MomSpec

================================================================================
