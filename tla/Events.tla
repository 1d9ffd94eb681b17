--------------------------------- MODULE Events ---------------------------------
(***************************************************************************)
(* packages/mom/src/events.ts: files of the events directory become work   *)
(* for a channel's queue.  Writers create, change and delete files; the    *)
(* watcher notices 100 ms after the last change, reads the file, again if  *)
(* it cannot be parsed, and executes it now, at its time or by a schedule. *)
(*                                                                         *)
(* A read takes less than those 100 ms, the wait for another attempt does  *)
(* not: only an attempt that failed lets other changes in between.         *)
(***************************************************************************)
EXTENDS Integers, FiniteSetsExt

CONSTANTS
    Files,           \* names
    MaxWrites,       \* bound: files written
    MaxTime,         \* bound: the clock
    MaxDelay,        \* the longest delay setTimeout knows, 2^31 - 1 ms
    MaxStarts        \* bound: times the process is started

ASSUME EventsAssumption ==
    MaxWrites \in Nat /\ MaxTime \in Nat /\ MaxDelay \in Nat /\ MaxStarts \in Nat

MaxRetries == 3
Times == 0..MaxTime
Absent == [type |-> "absent", at |-> 0, version |-> 0, mtime |-> 0]
Kinds == [type : {"partial", "immediate", "periodic"}, at : {0}]
         \cup [type : {"one-shot"}, at : Times \ {0}]

VARIABLES
    now,
    file,            \* the directory: what each name holds
    version,         \* files written so far
    starts, watching, startTime,
    debounce,        \* debounceTimers: names whose change is still to be handled
    known,           \* knownFiles
    reading,         \* handleFile calls that wait for another attempt, by name and attempt
    jobs,            \* timeouts and cron jobs that are alive
    scheduled,       \* timers and crons: the newest job of a name, if it was not cancelled
    executed,        \* history: times each version was enqueued
    retried          \* history: names that were read again after a failed attempt

watcher == <<starts, watching, startTime, debounce, known, reading>>
schedule == <<jobs, scheduled>>
history == <<executed, retried>>
eventsVars == <<now, file, version, watcher, schedule, history>>

-------------------------------------------------------------------------------

NoJob == [id |-> 0, name |-> "none", event |-> Absent, due |-> 0]
Timers == {"timers", "crons"}

EventsInit ==
    /\ now \in Times /\ file = [f \in Files |-> Absent] /\ version = 0
    /\ starts = 0 /\ watching = FALSE /\ startTime = 0 /\ debounce = {} /\ known = {}
    /\ reading = [c \in Files \X (1..MaxRetries) |-> 0]
    /\ jobs = {} /\ scheduled = [f \in Files |-> [m \in Timers |-> NoJob]]
    /\ executed = [v \in 1..MaxWrites |-> 0] /\ retried = {}

\* The clock, and every due timeout has fired before it moves on.
Tick ==
    /\ now < MaxTime /\ now' = now + 1
    /\ \A job \in jobs : job.event.type = "one-shot" => job.due > now
    /\ UNCHANGED <<file, version, watcher, schedule, history>>

Notice(f) == debounce' = IF watching THEN debounce \cup {f} ELSE debounce

\* A writer creates or changes a file, all of it or only a part as yet.
Write(f, kind) ==
    /\ version < MaxWrites /\ version' = version + 1
    /\ file' = [file EXCEPT ![f] = [type |-> kind.type, at |-> kind.at, version |-> version',
                                    mtime |-> now]]
    /\ Notice(f)
    /\ UNCHANGED <<now, starts, watching, startTime, known, reading, schedule, history>>

Delete(f) ==
    /\ file[f] # Absent
    /\ file' = [file EXCEPT ![f] = Absent]
    /\ Notice(f)
    /\ UNCHANGED <<now, version, starts, watching, startTime, known, reading, schedule, history>>

-------------------------------------------------------------------------------
(* The watcher. *)

\* deleteFile: the directory is watched, so this is noticed as well.
RemoveFile(f) ==
    /\ file' = [file EXCEPT ![f] = Absent]
    /\ debounce' = IF file[f] = Absent THEN debounce ELSE debounce \cup {f}
    /\ known' = known \ {f}

\* execute: enqueued, or discarded when the channel's queue is full.
Execute(event) ==
    \E accepted \in BOOLEAN :
        executed' = IF accepted THEN [executed EXCEPT ![event.version] = @ + 1] ELSE executed

\* cancelScheduled
CancelledBuggy(f) == {scheduled[f]["timers"]}
Cancelled(f) == {scheduled[f][m] : m \in Timers}

Cancel(f) ==
    /\ jobs' = jobs \ Cancelled(f)
    /\ scheduled' = [scheduled EXCEPT ![f] = [m \in Timers |-> NoJob]]

Reread(f) == reading' = [reading EXCEPT ![<<f, 1>>] = @ + 1]

\* handleFileChange, when the debounce timer fires.
HandleChange(f) ==
    /\ watching /\ f \in debounce /\ reading[<<f, 1>>] = 0
    /\ debounce' = debounce \ {f}
    /\ IF f \in known THEN Cancel(f) ELSE UNCHANGED schedule
    /\ \/ file[f] = Absent /\ known' = known \ {f} /\ UNCHANGED reading
       \/ file[f] # Absent /\ Reread(f) /\ UNCHANGED known
    /\ UNCHANGED <<now, file, version, starts, watching, startTime, history>>

\* A delay that setTimeout cannot hold is none.
Due(event) == IF event.at - now > MaxDelay THEN now ELSE event.at

\* handleOneShot, handlePeriodic: a new job, in the map over the earlier one.
Schedule(f, event) ==
    LET map == IF event.type = "one-shot" THEN "timers" ELSE "crons"
        job == [id |-> 1 + Max({0} \cup {j.id : j \in jobs}), name |-> f, event |-> event,
                due |-> IF event.type = "one-shot" THEN Due(event) ELSE 0]
    IN  /\ jobs' = jobs \cup {job}
        /\ scheduled' = [scheduled EXCEPT ![f][map] = job]

Stale(event) == event.mtime < startTime

KnowBuggy(f) == UNCHANGED known
Know(f) == known' = known \cup {f}

Unreadable(f) == file[f].type \in {"absent", "partial"}

GivesUp(f, n) == Unreadable(f) /\ n = MaxRetries

\* handleFile: one attempt to read the file, and what comes of it.  An event
\* of the past is dropped, as is a schedule that cannot be kept.
Attempt(f, n) ==
    LET event == file[f]
        Again == IF Unreadable(f) /\ n < MaxRetries THEN {n + 1} ELSE {}
    IN  /\ reading[<<f, n>>] > 0
        /\ reading' = [c \in DOMAIN reading |->
                          CASE c = <<f, n>> -> reading[c] - 1
                            [] c[1] = f /\ c[2] \in Again -> reading[c] + 1
                            [] OTHER -> reading[c]]
        /\ retried' = IF n > 1 THEN retried \cup {f} ELSE retried
        /\ \/ /\ (event.type = "one-shot" /\ event.at > now) \/ event.type = "periodic"
              /\ Schedule(f, event)
              /\ Know(f)
              /\ UNCHANGED <<file, debounce, executed>>
           \/ /\ \/ GivesUp(f, n)
                 \/ event.type = "immediate" /\ Stale(event)
                 \/ event.type = "one-shot" /\ event.at <= now
              /\ RemoveFile(f) /\ UNCHANGED <<schedule, executed>>
           \/ /\ event.type = "immediate" /\ ~Stale(event)
              /\ Execute(event) /\ RemoveFile(f) /\ UNCHANGED schedule
           \/ /\ Unreadable(f) /\ n < MaxRetries
              /\ UNCHANGED <<file, debounce, known, schedule, executed>>
        /\ UNCHANGED <<now, version, starts, watching, startTime>>

\* A timeout fires: the event runs and its file goes.  (A cron job fires
\* whenever it wants and leaves everything here as it is.)
ForgetTimer(f) == scheduled' = [scheduled EXCEPT ![f]["timers"] = NoJob]

Fire(job) ==
    /\ job.event.type = "one-shot" /\ job.due <= now
    /\ jobs' = jobs \ {job}
    /\ ForgetTimer(job.name)
    /\ Execute(job.event)
    /\ RemoveFile(job.name)
    /\ UNCHANGED <<now, version, starts, watching, startTime, reading, retried>>

\* The constructor, scanExisting and watch.
Start ==
    /\ ~watching /\ starts < MaxStarts
    /\ watching' = TRUE /\ starts' = starts + 1 /\ startTime' = now
    /\ reading' = [c \in DOMAIN reading |-> IF c[2] = 1 /\ file[c[1]] # Absent THEN 1 ELSE 0]
    /\ UNCHANGED <<now, file, version, debounce, known, schedule, history>>

\* stop, or the end of the process.
Stop ==
    /\ watching /\ watching' = FALSE
    /\ debounce' = {} /\ known' = {} /\ reading' = [c \in DOMAIN reading |-> 0]
    /\ jobs' = {} /\ scheduled' = [f \in Files |-> [m \in Timers |-> NoJob]]
    /\ UNCHANGED <<now, file, version, starts, startTime, history>>

EventsNext ==
    \/ Tick \/ Start \/ Stop
    \/ \E f \in Files : Delete(f) \/ HandleChange(f)
    \/ \E f \in Files, kind \in Kinds : Write(f, kind)
    \/ \E f \in Files, n \in 1..MaxRetries : Attempt(f, n)
    \/ \E job \in jobs : Fire(job)

\* Timers fire and reads return; nobody has to write or delete a file, and
\* nothing makes the bot start.
EventsFairness ==
    /\ WF_eventsVars(Tick)
    /\ \A f \in Files : /\ WF_eventsVars(HandleChange(f))
                        /\ \A n \in 1..MaxRetries : WF_eventsVars(Attempt(f, n))
    /\ WF_eventsVars(\E job \in jobs : Fire(job))

EventsSpec == EventsInit /\ [][EventsNext]_eventsVars /\ EventsFairness

-------------------------------------------------------------------------------

Contents == [type : {"absent", "partial", "immediate", "one-shot", "periodic"}, at : Times,
             version : 0..MaxWrites, mtime : Times]

EventsTypeOK ==
    /\ now \in Times /\ version \in 0..MaxWrites
    /\ file \in [Files -> Contents]
    /\ \A f \in Files : file[f].mtime <= now /\ file[f].version <= version
    /\ starts \in 0..MaxStarts /\ watching \in BOOLEAN /\ startTime \in Times
    /\ debounce \subseteq Files /\ known \subseteq Files
    /\ reading \in [Files \X (1..MaxRetries) -> Nat]
    /\ \A job \in jobs : job.name \in Files /\ job.event \in Contents
    /\ scheduled \in [Files -> [Timers -> {NoJob} \cup jobs]]
    /\ executed \in [1..MaxWrites -> Nat]
    /\ retried \subseteq Files

Settled(f) == watching /\ f \notin debounce /\ \A n \in 1..MaxRetries : reading[<<f, n>>] = 0

\* Once the watcher is done with a name, what the directory holds under it is
\* scheduled, and no job has outlived the version it was made for, because the
\* file is gone or another; except one whose file an earlier, failed attempt was
\* still to read again.
TimersMatchFiles ==
    /\ EventsTypeOK
    /\ \A f \in Files : Settled(f) /\ file[f] # Absent =>
           \E m \in Timers : scheduled[f][m].event = file[f]
    /\ \A job \in jobs : Settled(job.name) /\ job.event # file[job.name] =>
           job.name \in retried

\* No version of a file runs twice, again unless two attempts overlapped.
RunsOnce(v) == executed[v] > 1 => retried # {}

\* An immediate event written while the bot was away is dropped.
StaleDropped ==
    [][\A f \in Files : file[f].type = "immediate" /\ file[f].mtime < startTime
          => \A v \in {file[f].version} : executed'[v] = executed[v]]_eventsVars

\* Every file that is left alone but a periodic one comes to its end while the
\* bot is there: it runs at its time, or is dropped.
NothingLingers ==
    \A f \in Files : []<>(~watching \/ file[f].type \in {"absent", "periodic"})

\* An event happens once: never twice, not when it is out of date, and in the end.
HandledOnce == [](\A v \in 1..MaxWrites : RunsOnce(v)) /\ StaleDropped /\ NothingLingers

================================================================================
