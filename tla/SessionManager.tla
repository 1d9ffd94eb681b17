--------------------------- MODULE SessionManager ---------------------------
(***************************************************************************)
(* packages/coding-agent/src/core/session-manager.ts: a conversation as an  *)
(* append-only tree of entries, kept in memory and in a JSONL file that a   *)
(* later process reloads.  The file is written only once the conversation   *)
(* has an assistant message; until then entries live in memory, and the     *)
(* first flush appends them line by line.  A process may be killed between  *)
(* two lines (or, with "torn" in Features, inside one).                     *)
(*                                                                          *)
(* An entry is [id, parent, kind, ref, label]: ref is the target of a label *)
(* or the first kept entry of a compaction.  Timestamps, session ids and    *)
(* message texts are left out, and generateId is a fresh id.                *)
(***************************************************************************)
EXTENDS Integers, Selection, SequencesExt, FiniteSetsExt, Functions

CONSTANTS Files,     \* paths a session may be kept under
          MaxId,     \* bound: entries ever created
          MaxLines,  \* bound: lines of one file
          Kinds,     \* the kinds of entry the user and the agent append
          Labels,    \* label texts
          Features   \* which of "kill", "torn", "fork", "share" may happen

NoFile == 0
NoEntry == 0
NoLabel == "none"
Plain == {"user", "assistant", "meta"}
AllKinds == Plain \cup {"compaction", "label", "branch_summary"}

ASSUME FilesAssumption == Files \subseteq Nat \ {NoFile} /\ Files # {}
ASSUME BoundAssumption == MaxId \in Nat /\ MaxLines \in Nat
ASSUME KindsAssumption == Kinds \subseteq AllKinds
ASSUME LabelsAssumption == NoLabel \notin Labels
ASSUME FeaturesAssumption == Features \subseteq {"kill", "torn", "fork", "share"}

VARIABLES disk,         \* the lines of every file that exists
          sessionFile,  \* NoFile while no process runs
          fileEntries, byId, labelsById, leafId, flushed,
          snapshots     \* snapshot files whose deletion is pending

memory == <<sessionFile, fileEntries, byId, labelsById, leafId, flushed>>
vars == <<disk, memory, snapshots>>

Ids == 1..MaxId
Entry(id, parent, kind, ref, label) ==
    [id |-> id, parent |-> parent, kind |-> kind, ref |-> ref, label |-> label]
Header == Entry(NoEntry, NoEntry, "session", NoEntry, NoLabel)
Torn == Entry(NoEntry, NoEntry, "torn", NoEntry, NoLabel)

Empty == <<>>
\* A map after set(key, value).
With(map, key, value) == [k \in DOMAIN map \cup {key} |-> IF k = key THEN value ELSE map[k]]

EntriesOfKind(kinds) == [id : Ids, parent : Ids \cup {NoEntry}, kind : kinds,
                         ref : Ids \cup {NoEntry}, label : Labels \cup {NoLabel}]
Entries == EntriesOfKind(AllKinds)

(***************************************************************************)
(* Reading: loadEntriesFromFile, _buildIndex, getBranch,                    *)
(* buildSessionContext                                                      *)
(***************************************************************************)
EntriesOf(es) == Selected(es, Entries)

HasAssistant(es) == \E i \in DOMAIN es : es[i].kind = "assistant"

\* The lines that can be parsed.
Valid(lines) == Selected(lines, Entries \cup {Header})

LoadBuggy(lines) == IF HasAssistant(Valid(lines)) THEN Valid(lines) ELSE <<>>

\* loadEntriesFromFile skips malformed lines and wants the header first.
Load(lines) ==
    IF Valid(lines) # <<>> /\ Valid(lines)[1] = Header THEN Valid(lines) ELSE <<>>

\* _buildIndex maps ids to entries (a later line wins) ...
At(es, id) == {i \in DOMAIN es : es[i].id = id}
Index(es) == [id \in {es[i].id : i \in DOMAIN es} \ {NoEntry} |-> es[Max(At(es, id))]]

\* ... and targets to labels (the last change of a target wins, and may clear) ...
ChangesOf(es, target) == {i \in DOMAIN es : es[i].kind = "label" /\ es[i].ref = target}
LabelsOf(es) ==
    LET latest(target) == es[Max(ChangesOf(es, target))].label
    IN  [target \in {t \in Ids : ChangesOf(es, t) # {} /\ latest(t) # NoLabel} |-> latest(target)]

\* ... and puts the leaf at the last entry of the file.
LeafOf(es) ==
    LET kept == {i \in DOMAIN es : es[i] # Header}
    IN  IF kept = {} THEN NoEntry ELSE es[Max(kept)].id

\* getBranch: from the root, or a broken link, down to an entry.
Branch(index, id) ==
    LET path[e \in DOMAIN index] ==
            IF index[e].parent \in DOMAIN index
            THEN Append(path[index[e].parent], index[e])
            ELSE <<index[e]>>
    IN  IF id \in DOMAIN index THEN path[id] ELSE <<>>

\* buildSessionContext: what the model is shown of a path.  Under a compaction,
\* its summary, the messages it kept and the ones that came after.
ContextOf(path) ==
    LET messages(from, to) ==
            Selected(SubSeq(path, from, to), EntriesOfKind({"user", "assistant", "branch_summary"}))
        at == Max({0} \cup {i \in DOMAIN path : path[i].kind = "compaction"})
        kept == {i \in 1..(at - 1) : path[i].id = path[at].ref}
    IN  IF at = 0 THEN messages(1, Len(path))
        ELSE <<path[at]>>
             \o (IF kept = {} THEN <<>> ELSE messages(Min(kept), at - 1))
             \o messages(at + 1, Len(path))

Context(index, leaf) == ContextOf(Branch(index, leaf))

(***************************************************************************)
(* The file                                                                 *)
(***************************************************************************)
Lines(f) == IF f \in DOMAIN disk THEN disk[f] ELSE <<>>

\* Appending after a torn line completes that line: the first new entry is lost in it.
Written(f, batch) ==
    LET glued == Lines(f) # <<>> /\ Last(Lines(f)) = Torn
    IN  IF batch = <<>> THEN disk
        ELSE With(disk, f, Lines(f) \o (IF glued THEN Tail(batch) ELSE batch))

\* The process is gone: only the files are left.
Down ==
    /\ sessionFile' = NoFile
    /\ fileEntries' = <<>>
    /\ byId' = Empty
    /\ labelsById' = Empty
    /\ leafId' = NoEntry
    /\ flushed' = FALSE

\* It is killed while it appends a batch of lines.
Killed(f, batch) ==
    /\ "kill" \in Features
    /\ Down
    /\ \E n \in 0..Len(batch) :
          LET whole == SubSeq(batch, 1, n) IN
          \/ disk' = Written(f, whole)
          \/ "torn" \in Features /\ n < Len(batch) /\ disk' = Written(f, Append(whole, Torn))

Used == {e.id : e \in UNION ({Range(fileEntries)} \cup {Range(disk[f]) : f \in DOMAIN disk})}
FreshId == 1 + Max({NoEntry} \cup Used)
Room(n) == FreshId + n - 1 <= MaxId

\* A path nothing was written under.
Unwritten == (Files \ DOMAIN disk) \ {sessionFile}
FreshFile == Min(Unwritten)

Running == sessionFile # NoFile

Init ==
    /\ disk \in {Empty, With(Empty, Min(Files), <<>>)}
    /\ sessionFile = NoFile
    /\ fileEntries = <<>>
    /\ byId = Empty
    /\ labelsById = Empty
    /\ leafId = NoEntry
    /\ flushed = FALSE
    /\ snapshots = {}

(***************************************************************************)
(* Opening sessions: the constructor, setSessionFile, newSession, forkFrom  *)
(***************************************************************************)
Reset(f, isFlushed) ==
    /\ fileEntries' = <<Header>>
    /\ byId' = Empty
    /\ labelsById' = Empty
    /\ leafId' = NoEntry
    /\ flushed' = isFlushed
    /\ sessionFile' = f

\* newSession, and setSessionFile on a path that does not exist.
Fresh(f, isFlushed) == Reset(f, isFlushed)

NewSession ==
    /\ Unwritten # {}
    /\ Fresh(FreshFile, FALSE)
    /\ UNCHANGED <<disk, snapshots>>

Loaded(f, es) ==
    /\ fileEntries' = es
    /\ byId' = Index(es)
    /\ labelsById' = LabelsOf(es)
    /\ leafId' = LeafOf(es)
    /\ flushed' = TRUE
    /\ sessionFile' = f

\* open, continueRecent, switchSession: a file without a header starts afresh.
SetSessionFile(f) ==
    /\ UNCHANGED snapshots
    /\ \/ f \notin DOMAIN disk /\ Fresh(f, FALSE) /\ UNCHANGED disk
       \/ /\ f \in DOMAIN disk /\ Load(disk[f]) = <<>>
          /\ Fresh(f, TRUE)
          /\ disk' = [disk EXCEPT ![f] = <<Header>>]
       \/ /\ f \in DOMAIN disk /\ Load(disk[f]) # <<>>
          /\ Loaded(f, Load(disk[f]))
          /\ UNCHANGED disk

\* forkFrom copies another session's entries behind a header of its own,
\* then opens the copy.
ForkFrom(source) ==
    LET copy == <<Header>> \o EntriesOf(Load(disk[source])) IN
    /\ ~Running /\ Unwritten # {} /\ "fork" \in Features
    /\ Load(disk[source]) # <<>>
    /\ UNCHANGED snapshots
    /\ \/ disk' = Written(FreshFile, copy) /\ Loaded(FreshFile, copy)
       \/ Killed(FreshFile, copy)

Exit == Running /\ Down /\ UNCHANGED <<disk, snapshots>>

(***************************************************************************)
(* Appending: _appendEntry, _persist and the append methods                 *)
(***************************************************************************)
BatchBuggy(es, e) == IF ~HasAssistant(es) THEN <<>> ELSE <<e>>

\* What _persist writes for the new entry e, already the last of es: nothing
\* until an assistant has answered, then everything, then one line at a time.
Batch(es, e) ==
    IF ~HasAssistant(es) THEN <<>> ELSE IF flushed THEN <<e>> ELSE es

AppendEntry(e, labels) ==
    LET es == Append(fileEntries, e) IN
    /\ Len(Lines(sessionFile)) + Len(Batch(es, e)) <= MaxLines
    /\ UNCHANGED snapshots
    /\ \/ /\ fileEntries' = es
          /\ byId' = With(byId, e.id, e)
          /\ leafId' = e.id
          /\ labelsById' = labels
          /\ flushed' = HasAssistant(es)
          /\ disk' = Written(sessionFile, Batch(es, e))
          /\ UNCHANGED sessionFile
       \/ Killed(sessionFile, Batch(es, e))

CanAppend(kind) == Running /\ Room(1) /\ kind \in Kinds

\* appendMessage and the entries the model is not shown: model and thinking
\* level changes, session names, extension data.
AppendPlain(kind) ==
    /\ CanAppend(kind)
    /\ AppendEntry(Entry(FreshId, leafId, kind, NoEntry, NoLabel), labelsById)

\* The first kept entry is one of the current path (see findCutPoint).
AppendCompaction(kept) ==
    /\ CanAppend("compaction")
    /\ kept \in {e.id : e \in Range(Branch(byId, leafId))}
    /\ AppendEntry(Entry(FreshId, leafId, "compaction", kept, NoLabel), labelsById)

ChangedLabelsBuggy(target, label) ==
    IF label # NoLabel THEN With(labelsById, target, label) ELSE labelsById

ChangedLabels(target, label) ==
    IF label # NoLabel THEN With(labelsById, target, label)
    ELSE Restrict(labelsById, DOMAIN labelsById \ {target})

\* A label is an entry of the tree too: it becomes the leaf.
AppendLabelChange(target, label) ==
    /\ CanAppend("label")
    /\ target \in DOMAIN byId
    /\ AppendEntry(Entry(FreshId, leafId, "label", target, label),
                   ChangedLabels(target, label))

\* branch and resetLeaf move the leaf and write nothing.
MoveLeaf(id) ==
    /\ Running
    /\ id \in DOMAIN byId \cup {NoEntry}
    /\ leafId' = id
    /\ UNCHANGED <<disk, sessionFile, fileEntries, byId, labelsById, flushed, snapshots>>

BranchWithSummary(id) ==
    /\ CanAppend("branch_summary")
    /\ id \in DOMAIN byId \cup {NoEntry}
    /\ AppendEntry(Entry(FreshId, id, "branch_summary", NoEntry, NoLabel), labelsById)

(***************************************************************************)
(* Extracting a branch: createBranchedSession, fork, shareBlockSnapshot     *)
(***************************************************************************)
KeptBuggy(path) == Selected(path, EntriesOfKind(AllKinds \ {"label", "compaction"}))

\* Label entries leave the path; the labels still set on it are written again
\* at its end, each the child of the one before.
Kept(path) == Selected(path, EntriesOfKind(AllKinds \ {"label"}))
LabelsToWriteBuggy(kept) == {}

LabelsToWrite(kept) == DOMAIN labelsById \cap {e.id : e \in Range(kept)}
LabelEntry(targets, i, last) ==
    Entry(FreshId + i - 1, IF i = 1 THEN last ELSE FreshId + i - 2,
          "label", targets[i], labelsById[targets[i]])

\* In the order of the labels' map: any order.
BranchedEntries(id) ==
    LET kept == Kept(Branch(byId, id))
    IN  {<<Header>> \o kept
         \o [i \in DOMAIN targets |-> LabelEntry(targets, i, LeafOf(kept))] :
            targets \in SetToSeqs(LabelsToWrite(kept))}

CreateBranchedSession(id) ==
    /\ Branch(byId, id) # <<>>
    /\ Unwritten # {}
    /\ \E es \in BranchedEntries(id) :
          /\ \A e \in Range(es) : e.id <= MaxId
          /\ \/ disk' = Written(FreshFile, es) /\ Loaded(FreshFile, es)
             \/ Killed(FreshFile, es)

\* AgentSession.fork: everything before a user message moves to a new session.
Fork(id) ==
    /\ Running /\ "fork" \in Features
    /\ id \in DOMAIN byId /\ byId[id].kind = "user"
    /\ UNCHANGED snapshots
    /\ \/ /\ byId[id].parent = NoEntry
          /\ Unwritten # {} /\ Fresh(FreshFile, FALSE) /\ UNCHANGED disk
       \/ byId[id].parent # NoEntry /\ CreateBranchedSession(byId[id].parent)

\* InteractiveMode.shareBlockSnapshot extracts the branch with the live
\* manager, exports the new file ...
Share(id) ==
    /\ Running /\ "share" \in Features
    /\ id \in DOMAIN byId
    /\ CreateBranchedSession(id)
    /\ snapshots' = IF sessionFile' = NoFile THEN snapshots ELSE snapshots \cup {FreshFile}

\* ... and deletes it when the upload is over.
EndShare(f) ==
    /\ Running /\ f \in snapshots
    /\ disk' = Restrict(disk, DOMAIN disk \ {f})
    /\ snapshots' = snapshots \ {f}
    /\ UNCHANGED memory

Next ==
    \/ NewSession
    \/ Exit
    \/ \E f \in Files : SetSessionFile(f) \/ EndShare(f)
    \/ \E f \in DOMAIN disk : ForkFrom(f)
    \/ \E kind \in Plain : AppendPlain(kind)
    \/ \E id \in Ids : \/ AppendCompaction(id)
                       \/ Fork(id)
                       \/ Share(id)
    \/ \E id \in Ids, label \in Labels \cup {NoLabel} : AppendLabelChange(id, label)
    \/ \E id \in Ids \cup {NoEntry} : MoveLeaf(id) \/ BranchWithSummary(id)

Spec == Init /\ [][Next]_vars

(***************************************************************************)
(* Properties                                                               *)
(***************************************************************************)

\* Types: entries are well formed, and files hold the header, entries and torn lines.
TypeOK ==
    /\ \A f \in DOMAIN disk :
          f \in Files /\ Range(disk[f]) \subseteq Entries \cup {Header, Torn}
    /\ sessionFile \in Files \cup {NoFile}
    /\ Range(fileEntries) \subseteq Entries \cup {Header}
    /\ DOMAIN byId \subseteq Ids /\ \A id \in DOMAIN byId : byId[id] \in Entries
    /\ DOMAIN labelsById \subseteq Ids /\ Range(labelsById) \subseteq Labels
    /\ leafId \in Ids \cup {NoEntry}
    /\ flushed \in BOOLEAN
    /\ snapshots \subseteq Files

\* The maps that _appendEntry and appendLabelChange update one entry at a time
\* are the ones _buildIndex would compute, and the leaf is one of the entries.
IndexAgrees ==
    /\ TypeOK
    /\ byId = Index(fileEntries)
    /\ labelsById = LabelsOf(fileEntries)
    /\ leafId \in DOMAIN byId \cup {NoEntry}

\* Once an assistant has answered, closing the session and opening its file
\* again gives the same entries, the same labels and the last entry as leaf,
\* however often the process was killed between two lines, restarted, forked or
\* switched before.  (What is appended after a torn line is not read back.)  And
\* no file holds entries behind anything but a header: the loader would take it
\* for corrupt and setSessionFile would start afresh over it.
ReopenSame ==
    /\ HasAssistant(fileEntries) /\ Torn \notin Range(Lines(sessionFile)) =>
           LET es == Load(Lines(sessionFile))
           IN  /\ Index(es) = byId
               /\ LabelsOf(es) = labelsById
               /\ LeafOf(es) = LeafOf(fileEntries)
    /\ \A f \in DOMAIN disk :
           Valid(disk[f]) # <<>> => Valid(disk[f])[1] = Header

\* A session file is append-only: once it has its header, no line of it is lost
\* or changed, whichever session is current and whatever is killed.
AppendOnly ==
    [][\A f \in DOMAIN disk : Header \in Range(disk[f]) =>
          f \in DOMAIN disk' /\ IsPrefix(disk[f], disk'[f])]_vars

\* A fork starts from the context its user message was sent in: the summary,
\* the kept messages and the later ones, exactly; and its branch goes back just
\* as far, no parent was left behind.  A branch with a label entry on it is
\* excepted: the entry is left out and what stood before it is cut off.
ForkKeepsContext ==
    [][\A id \in DOMAIN byId : sessionFile' \notin {NoFile, sessionFile} /\ Fork(id) =>
          LET path == Branch(byId, byId[id].parent)
          IN  (\A e \in Range(path) : e.kind # "label") =>
                  /\ Context(byId', leafId') = Context(byId, byId[id].parent)
                  /\ leafId' # NoEntry => Head(Branch(byId', leafId')) = Head(path)]_vars

\* A fork keeps the labels of the entries it keeps, and no other.
ForkKeepsLabels ==
    [][\A id \in DOMAIN byId : sessionFile' \notin {NoFile, sessionFile} /\ Fork(id) =>
          labelsById' = Restrict(labelsById,
              DOMAIN labelsById \cap {e.id : e \in Range(Kept(Branch(byId, byId[id].parent)))})]_vars

=============================================================================
