-------------------------- MODULE DirectoryScanner --------------------------
(***************************************************************************)
(* DirectoryScanner: the file list a sender drains through                *)
(* GetNextFilePath, filled by the scan at construction (Reload) and by    *)
(* the io_service thread, which handles the directory monitor's events    *)
(* and the recheck timer that accepts a new file once its size stayed    *)
(* the same over one timer period.                                        *)
(*                                                                         *)
(* Paths are model values with a fixed parent; the root is a directory.   *)
(* Time is abstracted away: every timer entry has the same duration, so   *)
(* the timer queue is a FIFO and an expiry is an action.  The filesystem  *)
(* is the environment: it creates and removes directories, creates,       *)
(* grows and moves in files and directories, and the monitor queues one   *)
(* event for each change in a directory it watches.                       *)
(***************************************************************************)
EXTENDS Naturals, Sequences, FiniteSets, SequencesExt

CONSTANTS
  Root,              \* m_rootFileOrFolderPath
  Dirs,              \* directories below the root
  Files,             \* regular files (with an extension, path <= 255)
  Parent,            \* path -> the directory containing it
  RecurseDepth,      \* m_recurseDirectoriesDepth
  IncludeExisting,   \* m_includeExistingFiles
  IncludeNew,        \* m_includeNewFiles
  MaxSize,           \* bound on a file's size
  MaxEvents,         \* bound on the monitor's queue of undelivered events
  None, End

Paths == Dirs \cup Files

\* The depth of a path below the root, as relative(path, root) counts it:
\* an entry of the root has depth 0.
RECURSIVE Depth(_)
Depth(p) == IF Parent[p] = Root THEN 0 ELSE 1 + Depth(Parent[p])

EventTypes == {"added", "modified", "removed", "renamed_new_name"}

VARIABLES
  exists,      \* the paths present on disk
  size,        \* file -> its size on disk
  events,      \* dir_monitor: events queued for the handler
  monitored,   \* m_currentlyMonitoredDirectoryPaths
  added,       \* m_newFilePathsAddedSet
  pendSize,    \* m_currentlyPendingFilesToAddMap: file -> size, or None
  pendCount,   \*   and its queue count
  timerQ,      \* m_currentlyPendingFilesToAddTimerQueue (paths, FIFO)
  timerArmed,  \* an async_wait on m_timerNewFileComplete is outstanding
  list,        \* m_pathsOfFilesList
  iter,        \* m_currentFilePathIterator: an index of list, or End
  sent         \* ghost: the paths GetNextFilePath returned, in order

fsVars == <<exists, size>>
vars == <<exists, size, events, monitored, added, pendSize, pendCount,
          timerQ, timerArmed, list, iter, sent>>

-----------------------------------------------------------------------------
(* IterateDirectories                                                      *)

\* The entries a recursive_directory_iterator from dir visits: the
\* entries of dir and of every directory it enters, one whose depth is
\* below RecurseDepth (no_push on the others).
RECURSIVE Visited(_)
Visited(dir) ==
  LET here == {p \in exists : Parent[p] = dir}
  IN here \cup UNION {Visited(d) : d \in {e \in here \cap Dirs :
                                           Depth(e) < RecurseDepth}}

\* Mutant: a directory at the depth limit is also watched (> for >=).
IterateDirectoriesWatchAtLimit(dir, addFiles, found) ==
  LET v == Visited(dir)
      newFiles == (v \cap Files) \ found
  IN [monitor |-> IF IncludeNew
                    THEN {d \in v \cap Dirs : Depth(d) <= RecurseDepth}
                    ELSE {},
      found |-> newFiles,
      append |-> IF addFiles THEN SetToSeq(newFiles) ELSE <<>>]

\* IterateDirectories(dir, depth, addFiles): the directories it starts
\* monitoring and the files, not already in found (m_newFilePathsAddedSet),
\* it records and lists.  The list's order among them (the sort of Reload)
\* is one enumeration.
IterateDirectories(dir, addFiles, found) ==
  LET v == Visited(dir)
      newFiles == (v \cap Files) \ found
  IN [monitor |-> IF IncludeNew
                    THEN {d \in v \cap Dirs : Depth(d) < RecurseDepth}
                    ELSE {},
      found |-> newFiles,
      append |-> IF addFiles THEN SetToSeq(newFiles) ELSE <<>>]

-----------------------------------------------------------------------------
(* The io_service thread                                                   *)

\* Mutant: a second event for a pending file leaves its count at 1.
TryAddNewFileNoCount(f) ==
  IF f \in added THEN UNCHANGED <<pendSize, pendCount, timerQ, timerArmed>>
  ELSE
    /\ pendSize' = IF pendSize[f] = None THEN [pendSize EXCEPT ![f] = size[f]]
                                         ELSE pendSize
    /\ pendCount' = [pendCount EXCEPT ![f] = 1]
    /\ timerQ' = Append(timerQ, f)
    /\ timerArmed' = (timerArmed \/ timerQ = <<>>)

\* TryAddNewFile: a file not yet found is (re)queued for a size recheck;
\* a second event for a pending file only raises its queue count.
TryAddNewFile(f) ==
  IF f \in added THEN UNCHANGED <<pendSize, pendCount, timerQ, timerArmed>>
  ELSE
    /\ pendSize' = IF pendSize[f] = None THEN [pendSize EXCEPT ![f] = size[f]]
                                         ELSE pendSize
    /\ pendCount' = [pendCount EXCEPT ![f] = IF pendSize[f] = None THEN 1
                                                                   ELSE @ + 1]
    /\ timerQ' = Append(timerQ, f)
    /\ timerArmed' = (timerArmed \/ timerQ = <<>>)

\* Directory event for a directory not yet monitored and shallow enough:
\* add_directory, then IterateDirectories(ev.path, depth + 1, true).
AddDirectoryAndScan(d) ==
  LET it == IterateDirectories(d, TRUE, added) IN
  /\ monitored' = monitored \cup {d} \cup it.monitor
  /\ added' = added \cup it.found
  /\ list' = list \o it.append
  /\ UNCHANGED iter

\* OnDirectoryChangeEvent for the event at the head of the monitor queue.
\* is_directory and is_regular_file look at the disk as it is now.
OnDirectoryChangeEvent ==
  LET ev == Head(events)
      p == ev.path
      newDir == p \in exists \cap Dirs /\ p \notin monitored
                  /\ Depth(p) < RecurseDepth
  IN
  /\ events # <<>>
  /\ events' = Tail(events)
  /\ CASE ev.type \in {"added", "modified"} /\ newDir ->
            /\ AddDirectoryAndScan(p)
            /\ UNCHANGED <<pendSize, pendCount, timerQ, timerArmed>>
       [] ev.type \in {"added", "modified"} /\ p \in exists \cap Files ->
            /\ TryAddNewFile(p)
            /\ UNCHANGED <<monitored, added, list, iter>>
       [] ev.type = "removed" ->
            /\ monitored' = monitored \ {p}
            /\ UNCHANGED <<added, pendSize, pendCount, timerQ, timerArmed,
                           list, iter>>
       [] ev.type = "renamed_new_name" /\ newDir ->
            /\ monitored' = monitored \cup {p}
            /\ UNCHANGED <<added, pendSize, pendCount, timerQ, timerArmed,
                           list, iter>>
       [] OTHER ->
            UNCHANGED <<monitored, added, pendSize, pendCount, timerQ,
                        timerArmed, list, iter>>
  /\ UNCHANGED <<fsVars, sent>>

\* Mutant: the timer is not restarted after the expiry.
OnRecheckNoRearm ==
  LET f == Head(timerQ)
      rest == Tail(timerQ)
      last == pendCount[f] = 1
      stable == pendSize[f] = size[f]
      accept == last /\ stable /\ f \notin added
      q == IF last /\ ~stable THEN Append(rest, f) ELSE rest
  IN
  /\ timerArmed
  /\ timerQ # <<>>
  /\ timerQ' = q
  /\ pendCount' = [pendCount EXCEPT ![f] = IF last /\ ~stable THEN 1 ELSE @ - 1]
  /\ pendSize' = IF last /\ stable THEN [pendSize EXCEPT ![f] = None]
                                   ELSE pendSize
  /\ added' = IF accept THEN added \cup {f} ELSE added
  /\ list' = IF accept THEN Append(list, f) ELSE list
  /\ iter' = IF accept /\ iter = End THEN Len(list) + 1 ELSE iter
  /\ timerArmed' = FALSE
  /\ UNCHANGED <<fsVars, events, monitored, sent>>

\* OnRecheckFileSize_TimerExpired: pop the front entry; if it was the last
\* entry of its path, accept the file when its size is the one recorded,
\* or queue it again; re-arm the timer while the queue is not empty.
OnRecheckFileSize_TimerExpired ==
  LET f == Head(timerQ)
      rest == Tail(timerQ)
      last == pendCount[f] = 1
      stable == pendSize[f] = size[f]
      accept == last /\ stable /\ f \notin added
      q == IF last /\ ~stable THEN Append(rest, f) ELSE rest
  IN
  /\ timerArmed
  /\ timerQ # <<>>
  /\ timerQ' = q
  /\ pendCount' = [pendCount EXCEPT ![f] = IF last /\ ~stable THEN 1 ELSE @ - 1]
  /\ pendSize' = IF last /\ stable THEN [pendSize EXCEPT ![f] = None]
                                   ELSE pendSize
  /\ added' = IF accept THEN added \cup {f} ELSE added
  /\ list' = IF accept THEN Append(list, f) ELSE list
  /\ iter' = IF accept /\ iter = End THEN Len(list) + 1 ELSE iter
  /\ timerArmed' = (q # <<>>)
  /\ UNCHANGED <<fsVars, events, monitored, sent>>

-----------------------------------------------------------------------------
(* The sender's thread                                                     *)

\* Mutant: the end test is off by one after the erase.
GetNextFilePathPastEnd ==
  /\ iter # End
  /\ sent' = Append(sent, list[iter])
  /\ list' = RemoveAt(list, iter)
  /\ iter' = IF iter <= Len(list) THEN iter ELSE End
  /\ UNCHANGED <<fsVars, events, monitored, added, pendSize, pendCount,
                 timerQ, timerArmed>>

\* Mutant: the iterator is taken from erase() and then incremented too.
GetNextFilePathSkip ==
  /\ iter # End
  /\ sent' = Append(sent, list[iter])
  /\ list' = RemoveAt(list, iter)
  /\ iter' = IF iter + 1 < Len(list) THEN iter + 1 ELSE End
  /\ UNCHANGED <<fsVars, events, monitored, added, pendSize, pendCount,
                 timerQ, timerArmed>>

\* GetNextFilePath: under the list mutex, return the path at the iterator,
\* advance it and erase the returned element.
GetNextFilePath ==
  /\ iter # End
  /\ sent' = Append(sent, list[iter])
  /\ list' = RemoveAt(list, iter)
  /\ iter' = IF iter < Len(list) THEN iter ELSE End
  /\ UNCHANGED <<fsVars, events, monitored, added, pendSize, pendCount,
                 timerQ, timerArmed>>

-----------------------------------------------------------------------------
(* The filesystem                                                          *)

\* The monitor queues an event for a change in a directory it watches.
Emit(p, type) ==
  IF Parent[p] \in monitored THEN Append(events, [type |-> type, path |-> p])
                             ELSE events

\* A change needs room in the monitor's queue and an existing parent.
CanChange(p) == Len(events) < MaxEvents /\ Parent[p] \in exists \cup {Root}

MkDir(d) ==
  /\ d \notin exists /\ CanChange(d)
  /\ exists' = exists \cup {d}
  /\ events' = Emit(d, "added")
  /\ UNCHANGED size

RmDir(d) ==
  /\ d \in exists /\ CanChange(d)
  /\ \A p \in exists : Parent[p] # d
  /\ exists' = exists \ {d}
  /\ events' = Emit(d, "removed")
  /\ UNCHANGED size

CreateFile(f) ==
  /\ f \notin exists /\ CanChange(f)
  /\ exists' = exists \cup {f}
  /\ size' = [size EXCEPT ![f] = 0]
  /\ events' = Emit(f, "added")

WriteFile(f) ==
  /\ f \in exists /\ CanChange(f)
  /\ size[f] < MaxSize
  /\ size' = [size EXCEPT ![f] = @ + 1]
  /\ events' = Emit(f, "modified")
  /\ UNCHANGED exists

\* A complete file, or a directory with its complete files, renamed into
\* the tree from outside it.
MoveInFile(f) ==
  /\ f \notin exists /\ CanChange(f)
  /\ exists' = exists \cup {f}
  /\ size' = [size EXCEPT ![f] = MaxSize]
  /\ events' = Emit(f, "renamed_new_name")

MoveInDir(d) ==
  LET content == {f \in Files : Parent[f] = d} IN
  /\ d \notin exists /\ CanChange(d)
  /\ exists' = exists \cup {d} \cup content
  /\ size' = [f \in Files |-> IF f \in content THEN MaxSize ELSE size[f]]
  /\ events' = Emit(d, "renamed_new_name")

FsStep ==
  /\ \/ \E d \in Dirs : MkDir(d) \/ RmDir(d) \/ MoveInDir(d)
     \/ \E f \in Files : CreateFile(f) \/ WriteFile(f) \/ MoveInFile(f)
  /\ UNCHANGED <<monitored, added, pendSize, pendCount, timerQ, timerArmed,
                 list, iter, sent>>

-----------------------------------------------------------------------------
(* Specification                                                           *)

\* The trees that can exist when the scanner is constructed.
InitTrees == {t \in SUBSET Paths : \A p \in t : Parent[p] \in t \cup {Root}}

\* Reload on a scanner just constructed (Clear finds nothing to undo):
\* watch the root if new files are wanted, IterateDirectories(root, 0,
\* includeExisting), sort the list and set the iterator to its beginning.
Reload ==
  LET it == IterateDirectories(Root, IncludeExisting, {}) IN
  /\ monitored = IF IncludeNew THEN {Root} \cup it.monitor ELSE {}
  /\ added = it.found
  /\ list = it.append
  /\ iter = IF it.append = <<>> THEN End ELSE 1
  /\ pendSize = [f \in Files |-> None]
  /\ pendCount = [f \in Files |-> 0]
  /\ timerQ = <<>>
  /\ timerArmed = FALSE

\* The constructor, on any tree on disk: the iterator starts at end(),
\* the timer and monitor are idle and no event is queued, then Reload.
Init ==
  /\ exists \in InitTrees
  /\ size \in [Files -> 0 .. MaxSize]
  /\ events = <<>>
  /\ sent = <<>>
  /\ Reload

Next ==
  \/ OnDirectoryChangeEvent
  \/ OnRecheckFileSize_TimerExpired
  \/ GetNextFilePath
  \/ FsStep

\* The io_service thread runs every ready handler: a queued monitor event
\* is delivered to the outstanding async_monitor, an armed timer expires
\* after its period.  The sender calls GetNextFilePath in its send loop.
\* The filesystem owes nothing.
Fairness ==
  /\ WF_vars(OnDirectoryChangeEvent)
  /\ WF_vars(OnRecheckFileSize_TimerExpired)
  /\ WF_vars(GetNextFilePath)

Spec == Init /\ [][Next]_vars /\ Fairness

-----------------------------------------------------------------------------
(* Properties                                                              *)

Occurrences(s, x) == Cardinality({i \in DOMAIN s : s[i] = x})

ScannerTypeOK ==
  /\ exists \subseteq Paths
  /\ size \in [Files -> 0 .. MaxSize]
  /\ events \in Seq([type : EventTypes, path : Paths])
  /\ monitored \subseteq Dirs \cup {Root}
  /\ added \subseteq Files
  /\ pendSize \in [Files -> 0 .. MaxSize \cup {None}]
  /\ pendCount \in [Files -> Nat]
  /\ timerQ \in Seq(Files)
  /\ timerArmed \in BOOLEAN
  /\ list \in Seq(Files)
  /\ iter \in (1 .. Len(list)) \cup {End}
  /\ sent \in Seq(Files)

\* TryAddNewFile and the timer handler keep the queue count of a pending
\* file equal to its entries in the timer queue, and only pending files
\* are queued: the handler erases a map entry (line 309) exactly when the
\* last queue entry referring to it is popped, so no queue entry is left
\* holding an erased entry and no pending file is left without a recheck.
QueueCountsMatch ==
  \A f \in Files :
    IF pendSize[f] = None THEN pendCount[f] = 0 /\ Occurrences(timerQ, f) = 0
    ELSE pendCount[f] = Occurrences(timerQ, f) /\ pendCount[f] > 0

\* The recheck timer is armed exactly while the timer queue is not empty:
\* TryAddNewFile starts it when it queues into an empty queue and the
\* expiry handler re-arms it while entries remain, so no queued recheck is
\* left without a timer and no expiry reads the front of an empty queue.
TimerArmedIffQueued == timerArmed <=> timerQ # <<>>

\* Paths with an event still queued for the handler.
Queued == {events[i].path : i \in DOMAIN events}

\* Once the handler has caught up with a directory's events, it is watched
\* exactly when it exists, its parent is watched and it lies above
\* m_recurseDirectoriesDepth: Reload's scan, the scan of a directory that
\* appears, a rename into the tree and a removal (which stops the watch of
\* a directory that may have been re-created since) together leave no
\* directory unwatched for good, and none watched a level too deep.
MonitoredMatchesTree ==
  IncludeNew =>
    \A d \in Dirs \ Queued :
      d \in monitored <=>
        d \in exists /\ Parent[d] \in monitored /\ Depth(d) < RecurseDepth

\* Every path listed at or after the iterator is eventually returned by
\* GetNextFilePath: the sender's loop drains the list from the iterator,
\* the erase shifts the next path under it, and a path appended while the
\* iterator is inside the list lands behind it.
ListedPathSent ==
  \A f \in Files :
    (iter # End /\ \E i \in iter .. Len(list) : list[i] = f)
      ~> \E i \in DOMAIN sent : sent[i] = f

\* The list a sender drains never holds a path behind the iterator: every
\* path put on the list is one GetNextFilePath will return (the timer
\* handler moves an iterator at end() onto the path it appends).
NoStrandedPath ==
  /\ iter = End => list = <<>>
  /\ iter # End => iter = 1

\* A file waiting in the recheck queue is accepted once it stops changing:
\* the debounce of TryAddNewFile and the timer handler ends for every file
\* whose writer stops (sizes are bounded, so every writer stops).
PendingFileAccepted == \A f \in Files : pendSize[f] # None ~> f \in added

====
