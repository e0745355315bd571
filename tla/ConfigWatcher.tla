---------------------------- MODULE ConfigWatcher ----------------------------
(***************************************************************************)
(* Watcher and FileProvider of config/watcher.go.  The file system tells   *)
(* the watch loop of writes to and of the removal of the file it watches;  *)
(* a write arms the debounce timer, whose goroutine reloads; after a       *)
(* removal the watch is added again, once, a second later.  Reload may be  *)
(* called by anyone, so that reloads overlap: each reads the file, reads   *)
(* the configuration it replaces, and installs its own.  Saving a file by  *)
(* renaming another over it is a removal and a creation.  fsnotify and the *)
(* editing of the file are external.                                       *)
(***************************************************************************)
EXTENDS ConfigLoader

CONSTANTS
  Contents,   \* contents of the file, Absent and Garbled among them
  Fallback,   \* the file that AutoLoad finds next
  Envs,       \* settings of the environment variables
  Reloads,    \* goroutines that reload
  CleanName,  \* the name given to NewWatcher is spelled as fsnotify reports it
  MaxEdits    \* bound: changes of the file

ASSUME ConfigAssumption ==
  /\ Absent \in Contents /\ Contents \subseteq Files \cup {Absent, Garbled}
  /\ Fallback \in Files /\ Envs \subseteq Variables
  /\ "info" \in Words /\ MaxEdits \in Nat /\ CleanName \in BOOLEAN

VARIABLES
  mode,       \* "new"; "watch" or "auto": the provider was given a file name, or none; "failed"
  env, file, edits,
  config,
  source,     \* the contents that config was loaded from
  watched,    \* the file system watcher has the file
  events,     \* events it has not delivered yet
  timer,      \* the debounce timer is armed
  readd,      \* the timer for adding the file again is armed
  watchLoop,  \* "off", "on", "ended"
  stop,       \* Stop: "no", "cancelled", "done"
  reload,     \* goroutine -> its step, the contents it read, and the old configuration
  overlapped, \* the last reload to begin found another at work
  unseen      \* the file was changed while it was not watched, and not read since

configVars == <<mode, env, file, edits, config, source, watched, events, timer, readd, watchLoop, stop,
                reload, overlapped, unseen>>
watching == <<watched, events, timer, readd, watchLoop, stop>>
loading == <<mode, env, config, source, reload, overlapped>>

Idle == [pc |-> "idle", from |-> Absent, old |-> Failed]

ConfigInit ==
  /\ mode = "new" /\ env \in Envs /\ file \in Contents /\ edits = 0 /\ config = Failed /\ source = Absent
  /\ watched = FALSE /\ events = {} /\ timer = FALSE /\ readd = FALSE /\ watchLoop = "off" /\ stop = "no"
  /\ reload = [r \in Reloads |-> Idle] /\ overlapped = FALSE /\ unseen = FALSE

----------------------------------------------------------------------------
(* The environment: edits of the file.                                     *)

EditFile(contents, event) ==
  /\ mode \in {"watch", "auto"} /\ edits < MaxEdits /\ contents # file
  /\ edits' = edits + 1 /\ file' = contents
  /\ events' = IF watched THEN events \cup {event} ELSE events
  /\ unseen' = (unseen \/ ~watched)
  /\ watched' = (watched /\ event = "write")
  /\ UNCHANGED <<timer, readd, watchLoop, stop, loading>>

WriteFile(contents) == contents # Absent /\ EditFile(contents, "write")

RemoveFile == EditFile(Absent, "remove")

----------------------------------------------------------------------------
(* FileProvider and the operations of the Watcher.                         *)

\* NewWatcher loads the file; without a configuration there is no watcher.
NewFileProvider ==
  /\ mode = "new"
  /\ \/ mode' = "auto" /\ UNCHANGED <<config, source, unseen>>
     \/ /\ config' = loadFromFile(file, env)
        /\ IF config' = Failed THEN mode' = "failed" /\ UNCHANGED <<source, unseen>>
           ELSE mode' = "watch" /\ source' = file /\ unseen' = FALSE
  /\ UNCHANGED <<env, file, edits, watching, reload, overlapped>>

\* FileProvider.Load without a watcher; with one it returns the watcher's configuration.
ProviderLoad ==
  LET found == AutoLoad(<<file, Fallback>>, env)
  IN  /\ mode = "auto" /\ found # Failed
      /\ config' = found /\ source' = findConfigFile(<<file, Fallback>>)
      /\ UNCHANGED <<mode, env, file, edits, watching, reload, overlapped, unseen>>

\* Start, called once: it fails if the file is not there.
StartWatcher ==
  /\ mode = "watch" /\ watchLoop = "off" /\ stop = "no" /\ file # Absent
  /\ watched' = TRUE /\ watchLoop' = "on"
  /\ UNCHANGED <<file, edits, events, timer, readd, stop, loading, unseen>>

\* Stop closes the file system watcher, and waits for the loop.
StopWatcher ==
  /\ mode = "watch" /\ stop = "no"
  /\ stop' = "cancelled" /\ watched' = FALSE /\ events' = {}
  /\ UNCHANGED <<file, edits, timer, readd, watchLoop, loading, unseen>>

WatcherStopped ==
  /\ stop = "cancelled" /\ watchLoop # "on" /\ stop' = "done"
  /\ UNCHANGED <<file, edits, watched, events, timer, readd, watchLoop, loading, unseen>>

----------------------------------------------------------------------------
(* watchLoop and its timers.                                               *)

\* Mutant of LoopWrite: an armed timer is stopped, and not armed again.
LoopWriteStops ==
  /\ watchLoop = "on" /\ "write" \in events
  /\ events' = events \ {"write"} /\ timer' = (CleanName /\ ~timer)
  /\ UNCHANGED <<file, edits, watched, readd, watchLoop, stop, loading, unseen>>

\* An event under another name than configFile is skipped.
LoopWrite ==
  /\ watchLoop = "on" /\ "write" \in events
  /\ events' = events \ {"write"} /\ timer' = (timer \/ CleanName)
  /\ UNCHANGED <<file, edits, watched, readd, watchLoop, stop, loading, unseen>>

LoopRemove ==
  /\ watchLoop = "on" /\ "remove" \in events
  /\ events' = events \ {"remove"} /\ readd' = (readd \/ CleanName)
  /\ UNCHANGED <<file, edits, watched, timer, watchLoop, stop, loading, unseen>>

\* The loop finds the context cancelled, and stops the timer, or its channels closed.
LoopEnds ==
  /\ watchLoop = "on" /\ stop = "cancelled"
  /\ watchLoop' = "ended" /\ timer' \in {FALSE, timer}
  /\ UNCHANGED <<file, edits, watched, events, readd, stop, loading, unseen>>

\* The watch is added again, if the file is there by now and the watcher is not closed.
ReAdd ==
  /\ readd /\ readd' = FALSE
  /\ watched' = (watched \/ (file # Absent /\ stop = "no"))
  /\ UNCHANGED <<file, edits, events, timer, watchLoop, stop, loading, unseen>>

----------------------------------------------------------------------------
(* reloadConfig.                                                           *)

Begin(r) ==
  /\ reload[r].pc = "idle"
  /\ unseen' = FALSE
  /\ IF loadFromFile(file, env) = Failed THEN UNCHANGED <<reload, overlapped>>
     ELSE /\ reload' = [reload EXCEPT ![r] = [pc |-> "old", from |-> file, old |-> Failed]]
          /\ overlapped' = \E s \in Reloads \ {r} : reload[s].pc # "idle"

TimerFires(r) ==
  /\ timer /\ timer' = FALSE
  /\ Begin(r)
  /\ UNCHANGED <<mode, env, file, edits, config, source, watched, events, readd, watchLoop, stop>>

Reload(r) ==
  /\ mode = "watch"
  /\ Begin(r)
  /\ UNCHANGED <<mode, env, file, edits, config, source, watching>>

ReadOld(r) ==
  /\ reload[r].pc = "old"
  /\ reload' = [reload EXCEPT ![r] = [@ EXCEPT !.pc = "set", !.old = config]]
  /\ UNCHANGED <<mode, env, file, edits, config, source, watching, overlapped, unseen>>

\* The configuration is replaced, and the callbacks get the old one and the new one.
Install(r) ==
  /\ reload[r].pc = "set"
  /\ config' = loadFromFile(reload[r].from, env) /\ source' = reload[r].from
  /\ reload' = [reload EXCEPT ![r] = Idle]
  /\ UNCHANGED <<mode, env, file, edits, watching, overlapped, unseen>>

ConfigNext ==
  \/ RemoveFile \/ \E c \in Contents : WriteFile(c)
  \/ NewFileProvider \/ ProviderLoad \/ StartWatcher \/ StopWatcher \/ WatcherStopped
  \/ LoopWrite \/ LoopRemove \/ LoopEnds \/ ReAdd
  \/ \E r \in Reloads : TimerFires(r) \/ Reload(r) \/ ReadOld(r) \/ Install(r)

ConfigSpec == ConfigInit /\ [][ConfigNext]_configVars

\* Events are delivered, timers fire, and a reload that has begun goes on.
ConfigFairness ==
  /\ WF_configVars(LoopWrite) /\ WF_configVars(LoopRemove) /\ WF_configVars(LoopEnds)
  /\ WF_configVars(\E r \in Reloads : TimerFires(r))
  /\ \A r \in Reloads : WF_configVars(ReadOld(r) \/ Install(r))

----------------------------------------------------------------------------

ConfigTypeOK ==
  /\ mode \in {"new", "watch", "auto", "failed"} /\ env \in Envs /\ edits \in 0 .. MaxEdits
  /\ file \in Contents /\ source \in Contents \cup {Fallback} /\ config \in Configs \cup {Failed}
  /\ watched \in BOOLEAN /\ events \subseteq {"write", "remove"}
  /\ timer \in BOOLEAN /\ readd \in BOOLEAN /\ overlapped \in BOOLEAN /\ unseen \in BOOLEAN
  /\ watchLoop \in {"off", "on", "ended"} /\ stop \in {"no", "cancelled", "done"}
  /\ reload \in [Reloads -> [pc : {"idle", "old", "set"}, from : Contents, old : Configs \cup {Failed}]]

\* A program never gets to see an invalid configuration, whatever is in the file, in the
\* environment or in the edits that reloads race with.
ConfigValid == config # Failed => Validate(config)

\* The variables win over the file, and the file over the default, however the
\* configuration came in; a flag that the file leaves out is off, not the default.
Precedence == config # Failed => Wins(config, source, env)

\* The old configuration that the callbacks are given is the one that the new one
\* replaced, unless reloads overlapped.
ReplacedIsOld ==
  [][\A r \in Reloads : reload[r].pc = "set" /\ reload'[r].pc = "idle" =>
       reload[r].old = config \/ overlapped]_configVars

\* Once the file is left alone, the configuration is what the file says, for ever; unless
\* the file's name is not the one of its events, the file is unusable, the watcher is not
\* running, the file was changed while it was not watched, or reloads overlapped, when the
\* older contents may have been installed last.
ConfigCatchesUp ==
  <>[](\/ ~CleanName \/ watchLoop # "on" \/ stop # "no" \/ unseen \/ overlapped
       \/ loadFromFile(file, env) \in {Failed, config})
=============================================================================
