----------------------------- MODULE ConfigService -----------------------------
(***************************************************************************)
(* DefaultConfigService of internal/config: the configuration in force,    *)
(* the path of the file it came from, and a watcher with its goroutine.    *)
(* The watcher is given the path of the time and keeps it, while the loop  *)
(* reloads whatever the path is by then.  s.mu makes an action of every    *)
(* method.  Whether startup validation is enabled changes what the methods *)
(* return, and nothing of this state.                                      *)
(*                                                                         *)
(* A file is "absent", "torn" (the loader refuses it: a partial write) or  *)
(* "good".  A configuration is named by the path of the file that holds it *)
(* at present; once that file is written it is Old.                        *)
(***************************************************************************)
EXTENDS Naturals

CONSTANTS
    Paths,      \* where there may be configuration files
    DefaultPath,\* the one that is looked for if no path is given
    EditedPaths,\* bound: those an editor works at
    EmptyPaths, \* bound: those where there may be no file at first
    MaxWatches, \* bound: calls of WatchConfiguration that make a watcher
    MaxEdits,   \* bound: times an editor writes a file
    MaxSaves,   \* bound: times the service writes one, or tries to
    MaxEvents,  \* bound: events waiting in a watcher; inotify merges the rest
    Old,        \* a configuration that no file holds
    None        \* nil

ASSUME ConfigServiceAssumption ==
    /\ DefaultPath \in Paths
    /\ EditedPaths \subseteq Paths
    /\ EmptyPaths \subseteq Paths
    /\ Old \notin Paths
    /\ None \notin Paths \union {Old}
    /\ MaxWatches \in Nat \ {0}
    /\ MaxEdits \in Nat
    /\ MaxSaves \in Nat
    /\ MaxEvents \in Nat \ {0}

Watchers == 1 .. MaxWatches
Configurations == Paths \union {Old, None}

VARIABLES
    file,        \* what is on disk at each path
    edits,       \* what editors have written so far
    saves,       \* what the service has written so far, or tried to
    config,      \* s.config
    configPath,  \* s.configPath, None if it is not set
    watcher,     \* s.watcher
    callback,    \* s.watchCallback, named by the watcher it came with
    opened,      \* the watchers made so far
    closes,      \* how often each was closed
    attached,    \* the path each watches, None once its file was replaced
    events,      \* Write events each has not delivered
    cancelled,   \* the ctx of each is cancelled
    loopPC,      \* where the watchLoop of each is
    picked,      \* the callback and configuration it holds outside the lock
    \* History of the current watch, forgotten when it is closed:
    edited,      \* its file was written, to the end
    strayed,     \* the service was turned to another file
    saveFailed,  \* a Save could not write its file
    told,        \* what its callback was called with last
    overlapped   \* it began before an older loop had ended

fileVars == <<file, edits, saves, events, attached>>
stateVars == <<config, configPath>>
watchVars == <<watcher, callback, opened, closes, cancelled>>
loopVars == <<loopPC, picked>>
historyVars == <<edited, strayed, saveFailed, told, overlapped>>
configVars == <<fileVars, stateVars, watchVars, loopVars, historyVars>>

NothingPicked == [cb |-> 0, cfg |-> None]

Forgotten ==
    /\ edited' = FALSE
    /\ strayed' = FALSE
    /\ saveFailed' = FALSE
    /\ told' = None
    /\ overlapped' = FALSE

ConfigInit ==
    /\ file \in [Paths -> {"absent", "good"}]
    /\ \A p \in Paths \ EmptyPaths : file[p] = "good"
    /\ edits = 0
    /\ saves = 0
    /\ config = None
    /\ configPath = None
    /\ watcher = 0
    /\ callback = 0
    /\ opened = 0
    /\ closes = [w \in Watchers |-> 0]
    /\ attached = [w \in Watchers |-> None]
    /\ events = [w \in Watchers |-> 0]
    /\ cancelled = [w \in Watchers |-> FALSE]
    /\ loopPC = [w \in Watchers |-> "none"]
    /\ picked = [w \in Watchers |-> NothingPicked]
    /\ edited = FALSE
    /\ strayed = FALSE
    /\ saveFailed = FALSE
    /\ told = None
    /\ overlapped = FALSE

--------------------------------------------------------------------------------
(***************************************************************************)
(* The file system.                                                        *)
(***************************************************************************)
\* A write in place adds one event to every watcher of the file, unless it is
\* merged.
Announce(p) ==
    events' = [w \in Watchers |-> IF attached[w] = p /\ events[w] < MaxEvents
                                    THEN events[w] + 1 ELSE events[w]]

Aged(cfg, p) == IF cfg = p THEN Old ELSE cfg

\* The file holds something else than before, in the end or half-way.
Change(p, kind) ==
    /\ file' = [file EXCEPT ![p] = kind]
    /\ picked' = [w \in Watchers |-> [picked[w] EXCEPT !.cfg = Aged(@, p)]]
    /\ told' = Aged(told, p)
    /\ edited' = (edited \/ (watcher # 0 /\ attached[watcher] = p /\ kind = "good"))

CountEdit ==
    /\ edits < MaxEdits
    /\ edits' = edits + 1
    /\ UNCHANGED saves

CountSave ==
    /\ saves < MaxSaves
    /\ saves' = saves + 1
    /\ UNCHANGED edits

\* An editor truncates the file and writes it later.
EditorTruncates(p) ==
    /\ file[p] = "good"
    /\ edits < MaxEdits
    /\ Change(p, "torn")
    /\ config' = Aged(config, p)
    /\ Announce(p)
    /\ UNCHANGED <<edits, saves, attached, configPath, watchVars, loopPC, strayed, saveFailed, overlapped>>

EditorWrites(p) ==
    /\ file[p] = "torn"
    /\ CountEdit
    /\ Change(p, "good")
    /\ Announce(p)
    /\ UNCHANGED <<attached, stateVars, watchVars, loopPC, strayed, saveFailed, overlapped>>

\* An editor renames a new file over the old one: the watch dies with the old
\* file, and what the watcher reports of it is not a Write.
EditorReplaces(p) ==
    /\ CountEdit
    /\ Change(p, "good")
    /\ config' = Aged(config, p)
    /\ attached' = [w \in Watchers |-> IF attached[w] = p THEN None ELSE attached[w]]
    /\ UNCHANGED <<events, configPath, watchVars, loopPC, strayed, saveFailed, overlapped>>

--------------------------------------------------------------------------------
(***************************************************************************)
(* Loading and saving.                                                     *)
(***************************************************************************)
ReadFile(p) == config' = IF file[p] = "good" THEN p ELSE config

\* The service turns to path p, whatever is watched.
TurnTo(p) == strayed' = (strayed \/ (watcher # 0 /\ attached[watcher] # p))

\* LoadConfiguration of a path, which is set before anything is read.  The
\* configuration is in force before startup validation, if enabled, has looked
\* at it.
LoadFrom(p) ==
    /\ configPath' = p
    /\ ReadFile(p)
    /\ TurnTo(p)

\* Without a path, and with nothing that can be read at the default one: what
\* the facade discovers is loaded, and the path stays.
LoadDiscovered ==
    /\ file[DefaultPath] # "good"
    /\ \E p \in Paths : ReadFile(p) /\ TurnTo(p)
    /\ UNCHANGED configPath

LoadConfiguration(path) ==
    /\ \/ path \in Paths /\ LoadFrom(path)
       \/ path = None /\ file[DefaultPath] # "absent" /\ LoadFrom(DefaultPath)
       \/ path = None /\ LoadDiscovered
    /\ UNCHANGED <<fileVars, watchVars, loopVars, edited, saveFailed, told, overlapped>>

\* Mutation: a configuration that is loaded already is kept.
ReloadOnce == IF configPath # None /\ config = None THEN ReadFile(configPath) ELSE UNCHANGED config

\* ReloadConfiguration, for its callers and for the watch loop: what it calls
\* validation is what the loader has done already.
Reload == IF configPath # None THEN ReadFile(configPath) ELSE UNCHANGED config

ReloadConfiguration ==
    /\ Reload
    /\ UNCHANGED <<fileVars, configPath, watchVars, loopVars, historyVars>>

\* SaveConfiguration: the memory first, then the file, which is written in
\* place: it may end up whole, torn, or as it was.
SaveConfiguration(p) ==
    /\ CountSave
    /\ configPath' = p
    /\ TurnTo(p)
    /\ \/ Change(p, "good") /\ Announce(p) /\ config' = p /\ UNCHANGED saveFailed
       \/ Change(p, "torn") /\ Announce(p) /\ config' = Old /\ saveFailed' = (watcher # 0)
       \/ config' = Old /\ saveFailed' = (watcher # 0) /\ UNCHANGED <<file, picked, told, edited, events>>
    /\ UNCHANGED <<attached, watchVars, loopPC, overlapped>>

\* The facade reads the new file, s.config stays as it was.
CreateDefaultConfiguration(p) ==
    /\ CountSave
    /\ Change(p, "good")
    /\ Announce(p)
    /\ config' = Aged(config, p)
    /\ configPath' = p
    /\ TurnTo(p)
    /\ UNCHANGED <<attached, watchVars, loopPC, saveFailed, overlapped>>

\* The file cannot be written to its end: the path stays.
CreateDefaultFails(p) ==
    /\ CountSave
    /\ Change(p, "torn")
    /\ Announce(p)
    /\ config' = Aged(config, p)
    /\ UNCHANGED <<attached, configPath, watchVars, loopPC, strayed, saveFailed, overlapped>>

--------------------------------------------------------------------------------
(***************************************************************************)
(* Watching.                                                               *)
(***************************************************************************)
\* A watcher that cannot be given the file is closed again, but its callback
\* stays.
WatchConfiguration ==
    LET w == opened + 1
    IN  /\ configPath # None
        /\ watcher = 0
        /\ opened < MaxWatches
        /\ opened' = w
        /\ callback' = w
        /\ IF file[configPath] = "absent"
             THEN /\ closes' = [closes EXCEPT ![w] = 1]
                  /\ UNCHANGED <<watcher, attached, loopPC, overlapped>>
             ELSE /\ watcher' = w
                  /\ attached' = [attached EXCEPT ![w] = configPath]
                  /\ loopPC' = [loopPC EXCEPT ![w] = "select"]
                  /\ overlapped' = \E u \in Watchers : loopPC[u] \notin {"none", "done"}
                  /\ UNCHANGED closes
        /\ UNCHANGED <<file, edits, saves, events, stateVars, cancelled, picked, edited, strayed, saveFailed, told>>

CloseWatcher(w) ==
    /\ closes' = [closes EXCEPT ![w] = @ + 1]
    /\ attached' = [attached EXCEPT ![w] = None]
    /\ watcher' = 0
    /\ callback' = 0
    /\ Forgotten

StopWatching ==
    /\ watcher # 0
    /\ CloseWatcher(watcher)
    /\ UNCHANGED <<file, edits, saves, events, stateVars, opened, cancelled, loopVars>>

\* The ctx the caller gave WatchConfiguration ends; a loop whose watcher is
\* closed leaves without it.
CancelWatch(w) ==
    /\ loopPC[w] \notin {"none", "done"}
    /\ closes[w] = 0
    /\ cancelled' = [cancelled EXCEPT ![w] = TRUE]
    /\ UNCHANGED <<fileVars, stateVars, watcher, callback, opened, closes, loopVars, historyVars>>

GoTo(w, pc) == loopPC' = [loopPC EXCEPT ![w] = pc]

\* watchLoop: its select, whose ready cases are all possible.
LoopTakesEvent(w) ==
    /\ loopPC[w] = "select"
    /\ events[w] > 0
    /\ events' = [events EXCEPT ![w] = @ - 1]
    /\ GoTo(w, "changed")
    /\ UNCHANGED <<file, edits, saves, attached, stateVars, watchVars, picked, historyVars>>

LoopLeaves(w) ==
    /\ loopPC[w] = "select"
    /\ cancelled[w] \/ closes[w] > 0
    /\ GoTo(w, "leaving")
    /\ UNCHANGED <<fileVars, stateVars, watchVars, picked, historyVars>>

\* Mutation: the deferred function closes the watcher it began with, whoever
\* has closed it meanwhile.
LoopEndsClosing(w) ==
    /\ loopPC[w] = "leaving"
    /\ CloseWatcher(w)
    /\ events' = [events EXCEPT ![w] = 0]
    /\ GoTo(w, "done")
    /\ UNCHANGED <<file, edits, saves, stateVars, opened, cancelled, picked>>

\* Its deferred function: it closes its own watcher only.  Nobody takes what is
\* left of its events.
LoopEnds(w) ==
    /\ loopPC[w] = "leaving"
    /\ IF watcher = w THEN CloseWatcher(w) ELSE UNCHANGED <<closes, attached, watcher, callback, historyVars>>
    /\ events' = [events EXCEPT ![w] = 0]
    /\ GoTo(w, "done")
    /\ UNCHANGED <<file, edits, saves, stateVars, opened, cancelled, picked>>

\* handleConfigChange: reload, pick up callback and configuration, call.  Without
\* a callback the configuration does not matter.
LoopReloads(w) ==
    /\ loopPC[w] = "changed"
    /\ Reload
    /\ GoTo(w, "reloaded")
    /\ UNCHANGED <<fileVars, configPath, watchVars, picked, historyVars>>

LoopPicks(w) ==
    /\ loopPC[w] = "reloaded"
    /\ picked' = [picked EXCEPT ![w] = IF callback = 0 THEN NothingPicked
                                          ELSE [cb |-> callback, cfg |-> config]]
    /\ GoTo(w, "picked")
    /\ UNCHANGED <<fileVars, stateVars, watchVars, historyVars>>

LoopCalls(w) ==
    /\ loopPC[w] = "picked"
    /\ LET p == picked[w]
       IN  told' = IF p.cb # 0 /\ p.cb = watcher /\ p.cfg # None THEN p.cfg ELSE told
    /\ picked' = [picked EXCEPT ![w] = NothingPicked]
    /\ GoTo(w, "select")
    /\ UNCHANGED <<fileVars, stateVars, watchVars, edited, strayed, saveFailed, overlapped>>

--------------------------------------------------------------------------------
LoopStep(w) ==
    \/ LoopTakesEvent(w)
    \/ LoopLeaves(w)
    \/ LoopEnds(w)
    \/ LoopReloads(w)
    \/ LoopPicks(w)
    \/ LoopCalls(w)

ConfigNext ==
    \/ \E p \in EditedPaths : EditorTruncates(p) \/ EditorWrites(p) \/ EditorReplaces(p)
    \/ \E path \in Paths \union {None} : LoadConfiguration(path)
    \/ ReloadConfiguration
    \/ \E p \in Paths : SaveConfiguration(p)
    \/ \E p \in Paths : CreateDefaultConfiguration(p) \/ CreateDefaultFails(p)
    \/ WatchConfiguration
    \/ StopWatching
    \/ \E w \in Watchers : CancelWatch(w)
    \/ \E w \in Watchers : LoopStep(w)

\* The loop is a goroutine that only waits for s.mu, and callbacks return.
ConfigFairness == \A w \in Watchers : WF_configVars(LoopStep(w))

ConfigTypeOK ==
    /\ file \in [Paths -> {"absent", "torn", "good"}]
    /\ edits \in 0 .. MaxEdits
    /\ saves \in 0 .. MaxSaves
    /\ config \in Configurations
    /\ configPath \in Paths \union {None}
    /\ watcher \in {0} \union Watchers
    /\ callback \in {0} \union Watchers
    /\ opened \in 0 .. MaxWatches
    /\ closes \in [Watchers -> Nat]
    /\ attached \in [Watchers -> Paths \union {None}]
    /\ events \in [Watchers -> 0 .. MaxEvents]
    /\ cancelled \in [Watchers -> BOOLEAN]
    /\ loopPC \in [Watchers -> {"none", "select", "changed", "reloaded", "picked", "leaving", "done"}]
    /\ picked \in [Watchers -> [cb : {0} \union Watchers, cfg : Configurations]]
    /\ edited \in BOOLEAN
    /\ strayed \in BOOLEAN
    /\ saveFailed \in BOOLEAN
    /\ told \in Configurations
    /\ overlapped \in BOOLEAN

(***************************************************************************)
(* StopWatching and the end of the watch loop both want to close the       *)
(* watcher, in either order and across a later WatchConfiguration.  Every  *)
(* watcher is closed at most once, the current one not at all, it has its  *)
(* own callback and a loop, and a loop that has ended left no open watcher *)
(* behind.                                                                 *)
(***************************************************************************)
WatchersAreClosedOnce ==
    \A w \in Watchers :
      /\ closes[w] <= 1
      /\ watcher = w => closes[w] = 0 /\ callback = w /\ loopPC[w] \notin {"none", "done"}
      /\ loopPC[w] = "done" => closes[w] = 1

(***************************************************************************)
(* What is written in place to the watched file ends up in force, and the  *)
(* callback has been called with it last.  There are three exceptions:     *)
(*  - strayed: since the watch began a Load, Save or CreateDefault turned  *)
(*    the service to another file, which is what the loop reloads then, or *)
(*    one without a path discovered another;                               *)
(*  - saveFailed: a Save that could not write its file has left memory and *)
(*    file apart;                                                          *)
(*  - overlapped, for the callback only: an older loop was still about     *)
(*    when this one began and may deliver an older configuration late.     *)
(***************************************************************************)
EditsAreLoaded ==
    LET path == attached[watcher]
        watching == watcher # 0 /\ path # None /\ ~cancelled[watcher]
    IN  <>[](watching /\ edited /\ file[path] = "good" /\ ~strayed /\ ~saveFailed =>
               config = path /\ (told = path \/ overlapped))

\* Once every watcher is closed or its ctx cancelled, a time comes when every
\* watch loop has ended.
WatchLoopsEnd ==
    opened > 0 /\ (\A w \in 1 .. opened : cancelled[w] \/ closes[w] > 0)
      ~> \A w \in Watchers : loopPC[w] \in {"none", "done"} \/ ~(cancelled[w] \/ closes[w] > 0)
================================================================================
