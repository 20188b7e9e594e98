---------------------------- MODULE ConfigWatch ----------------------------
(***************************************************************************)
(* How a change of the configuration file reaches the server: the watcher  *)
(* with its debounce timer (internal/config/watcher.go), SIGHUP and        *)
(* POST /admin/reload, which all call reloadConfig (cmd/pgmux/main.go).    *)
(***************************************************************************)
EXTENDS Naturals

CONSTANTS MaxEdits,       \* bound on the edits of the file
          Torn,           \* a file that is being written
          NoLoad

VARIABLES file,           \* the version in the file, or Torn
          edits,          \* versions written so far
          event,          \* fsnotify has an event for the watcher
          debounce,       \* debounceTimer runs
          loading,        \* loading[r]: what a call of reloadConfig has read, or NoLoad
          loaded,         \* the version the server runs with
          regressed       \* auxiliary: it is older than the one before it

watchVars == <<file, edits, event, debounce, loading, loaded, regressed>>

\* The callers of reloadConfig: the watcher, and SIGHUP or the admin API.  Of each
\* there is one call at a time.
Reloads == {"watch", "asked"}

WatchInit ==
    /\ file = 0 /\ edits = 0 /\ loaded = 0
    /\ event = FALSE
    /\ debounce = FALSE
    /\ loading = [r \in Reloads |-> NoLoad]
    /\ regressed = FALSE

\* An editor writes the file in two writes, each of which raises an event.
EditBegins ==
    /\ file # Torn
    /\ edits < MaxEdits
    /\ file' = Torn
    /\ event' = TRUE
    /\ UNCHANGED <<edits, debounce, loading, loaded, regressed>>

EditEnds ==
    /\ file = Torn
    /\ edits' = edits + 1
    /\ file' = edits + 1
    /\ event' = TRUE
    /\ UNCHANGED <<debounce, loading, loaded, regressed>>

\* Mutant: what happens during a reload is taken for its doing.
WatchEventIgnored ==
    /\ event
    /\ event' = FALSE
    /\ debounce' = (debounce \/ \A r \in Reloads : loading[r] = NoLoad)
    /\ UNCHANGED <<file, edits, loading, loaded, regressed>>

\* Start: an event for the file stops the timer and starts it anew.
WatchEvent ==
    /\ event
    /\ event' = FALSE
    /\ debounce' = TRUE
    /\ UNCHANGED <<file, edits, loading, loaded, regressed>>

\* config.Load in reloadConfig; a file it cannot parse ends the reload.
Load(r) ==
    /\ loading[r] = NoLoad
    /\ loading' = [loading EXCEPT ![r] = IF file = Torn THEN NoLoad ELSE file]

\* The timer calls onChange in a goroutine of its own.
DebounceFires ==
    /\ debounce
    /\ Load("watch")
    /\ debounce' = FALSE
    /\ UNCHANGED <<file, edits, event, loaded, regressed>>

\* SIGHUP and the admin API.
ReloadAsked ==
    /\ Load("asked")
    /\ UNCHANGED <<file, edits, event, debounce, loaded, regressed>>

\* Server.Reload with what was read, which is not looked at again under its mutex.
ReloadApplied(r) ==
    /\ loading[r] # NoLoad
    /\ loaded' = loading[r]
    /\ loading' = [loading EXCEPT ![r] = NoLoad]
    /\ regressed' = (loading[r] < loaded)
    /\ UNCHANGED <<file, edits, event, debounce>>

\* Start returns when the context ends: cleanup stops the timer.
WatchEnds ==
    /\ event' = FALSE
    /\ debounce' = FALSE
    /\ UNCHANGED <<file, edits, loading, loaded, regressed>>
=============================================================================
