---------------------------- MODULE ConfigReload ----------------------------
(***************************************************************************)
(* Hot reload: the config file, config.Manager's polling goroutine         *)
(* (internal/config/manager.go) and its subscriber, the registry.          *)
(*                                                                         *)
(* The file is edited at any time, also between two steps of the manager:  *)
(* it looks at the modification time and reads the content separately.     *)
(* An edit may leave the file with any modification time: a later one, the *)
(* same (the file system's clock is coarse), or an earlier one (a backup   *)
(* is restored).  Of a configuration only matters which edit it is,        *)
(* whether it passes Load (a half-written file does not) and which         *)
(* upstreams it lists.                                                     *)
(***************************************************************************)
EXTENDS Registry

CONSTANT MaxTime    \* bound on modification times

(* Validate turns down a file without upstreams.                           *)
Valid(f) == f.pool # {}
File == {f \in [edit : 0..MaxEdits, ok : BOOLEAN, pool : SUBSET Upstreams] :
            f.ok => Valid(f)}
Config == {f \in File : f.ok}

ASSUME ReloadAssumption == MaxTime \in Nat /\ None \notin Config

VARIABLES
    file,       \* content of the file
    mtime,      \* its modification time
    phase,      \* what the manager does next
    cur,        \* Manager.cur
    lastMod,    \* Manager.lastMod
    missed      \* history: the manager cannot tell that the file has changed

vars == <<file, mtime, phase, cur, lastMod, missed, regCfg, registry, cfgOf>>

Init ==
    /\ file \in {f \in File : f.edit = 0}
    /\ mtime \in 0..MaxTime
    /\ phase = "load"
    /\ cur = None
    /\ lastMod = 0
    /\ missed = FALSE
    /\ InitRegistry

(* The change is lost on the manager when it comes between Load and Stat   *)
(* at start, and otherwise when its time is not after the last one seen;   *)
(* a Load that is still to come reads it whatever its time.                *)
Edit ==
    /\ file.edit < MaxEdits
    /\ file' \in {f \in File : f.edit = file.edit + 1}
    /\ mtime' \in 0..MaxTime
    /\ missed' = CASE phase \in {"load", "exit", "reload"} -> FALSE
                   [] phase = "stat"                       -> TRUE
                   [] phase \in {"notify", "watch"}        -> mtime' <= lastMod
    /\ UNCHANGED <<phase, cur, lastMod, regvars>>

----------------------------------------------------------------------------
(* NewManager: Load, then Stat; then NewRegistry syncs and subscribes.     *)

LoadAtStart ==
    /\ phase = "load"
    /\ IF file.ok
       THEN phase' = "stat" /\ cur' = file
       ELSE phase' = "exit" /\ cur' = cur
    /\ UNCHANGED <<file, mtime, lastMod, missed, regvars>>

StatAtStart ==
    /\ phase = "stat"
    /\ lastMod' = mtime
    /\ phase' = "notify"
    /\ UNCHANGED <<file, mtime, cur, missed, regvars>>

(* The process manager starts an exited router again.                      *)
Restart ==
    /\ phase = "exit"
    /\ phase' = "load"
    /\ UNCHANGED <<file, mtime, cur, lastMod, missed, regvars>>

----------------------------------------------------------------------------
(* Watch                                                                   *)

(* A tick.  One whose os.Stat fails is skipped: it changes nothing, like a *)
(* tick that finds no later time.                                          *)
Poll ==
    /\ phase = "watch"
    /\ IF mtime > lastMod
       THEN lastMod' = mtime /\ phase' = "reload"
       ELSE UNCHANGED <<lastMod, phase>>
    /\ UNCHANGED <<file, mtime, cur, missed, regvars>>

(* Mutant: the file is stored before it has been validated.                *)
ReloadUnvalidated ==
    /\ phase = "reload"
    /\ cur' = file
    /\ phase' = IF file.ok THEN "notify" ELSE "watch"
    /\ UNCHANGED <<file, mtime, lastMod, missed, regvars>>

Reload ==
    /\ phase = "reload"
    /\ IF file.ok
       THEN phase' = "notify" /\ cur' = file
       ELSE phase' = "watch" /\ cur' = cur
    /\ UNCHANGED <<file, mtime, lastMod, missed, regvars>>

(* Mutant: the registry only looks at changes of the upstream list.        *)
NotifyNewPool ==
    /\ phase = "notify"
    /\ IF regCfg # None /\ regCfg.pool = cur.pool THEN UNCHANGED regvars
       ELSE Sync(cur)
    /\ phase' = "watch"
    /\ UNCHANGED <<file, mtime, cur, lastMod, missed>>

(* The subscribers are called; the registry's Sync is one step.            *)
Notify ==
    /\ phase = "notify"
    /\ Sync(cur)
    /\ phase' = "watch"
    /\ UNCHANGED <<file, mtime, cur, lastMod, missed>>

Manager ==
    LoadAtStart \/ StatAtStart \/ Restart \/ Poll \/ Reload \/ Notify

Next == Edit \/ Manager

(* The ticker keeps ticking, and os.Stat does not fail for ever.           *)
Spec == Init /\ [][Next]_vars /\ WF_vars(Manager)

----------------------------------------------------------------------------
(* Properties                                                              *)

(* Among the types: only a configuration that passed Load is ever active.  *)
TypeOK ==
    /\ file \in File
    /\ mtime \in 0..MaxTime
    /\ phase \in {"load", "stat", "exit", "watch", "reload", "notify"}
    /\ cur \in Config \cup {None}
    /\ lastMod \in 0..MaxTime
    /\ missed \in BOOLEAN
    /\ regCfg \in Config \cup {None}
    /\ registry \in [Upstreams -> (0..MaxEdits) \cup {None}]
    /\ cfgOf \in [Object -> (0..MaxEdits) \cup {None}]

(* Whoever takes the registry's lock finds runtime state for exactly the   *)
(* upstreams of the registry's configuration, all pointing into it.        *)
RegistryConsistent ==
    regCfg # None =>
        \A u \in Upstreams :
            /\ (u \in regCfg.pool) = Live(u)
            /\ Live(u) => cfgOf[Get(u)] = regCfg.edit

(* README "Config reference": a reload "keeps each still-present upstream's*)
(* circuit breaker, sliding window, and debt state intact": the runtime    *)
(* object of an upstream is the same as long as the upstream is listed.    *)
StateKept ==
    [][\A u \in Upstreams :
          Live(u) /\ registry'[u] # None => registry'[u] = registry[u]]_vars

(* README: changes "take effect on the next config poll", also after a     *)
(* broken or half-written file and for edits in the middle of a reload.    *)
(* The exceptions are an edit between NewManager's Load and its Stat, and  *)
(* one whose modification time is not later than the last one noticed.     *)
EditsTakeEffect == <>[](file.ok /\ ~ missed => regCfg = file)

=============================================================================
