------------------------------ MODULE Registry ------------------------------
(***************************************************************************)
(* router.Registry: the live runtime state of the configured upstreams     *)
(* (internal/router/registry.go), as its users see it.                     *)
(*                                                                         *)
(* An upstream.Upstream object holds breaker, windows, in-flight counter   *)
(* and debt; requests keep pointers to it.  It is named here by its        *)
(* upstream and the configuration that created it: one that is removed and *)
(* added again is another object.  Sync runs under the registry's lock     *)
(* from first to last, Get and Config only read; the objects' Cfg pointers *)
(* are read by requests at any time, without the lock.                     *)
(***************************************************************************)
EXTENDS Naturals

CONSTANTS
    Upstreams,
    MaxEdits,   \* bound on the edits of the configuration
    None        \* nothing loaded, or no runtime state

ASSUME RegistryAssumption == MaxEdits \in Nat /\ None \notin 0..MaxEdits

Object == Upstreams \X (0..MaxEdits)

VARIABLES
    regCfg,     \* Registry.cfg: its edit, and the pool it lists
    registry,   \* Registry.upstreams: the configuration that created each object
    cfgOf       \* the Cfg pointer of each object: the edit it points into

regvars == <<regCfg, registry, cfgOf>>

InitRegistry ==
    /\ regCfg = None
    /\ registry = [u \in Upstreams |-> None]
    /\ cfgOf = [o \in Object |-> None]

Live(u) == registry[u] # None

(* Get(id), where it does not return nil.                                  *)
Get(u) == <<u, registry[u]>>

(* Mutants: runtime state is recreated; upstreams that disappeared stay.   *)
RegisteredAfresh(c) ==
    [u \in Upstreams |-> IF u \in c.pool THEN c.edit ELSE None]

RegisteredKeepsAll(c) ==
    [u \in Upstreams |-> IF ~ Live(u) /\ u \in c.pool THEN c.edit ELSE registry[u]]

Registered(c) ==
    [u \in Upstreams |->
        CASE u \notin c.pool            -> None
          [] u \in c.pool /\ Live(u)    -> registry[u]
          [] u \in c.pool /\ ~ Live(u)  -> c.edit]

(* A removed object keeps the pointer it had.                              *)
Sync(c) ==
    /\ regCfg' = c
    /\ registry' = Registered(c)
    /\ cfgOf' = [o \in Object |->
                    IF o[1] \in c.pool /\ registry'[o[1]] = o[2] THEN c.edit
                    ELSE cfgOf[o]]

=============================================================================
