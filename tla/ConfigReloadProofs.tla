------------------------- MODULE ConfigReloadProofs -------------------------
(***************************************************************************)
(* Hot reload for any upstreams, any number of edits and any modification  *)
(* times: only validated configurations become active, the registry always *)
(* agrees with its configuration, and runtime state survives.              *)
(***************************************************************************)
EXTENDS ConfigReload, TLAPS

(* What the proofs add to the types: the manager only gets to its    *)
(* subscribers and to its polling with a configuration.                    *)
Loaded == phase \notin {"load", "exit"} => cur # None

IInv == TypeOK /\ Loaded /\ RegistryConsistent

USE RegistryAssumption, ReloadAssumption
    DEF RegistryAssumption, ReloadAssumption

----------------------------------------------------------------------------
(* Registry.Sync                                                           *)

(* What Sync leaves behind is typed and agrees with the configuration it   *)
(* was given, whatever was registered before.                              *)
LEMMA SyncConsistent ==
    ASSUME NEW c \in Config,
           registry \in [Upstreams -> (0..MaxEdits) \cup {None}],
           cfgOf \in [Object -> (0..MaxEdits) \cup {None}],
           Sync(c)
    PROVE  /\ regCfg' \in Config
           /\ registry' \in [Upstreams -> (0..MaxEdits) \cup {None}]
           /\ cfgOf' \in [Object -> (0..MaxEdits) \cup {None}]
           /\ RegistryConsistent'
<1>1. c.edit \in 0..MaxEdits /\ c.edit # None
  BY DEF Config, File
<1>2. registry' \in [Upstreams -> (0..MaxEdits) \cup {None}]
  <2>1. \A u \in Upstreams : Registered(c)[u] \in (0..MaxEdits) \cup {None}
    BY <1>1 DEF Registered, Live
  <2>. QED  BY <2>1 DEF Sync, Registered
<1>3. cfgOf' \in [Object -> (0..MaxEdits) \cup {None}]
  BY <1>1 DEF Sync
<1>4. ASSUME NEW u \in Upstreams
      PROVE  (u \in c.pool) = (registry'[u] # None)
  BY <1>1 DEF Sync, Registered, Live
<1>5. ASSUME NEW u \in Upstreams, registry'[u] # None
      PROVE  cfgOf'[<<u, registry'[u]>>] = c.edit
  <2>1. <<u, registry'[u]>> \in Object /\ u \in c.pool
    BY <1>2, <1>4, <1>5 DEF Object
  <2>. QED  BY <2>1 DEF Sync
<1>. QED  BY <1>2, <1>3, <1>4, <1>5 DEF Sync, RegistryConsistent, Live, Get

(* An upstream that is registered before and after is the same object.     *)
LEMMA SyncKeeps ==
    ASSUME NEW c, Sync(c), NEW u \in Upstreams, Live(u), registry'[u] # None
    PROVE  registry'[u] = registry[u]
  BY DEF Sync, Registered, Live

----------------------------------------------------------------------------
(* The manager's steps.                                                    *)

LEMMA InitEstablishes == Init => IInv
<1>. SUFFICES ASSUME Init PROVE IInv
  OBVIOUS
<1>1. file \in File /\ mtime \in 0..MaxTime /\ lastMod \in 0..MaxTime
  BY DEF Init
<1>2. registry \in [Upstreams -> (0..MaxEdits) \cup {None}]
      /\ cfgOf \in [Object -> (0..MaxEdits) \cup {None}] /\ regCfg = None
  BY DEF Init, InitRegistry
<1>3. phase = "load" /\ cur = None /\ missed = FALSE
  BY DEF Init
<1>. QED  BY <1>1, <1>2, <1>3 DEF IInv, TypeOK, Loaded, RegistryConsistent

LEMMA EditKeeps == IInv /\ Edit => IInv'
<1>. SUFFICES ASSUME IInv, Edit PROVE IInv'
  OBVIOUS
<1>. USE DEF IInv, Edit, regvars
<1>1. TypeOK'
  <2>1. missed' \in BOOLEAN
    <3>1. CASE phase \in {"load", "exit", "reload"}
      BY <3>1
    <3>2. CASE phase = "stat"
      BY <3>2
    <3>3. CASE phase \in {"notify", "watch"}
      <4>1. phase \notin {"load", "exit", "reload"} /\ phase # "stat"
        BY <3>3
      <4>2. missed' = (mtime' <= lastMod)
        BY <3>3, <4>1, Zenon
      <4>3. (mtime' <= lastMod) \in BOOLEAN
        OBVIOUS
      <4>. QED  BY <4>2, <4>3, Zenon
    <3>. QED  BY <3>1, <3>2, <3>3 DEF TypeOK
  <2>. QED  BY <2>1 DEF TypeOK
<1>2. Loaded'
  BY DEF Loaded
<1>3. RegistryConsistent'
  BY DEF RegistryConsistent, Live, Get
<1>. QED  BY <1>1, <1>2, <1>3

LEMMA ManagerKeeps == IInv /\ Manager => IInv'
<1>. SUFFICES ASSUME IInv, Manager PROVE IInv'
  OBVIOUS
<1>. USE DEF IInv
<1>1. CASE Notify
  <2>1. cur \in Config
    BY <1>1 DEF Notify, Loaded, TypeOK
  <2>2. RegistryConsistent' /\ regCfg' \in Config
        /\ registry' \in [Upstreams -> (0..MaxEdits) \cup {None}]
        /\ cfgOf' \in [Object -> (0..MaxEdits) \cup {None}]
    BY <1>1, <2>1, SyncConsistent DEF Notify, TypeOK
  <2>. QED  BY <1>1, <2>2 DEF Notify, TypeOK, Loaded
<1>2. ASSUME UNCHANGED regvars
      PROVE  RegistryConsistent'
  BY <1>2 DEF RegistryConsistent, Live, Get, regvars
<1>3. CASE LoadAtStart
  BY <1>2, <1>3 DEF LoadAtStart, TypeOK, Loaded, Config, regvars
<1>4. CASE StatAtStart
  BY <1>2, <1>4 DEF StatAtStart, TypeOK, Loaded, regvars
<1>5. CASE Restart
  BY <1>2, <1>5 DEF Restart, TypeOK, Loaded, regvars
<1>6. CASE Poll
  BY <1>2, <1>6 DEF Poll, TypeOK, Loaded, regvars
<1>7. CASE Reload
  BY <1>2, <1>7 DEF Reload, TypeOK, Loaded, Config, regvars
<1>. QED  BY <1>1, <1>3, <1>4, <1>5, <1>6, <1>7 DEF Manager

LEMMA Invariance == Spec => []IInv
<1>1. IInv /\ [Next]_vars => IInv'
  <2>1. IInv /\ UNCHANGED vars => IInv'
    BY DEF IInv, TypeOK, Loaded, RegistryConsistent, Live, Get, vars
  <2>. QED  BY <2>1, EditKeeps, ManagerKeeps DEF Next
<1>. QED  BY InitEstablishes, <1>1, PTL DEF Spec

----------------------------------------------------------------------------
(* Only a configuration that passed Load is ever active, in the manager or *)
(* in the registry, whenever the file is edited and whatever is in it.     *)
THEOREM TypeCorrect == Spec => []TypeOK
  BY Invariance, PTL DEF IInv

(* Whoever takes the registry's lock finds runtime state for exactly the   *)
(* upstreams of its configuration, each pointing into that configuration.  *)
THEOREM RegistryIsConsistent == Spec => []RegistryConsistent
  BY Invariance, PTL DEF IInv

(* No reload replaces the runtime state of an upstream that stays listed.  *)
THEOREM StateIsKept == Spec => StateKept
<1>1. [Next]_vars => [\A u \in Upstreams :
          Live(u) /\ registry'[u] # None => registry'[u] = registry[u]]_vars
  <2>1. ASSUME NEW u \in Upstreams, Live(u), registry'[u] # None, Next
        PROVE  registry'[u] = registry[u]
    <3>1. CASE Notify
      BY <2>1, <3>1, SyncKeeps DEF Notify
    <3>2. CASE UNCHANGED regvars
      BY <3>2 DEF regvars
    <3>. QED
      BY <2>1, <3>1, <3>2 DEF Next, Manager, Edit, LoadAtStart, StatAtStart, Restart,
         Poll, Reload
  <2>. QED  BY <2>1
<1>. QED  BY <1>1, PTL DEF Spec, StateKept

=============================================================================
