----------------------------- MODULE KeyRotation -----------------------------
(***************************************************************************)
(* The key pair of a factory: the factory daemon renews it when it starts    *)
(* (factory/glideFactory.py, main, with glideFactoryConfig.GlideinDescript), *)
(* advertises it, and forgets the old one after a grace time (spawn); the     *)
(* group process reads both keys from their files and looks with both for    *)
(* requests (factory/glideFactoryEntryGroup.py); a frontend encrypts its     *)
(* requests with the key it found in the collector.                          *)
(*                                                                         *)
(* The files are changed before the daemon registers its PID file: a second  *)
(* daemon that is refused has been there.                                    *)
(***************************************************************************)
EXTENDS Integers, FiniteSets

CONSTANTS
    MaxStarts,   \* how many factory processes are started
    Frontends,
    Grace,       \* OldPubKeyGraceTime
    MaxTime,     \* bounds the clock
    MaxKeys      \* bounds the keys made

ASSUME FrontendsAssumption == IsFiniteSet(Frontends)
ASSUME BoundsAssumption == MaxStarts \in Nat /\ MaxTime \in Nat /\ MaxKeys \in Nat \ {0}
ASSUME GraceAssumption == Grace \in Nat

NoKey == 0       \* None, or no file
Torn  == -1      \* a file that does not hold a key
Keys  == 1..MaxKeys
Nobody    == 0
Factories == 1..MaxStarts   \* numbered as they are started

VARIABLES
    now,
    keys,        \* how many keys were made
    rsa, rsa_time,   \* rsa.key and its modification time
    bak,         \* rsa.key.bak
    pc,          \* where each factory process is
    PubKeyObj, OldPubKeyObj, oldkey_eoltime,    \* in its memory
    ad,          \* the key in the glidefactoryglobal classad
    group,       \* the group process: its parent, its keys, its own eol time
    globals,     \* the key each frontend has found
    request,     \* the key its request in the collector is encrypted with
    served,      \* history: whose requests the group's last iteration found
    advertised,  \* history: when each key was advertised last
    underneath,  \* history: did a process change the files beside another one?
    backup_failed, removal_failed   \* history

fileVars    == <<keys, rsa, rsa_time, bak>>
factoryVars == <<pc, PubKeyObj, OldPubKeyObj, oldkey_eoltime>>
clientVars  == <<globals, request>>
pastVars    == <<advertised, underneath, backup_failed, removal_failed>>

vars == <<now, fileVars, factoryVars, ad, group, clientVars, served, pastVars>>

NoGroup == [of |-> Nobody, new |-> NoKey, old |-> NoKey, eol |-> 0]

Times  == 0..(MaxTime + Grace)
Places == {"new", "backup", "create", "save", "reload", "register", "up", "dead"}

TypeOK ==
    /\ now \in 0..MaxTime
    /\ keys \in Keys
    /\ rsa \in Keys \cup {NoKey, Torn} /\ bak \in Keys \cup {NoKey, Torn}
    /\ rsa_time \in -(Grace + 1)..MaxTime
    /\ pc \in [Factories -> Places]
    /\ PubKeyObj \in [Factories -> Keys \cup {NoKey}]
    /\ OldPubKeyObj \in [Factories -> Keys \cup {NoKey}]
    /\ oldkey_eoltime \in [Factories -> Times]
    /\ ad \in Keys \cup {NoKey}
    /\ group \in [of : Factories \cup {Nobody}, new : Keys \cup {NoKey},
                  old : Keys \cup {NoKey}, eol : Times]
    /\ globals \in [Frontends -> Keys \cup {NoKey}]
    /\ request \in [Frontends -> Keys \cup {NoKey}]
    /\ served \subseteq Frontends
    /\ advertised \in [Keys -> -1..MaxTime]
    /\ underneath \in BOOLEAN /\ backup_failed \in BOOLEAN /\ removal_failed \in BOOLEAN

(* A factory has just ended, with a key that reconfig (save_pub_key) made      *)
(* just now or more than the grace time ago; requests may be encrypted with it. *)
Init ==
    /\ now = 0 /\ keys = 1
    /\ rsa = 1 /\ rsa_time \in {0, -(Grace + 1)} /\ bak = NoKey
    /\ pc = [f \in Factories |-> "new"]
    /\ PubKeyObj = [f \in Factories |-> NoKey]
    /\ OldPubKeyObj = [f \in Factories |-> NoKey]
    /\ oldkey_eoltime = [f \in Factories |-> 0]
    /\ ad = 1 /\ group = NoGroup
    /\ globals = [c \in Frontends |-> 1] /\ request \in [Frontends -> {NoKey, 1}]
    /\ served = {}
    /\ advertised = [k \in Keys |-> IF k = 1 THEN 0 ELSE -1]
    /\ underneath = FALSE /\ backup_failed = FALSE /\ removal_failed = FALSE

Tick ==
    /\ now < MaxTime
    /\ now' = now + 1
    /\ UNCHANGED <<fileVars, factoryVars, ad, group, clientVars, served, pastVars>>

-----------------------------------------------------------------------------
(* main, up to the registration of the PID file. *)

Alive(f) == pc[f] \notin {"new", "dead"}
Up(f)    == pc[f] = "up"

(* Loading a key from a file: an exception, or None for load_old_rsa_key. *)
Readable(file) == IF file = Torn THEN NoKey ELSE file

Beside(f) == \E g \in Factories \ {f} : Alive(g)

To(f, place) == pc' = [pc EXCEPT ![f] = place]

(* Mutant of is_file_old: renewed while the key before it is still in its grace time. *)
is_file_oldEarly == now >= rsa_time + Grace

is_file_old == now > rsa_time + Grace

Start(f) ==
    /\ pc[f] = "new" /\ \A g \in 1..(f - 1) : pc[g] # "new"
    /\ To(f, IF rsa = NoKey THEN "dead" ELSE IF is_file_old THEN "backup" ELSE "reload")
    /\ UNCHANGED <<now, fileVars, PubKeyObj, OldPubKeyObj, oldkey_eoltime, ad, group,
                   clientVars, served, pastVars>>

(* backup_and_load_old_key: a copy that fails is ignored, and whatever is in *)
(* the backup file then is loaded as the old key.                            *)
Backup(f) ==
    /\ pc[f] = "backup"
    /\ \/ bak' = rsa /\ UNCHANGED backup_failed
       \/ bak' \in {bak, Torn} /\ backup_failed' = TRUE
    /\ OldPubKeyObj' = [OldPubKeyObj EXCEPT ![f] = Readable(bak')]
    /\ underneath' = (underneath \/ Beside(f))
    /\ To(f, "create")
    /\ UNCHANGED <<now, keys, rsa, rsa_time, PubKeyObj, oldkey_eoltime, ad, group,
                   clientVars, served, advertised, removal_failed>>

(* load_pub_key(recreate=True): the file is read, a key made and the file     *)
(* opened for writing, which empties it.                                     *)
Create(f) ==
    /\ pc[f] = "create"
    /\ IF Readable(rsa) = NoKey
       THEN To(f, "dead") /\ UNCHANGED <<fileVars, PubKeyObj, underneath>>
       ELSE /\ keys < MaxKeys
            /\ keys' = keys + 1
            /\ PubKeyObj' = [PubKeyObj EXCEPT ![f] = keys + 1]
            /\ rsa' = Torn /\ rsa_time' = now
            /\ underneath' = (underneath \/ Beside(f))
            /\ To(f, "save")
            /\ UNCHANGED bak
    /\ UNCHANGED <<now, OldPubKeyObj, oldkey_eoltime, ad, group, clientVars, served,
                   advertised, backup_failed, removal_failed>>

(* The key is written, or the file is removed and the exception ends main. *)
Save(f) ==
    /\ pc[f] = "save"
    /\ rsa' \in {PubKeyObj[f], NoKey}
    /\ rsa_time' = now
    /\ underneath' = (underneath \/ Beside(f))
    /\ To(f, IF rsa' = NoKey THEN "dead" ELSE "register")
    /\ UNCHANGED <<now, keys, bak, PubKeyObj, OldPubKeyObj, oldkey_eoltime, ad, group,
                   clientVars, served, advertised, backup_failed, removal_failed>>

(* The key is recent enough. *)
Reload(f) ==
    /\ pc[f] = "reload"
    /\ PubKeyObj' = [PubKeyObj EXCEPT ![f] = Readable(rsa)]
    /\ OldPubKeyObj' = [OldPubKeyObj EXCEPT ![f] = Readable(bak)]
    /\ To(f, IF Readable(rsa) = NoKey THEN "dead" ELSE "register")
    /\ UNCHANGED <<now, fileVars, oldkey_eoltime, ad, group, clientVars, served, pastVars>>

(* The PID file (see PidLock), and the beginning of spawn. *)
Register(f) ==
    /\ pc[f] = "register"
    /\ IF \E g \in Factories : Up(g)
       THEN To(f, "dead") /\ UNCHANGED oldkey_eoltime
       ELSE To(f, "up") /\ oldkey_eoltime' = [oldkey_eoltime EXCEPT ![f] = now + Grace]
    /\ UNCHANGED <<now, fileVars, PubKeyObj, OldPubKeyObj, ad, group, clientVars, served,
                   pastVars>>

(* The factory ends, at any point, with or without withdrawing its ads. *)
Die(f) ==
    /\ Alive(f)
    /\ To(f, "dead")
    /\ PubKeyObj' = [PubKeyObj EXCEPT ![f] = NoKey]
    /\ OldPubKeyObj' = [OldPubKeyObj EXCEPT ![f] = NoKey]
    /\ oldkey_eoltime' = [oldkey_eoltime EXCEPT ![f] = 0]
    /\ ad' \in IF Up(f) THEN {ad, NoKey} ELSE {ad}
    /\ UNCHANGED <<now, fileVars, group, clientVars, served, pastVars>>

(* The operator follows the message of a start that failed: the file is      *)
(* removed and reconfig makes a key, which it does only if there is none.    *)
Reconfig ==
    /\ rsa \in {NoKey, Torn}
    /\ \A f \in Factories : ~ Alive(f)
    /\ keys < MaxKeys
    /\ keys' = keys + 1 /\ rsa' = keys + 1 /\ rsa_time' = now
    /\ UNCHANGED <<now, bak, factoryVars, ad, group, clientVars, served, pastVars>>

-----------------------------------------------------------------------------
(* spawn. *)

EndOfGrace(f) == now > oldkey_eoltime[f]

(* Mutant of Retire: the file of the old key is left. *)
RetireInMemory(f, removed) ==
    /\ OldPubKeyObj' = [OldPubKeyObj EXCEPT ![f] = NoKey]
    /\ UNCHANGED <<bak, removal_failed>>

(* The old key is forgotten first and its file removed then: that is tried   *)
(* once, and a failure is logged.                                            *)
Retire(f, removed) ==
    /\ OldPubKeyObj' = [OldPubKeyObj EXCEPT ![f] = NoKey]
    /\ bak' = IF removed THEN NoKey ELSE bak
    /\ removal_failed' = (removal_failed \/ ~ removed)

FactoryIteration(f, removed, advertise) ==
    /\ Up(f)
    /\ IF EndOfGrace(f) /\ OldPubKeyObj[f] # NoKey
       THEN Retire(f, removed)
       ELSE UNCHANGED <<OldPubKeyObj, bak, removal_failed>>
    /\ IF advertise
       THEN ad' = PubKeyObj[f] /\ advertised' = [advertised EXCEPT ![PubKeyObj[f]] = now]
       ELSE UNCHANGED <<ad, advertised>>
    /\ UNCHANGED <<now, keys, rsa, rsa_time, pc, PubKeyObj, oldkey_eoltime, group, clientVars,
                   served, underneath, backup_failed>>

-----------------------------------------------------------------------------
(* The group process: one at a time, by its own PID file. *)

(* It is started by the factory and loads the keys; without one it ends. *)
GroupStart(f) ==
    /\ Up(f)
    /\ group = NoGroup
    /\ Readable(rsa) # NoKey
    /\ group' = [of |-> f, new |-> rsa, old |-> Readable(bak), eol |-> now + Grace]
    /\ UNCHANGED <<now, fileVars, factoryVars, ad, clientVars, served, pastVars>>

GroupDies ==
    /\ group # NoGroup
    /\ group' = NoGroup
    /\ UNCHANGED <<now, fileVars, factoryVars, ad, clientVars, served, pastVars>>

(* findGroupWork asks for the requests with a key and drops what it cannot   *)
(* decrypt.                                                                  *)
findGroupWork(key) == {c \in Frontends : key # NoKey /\ request[c] = key}

(* Mutant of find_work: while there is an old key only that one is used. *)
find_workOld(new, old) == findGroupWork(IF old # NoKey THEN old ELSE new)

(* find_work: both dictionaries have the entries as their keys (one here):   *)
(* with any work for the new key, that of the old one is dropped.            *)
find_work(new, old) ==
    IF findGroupWork(new) # {} THEN findGroupWork(new) ELSE findGroupWork(old)

(* The old key is given up at the beginning of an iteration. *)
KeptOldKey == IF now > group.eol THEN NoKey ELSE group.old

GroupIteration ==
    /\ group # NoGroup
    /\ Up(group.of)
    /\ group' = [group EXCEPT !.old = KeptOldKey]
    /\ served' = find_work(group.new, group'.old)
    /\ UNCHANGED <<now, fileVars, factoryVars, ad, clientVars, pastVars>>

(* check_parent. *)
Orphaned ==
    /\ group # NoGroup
    /\ ~ Up(group.of)
    /\ group' = NoGroup
    /\ UNCHANGED <<now, fileVars, factoryVars, ad, clientVars, served, pastVars>>

-----------------------------------------------------------------------------
(* A frontend's iteration: the key is fetched at its beginning and used at   *)
(* its end.                                                                  *)

query_globals(c) ==
    /\ globals' = [globals EXCEPT ![c] = ad]
    /\ UNCHANGED <<now, fileVars, factoryVars, ad, group, request, served, pastVars>>

AdvertiseRequest(c) ==
    /\ globals[c] # NoKey
    /\ request' = [request EXCEPT ![c] = globals[c]]
    /\ globals' = [globals EXCEPT ![c] = NoKey]
    /\ UNCHANGED <<now, fileVars, factoryVars, ad, group, served, pastVars>>

-----------------------------------------------------------------------------
Main(f) == Start(f) \/ Backup(f) \/ Create(f) \/ Save(f) \/ Reload(f) \/ Register(f)

Next ==
    \/ Tick
    \/ \E f \in Factories : Main(f) \/ Die(f) \/ GroupStart(f)
    \/ \E f \in Factories : \E removed, advertise \in BOOLEAN :
           FactoryIteration(f, removed, advertise)
    \/ Reconfig
    \/ GroupDies \/ GroupIteration \/ Orphaned
    \/ \E c \in Frontends : query_globals(c) \/ AdvertiseRequest(c)

(* The loops go on while their processes live, and the collector does not    *)
(* refuse for ever.                                                          *)
Fairness ==
    /\ WF_vars(GroupIteration) /\ WF_vars(Orphaned)
    /\ \A f \in Factories :
          /\ WF_vars(GroupStart(f))
          /\ WF_vars(FactoryIteration(f, TRUE, TRUE))
    /\ \A c \in Frontends : WF_vars(query_globals(c)) /\ WF_vars(AdvertiseRequest(c))

Spec == Init /\ [][Next]_vars /\ Fairness

-----------------------------------------------------------------------------
(* A key that the factory advertises, or that one advertised within the grace *)
(* time, can be used: the group holds it, whatever restarts and crashes there *)
(* were, even in the middle of a renewal.  Two things may break this: a       *)
(* second factory process that renews the files beside the first, and a       *)
(* backup that failed.                                                       *)
Current(k) == k = PubKeyObj[group.of] \/ (advertised[k] >= 0 /\ now - advertised[k] <= Grace)

KeyKept ==
    [][(GroupIteration /\ ~ underneath /\ ~ backup_failed)
          => \A c \in Frontends : (request[c] # NoKey /\ Current(request[c]))
                => request[c] \in {group'.new, group'.old}]_vars

(* "If a compromised key is left around and if attacker can somehow trigger  *)
(* FactoryEntry process crash, we do not want the entry to pick up the old   *)
(* key again when factory auto restarts it": once a factory has given up the *)
(* old key, no group it starts has it, unless the file could not be removed. *)
OldKeyRetired ==
    [][\A f \in Factories : (GroupStart(f) /\ OldPubKeyObj[f] = NoKey /\ ~ underneath /\ ~ removal_failed)
          => group'.old = NoKey]_vars

(* A frontend is served again and again by a factory and a group that stay,  *)
(* although keys were renewed before and requests of old ones were dropped.  *)
ServedAgain ==
    (/\ \E f \in Factories : <>[](Up(f) /\ group.of = f)
     /\ [](~ underneath /\ ~ backup_failed))
    => \A c \in Frontends : []<>(c \in served)

(* "If old key is valid, find the work using old key as well and append it   *)
(* to existing work dictionary": what can be decrypted is served.            *)
OldWorkServed ==
    [][GroupIteration => \A c \in Frontends :
          (request[c] # NoKey /\ request[c] \in {group'.new, group'.old}) => c \in served']_vars
=============================================================================
