-------------------------- MODULE KeyRotationProofs --------------------------
(***************************************************************************)
(* Proofs about KeyRotation: types, and that neither renewals, crashes nor   *)
(* restarts take away a key that requests may use or bring back one that      *)
(* was given up.                                                             *)
(***************************************************************************)
EXTENDS KeyRotation, TLAPS

(* Once a factory has no old key, there is none to be read: it has backed up  *)
(* or loaded whatever is in the file, or removed the file.                   *)
Retired ==
    (~ underneath /\ ~ removal_failed) =>
        \A f \in Factories :
            (pc[f] \in {"create", "save", "register", "up"} /\ OldPubKeyObj[f] = NoKey)
                => Readable(bak) = NoKey

(* The past is past; one factory is up; a group was started by one that was.  *)
Past     == rsa_time <= now /\ \A k \in Keys : advertised[k] <= now
OneUp    == \A f, g \in Factories : (Up(f) /\ Up(g)) => f = g
Parented == group # NoGroup => group.of \in Factories /\ pc[group.of] \in {"up", "dead"}

LastBy(k, time) == advertised[k] >= 0 => advertised[k] <= time

(* Keys that are not the factory's own were advertised before it came up, and *)
(* those that are not the group's before the group started.                  *)
OldSinceUp ==
    \A f \in Factories : Up(f) =>
        \A k \in Keys \ {PubKeyObj[f]} : LastBy(k, oldkey_eoltime[f] - Grace)

(* Where the other factories can be while one renews the key.                *)
Alone ==
    \A f, g \in Factories : f # g =>
        /\ pc[f] = "create" => pc[g] \in {"new", "dead", "backup"}
        /\ pc[f] = "save"   => pc[g] \in {"new", "dead", "backup", "reload"}

(* What a factory knows of the files while nobody changes them beside it.     *)
Renewing ==
    \A f \in Factories :
        /\ pc[f] \in {"backup", "create"} => is_file_old
        /\ pc[f] = "create" => bak = rsa
        /\ pc[f] = "save" => rsa = Torn /\ PubKeyObj[f] \in Keys
        /\ pc[f] \in {"register", "up"} => rsa = PubKeyObj[f] /\ PubKeyObj[f] \in Keys

Fresh(k) == advertised[k] >= 0 /\ now - advertised[k] <= Grace

(* A key that was advertised lately is in one of the two files. *)
FilesHold ==
    \A k \in Keys :
        /\ k # rsa => LastBy(k, rsa_time)
        /\ Fresh(k) => k \in {rsa, bak}

(* ... and in the memory of the group. *)
GroupHolds ==
    (group # NoGroup /\ Up(group.of)) =>
        /\ group.new = PubKeyObj[group.of]
        /\ \A k \in Keys : k # group.new => LastBy(k, group.eol - Grace)
        /\ \A k \in Keys : Fresh(k) => k \in {group.new, group.old}

Clean == ~ underneath /\ ~ backup_failed

IInv == /\ TypeOK /\ Retired /\ Past /\ OneUp /\ Parented /\ OldSinceUp
        /\ Clean => Alone /\ Renewing /\ FilesHold /\ GroupHolds

-----------------------------------------------------------------------------
(* TypeOK in parts. *)
KeyFiles == Keys \cup {NoKey, Torn}
KeyObjs  == Keys \cup {NoKey}

FilesTyped  == /\ now \in 0..MaxTime /\ keys \in Keys
               /\ rsa \in KeyFiles /\ bak \in KeyFiles /\ rsa_time \in -(Grace + 1)..MaxTime
MemoryTyped == /\ pc \in [Factories -> Places]
               /\ PubKeyObj \in [Factories -> KeyObjs] /\ OldPubKeyObj \in [Factories -> KeyObjs]
               /\ oldkey_eoltime \in [Factories -> Times]
AdsTyped    == /\ ad \in KeyObjs /\ advertised \in [Keys -> -1..MaxTime]
               /\ globals \in [Frontends -> KeyObjs] /\ request \in [Frontends -> KeyObjs]
GroupTyped  == /\ group \in [of : Factories \cup {Nobody}, new : KeyObjs,
                             old : KeyObjs, eol : Times]
               /\ served \subseteq Frontends
FlagsTyped  == underneath \in BOOLEAN /\ backup_failed \in BOOLEAN /\ removal_failed \in BOOLEAN

LEMMA TypeParts == TypeOK <=> FilesTyped /\ MemoryTyped /\ AdsTyped /\ GroupTyped /\ FlagsTyped
BY DEF TypeOK, FilesTyped, MemoryTyped, AdsTyped, GroupTyped, FlagsTyped, KeyFiles, KeyObjs

LEMMA InitTyped == Init => TypeOK
<1> SUFFICES ASSUME Init PROVE TypeOK
  OBVIOUS
<1> USE BoundsAssumption, GraceAssumption DEF Init, Keys, KeyFiles, KeyObjs, NoKey, Torn
<1>1. FilesTyped
  BY DEF FilesTyped
<1>2. MemoryTyped
  BY DEF MemoryTyped, Places, Times
<1>3. AdsTyped
  BY DEF AdsTyped
<1>4. GroupTyped
  BY DEF GroupTyped, NoGroup, Nobody, Times
<1>5. FlagsTyped
  BY DEF FlagsTyped
<1> QED  BY <1>1, <1>2, <1>3, <1>4, <1>5, TypeParts

(* Each part, one action at a time. *)
LEMMA NextFilesTyped == FilesTyped /\ MemoryTyped /\ [Next]_vars => FilesTyped'
<1> SUFFICES ASSUME FilesTyped, MemoryTyped, [Next]_vars
             PROVE  FilesTyped'
  OBVIOUS
<1> USE BoundsAssumption, GraceAssumption DEF FilesTyped, KeyFiles, Keys, NoKey, Torn
<1>1. ASSUME NEW f \in Factories, Start(f) \/ Register(f) \/ Die(f) \/ Reload(f) \/ GroupStart(f)
      PROVE  FilesTyped'
  BY <1>1 DEF Start, Register, Die, Reload, GroupStart, fileVars
<1>2. ASSUME NEW f \in Factories, Backup(f) \/ Create(f) \/ Save(f)
      PROVE  FilesTyped'
  <2>1. CASE Backup(f)
    BY <2>1 DEF Backup
  <2>2. CASE Create(f)
    BY <2>2 DEF Create, fileVars
  <2>3. CASE Save(f)
    BY <2>3 DEF Save, MemoryTyped, KeyObjs
  <2> QED  BY <1>2, <2>1, <2>2, <2>3
<1>3. ASSUME NEW f \in Factories, NEW removed \in BOOLEAN, NEW advertise \in BOOLEAN,
             FactoryIteration(f, removed, advertise)
      PROVE  FilesTyped'
  BY <1>3 DEF FactoryIteration, Retire
<1>4. CASE Tick \/ Reconfig
  <2>1. CASE Tick
    BY <2>1 DEF Tick, fileVars
  <2>2. CASE Reconfig
    BY <2>2 DEF Reconfig
  <2> QED  BY <1>4, <2>1, <2>2
<1>5. CASE GroupDies \/ Orphaned \/ GroupIteration
  BY <1>5 DEF GroupDies, Orphaned, GroupIteration, fileVars
<1>6. ASSUME NEW c \in Frontends, query_globals(c) \/ AdvertiseRequest(c)
      PROVE  FilesTyped'
  BY <1>6 DEF query_globals, AdvertiseRequest, fileVars
<1>7. CASE UNCHANGED vars
  BY <1>7 DEF vars, fileVars
<1> QED
  BY <1>1, <1>2, <1>3, <1>4, <1>5, <1>6, <1>7 DEF Next, Main

LEMMA ReadableType == \A file \in KeyFiles : Readable(file) \in KeyObjs
BY DEF KeyFiles, KeyObjs, Readable, Torn, NoKey

LEMMA NextMemoryTyped == FilesTyped /\ MemoryTyped /\ [Next]_vars => MemoryTyped'
<1> SUFFICES ASSUME FilesTyped, MemoryTyped, [Next]_vars
             PROVE  MemoryTyped'
  OBVIOUS
<1> USE BoundsAssumption, GraceAssumption DEF MemoryTyped, KeyObjs, Keys, NoKey, To, Places, Times
<1>1. ASSUME NEW f \in Factories, Start(f) \/ Die(f)
      PROVE  MemoryTyped'
  BY <1>1 DEF Start, Die
<1>2. ASSUME NEW f \in Factories, Backup(f) \/ Reload(f)
      PROVE  MemoryTyped'
  <2>1. rsa \in KeyFiles /\ bak \in KeyFiles /\ bak' \in KeyFiles
    BY NextFilesTyped DEF FilesTyped
  <2>2. /\ Readable(rsa) \in KeyObjs
        /\ Readable(bak) \in KeyObjs /\ Readable(bak') \in KeyObjs
    BY <2>1, ReadableType
  <2>3. CASE Backup(f)
    BY <2>2, <2>3 DEF Backup
  <2>4. CASE Reload(f)
    BY <2>2, <2>4 DEF Reload
  <2> QED  BY <1>2, <2>3, <2>4
<1>3. ASSUME NEW f \in Factories, Create(f)
      PROVE  MemoryTyped'
  <2>1. keys < MaxKeys => keys + 1 \in KeyObjs
    BY DEF FilesTyped
  <2> QED  BY <1>3, <2>1 DEF Create, KeyObjs
<1>4. ASSUME NEW f \in Factories, Save(f)
      PROVE  MemoryTyped'
  BY <1>4 DEF Save
<1>5. ASSUME NEW f \in Factories, NEW removed \in BOOLEAN, NEW advertise \in BOOLEAN,
             FactoryIteration(f, removed, advertise)
      PROVE  MemoryTyped'
  BY <1>5 DEF FactoryIteration, Retire
<1>6. ASSUME NEW f \in Factories, GroupStart(f)
      PROVE  MemoryTyped'
  BY <1>6 DEF GroupStart, factoryVars
<1>7. CASE Tick \/ Reconfig
  BY <1>7 DEF Tick, Reconfig, factoryVars
<1>8. CASE GroupDies \/ Orphaned \/ GroupIteration
  BY <1>8 DEF GroupDies, Orphaned, GroupIteration, factoryVars
<1>9. ASSUME NEW c \in Frontends, query_globals(c) \/ AdvertiseRequest(c)
      PROVE  MemoryTyped'
  BY <1>9 DEF query_globals, AdvertiseRequest, factoryVars
<1>10. CASE UNCHANGED vars
  BY <1>10 DEF vars, factoryVars
<1>11. ASSUME NEW f \in Factories, Register(f)
       PROVE  MemoryTyped'
  <2>1. now + Grace \in Times
    BY DEF FilesTyped
  <2> QED  BY <1>11, <2>1 DEF Register
<1> QED
  BY <1>1, <1>2, <1>3, <1>4, <1>5, <1>6, <1>7, <1>8, <1>9, <1>10, <1>11 DEF Next, Main

LEMMA NextAdsTyped == FilesTyped /\ MemoryTyped /\ AdsTyped /\ [Next]_vars => AdsTyped'
<1> SUFFICES ASSUME FilesTyped, MemoryTyped, AdsTyped, [Next]_vars
             PROVE  AdsTyped'
  OBVIOUS
<1> USE BoundsAssumption, GraceAssumption DEF AdsTyped, KeyObjs, Keys, NoKey
<1>1. ASSUME NEW f \in Factories, Start(f) \/ Register(f) \/ Die(f) \/ Reload(f) \/ GroupStart(f)
      PROVE  AdsTyped'
  BY <1>1 DEF Start, Register, Die, Reload, GroupStart, clientVars, pastVars
<1>2. ASSUME NEW f \in Factories, Backup(f) \/ Create(f) \/ Save(f)
      PROVE  AdsTyped'
  BY <1>2 DEF Backup, Create, Save, clientVars
<1>3. ASSUME NEW f \in Factories, NEW removed \in BOOLEAN, NEW advertise \in BOOLEAN,
             FactoryIteration(f, removed, advertise)
      PROVE  AdsTyped'
  <2>1. PubKeyObj[f] \in KeyObjs /\ now \in -1..MaxTime
    BY DEF MemoryTyped, FilesTyped
  <2> HIDE DEF KeyObjs
  <2>2. UNCHANGED clientVars /\ ad' \in KeyObjs
    BY <1>3, <2>1 DEF FactoryIteration
  <2>3. advertised' \in [Keys -> -1..MaxTime]
    BY <1>3, <2>1 DEF FactoryIteration
  <2> QED  BY <2>2, <2>3 DEF clientVars
<1>4. CASE Tick \/ Reconfig
  BY <1>4 DEF Tick, Reconfig, clientVars, pastVars
<1>5. CASE GroupDies \/ Orphaned \/ GroupIteration
  BY <1>5 DEF GroupDies, Orphaned, GroupIteration, clientVars, pastVars
<1>6. ASSUME NEW c \in Frontends, query_globals(c) \/ AdvertiseRequest(c)
      PROVE  AdsTyped'
  BY <1>6 DEF query_globals, AdvertiseRequest, pastVars
<1>7. CASE UNCHANGED vars
  BY <1>7 DEF vars, clientVars, pastVars
<1> QED
  BY <1>1, <1>2, <1>3, <1>4, <1>5, <1>6, <1>7 DEF Next, Main

LEMMA NextGroupTyped == TypeOK /\ [Next]_vars => GroupTyped'
<1> SUFFICES ASSUME TypeOK, [Next]_vars
             PROVE  GroupTyped'
  OBVIOUS
<1> USE BoundsAssumption, GraceAssumption DEF TypeOK, GroupTyped, KeyObjs, Keys, NoKey, Nobody,
                                              Times
<1>1. ASSUME NEW f \in Factories, Main(f) \/ Die(f)
      PROVE  GroupTyped'
  BY <1>1 DEF Main, Start, Backup, Create, Save, Register, Die, Reload
<1>2. ASSUME NEW f \in Factories, GroupStart(f)
      PROVE  GroupTyped'
  BY <1>2 DEF GroupStart, Readable, Torn
<1>3. ASSUME NEW f \in Factories, NEW removed \in BOOLEAN, NEW advertise \in BOOLEAN,
             FactoryIteration(f, removed, advertise)
      PROVE  GroupTyped'
  BY <1>3 DEF FactoryIteration
<1>4. CASE Tick \/ Reconfig
  BY <1>4 DEF Tick, Reconfig
<1>5. CASE GroupDies \/ Orphaned
  BY <1>5 DEF GroupDies, Orphaned, NoGroup
<1>6. CASE GroupIteration
  BY <1>6 DEF GroupIteration, KeptOldKey, find_work, findGroupWork
<1>7. ASSUME NEW c \in Frontends, query_globals(c) \/ AdvertiseRequest(c)
      PROVE  GroupTyped'
  BY <1>7 DEF query_globals, AdvertiseRequest
<1>8. CASE UNCHANGED vars
  BY <1>8 DEF vars
<1> QED
  BY <1>1, <1>2, <1>3, <1>4, <1>5, <1>6, <1>7, <1>8 DEF Next, Main

LEMMA NextFlagsTyped == TypeOK /\ [Next]_vars => FlagsTyped'
<1> SUFFICES ASSUME TypeOK, [Next]_vars
             PROVE  FlagsTyped'
  OBVIOUS
<1> USE DEF TypeOK, FlagsTyped
<1>1. ASSUME NEW f \in Factories, Start(f) \/ Register(f) \/ Die(f) \/ Reload(f) \/ GroupStart(f)
      PROVE  FlagsTyped'
  BY <1>1 DEF Start, Register, Die, Reload, GroupStart, pastVars
<1>2. ASSUME NEW f \in Factories, Backup(f) \/ Create(f) \/ Save(f)
      PROVE  FlagsTyped'
  BY <1>2 DEF Backup, Create, Save, Beside
<1>3. ASSUME NEW f \in Factories, NEW removed \in BOOLEAN, NEW advertise \in BOOLEAN,
             FactoryIteration(f, removed, advertise)
      PROVE  FlagsTyped'
  BY <1>3 DEF FactoryIteration, Retire
<1>4. CASE Tick \/ Reconfig
  BY <1>4 DEF Tick, Reconfig, pastVars
<1>5. CASE GroupDies \/ Orphaned \/ GroupIteration
  BY <1>5 DEF GroupDies, Orphaned, GroupIteration, pastVars
<1>6. ASSUME NEW c \in Frontends, query_globals(c) \/ AdvertiseRequest(c)
      PROVE  FlagsTyped'
  BY <1>6 DEF query_globals, AdvertiseRequest, pastVars
<1>7. CASE UNCHANGED vars
  BY <1>7 DEF vars, pastVars
<1> QED
  BY <1>1, <1>2, <1>3, <1>4, <1>5, <1>6, <1>7 DEF Next, Main

LEMMA NextTyped == TypeOK /\ [Next]_vars => TypeOK'
BY TypeParts, NextFilesTyped, NextMemoryTyped, NextAdsTyped, NextGroupTyped, NextFlagsTyped
   DEF TypeOK, FilesTyped, MemoryTyped, AdsTyped, GroupTyped, FlagsTyped, KeyFiles, KeyObjs

-----------------------------------------------------------------------------
(* A backup beside another factory is what could bring back a retired key. *)
LEMMA NextRetired == MemoryTyped /\ Retired /\ [Next]_vars => Retired'
<1> SUFFICES ASSUME MemoryTyped, Retired, [Next]_vars
             PROVE  Retired'
  OBVIOUS
<1> USE DEF MemoryTyped, Retired, Readable, NoKey, Torn, To
<1>1. ASSUME NEW f \in Factories, Start(f) \/ Register(f) \/ Die(f)
      PROVE  Retired'
  BY <1>1 DEF Start, Register, Die, fileVars, pastVars
<1>2. ASSUME NEW f \in Factories, Backup(f)
      PROVE  Retired'
  BY <1>2 DEF Backup, Beside, Alive
<1>3. ASSUME NEW f \in Factories, Create(f)
      PROVE  Retired'
  BY <1>3 DEF Create, fileVars
<1>4. ASSUME NEW f \in Factories, Save(f)
      PROVE  Retired'
  BY <1>4 DEF Save
<1>5. ASSUME NEW f \in Factories, Reload(f) \/ GroupStart(f)
      PROVE  Retired'
  BY <1>5 DEF Reload, GroupStart, fileVars, factoryVars, pastVars
<1>6. ASSUME NEW f \in Factories, NEW removed \in BOOLEAN, NEW advertise \in BOOLEAN,
             FactoryIteration(f, removed, advertise)
      PROVE  Retired'
  BY <1>6 DEF FactoryIteration, Retire
<1>7. CASE Tick \/ Reconfig
  BY <1>7 DEF Tick, Reconfig, fileVars, factoryVars, pastVars
<1>8. CASE GroupDies \/ Orphaned \/ GroupIteration
  BY <1>8 DEF GroupDies, Orphaned, GroupIteration, fileVars, factoryVars, clientVars, pastVars
<1>9. ASSUME NEW c \in Frontends, query_globals(c) \/ AdvertiseRequest(c)
      PROVE  Retired'
  BY <1>9 DEF query_globals, AdvertiseRequest, fileVars, factoryVars, clientVars, pastVars
<1>10. CASE UNCHANGED vars
  BY <1>10 DEF vars, fileVars, factoryVars, clientVars, pastVars
<1> QED
  BY <1>1, <1>2, <1>3, <1>4, <1>5, <1>6, <1>7, <1>8, <1>9, <1>10 DEF Next, Main

(* The PID file lets one factory up. *)
LEMMA NextOneUp == MemoryTyped /\ OneUp /\ [Next]_vars => OneUp'
<1> SUFFICES ASSUME MemoryTyped, OneUp, [Next]_vars
             PROVE  OneUp'
  OBVIOUS
<1> USE DEF MemoryTyped, OneUp, Up, To
<1>1. ASSUME NEW f \in Factories, Main(f) \/ Die(f) \/ GroupStart(f)
      PROVE  OneUp'
  BY <1>1 DEF Main, Start, Backup, Create, Save, Reload, Register, Die, GroupStart, Up,
              factoryVars
<1>2. ASSUME NEW f \in Factories, NEW removed \in BOOLEAN, NEW advertise \in BOOLEAN,
             FactoryIteration(f, removed, advertise)
      PROVE  OneUp'
  BY <1>2 DEF FactoryIteration
<1>3. CASE Tick \/ Reconfig
  BY <1>3 DEF Tick, Reconfig, factoryVars
<1>4. CASE GroupDies \/ Orphaned \/ GroupIteration
  BY <1>4 DEF GroupDies, Orphaned, GroupIteration, factoryVars
<1>5. ASSUME NEW c \in Frontends, query_globals(c) \/ AdvertiseRequest(c)
      PROVE  OneUp'
  BY <1>5 DEF query_globals, AdvertiseRequest, factoryVars
<1>6. CASE UNCHANGED vars
  BY <1>6 DEF vars, factoryVars
<1> QED
  BY <1>1, <1>2, <1>3, <1>4, <1>5, <1>6 DEF Next, Main

(* A factory that ended does not come up again. *)
LEMMA NextParented == MemoryTyped /\ GroupTyped /\ Parented /\ [Next]_vars => Parented'
<1> SUFFICES ASSUME MemoryTyped, GroupTyped, Parented, [Next]_vars
             PROVE  Parented'
  OBVIOUS
<1> USE DEF MemoryTyped, Parented, Up, To
<1>1. ASSUME NEW f \in Factories, Main(f) \/ Die(f)
      PROVE  Parented'
  BY <1>1 DEF Main, Start, Backup, Create, Save, Reload, Register, Die, Alive
<1>2. ASSUME NEW f \in Factories, GroupStart(f)
      PROVE  Parented'
  BY <1>2 DEF GroupStart, factoryVars
<1>3. ASSUME NEW f \in Factories, NEW removed \in BOOLEAN, NEW advertise \in BOOLEAN,
             FactoryIteration(f, removed, advertise)
      PROVE  Parented'
  BY <1>3 DEF FactoryIteration
<1>4. CASE Tick \/ Reconfig
  BY <1>4 DEF Tick, Reconfig, factoryVars
<1>5. CASE GroupDies \/ Orphaned \/ GroupIteration
  BY <1>5 DEF GroupTyped, GroupDies, Orphaned, GroupIteration, factoryVars
<1>6. ASSUME NEW c \in Frontends, query_globals(c) \/ AdvertiseRequest(c)
      PROVE  Parented'
  BY <1>6 DEF query_globals, AdvertiseRequest, factoryVars
<1>7. CASE UNCHANGED vars
  BY <1>7 DEF vars, factoryVars
<1> QED
  BY <1>1, <1>2, <1>3, <1>4, <1>5, <1>6, <1>7 DEF Next, Main

(* Times are times of the past. *)
LEMMA NextPast == FilesTyped /\ AdsTyped /\ Past /\ [Next]_vars => Past'
<1> SUFFICES ASSUME FilesTyped, AdsTyped, Past, [Next]_vars
             PROVE  Past'
  OBVIOUS
<1> USE DEF FilesTyped, AdsTyped, Past
<1>1. ASSUME NEW f \in Factories, Main(f) \/ Die(f) \/ GroupStart(f)
      PROVE  Past'
  BY <1>1 DEF Main, Start, Backup, Create, Save, Reload, Register, Die, GroupStart, fileVars,
              pastVars
<1>2. ASSUME NEW f \in Factories, NEW removed \in BOOLEAN, NEW advertise \in BOOLEAN,
             FactoryIteration(f, removed, advertise)
      PROVE  Past'
  BY <1>2 DEF FactoryIteration
<1>3. CASE Tick \/ Reconfig
  BY <1>3 DEF Tick, Reconfig, fileVars, pastVars
<1>4. CASE GroupDies \/ Orphaned \/ GroupIteration
  BY <1>4 DEF GroupDies, Orphaned, GroupIteration, fileVars, pastVars
<1>5. ASSUME NEW c \in Frontends, query_globals(c) \/ AdvertiseRequest(c)
      PROVE  Past'
  BY <1>5 DEF query_globals, AdvertiseRequest, fileVars, pastVars
<1>6. CASE UNCHANGED vars
  BY <1>6 DEF vars, fileVars, pastVars
<1> QED
  BY <1>1, <1>2, <1>3, <1>4, <1>5, <1>6 DEF Next, Main

(* A factory that is up advertises its own key only. *)
LEMMA NextOldSinceUp ==
    FilesTyped /\ MemoryTyped /\ AdsTyped /\ Past /\ OneUp /\ OldSinceUp /\ [Next]_vars
        => OldSinceUp'
<1> SUFFICES ASSUME FilesTyped, MemoryTyped, AdsTyped, Past, OneUp, OldSinceUp, [Next]_vars
             PROVE  OldSinceUp'
  OBVIOUS
<1> USE GraceAssumption DEF MemoryTyped, AdsTyped, Past, OneUp, OldSinceUp, LastBy, Up, To, Times
<1>1. ASSUME NEW f \in Factories, Start(f) \/ Backup(f) \/ Create(f) \/ Save(f) \/ Reload(f)
      PROVE  OldSinceUp'
  BY <1>1 DEF Start, Backup, Create, Save, Reload, pastVars
<1>2. ASSUME NEW f \in Factories, Register(f)
      PROVE  OldSinceUp'
  BY <1>2 DEF FilesTyped, Register, pastVars
<1>3. ASSUME NEW f \in Factories, Die(f) \/ GroupStart(f)
      PROVE  OldSinceUp'
  BY <1>3 DEF Die, GroupStart, factoryVars, pastVars
<1>4. ASSUME NEW f \in Factories, NEW removed \in BOOLEAN, NEW advertise \in BOOLEAN,
             FactoryIteration(f, removed, advertise)
      PROVE  OldSinceUp'
  BY <1>4 DEF FactoryIteration
<1>5. CASE Tick \/ Reconfig
  BY <1>5 DEF Tick, Reconfig, factoryVars, pastVars
<1>6. CASE GroupDies \/ Orphaned \/ GroupIteration
  BY <1>6 DEF GroupDies, Orphaned, GroupIteration, factoryVars, pastVars
<1>7. ASSUME NEW c \in Frontends, query_globals(c) \/ AdvertiseRequest(c)
      PROVE  OldSinceUp'
  BY <1>7 DEF query_globals, AdvertiseRequest, factoryVars, pastVars
<1>8. CASE UNCHANGED vars
  BY <1>8 DEF vars, factoryVars, pastVars
<1> QED
  BY <1>1, <1>2, <1>3, <1>4, <1>5, <1>6, <1>7, <1>8 DEF Next, Main

(* The history is not forgotten. *)
LEMMA NextClean == Clean' /\ [Next]_vars => Clean
<1> SUFFICES ASSUME Clean', [Next]_vars
             PROVE  Clean
  OBVIOUS
<1> USE DEF Clean
<1>1. ASSUME NEW f \in Factories, Main(f) \/ Die(f) \/ GroupStart(f)
      PROVE  Clean
  <2>1. CASE Backup(f) \/ Create(f) \/ Save(f)
    <3>1. CASE Backup(f)
      <4>1. ~ underneath
        BY <3>1 DEF Backup
      <4>2. backup_failed' = backup_failed \/ backup_failed' = TRUE
        BY <3>1 DEF Backup
      <4> QED  BY <4>1, <4>2
    <3>2. CASE Create(f)
      BY <3>2 DEF Create
    <3>3. CASE Save(f)
      BY <3>3 DEF Save
    <3> QED  BY <2>1, <3>1, <3>2, <3>3
  <2>2. CASE Start(f) \/ Reload(f) \/ Register(f) \/ Die(f) \/ GroupStart(f)
    BY <2>2 DEF Start, Reload, Register, Die, GroupStart, pastVars
  <2> QED  BY <1>1, <2>1, <2>2 DEF Main
<1>2. ASSUME NEW f \in Factories, NEW removed \in BOOLEAN, NEW advertise \in BOOLEAN,
             FactoryIteration(f, removed, advertise)
      PROVE  Clean
  BY <1>2 DEF FactoryIteration
<1>3. CASE Tick \/ Reconfig
  BY <1>3 DEF Tick, Reconfig, pastVars
<1>4. CASE GroupDies \/ Orphaned \/ GroupIteration
  BY <1>4 DEF GroupDies, Orphaned, GroupIteration, pastVars
<1>5. ASSUME NEW c \in Frontends, query_globals(c) \/ AdvertiseRequest(c)
      PROVE  Clean
  BY <1>5 DEF query_globals, AdvertiseRequest, pastVars
<1>6. CASE UNCHANGED vars
  BY <1>6 DEF vars, pastVars
<1> QED
  BY <1>1, <1>2, <1>3, <1>4, <1>5, <1>6 DEF Next, Main

-----------------------------------------------------------------------------
(* As long as the history is clean, only a lone factory changes the files. *)
IsAlone(f) == \A g \in Factories \ {f} : pc[g] \in {"new", "dead"}

LEMMA LoneChange ==
    ASSUME MemoryTyped, Clean', NEW f \in Factories
    PROVE  /\ Backup(f) => IsAlone(f) /\ bak' = rsa
           /\ Create(f) => IsAlone(f) \/ (pc' = [pc EXCEPT ![f] = "dead"] /\ UNCHANGED fileVars)
           /\ Save(f) => IsAlone(f)
<1>1. ~ Beside(f) => IsAlone(f)
  BY DEF MemoryTyped, Beside, Alive, IsAlone
<1>2. Backup(f) => ~ Beside(f)
  BY DEF Backup, Clean
<1>3. Backup(f) => bak' = rsa
  BY DEF Backup, Clean
<1>4. Create(f) => ~ Beside(f) \/ (pc' = [pc EXCEPT ![f] = "dead"] /\ UNCHANGED fileVars)
  BY DEF Create, Clean, To
<1>5. Save(f) => ~ Beside(f)
  BY DEF Save, Clean
<1> QED  BY <1>1, <1>2, <1>3, <1>4, <1>5

(* Nobody else renews the key, or has come up, while a factory renews it. *)
LEMMA NextAlone == MemoryTyped /\ Alone /\ Renewing /\ Clean' /\ [Next]_vars => Alone'
<1> SUFFICES ASSUME MemoryTyped, Alone, Renewing, Clean', [Next]_vars
             PROVE  Alone'
  OBVIOUS
<1> USE DEF MemoryTyped, Alone, To
<1>1. ASSUME NEW f \in Factories, Start(f)
      PROVE  Alone'
  BY <1>1 DEF Start, Renewing
<1>2. ASSUME NEW f \in Factories, Backup(f) \/ Create(f) \/ Save(f)
      PROVE  Alone'
  <2>1. CASE Backup(f)
    BY <2>1, LoneChange DEF IsAlone, Backup
  <2>2. CASE Create(f)
    <3>1. CASE IsAlone(f)
      BY <2>2, <3>1 DEF IsAlone, Create
    <3>2. CASE pc' = [pc EXCEPT ![f] = "dead"]
      BY <3>2
    <3> QED  BY <2>2, <3>1, <3>2, LoneChange
  <2>3. CASE Save(f)
    BY <2>3, LoneChange DEF IsAlone, Save
  <2> QED  BY <1>2, <2>1, <2>2, <2>3
<1>3. ASSUME NEW f \in Factories, Reload(f)
      PROVE  Alone'
  BY <1>3 DEF Reload, Renewing, Readable, NoKey, Torn
<1>4. ASSUME NEW f \in Factories, Register(f) \/ Die(f)
      PROVE  Alone'
  BY <1>4 DEF Register, Die
<1>5. ASSUME NEW f \in Factories, GroupStart(f)
      PROVE  Alone'
  BY <1>5 DEF GroupStart, factoryVars
<1>6. ASSUME NEW f \in Factories, NEW removed \in BOOLEAN, NEW advertise \in BOOLEAN,
             FactoryIteration(f, removed, advertise)
      PROVE  Alone'
  BY <1>6 DEF FactoryIteration
<1>7. CASE Reconfig
  BY <1>7 DEF Reconfig, factoryVars
<1>8. CASE Tick
  BY <1>8 DEF Tick, factoryVars
<1>9. CASE GroupDies \/ Orphaned \/ GroupIteration
  BY <1>9 DEF GroupDies, Orphaned, GroupIteration, factoryVars
<1>10. ASSUME NEW c \in Frontends, query_globals(c) \/ AdvertiseRequest(c)
      PROVE  Alone'
  BY <1>10 DEF query_globals, AdvertiseRequest, factoryVars
<1>11. CASE UNCHANGED vars
  BY <1>11 DEF vars, factoryVars
<1> QED
  BY <1>1, <1>2, <1>3, <1>4, <1>5, <1>6, <1>7, <1>8, <1>9, <1>10, <1>11 DEF Next, Main

(* What a factory knows of the files stays true. *)
LEMMA NextRenewing ==
    FilesTyped /\ MemoryTyped /\ Alone /\ Renewing /\ Clean' /\ [Next]_vars
        => Renewing'
<1> SUFFICES ASSUME FilesTyped, MemoryTyped, Alone, Renewing, Clean', [Next]_vars
             PROVE  Renewing'
  OBVIOUS
<1> USE DEF FilesTyped, MemoryTyped, Renewing, is_file_old, To
<1>1. ASSUME NEW f \in Factories, Start(f)
      PROVE  Renewing'
  BY <1>1 DEF Start, fileVars
<1>2. ASSUME NEW f \in Factories, Backup(f)
      PROVE  Renewing'
  BY <1>2, LoneChange DEF IsAlone, Backup
<1>3. ASSUME NEW f \in Factories, Create(f)
      PROVE  Renewing'
  <2>1. CASE Readable(rsa) = NoKey
    BY <1>3, <2>1 DEF Create, fileVars
  <2>2. CASE Readable(rsa) # NoKey
    <3>1. /\ rsa' = Torn /\ PubKeyObj' = [PubKeyObj EXCEPT ![f] = keys + 1] /\ keys < MaxKeys
          /\ pc' = [pc EXCEPT ![f] = "save"]
      BY <1>3, <2>2 DEF Create
    <3>2. keys + 1 \in Keys
      BY <3>1, BoundsAssumption DEF Keys
    <3>3. IsAlone(f)
      BY <1>3, <3>1, LoneChange
    <3> QED  BY <3>1, <3>2, <3>3 DEF IsAlone
  <2> QED  BY <2>1, <2>2
<1>4. ASSUME NEW f \in Factories, Save(f)
      PROVE  Renewing'
  BY <1>4, LoneChange DEF IsAlone, Save
<1>5. ASSUME NEW f \in Factories, Reload(f)
      PROVE  Renewing'
  BY <1>5 DEF Reload, Readable, KeyFiles, NoKey, Torn, fileVars
<1>6. ASSUME NEW f \in Factories, Register(f) \/ Die(f)
      PROVE  Renewing'
  BY <1>6 DEF Register, Die, fileVars
<1>7. ASSUME NEW f \in Factories, GroupStart(f)
      PROVE  Renewing'
  BY <1>7 DEF GroupStart, fileVars, factoryVars
<1>8. ASSUME NEW f \in Factories, NEW removed \in BOOLEAN, NEW advertise \in BOOLEAN,
             FactoryIteration(f, removed, advertise)
      PROVE  Renewing'
  BY <1>8 DEF FactoryIteration, Retire, Alone, Up
<1>9. CASE Reconfig
  BY <1>9 DEF Reconfig, factoryVars, Alive
<1>10. CASE Tick
  <2>1. is_file_old => is_file_old'
    BY <1>10, GraceAssumption DEF Tick, fileVars
  <2> HIDE DEF is_file_old
  <2> QED  BY <1>10, <2>1 DEF Tick, fileVars, factoryVars
<1>11. CASE GroupDies \/ Orphaned \/ GroupIteration
  BY <1>11 DEF GroupDies, Orphaned, GroupIteration, fileVars, factoryVars
<1>12. ASSUME NEW c \in Frontends, query_globals(c) \/ AdvertiseRequest(c)
      PROVE  Renewing'
  BY <1>12 DEF query_globals, AdvertiseRequest, fileVars, factoryVars
<1>13. CASE UNCHANGED vars
  BY <1>13 DEF vars, fileVars, factoryVars
<1> QED
  BY <1>1, <1>2, <1>3, <1>4, <1>5, <1>6, <1>7, <1>8, <1>9, <1>10, <1>11, <1>12, <1>13 DEF Next,
                                                                                          Main

(* A key that may be used stays in the files. *)
LEMMA NextFilesHold ==
    FilesTyped /\ AdsTyped /\ Past /\ OldSinceUp /\ FilesHold /\ MemoryTyped /\ Alone /\
    Renewing /\ Clean' /\ [Next]_vars
        => FilesHold'
<1> SUFFICES ASSUME FilesTyped, AdsTyped, Past, OldSinceUp, FilesHold, MemoryTyped, Alone,
                    Renewing, Clean', [Next]_vars
             PROVE  FilesHold'
  OBVIOUS
<1> USE GraceAssumption DEF FilesTyped, MemoryTyped, AdsTyped, Past, FilesHold, Fresh, LastBy,
                            KeyFiles, Keys, NoKey, Torn, To
<1>1. ASSUME NEW f \in Factories, Start(f) \/ Reload(f) \/ Register(f)
      PROVE  FilesHold'
  BY <1>1 DEF Start, Reload, Register, fileVars, pastVars
<1>2. ASSUME NEW f \in Factories, Die(f) \/ GroupStart(f)
      PROVE  FilesHold'
  BY <1>2 DEF Die, GroupStart, fileVars, pastVars
<1>3. ASSUME NEW f \in Factories, Backup(f)
      PROVE  FilesHold'
  BY <1>3, LoneChange DEF Backup, Renewing, is_file_old
<1>4. ASSUME NEW f \in Factories, Create(f)
      PROVE  FilesHold'
  BY <1>4 DEF Create, Renewing, fileVars
<1>5. ASSUME NEW f \in Factories, Save(f)
      PROVE  FilesHold'
  BY <1>5 DEF Save, Renewing
<1>6. ASSUME NEW f \in Factories, NEW removed \in BOOLEAN, NEW advertise \in BOOLEAN,
             FactoryIteration(f, removed, advertise)
      PROVE  FilesHold'
  <2>1. Up(f) /\ rsa = PubKeyObj[f] /\ UNCHANGED <<now, rsa, rsa_time>>
    BY <1>6 DEF FactoryIteration, Renewing, Up
  <2>2. \A k \in Keys : advertised'[k] = advertised[k] \/ k = rsa
    BY <1>6, <2>1 DEF FactoryIteration
  <2>3. bak' = bak \/ now > oldkey_eoltime[f]
    BY <1>6 DEF FactoryIteration, Retire, EndOfGrace
  <2>4. ASSUME NEW k \in Keys, k # rsa, now > oldkey_eoltime[f]
        PROVE  ~ Fresh(k)
    BY <2>1, <2>4, BoundsAssumption DEF OldSinceUp, Times
  <2> QED  BY <2>1, <2>2, <2>3, <2>4
<1>7. CASE Reconfig
  BY <1>7 DEF Reconfig, pastVars
<1>8. CASE Tick
  BY <1>8 DEF Tick, fileVars, pastVars
<1>9. CASE GroupDies \/ Orphaned \/ GroupIteration
  BY <1>9 DEF GroupDies, Orphaned, GroupIteration, fileVars, pastVars
<1>10. ASSUME NEW c \in Frontends, query_globals(c) \/ AdvertiseRequest(c)
      PROVE  FilesHold'
  BY <1>10 DEF query_globals, AdvertiseRequest, fileVars, pastVars
<1>11. CASE UNCHANGED vars
  BY <1>11 DEF vars, fileVars, pastVars
<1> QED
  BY <1>1, <1>2, <1>3, <1>4, <1>5, <1>6, <1>7, <1>8, <1>9, <1>10, <1>11 DEF Next, Main

(* ... and in the memory of the group. *)
LEMMA NextGroupHolds ==
    TypeOK /\ FilesTyped /\ AdsTyped /\ GroupTyped /\ Past /\ OneUp /\ Parented /\
    FilesHold /\ GroupHolds /\ MemoryTyped /\ Alone /\ Renewing /\ Clean' /\ [Next]_vars
        => GroupHolds'
<1> SUFFICES ASSUME TypeOK, FilesTyped, AdsTyped, GroupTyped, Past, OneUp, Parented,
                    FilesHold, GroupHolds, MemoryTyped, Alone, Renewing, Clean', [Next]_vars
             PROVE  GroupHolds'
  OBVIOUS
<1> USE GraceAssumption DEF FilesTyped, MemoryTyped, AdsTyped, GroupTyped, Past, Parented,
                            GroupHolds, Fresh, LastBy, Up, Keys, Times, NoKey, Torn, To
<1>1. ASSUME NEW f \in Factories, Start(f) \/ Reload(f) \/ Register(f)
      PROVE  GroupHolds'
  BY <1>1 DEF Start, Reload, Register, fileVars, pastVars
<1>2. ASSUME NEW f \in Factories, Die(f)
      PROVE  GroupHolds'
  BY <1>2 DEF Die, pastVars
<1>3. ASSUME NEW f \in Factories, GroupStart(f)
      PROVE  GroupHolds'
  BY <1>3 DEF GroupStart, Renewing, FilesHold, Readable, fileVars, factoryVars, pastVars
<1>4. ASSUME NEW f \in Factories, Backup(f)
      PROVE  GroupHolds'
  BY <1>4 DEF Backup
<1>5. ASSUME NEW f \in Factories, Create(f)
      PROVE  GroupHolds'
  BY <1>5 DEF Create
<1>6. ASSUME NEW f \in Factories, Save(f)
      PROVE  GroupHolds'
  BY <1>6 DEF Save
<1>7. ASSUME NEW f \in Factories, NEW removed \in BOOLEAN, NEW advertise \in BOOLEAN,
             FactoryIteration(f, removed, advertise)
      PROVE  GroupHolds'
  BY <1>7 DEF FactoryIteration, OneUp
<1>8. CASE Reconfig
  BY <1>8 DEF Reconfig, factoryVars, pastVars
<1>9. CASE GroupIteration
  BY <1>9 DEF GroupIteration, KeptOldKey, factoryVars, pastVars
<1>10. CASE Tick
  BY <1>10 DEF Tick, factoryVars, pastVars
<1>11. CASE GroupDies \/ Orphaned
  BY <1>11 DEF GroupDies, Orphaned
<1>12. ASSUME NEW c \in Frontends, query_globals(c) \/ AdvertiseRequest(c)
      PROVE  GroupHolds'
  BY <1>12 DEF query_globals, AdvertiseRequest, factoryVars, pastVars
<1>13. CASE UNCHANGED vars
  BY <1>13 DEF vars, factoryVars, pastVars
<1> QED
  BY <1>1, <1>2, <1>3, <1>4, <1>5, <1>6, <1>7, <1>8, <1>9, <1>10, <1>11, <1>12, <1>13 DEF Next,
                                                                                          Main

-----------------------------------------------------------------------------
LEMMA InitIInv == Init => IInv
<1> SUFFICES ASSUME Init PROVE IInv
  OBVIOUS
<1>1. Retired /\ Past /\ OneUp /\ Parented /\ OldSinceUp
  BY GraceAssumption
     DEF Init, Retired, Readable, NoKey, Torn, Past, OneUp, Parented, OldSinceUp, Up, Keys
<1>2. Alone /\ Renewing /\ FilesHold /\ GroupHolds
  BY DEF Init, Alone, Renewing, FilesHold, GroupHolds, Fresh, LastBy, Keys
<1> QED  BY <1>1, <1>2, InitTyped DEF IInv

LEMMA NextIInv == IInv /\ [Next]_vars => IInv'
<1> SUFFICES ASSUME IInv, [Next]_vars
             PROVE  IInv'
  OBVIOUS
<1>1. TypeOK /\ FilesTyped /\ MemoryTyped /\ AdsTyped /\ GroupTyped /\ FlagsTyped
  BY TypeParts DEF IInv
<1>2. TypeOK' /\ Retired' /\ Past' /\ OneUp' /\ Parented' /\ OldSinceUp'
  BY <1>1, NextTyped, NextRetired, NextPast, NextOneUp, NextParented, NextOldSinceUp DEF IInv
<1>3. ASSUME Clean'
      PROVE  Alone' /\ Renewing' /\ FilesHold' /\ GroupHolds'
  <2>1. Alone /\ Renewing /\ FilesHold /\ GroupHolds
    BY <1>3, NextClean DEF IInv
  <2> QED
    BY <1>1, <1>3, <2>1, NextAlone, NextRenewing, NextFilesHold, NextGroupHolds DEF IInv
<1> QED  BY <1>2, <1>3 DEF IInv

LEMMA Invariance == Spec => []IInv
BY InitIInv, NextIInv, PTL DEF Spec

(* Every variable has its type: a process that is up holds a key that was    *)
(* made, and neither the files nor the classads ever hold anything else than  *)
(* a key, nothing or, the files, a torn one.                                 *)
THEOREM TypeCorrect == Spec => []TypeOK
<1>1. IInv => TypeOK
  BY DEF IInv
<1> QED  BY <1>1, Invariance, PTL

(* No group process is started with an old key that its factory has given up, *)
(* unless the removal of the file failed or another factory changed it.       *)
THEOREM OldKeyStaysRetired == Spec => OldKeyRetired
<1>1. IInv /\ [Next]_vars =>
        [\A f \in Factories :
           (GroupStart(f) /\ OldPubKeyObj[f] = NoKey /\ ~ underneath /\ ~ removal_failed)
               => group'.old = NoKey]_vars
  BY DEF IInv, Retired, GroupStart, Up
<1> QED  BY <1>1, Invariance, PTL DEF Spec, OldKeyRetired

(* The group process holds every key that is, or lately was, advertised,     *)
(* whatever factories and groups crashed and started since.                  *)
THEOREM KeysAreKept == Spec => KeyKept
<1>1. IInv /\ [Next]_vars =>
        [(GroupIteration /\ ~ underneath /\ ~ backup_failed)
            => \A c \in Frontends : (request[c] # NoKey /\ Current(request[c]))
                  => request[c] \in {group'.new, group'.old}]_vars
  <2> SUFFICES ASSUME IInv, [Next]_vars, GroupIteration, Clean,
                      NEW c \in Frontends, request[c] # NoKey, Current(request[c])
               PROVE  request[c] \in {group'.new, group'.old}
    BY DEF Clean
  <2>1. GroupHolds' /\ GroupHolds
    <3>1. Clean'
      BY DEF Clean, GroupIteration, pastVars
    <3> QED  BY <3>1, NextIInv DEF IInv
  <2>2. request[c] \in Keys
    BY DEF IInv, TypeOK
  <2>3. /\ (group # NoGroup /\ Up(group.of))'
        /\ group'.new = group.new /\ group'.of = group.of
    <3>1. group \in [of : Factories \cup {Nobody}, new : KeyObjs, old : KeyObjs, eol : Times]
      BY DEF IInv, TypeOK, KeyObjs
    <3>2. group # NoGroup /\ group.of \in Factories /\ Up(group.of)
          /\ group' = [group EXCEPT !.old = KeptOldKey] /\ pc' = pc
      BY DEF IInv, Parented, GroupIteration, factoryVars
    <3>3. group'.new = group.new /\ group'.of = group.of
      BY <3>1, <3>2
    <3> QED  BY <3>2, <3>3 DEF NoGroup, Nobody, Factories, Up
  <2>4. now' = now /\ advertised' = advertised
    BY DEF GroupIteration, pastVars
  <2>5. CASE request[c] = PubKeyObj[group.of]
    BY <2>1, <2>3, <2>5 DEF GroupHolds, GroupIteration
  <2>6. CASE Fresh(request[c])
    BY <2>1, <2>2, <2>3, <2>4, <2>6 DEF GroupHolds, Fresh
  <2> QED  BY <2>5, <2>6 DEF Current, Fresh
<1> QED  BY <1>1, Invariance, PTL DEF Spec, KeyKept
=============================================================================
