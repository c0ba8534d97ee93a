------------------------ MODULE WalletStartupProofs -------------------------
(***************************************************************************)
(* Startup, migration and preservation of a wallet directory never lose a  *)
(* seed or a database and never use a database with a second seed, for any *)
(* number of processes, databases, recovery directories and crashes.       *)
(***************************************************************************)
EXTENDS WalletStartup, TLAPS, FiniteSetTheorems

\* The writer lock: one process at a time works on the directory.
OneWriter ==
    \A p, q \in Procs : call[p].pc # "idle" /\ call[q].pc # "idle" => p = q

\* What a call knows of the two stores at each of its steps.
Migrated(c) ==
    IF c.profile = "secure" THEN secure = c.seed /\ file = (IF c.remove THEN c.seed ELSE None)
                            ELSE file = c.seed /\ ~c.remove
SeedOf(c) ==
    /\ c.pc \in {"store", "write", "verify", "database", "finalize"} => c.seed \in Seeds
    /\ c.pc = "store" =>
          /\ IF c.profile = "secure" THEN secure = None ELSE file = None /\ ~c.remove
          /\ c.profile = "secure" => file = IF c.remove THEN c.seed ELSE None
          /\ ~c.remove => ~DatabaseExists
    /\ c.pc = "write" => c.profile = "file" /\ ~c.remove /\ file = Torn
    /\ c.pc = "verify" =>
          IF c.profile = "secure" THEN file = IF c.remove THEN c.seed ELSE None
                                  ELSE file = c.seed /\ ~c.remove
    /\ c.pc \in {"database", "finalize"} => Migrated(c)
SeedsOK == \A p \in Procs : SeedOf(call[p])

\* A torn seed file stops every call before it touches the database.
TornOK ==
    file = Torn => ~DatabaseExists /\ \A p \in Procs : call[p].pc \in {"idle", "load", "write"}

Working(c) == c.pc \in {"move", "rollback"}

\* The database in the wallet directory, and the one that a preservation may
\* bring back to it, belong to the seed that the next opening resolves.
Belongs(n) == \A s \in used[n] : (file \in Seeds => s = file) /\ (file = None => s = secure)
HomeOK ==
    /\ disk[Home]["db"] # 0 => Belongs(disk[Home]["db"])
    /\ \A p \in Procs : Working(call[p]) /\ disk[call[p].dir]["db"] # 0 =>
          Belongs(disk[call[p].dir]["db"])
OneSeed == \A n \in 1..MaxDatabases : \A s, t \in used[n] : s = t

DiskOK == \A d \in Dirs, f \in Files : disk[d][f] <= databases

\* The place of every file during a move: no rename finds its target taken,
\* and what a rollback has left behind is reported.
MoveOf(c) ==
    /\ c.pc = "move" =>
          /\ c.dir # Home /\ c.at \in 1..5
          /\ \A j \in 1..4 :
                /\ j < c.at => disk[Home][DatabaseFiles[j]] = 0
                /\ j >= c.at => disk[c.dir][DatabaseFiles[j]] = 0
    /\ c.pc = "rollback" =>
          /\ c.dir # Home /\ c.at \in 0..4
          /\ \A j \in 1..4 :
                /\ j <= c.at => disk[Home][DatabaseFiles[j]] = 0
                /\ j > c.at => disk[c.dir][DatabaseFiles[j]] \in split \cup {0}
MovesOK == \A p \in Procs : MoveOf(call[p])

\* The files of a database are in one directory, or in the two of a move.
Together(d, e) ==
    d = e \/ \E p \in Procs : Working(call[p]) /\ {d, e} \subseteq {Home, call[p].dir}
FamilyOK ==
    \A n \in Databases \ split : \A d, e \in Dirs, f, g \in Files :
        disk[d][f] = n /\ disk[e][g] = n => Together(d, e)

StartupInv ==
    /\ StartupTypeOK /\ OneWriter /\ SeedsOK /\ TornOK /\ HomeOK /\ OneSeed
    /\ DiskOK /\ MovesOK /\ FamilyOK /\ SeedKept /\ DatabasesKept

-----------------------------------------------------------------------------
(* Records and files.                                                       *)

CallType ==
    [pc : {"idle", "load", "store", "write", "verify", "database", "finalize", "open",
           "move", "rollback"},
     profile : Profiles, seed : Seeds \cup {None}, remove : BOOLEAN, dir : Dirs, at : 0..5]

LEMMA FileFacts ==
    /\ Len(DatabaseFiles) = 4
    /\ DatabaseFiles[1] = "db" /\ DatabaseFiles[2] = "wal"
    /\ DatabaseFiles[3] = "shm" /\ DatabaseFiles[4] = "journal"
    /\ Files = {"db", "wal", "shm", "journal"}
    /\ \A j \in 1..4 : DatabaseFiles[j] \in Files
    /\ \A f \in Files : \E j \in 1..4 : DatabaseFiles[j] = f
    /\ \A i, j \in 1..4 : DatabaseFiles[i] = DatabaseFiles[j] => i = j
<1>1. /\ Len(DatabaseFiles) = 4
      /\ DatabaseFiles[1] = "db" /\ DatabaseFiles[2] = "wal"
      /\ DatabaseFiles[3] = "shm" /\ DatabaseFiles[4] = "journal"
  BY DEF DatabaseFiles
<1>2. \A j \in 1..4 : j = 1 \/ j = 2 \/ j = 3 \/ j = 4
  OBVIOUS
<1>3. Files = {DatabaseFiles[i] : i \in 1..4}
  BY <1>1 DEF Files
<1>4. Files = {"db", "wal", "shm", "journal"}
  BY <1>1, <1>2, <1>3
<1>5. \A j \in 1..4 : DatabaseFiles[j] \in Files
  BY <1>3
<1>6. \A f \in Files : \E j \in 1..4 : DatabaseFiles[j] = f
  BY <1>3
<1>7. \A i, j \in 1..4 : DatabaseFiles[i] = DatabaseFiles[j] => i = j
  BY <1>1, <1>2
<1> QED BY <1>1, <1>4, <1>5, <1>6, <1>7

LEMMA Types ==
    ASSUME StartupInv
    PROVE  /\ secure \in Seeds \cup {None} /\ file \in Seeds \cup {None, Torn}
           /\ disk \in [Dirs -> [Files -> 0..MaxDatabases]]
           /\ databases \in 0..MaxDatabases /\ databases \in Nat
           /\ used \in [1..MaxDatabases -> SUBSET Seeds]
           /\ \A n \in 1..MaxDatabases : used[n] # {} => n \in Databases
           /\ split \subseteq Databases /\ crashes \in 0..MaxCrashes
           /\ call \in [Procs -> CallType]
           /\ Home \in Dirs /\ "db" \in Files /\ Sidecars \subseteq Files
           /\ Databases \subseteq 1..MaxDatabases /\ MaxDatabases \in Nat
<1>1. Len(DatabaseFiles) + 1 = 5 /\ "db" \in Files /\ Sidecars \subseteq Files
  BY FileFacts DEF Sidecars
<1>2. call \in [Procs -> CallType]
  BY <1>1 DEF StartupInv, StartupTypeOK, CallType
<1>3. Home \in Dirs
  BY StartupAssumption DEF Home, Dirs
<1>4. databases \in 0..MaxDatabases /\ MaxDatabases \in Nat
  BY StartupAssumption DEF StartupInv, StartupTypeOK
<1>5. databases \in Nat /\ Databases \subseteq 1..MaxDatabases
  BY <1>4 DEF Databases
<1> QED BY <1>1, <1>2, <1>3, <1>4, <1>5 DEF StartupInv, StartupTypeOK

LEMMA CallFields ==
    ASSUME NEW pc, NEW profile \in Profiles, NEW seed \in Seeds \cup {None},
           NEW remove \in BOOLEAN, NEW dir \in Dirs, NEW at \in 0..5,
           pc \in {"idle", "load", "store", "write", "verify", "database", "finalize", "open",
                   "move", "rollback"}
    PROVE  /\ Call(pc, profile, seed, remove, dir, at) \in CallType
           /\ Call(pc, profile, seed, remove, dir, at).pc = pc
           /\ Call(pc, profile, seed, remove, dir, at).profile = profile
           /\ Call(pc, profile, seed, remove, dir, at).seed = seed
           /\ Call(pc, profile, seed, remove, dir, at).dir = dir
           /\ Call(pc, profile, seed, remove, dir, at).at = at
BY DEF Call, CallType

LEMMA CallRemove ==
    ASSUME NEW pc, NEW profile, NEW seed, NEW remove \in BOOLEAN, NEW dir, NEW at
    PROVE  Call(pc, profile, seed, remove, dir, at).remove = remove
BY Zenon DEF Call

LEMMA IdleType ==
    /\ Idle \in CallType /\ Idle.pc = "idle" /\ ~Working(Idle) /\ SeedOf(Idle) /\ MoveOf(Idle)
    /\ SeedOf(Idle)' /\ MoveOf(Idle)'
<1>1. Home \in Dirs
  BY StartupAssumption DEF Home, Dirs
<1>2. Idle \in CallType /\ Idle.pc = "idle"
  BY <1>1 DEF Idle, Call, CallType, Profiles
<1> QED BY <1>2 DEF Working, SeedOf, MoveOf

-----------------------------------------------------------------------------
(* A step of the process that has the lock.                                 *)

\* The others stand idle.
Alone(p) == \A q \in Procs : q # p => call[q].pc = "idle"

LEMMA AloneIfBusy ==
    ASSUME StartupInv, NEW p \in Procs, call[p].pc # "idle"
    PROVE  Alone(p)
BY DEF StartupInv, OneWriter, Alone

LEMMA AloneIfFree ==
    ASSUME NEW p \in Procs, LockFree(p)
    PROVE  Alone(p)
BY DEF LockFree, At, Alone

\* What is left to show of such a step: the new call c against the new state.
LEMMA WriterStep ==
    ASSUME StartupInv, NEW p \in Procs, Alone(p), NEW c \in CallType, Become(p, c),
           secure' \in Seeds \cup {None}, file' \in Seeds \cup {None, Torn},
           disk' \in [Dirs -> [Files -> 0..MaxDatabases]],
           databases' \in 0..MaxDatabases,
           used' \in [1..MaxDatabases -> SUBSET Seeds],
           \A n \in 1..MaxDatabases : used'[n] # {} => n \in Databases',
           split' \subseteq Databases', crashes' \in 0..MaxCrashes,
           SeedOf(c)', MoveOf(c)',
           file' = Torn => ~DatabaseExists' /\ c.pc \in {"idle", "load", "write"},
           disk'[Home]["db"] # 0 => Belongs(disk[Home]["db"])',
           Working(c) /\ disk'[c.dir]["db"] # 0 => Belongs(disk[c.dir]["db"])',
           OneSeed', DiskOK', SeedKept', DatabasesKept',
           \A n \in Databases' \ split' : \A d, e \in Dirs, f, g \in Files :
               disk'[d][f] = n /\ disk'[e][g] = n =>
                   d = e \/ (Working(c) /\ {d, e} \subseteq {Home, c.dir})
    PROVE  StartupInv'
<1>1. call \in [Procs -> CallType]
  BY Types
<1>2. /\ call' \in [Procs -> CallType] /\ call'[p] = c
      /\ \A q \in Procs : q # p => call'[q] = call[q] /\ call'[q].pc = "idle"
  BY <1>1 DEF Become, Alone
<1>3. StartupTypeOK'
  <2>1. Len(DatabaseFiles) + 1 = 5
    BY FileFacts
  <2> QED BY <1>2, <2>1 DEF StartupTypeOK, CallType
<1>4. OneWriter'
  BY <1>2 DEF OneWriter
<1>5. SeedsOK'
  BY <1>2 DEF SeedsOK, SeedOf
<1>6. MovesOK'
  BY <1>2 DEF MovesOK, MoveOf
<1>7. TornOK'
  BY <1>2 DEF TornOK
<1>8. HomeOK'
  BY <1>2 DEF HomeOK, Working, Belongs
<1>9. FamilyOK'
  <2> SUFFICES ASSUME NEW n \in Databases' \ split', NEW d \in Dirs, NEW e \in Dirs,
                      NEW f \in Files, NEW g \in Files,
                      disk'[d][f] = n, disk'[e][g] = n, d # e
               PROVE  \E q \in Procs :
                         Working(call'[q]) /\ {d, e} \subseteq {Home, call'[q].dir}
    BY DEF FamilyOK, Together, Working
  <2>1. Working(c) /\ {d, e} \subseteq {Home, c.dir}
    OBVIOUS
  <2> QED BY <1>2, <2>1
<1> QED BY <1>3, <1>4, <1>5, <1>6, <1>7, <1>8, <1>9 DEF StartupInv

LEMMA CallFacts ==
    ASSUME StartupInv, NEW p \in Procs
    PROVE  call[p] \in CallType /\ SeedOf(call[p]) /\ MoveOf(call[p])
BY Types DEF StartupInv, SeedsOK, MovesOK

\* Outside a preservation every database is in one directory.
LEMMA FamilyNow ==
    ASSUME StartupInv, NEW p \in Procs, Alone(p), ~Working(call[p]),
           NEW n \in Databases \ split, NEW d \in Dirs, NEW e \in Dirs,
           NEW f \in Files, NEW g \in Files, disk[d][f] = n, disk[e][g] = n
    PROVE  d = e
<1>1. \A q \in Procs : ~Working(call[q])
  BY DEF Alone, Working
<1>2. FamilyOK
  BY DEF StartupInv
<1> QED BY <1>1, <1>2 DEF FamilyOK, Together

\* A step that changes nothing durable.
LEMMA QuietStep ==
    ASSUME StartupInv, NEW p \in Procs, Alone(p), NEW c \in CallType, Become(p, c),
           UNCHANGED durable, split' \subseteq Databases, crashes' \in 0..MaxCrashes,
           SeedOf(c), MoveOf(c)',
           file = Torn => c.pc \in {"idle", "load", "write"},
           Working(c) /\ disk[c.dir]["db"] # 0 => Belongs(disk[c.dir]["db"]),
           \A n \in Databases \ split' : \A d, e \in Dirs, f, g \in Files :
               disk[d][f] = n /\ disk[e][g] = n =>
                   d = e \/ (Working(c) /\ {d, e} \subseteq {Home, c.dir})
    PROVE  StartupInv'
<1> USE DEF durable
<1>1. SeedOf(c)'
  BY DEF SeedOf, Migrated, DatabaseExists
<1>2. Databases' = Databases
  BY DEF Databases
<1>3. file' = Torn => ~DatabaseExists' /\ c.pc \in {"idle", "load", "write"}
  BY DEF StartupInv, TornOK, DatabaseExists
<1>4. disk'[Home]["db"] # 0 => Belongs(disk[Home]["db"])'
  BY DEF StartupInv, HomeOK, Belongs
<1>5. Working(c) /\ disk'[c.dir]["db"] # 0 => Belongs(disk[c.dir]["db"])'
  BY DEF Belongs
<1>6. OneSeed' /\ DiskOK'
  BY DEF StartupInv, OneSeed, DiskOK
<1>7. SeedKept' /\ DatabasesKept'
  BY <1>2 DEF StartupInv, SeedKept, DatabasesKept
<1>8. /\ secure' \in Seeds \cup {None} /\ file' \in Seeds \cup {None, Torn}
      /\ disk' \in [Dirs -> [Files -> 0..MaxDatabases]]
      /\ databases' \in 0..MaxDatabases
      /\ used' \in [1..MaxDatabases -> SUBSET Seeds]
      /\ \A n \in 1..MaxDatabases : used'[n] # {} => n \in Databases'
      /\ split' \subseteq Databases'
  BY <1>2, Types
<1>9. \A n \in Databases' \ split' : \A d, e \in Dirs, f, g \in Files :
          disk'[d][f] = n /\ disk'[e][g] = n =>
              d = e \/ (Working(c) /\ {d, e} \subseteq {Home, c.dir})
  BY <1>2
<1> HIDE DEF durable
<1> QED BY <1>1, <1>3, <1>4, <1>5, <1>6, <1>7, <1>8, <1>9, WriterStep

\* Such a step of an opening, which no preservation is in.
LEMMA OpeningStep ==
    ASSUME StartupInv, NEW p \in Procs, Alone(p), NEW c \in CallType, Become(p, c),
           UNCHANGED <<durable, split, crashes>>, ~Working(call[p]), ~Working(c),
           SeedOf(c), file = Torn => c.pc \in {"idle", "load", "write"}
    PROVE  StartupInv'
<1>1. MoveOf(c)'
  BY DEF MoveOf, Working
<1>2. \A n \in Databases \ split' : \A d, e \in Dirs, f, g \in Files :
          disk[d][f] = n /\ disk[e][g] = n => d = e
  BY FamilyNow
<1>3. split' \subseteq Databases /\ crashes' \in 0..MaxCrashes
  BY Types
<1> QED BY <1>1, <1>2, <1>3, QuietStep

LEMMA BailStep ==
    ASSUME StartupInv, NEW p \in Procs, Alone(p), Bail(p),
           UNCHANGED <<durable, split, crashes>>, ~Working(call[p])
    PROVE  StartupInv'
BY IdleType, OpeningStep DEF Bail

-----------------------------------------------------------------------------
(* Opening the wallet.                                                      *)

LEMMA OpenKeeps ==
    ASSUME StartupInv, NEW p \in Procs, NEW profile \in Profiles, Open(p, profile)
    PROVE  StartupInv'
<1> DEFINE c == Call("load", profile, None, FALSE, Home, 0)
<1>1. c \in CallType /\ c.pc = "load"
  BY Types DEF Call, CallType
<1>2. Alone(p) /\ Become(p, c) /\ UNCHANGED <<durable, split, crashes>>
  BY AloneIfFree DEF Open
<1>3. ~Working(call[p]) /\ ~Working(c)
  BY <1>1 DEF Working, Open, At
<1>4. SeedOf(c)
  BY <1>1 DEF SeedOf
<1> HIDE DEF c
<1> QED BY <1>1, <1>2, <1>3, <1>4, OpeningStep

LEMMA FailKeeps ==
    ASSUME StartupInv, NEW p \in Procs, Fail(p)
    PROVE  StartupInv'
<1>1. call[p].pc # "idle" /\ ~Working(call[p])
  BY DEF Fail, Working
<1> QED BY <1>1, AloneIfBusy, BailStep DEF Fail

LEMMA ResolvedStep ==
    ASSUME StartupInv, NEW p \in Procs, At(p, "load"), NEW pc \in {"database", "store"},
           NEW s \in Seeds, NEW r \in BOOLEAN, Resolved(p, pc, s, r),
           UNCHANGED <<durable, split, crashes>>, file # Torn,
           pc = "store" =>
              /\ IF call[p].profile = "secure" THEN secure = None ELSE file = None /\ ~r
              /\ call[p].profile = "secure" => file = IF r THEN s ELSE None
              /\ ~r => ~DatabaseExists,
           pc = "database" =>
              IF call[p].profile = "secure" THEN secure = s /\ file = (IF r THEN s ELSE None)
                                            ELSE file = s /\ ~r
    PROVE  StartupInv'
<1>1. PICK profile \in Profiles : profile = call[p].profile
  BY CallFacts DEF CallType
<1> DEFINE c == Call(pc, profile, s, r, Home, 0)
<1>2. c \in CallType /\ c.pc = pc /\ c.profile = profile /\ c.seed = s
  BY Types, CallFields
<1>3. c.remove = r
  BY CallRemove
<1>4. Alone(p) /\ ~Working(call[p])
  BY AloneIfBusy DEF At, Working
<1>5. Become(p, c)
  BY <1>1 DEF Resolved
<1> HIDE DEF c
<1>6. SeedOf(c)
  BY <1>1, <1>2, <1>3 DEF SeedOf, Migrated
<1>7. ~Working(c)
  BY <1>2 DEF Working
<1> QED BY <1>2, <1>4, <1>5, <1>6, <1>7, OpeningStep

LEMMA ResolveKeeps ==
    ASSUME StartupInv, NEW p \in Procs, Resolve(p)
    PROVE  StartupInv'
<1>1. At(p, "load") /\ UNCHANGED <<durable, split, crashes>>
  BY DEF Resolve
<1>2. CASE Bail(p)
  <2>1. Alone(p) /\ ~Working(call[p])
    BY <1>1, AloneIfBusy DEF At, Working
  <2> QED BY <1>1, <1>2, <2>1, BailStep
<1>3. call[p].profile = "secure" \/ call[p].profile = "file"
  BY CallFacts DEF CallType, Profiles
<1> USE DEF Stored, Legacy
<1>4. CASE Stored(p) \in Seeds /\ Legacy(p) \in Seeds /\ Stored(p) = Legacy(p)
           /\ Resolved(p, "database", Stored(p), TRUE)
  <2>1. call[p].profile = "secure" /\ secure \in Seeds /\ file = secure
    BY <1>3, <1>4, StartupAssumption
  <2>2. PICK r \in BOOLEAN : r /\ Resolved(p, "database", Stored(p), r)
    BY <1>4, Zenon
  <2>3. file # Torn
    BY <2>1, StartupAssumption
  <2> QED BY <1>1, <2>1, <2>2, <2>3, ResolvedStep
<1>5. CASE Stored(p) \in Seeds /\ Legacy(p) = None /\ Resolved(p, "database", Stored(p), FALSE)
  <2>1. file # Torn /\ Stored(p) \in Seeds
    BY <1>3, <1>5, StartupAssumption
  <2>2. PICK r \in BOOLEAN : ~r /\ Resolved(p, "database", Stored(p), r)
    BY <1>5, Zenon
  <2> QED BY <1>1, <1>3, <1>5, <2>1, <2>2, ResolvedStep
<1>6. CASE Stored(p) = None /\ Legacy(p) \in Seeds /\ Resolved(p, "store", Legacy(p), TRUE)
  <2>1. file # Torn /\ call[p].profile = "secure" /\ file \in Seeds /\ secure = None
    BY <1>3, <1>6, StartupAssumption
  <2>2. PICK r \in BOOLEAN : r /\ Resolved(p, "store", Legacy(p), r)
    BY <1>6, Zenon
  <2> QED BY <1>1, <2>1, <2>2, ResolvedStep
<1>7. ASSUME Stored(p) = None, Legacy(p) = None, ~MustHaveSeed,
             NEW s \in Seeds, Resolved(p, "store", s, FALSE)
      PROVE  StartupInv'
  <2>1. file = None /\ (call[p].profile = "secure" => secure = None)
    BY <1>3, <1>7
  <2>2. file # Torn /\ ~DatabaseExists
    BY <1>7, <2>1, StartupAssumption DEF MustHaveSeed
  <2>3. PICK r \in BOOLEAN : ~r /\ Resolved(p, "store", s, r)
    BY <1>7, Zenon
  <2> QED BY <1>1, <2>1, <2>2, <2>3, ResolvedStep
<1> HIDE DEF Stored, Legacy
<1> QED BY <1>2, <1>4, <1>5, <1>6, <1>7 DEF Resolve

LEMMA VerifySeedKeeps ==
    ASSUME StartupInv, NEW p \in Procs, VerifySeed(p)
    PROVE  StartupInv'
<1>1. PICK k \in CallType : k = call[p] /\ k.pc = "verify" /\ SeedOf(k)
  BY CallFacts DEF VerifySeed, At
<1>2. Alone(p) /\ ~Working(call[p]) /\ UNCHANGED <<durable, split, crashes>>
  BY <1>1, AloneIfBusy DEF Working, VerifySeed
<1>3. CASE Bail(p)
  BY <1>2, <1>3, BailStep
<1>4. CASE Verified(p) /\ Goto(p, "database")
  <2> DEFINE c == Call("database", k.profile, k.seed, k.remove, k.dir, k.at)
  <2>1. c \in CallType /\ c.pc = "database" /\ c.profile = k.profile /\ c.seed = k.seed
    BY CallFields DEF CallType
  <2>2. c.remove = k.remove
    BY CallRemove DEF CallType
  <2>3. Become(p, c)
    BY <1>1, <1>4 DEF Goto
  <2>4. (IF k.profile = "secure" THEN secure ELSE file) = k.seed
    BY <1>1, <1>4 DEF Verified, Stored
  <2> HIDE DEF c
  <2>5. SeedOf(c)
    BY <1>1, <2>1, <2>2, <2>4 DEF SeedOf, Migrated
  <2>6. file # Torn
    BY <1>1 DEF StartupInv, TornOK
  <2>7. ~Working(c)
    BY <2>1 DEF Working
  <2> QED BY <1>2, <2>1, <2>3, <2>5, <2>6, <2>7, OpeningStep
<1> QED BY <1>3, <1>4 DEF VerifySeed

\* A step of an opening that writes one of the two stores.
LEMMA SeedStep ==
    ASSUME StartupInv, NEW p \in Procs, Alone(p), NEW c \in CallType, Become(p, c),
           UNCHANGED <<disk, databases, used, split, crashes>>,
           ~Working(call[p]), ~Working(c),
           secure' \in Seeds \cup {None}, file' \in Seeds \cup {None, Torn},
           SeedOf(c)', file' = Torn => ~DatabaseExists /\ c.pc \in {"idle", "load", "write"},
           disk[Home]["db"] # 0 => Belongs(disk[Home]["db"])', SeedKept'
    PROVE  StartupInv'
<1>1. Databases' = Databases
  BY DEF Databases
<1>2. file' = Torn => ~DatabaseExists' /\ c.pc \in {"idle", "load", "write"}
  BY DEF DatabaseExists
<1>3. OneSeed' /\ DiskOK'
  BY DEF StartupInv, OneSeed, DiskOK
<1>4. DatabasesKept'
  BY <1>1 DEF StartupInv, DatabasesKept
<1>5. /\ disk' \in [Dirs -> [Files -> 0..MaxDatabases]]
      /\ databases' \in 0..MaxDatabases
      /\ used' \in [1..MaxDatabases -> SUBSET Seeds]
      /\ \A n \in 1..MaxDatabases : used'[n] # {} => n \in Databases'
      /\ split' \subseteq Databases' /\ crashes' \in 0..MaxCrashes
  BY <1>1, Types
<1>6. MoveOf(c)'
  BY DEF MoveOf, Working
<1>7. \A n \in Databases' \ split' : \A d, e \in Dirs, f, g \in Files :
          disk'[d][f] = n /\ disk'[e][g] = n => d = e
  BY <1>1, FamilyNow
<1> QED BY <1>2, <1>3, <1>4, <1>5, <1>6, <1>7, WriterStep

\* The call of a step that only moves on to pc.
LEMMA GotoCall ==
    ASSUME NEW k \in CallType, NEW p \in Procs, call[p] = k,
           NEW pc \in {"write", "verify", "database", "finalize", "open"}, Goto(p, pc)
    PROVE  \E c \in CallType :
              /\ Become(p, c) /\ c.pc = pc /\ c.profile = k.profile /\ c.seed = k.seed
              /\ (c.remove <=> k.remove) /\ ~Working(c)
<1> DEFINE c == Call(pc, k.profile, k.seed, k.remove, k.dir, k.at)
<1>1. c \in CallType /\ c.pc = pc /\ c.profile = k.profile /\ c.seed = k.seed
  BY CallFields DEF CallType
<1>2. c.remove = k.remove
  BY CallRemove DEF CallType
<1>3. Become(p, c)
  BY DEF Goto
<1> HIDE DEF c
<1>4. ~Working(c)
  BY <1>1 DEF Working
<1> QED BY <1>1, <1>2, <1>3, <1>4

LEMMA StoreSecureKeeps ==
    ASSUME StartupInv, NEW p \in Procs, StoreSecure(p)
    PROVE  StartupInv'
<1>1. PICK k \in CallType : k = call[p] /\ k.pc = "store" /\ k.profile = "secure" /\ SeedOf(k)
  BY CallFacts DEF StoreSecure, At
<1>2. Alone(p) /\ ~Working(call[p])
  BY <1>1, AloneIfBusy DEF Working
<1>3. PICK c \in CallType :
          /\ Become(p, c) /\ c.pc = "verify" /\ c.profile = "secure" /\ c.seed = k.seed
          /\ (c.remove <=> k.remove) /\ ~Working(c)
  BY <1>1, GotoCall DEF StoreSecure
<1>4. /\ k.seed \in Seeds /\ secure = None /\ secure' \in Seeds
      /\ file = (IF k.remove THEN k.seed ELSE None)
      /\ UNCHANGED <<file, disk, databases, used, split, crashes>>
  BY <1>1 DEF SeedOf, StoreSecure
<1>5. SeedOf(c)'
  BY <1>3, <1>4 DEF SeedOf
<1>6. file' # Torn /\ file' \in Seeds \cup {None, Torn}
  BY <1>4, StartupAssumption
<1>7. Databases' = Databases /\ Databases \subseteq 1..MaxDatabases
  BY <1>4, Types DEF Databases
<1>8. \A n \in Databases : used[n] \subseteq {file}
  BY <1>4, Types, StartupAssumption DEF StartupInv, SeedKept
<1>9. SeedKept'
  BY <1>4, <1>7, <1>8 DEF SeedKept
<1>10. ASSUME disk[Home]["db"] # 0
       PROVE  Belongs(disk[Home]["db"])'
  <2>1. disk[Home]["db"] \in Databases
    BY <1>10, Types DEF StartupInv, DiskOK, Databases
  <2>2. \A s \in used[disk[Home]["db"]] : s = file /\ s \in Seeds
    BY <1>7, <1>8, <2>1, Types
  <2> QED BY <1>4, <2>2, StartupAssumption DEF Belongs
<1> QED BY <1>2, <1>3, <1>4, <1>5, <1>6, <1>9, <1>10, SeedStep

\* While seed.json holds no seed and there is no database, the seeds in use
\* are in the platform's store, and seed.json may be written.
LEMMA FileStep ==
    ASSUME StartupInv, NEW p \in Procs, Alone(p), NEW c \in CallType, Become(p, c),
           UNCHANGED <<secure, disk, databases, used, split, crashes>>,
           ~Working(call[p]), ~Working(c), file \in {None, Torn}, ~DatabaseExists,
           file' \in Seeds \cup {None, Torn}, SeedOf(c)',
           file' = Torn => c.pc \in {"idle", "load", "write"}
    PROVE  StartupInv'
<1>1. Databases' = Databases /\ Databases \subseteq 1..MaxDatabases
  BY Types DEF Databases
<1>2. \A n \in Databases : used[n] \subseteq {secure}
  BY <1>1, Types, StartupAssumption DEF StartupInv, SeedKept
<1>3. SeedKept'
  BY <1>1, <1>2 DEF SeedKept
<1>4. disk[Home]["db"] = 0
  BY Types DEF DatabaseExists
<1>5. secure' \in Seeds \cup {None}
  BY Types
<1> QED BY <1>3, <1>4, <1>5, SeedStep

LEMMA StoreFileKeeps ==
    ASSUME StartupInv, NEW p \in Procs, StoreFile(p)
    PROVE  StartupInv'
<1>1. PICK k \in CallType : k = call[p] /\ k.pc = "store" /\ k.profile = "file" /\ SeedOf(k)
  BY CallFacts DEF StoreFile, At
<1>2. Alone(p) /\ ~Working(call[p])
  BY <1>1, AloneIfBusy DEF Working
<1>3. k.seed \in Seeds /\ file = None /\ ~k.remove /\ ~DatabaseExists
  BY <1>1 DEF SeedOf
<1>4. /\ Goto(p, "write") /\ file' = Torn
      /\ UNCHANGED <<secure, disk, databases, used, split, crashes>>
  BY <1>1, <1>3, StartupAssumption DEF StoreFile, Refuses
<1>5. PICK c \in CallType :
          /\ Become(p, c) /\ c.pc = "write" /\ c.profile = "file" /\ c.seed = k.seed
          /\ (c.remove <=> k.remove) /\ ~Working(c)
  BY <1>1, <1>4, GotoCall
<1>6. SeedOf(c)'
  BY <1>3, <1>4, <1>5 DEF SeedOf
<1> QED BY <1>2, <1>3, <1>4, <1>5, <1>6, FileStep

LEMMA WriteSeedFileKeeps ==
    ASSUME StartupInv, NEW p \in Procs, WriteSeedFile(p)
    PROVE  StartupInv'
<1>1. PICK k \in CallType : k = call[p] /\ k.pc = "write" /\ SeedOf(k)
  BY CallFacts DEF WriteSeedFile, At
<1>2. Alone(p) /\ ~Working(call[p])
  BY <1>1, AloneIfBusy DEF Working
<1>3. k.seed \in Seeds /\ k.profile = "file" /\ file = Torn /\ ~k.remove
  BY <1>1 DEF SeedOf
<1>4. ~DatabaseExists
  BY <1>3 DEF StartupInv, TornOK
<1>5. PICK c \in CallType :
          /\ Become(p, c) /\ c.pc = "verify" /\ c.profile = "file" /\ c.seed = k.seed
          /\ (c.remove <=> k.remove) /\ ~Working(c)
  BY <1>1, <1>3, GotoCall DEF WriteSeedFile
<1>6. file' = k.seed /\ UNCHANGED <<secure, disk, databases, used, split, crashes>>
  BY <1>1 DEF WriteSeedFile
<1>7. SeedOf(c)'
  BY <1>3, <1>5, <1>6 DEF SeedOf
<1>8. file' # Torn
  BY <1>3, <1>6, StartupAssumption
<1> QED BY <1>2, <1>3, <1>4, <1>5, <1>6, <1>7, <1>8, FileStep

LEMMA RemoveLegacyKeeps ==
    ASSUME StartupInv, NEW p \in Procs, RemoveLegacy(p)
    PROVE  StartupInv'
<1>1. PICK k \in CallType : k = call[p] /\ k.pc = "finalize" /\ SeedOf(k)
  BY CallFacts DEF RemoveLegacy, At
<1>2. Alone(p) /\ ~Working(call[p])
  BY <1>1, AloneIfBusy DEF Working
<1>3. k.seed \in Seeds /\ (k.remove => secure = k.seed /\ file = k.seed)
  BY <1>1 DEF SeedOf, Migrated
<1>4. PICK c \in CallType : Become(p, c) /\ c.pc = "open" /\ ~Working(c)
  BY <1>1, GotoCall DEF RemoveLegacy
<1>5. /\ file' = (IF k.remove THEN None ELSE file)
      /\ UNCHANGED <<secure, disk, databases, used, split, crashes>>
  BY <1>1 DEF RemoveLegacy
<1>6. SeedOf(c)'
  BY <1>4 DEF SeedOf
<1>7. file # Torn
  BY <1>1 DEF StartupInv, TornOK
<1>8. secure' \in Seeds \cup {None} /\ file' \in Seeds \cup {None, Torn} /\ file' # Torn
  BY <1>5, <1>7, Types, StartupAssumption
<1>9. Databases' = Databases
  BY <1>5 DEF Databases
<1>10. SeedKept'
  BY <1>3, <1>5, <1>9 DEF StartupInv, SeedKept
<1>11. disk[Home]["db"] # 0 => Belongs(disk[Home]["db"])'
  BY <1>3, <1>5, StartupAssumption DEF StartupInv, HomeOK, Belongs
<1> QED BY <1>2, <1>4, <1>5, <1>6, <1>8, <1>10, <1>11, SeedStep

\* SQLite creates or opens the database n, and the wallet is built with the
\* seed s, or not built.
LEMMA DatabaseStep ==
    ASSUME StartupInv, NEW p \in Procs, Alone(p), NEW c \in CallType, Become(p, c),
           UNCHANGED <<secure, file, split, crashes>>, ~Working(call[p]), ~Working(c),
           SeedOf(c)', file # Torn, NEW s \in Seeds, s \in {secure, file},
           file \in Seeds => s = file, file = None => s = secure,
           NEW n \in 1..MaxDatabases, databases' \in Nat,
           \/ disk[Home]["db"] = n /\ databases' = databases
           \/ disk[Home]["db"] = 0 /\ n = databases + 1 /\ databases' = n,
           disk' \in [Dirs -> [Files -> 0..MaxDatabases]],
           \A d \in Dirs, f \in Files :
               disk'[d][f] = disk[d][f] \/ (d = Home /\ disk'[d][f] = n),
           disk'[Home]["db"] = n,
           used' \in [1..MaxDatabases -> SUBSET Seeds],
           \A m \in 1..MaxDatabases : m # n => used'[m] = used[m],
           used'[n] \subseteq used[n] \cup {s}
    PROVE  StartupInv'
<1>1. /\ databases \in 0..MaxDatabases /\ databases \in Nat /\ MaxDatabases \in Nat
      /\ disk \in [Dirs -> [Files -> 0..MaxDatabases]] /\ Home \in Dirs /\ "db" \in Files
      /\ used \in [1..MaxDatabases -> SUBSET Seeds]
      /\ \A m \in 1..MaxDatabases : used[m] # {} => m \in Databases
      /\ split \subseteq Databases /\ Databases \subseteq 1..MaxDatabases
      /\ crashes \in 0..MaxCrashes /\ secure \in Seeds \cup {None}
      /\ file \in Seeds \cup {None, Torn}
  BY Types
<1>2. \A d \in Dirs, f \in Files : disk[d][f] \in Nat /\ disk[d][f] <= databases
  BY <1>1 DEF StartupInv, DiskOK
<1>3. PICK h \in Nat : h = disk[Home]["db"] /\ h <= databases
  BY <1>1, <1>2
<1>4. \/ h = n /\ databases' = databases
      \/ h = 0 /\ n = databases + 1 /\ databases' = n
  BY <1>3
<1>5. n \in Nat /\ 1 <= n /\ n <= MaxDatabases /\ databases <= MaxDatabases
  BY <1>1
<1>6. /\ databases <= databases' /\ databases' \in 0..MaxDatabases
      /\ n \in Databases' /\ Databases \subseteq Databases'
      /\ \A m \in Databases' : m # n => m \in Databases
      /\ n # disk[Home]["db"] => n \notin Databases /\ disk[Home]["db"] = 0
  <2>1. databases <= databases' /\ databases' \in 0..MaxDatabases /\ n <= databases'
    BY <1>1, <1>3, <1>4, <1>5
  <2>2. n \in 1..databases'
    BY <1>5, <2>1
  <2>3. \A m \in 1..databases : m \in 1..databases'
    BY <1>1, <2>1
  <2>4. \A m \in 1..databases' : m # n => m \in 1..databases
    BY <1>1, <1>4
  <2>5. n # h => n \notin 1..databases /\ h = 0
    BY <1>1, <1>4
  <2> QED BY <1>3, <2>1, <2>2, <2>3, <2>4, <2>5 DEF Databases
<1>7. used'[n] \subseteq {s}
  <2>1. CASE disk[Home]["db"] = n
    <3>1. \A t \in used[n] : t = s
      BY <1>1, <2>1, StartupAssumption DEF StartupInv, HomeOK, Belongs
    <3> QED BY <3>1
  <2>2. CASE disk[Home]["db"] # n
    BY <1>1, <1>6, <2>2
  <2> QED BY <2>1, <2>2
<1>8. disk'[Home]["db"] # 0 => Belongs(disk[Home]["db"])'
  BY <1>1, <1>7 DEF Belongs
<1>9. OneSeed'
  BY <1>7 DEF StartupInv, OneSeed
<1>10. DiskOK'
  <2> SUFFICES ASSUME NEW d \in Dirs, NEW f \in Files PROVE disk'[d][f] <= databases'
    BY DEF DiskOK
  <2>1. PICK x \in Nat : x = disk[d][f] /\ x <= databases
    BY <1>2
  <2>2. x <= databases' /\ n <= databases'
    BY <1>1, <1>3, <1>4, <1>5, <2>1
  <2> QED BY <2>1, <2>2
<1>11. SeedKept'
  <2> SUFFICES ASSUME NEW m \in Databases' PROVE used'[m] \subseteq {secure, file}
    BY DEF SeedKept
  <2>1. CASE m = n
    BY <1>7, <2>1
  <2>2. CASE m # n
    BY <1>1, <1>6, <2>2 DEF StartupInv, SeedKept
  <2> QED BY <2>1, <2>2
<1>12. DatabasesKept'
  <2> SUFFICES ASSUME NEW m \in Databases' PROVE \E d \in Dirs : disk'[d]["db"] = m
    BY DEF DatabasesKept
  <2>1. CASE m = n
    BY <1>1, <2>1
  <2>2. CASE m # n
    <3>1. PICK d \in Dirs : disk[d]["db"] = m
      BY <1>6, <2>2 DEF StartupInv, DatabasesKept
    <3>2. m # 0 /\ d # Home
      BY <1>1, <1>6, <2>2, <3>1
    <3> QED BY <1>1, <3>1, <3>2
  <2> QED BY <2>1, <2>2
<1>13. ASSUME NEW m \in Databases' \ split', NEW d \in Dirs, NEW e \in Dirs,
              NEW f \in Files, NEW g \in Files, disk'[d][f] = m, disk'[e][g] = m
       PROVE  d = e
  <2>1. CASE m # n
    <3>1. m \in Databases \ split /\ disk[d][f] = m /\ disk[e][g] = m
      BY <1>6, <1>13, <2>1
    <3> QED BY <3>1, FamilyNow
  <2>2. CASE m = n /\ disk[Home]["db"] = n
    <3>1. m \in Databases \ split
      BY <1>1, <1>2, <1>13, <2>2 DEF Databases
    <3>2. d = Home
      BY <1>1, <1>13, <2>2, <3>1, FamilyNow
    <3>3. e = Home
      BY <1>1, <1>13, <2>2, <3>1, FamilyNow
    <3> QED BY <3>2, <3>3
  <2>3. CASE m = n /\ disk[Home]["db"] # n
    <3>1. disk[d][f] # n /\ disk[e][g] # n
      <4>1. n = databases + 1
        BY <1>3, <1>4, <2>3
      <4>2. PICK x \in Nat, y \in Nat :
               x = disk[d][f] /\ y = disk[e][g] /\ x <= databases /\ y <= databases
        BY <1>2
      <4>3. databases \in Nat
        BY <1>1
      <4>4. x < n /\ y < n
        BY <4>1, <4>2, <4>3
      <4> QED BY <4>2, <4>4, <1>5
    <3> QED BY <1>13, <2>3, <3>1
  <2> QED BY <2>1, <2>2, <2>3
<1>14. MoveOf(c)'
  BY DEF MoveOf, Working
<1>15. \A m \in 1..MaxDatabases : used'[m] # {} => m \in Databases'
  BY <1>1, <1>6
<1>16. /\ secure' \in Seeds \cup {None} /\ file' \in Seeds \cup {None, Torn} /\ file' # Torn
       /\ split' \subseteq Databases' /\ crashes' \in 0..MaxCrashes
  BY <1>1, <1>6
<1> QED BY <1>6, <1>8, <1>9, <1>10, <1>11, <1>12, <1>13, <1>14, <1>15, <1>16, WriterStep

LEMMA OpenDatabaseKeeps ==
    ASSUME StartupInv, NEW p \in Procs, OpenDatabase(p)
    PROVE  StartupInv'
<1>1. PICK k \in CallType : k = call[p] /\ k.pc = "database" /\ SeedOf(k)
  BY CallFacts DEF OpenDatabase, At
<1>2. Alone(p) /\ ~Working(call[p])
  BY <1>1, AloneIfBusy DEF Working
<1>3. /\ k.seed \in Seeds /\ k.seed \in {secure, file} /\ Migrated(k)
      /\ (file \in Seeds => k.seed = file) /\ (file = None => k.seed = secure)
  BY <1>1, StartupAssumption DEF SeedOf, Migrated
<1>4. file # Torn
  BY <1>1 DEF StartupInv, TornOK
<1>5. /\ databases \in 0..MaxDatabases /\ databases \in Nat /\ MaxDatabases \in Nat
      /\ disk \in [Dirs -> [Files -> 0..MaxDatabases]] /\ Home \in Dirs /\ "db" \in Files
      /\ used \in [1..MaxDatabases -> SUBSET Seeds]
  BY Types
<1> DEFINE n == IF DatabaseFileExists THEN disk[Home]["db"] ELSE databases + 1
<1>6. /\ n \in 1..MaxDatabases /\ databases' \in Nat
      /\ \/ disk[Home]["db"] = n /\ databases' = databases
         \/ disk[Home]["db"] = 0 /\ n = databases + 1 /\ databases' = n
  BY <1>5 DEF OpenDatabase, DatabaseFileExists
<1>7. PICK written \in SUBSET Sidecars :
         disk' = [disk EXCEPT ![Home] =
                    [f \in Files |-> IF f = "db" \/ f \in written THEN n ELSE @[f]]]
  BY DEF OpenDatabase
<1>8. /\ \/ /\ used' = [used EXCEPT ![n] = @ \cup {k.seed}]
            /\ Goto(p, "finalize")
         \/ UNCHANGED used /\ Bail(p)
      /\ UNCHANGED <<secure, file, split, crashes>>
  BY <1>1 DEF OpenDatabase
<1> HIDE DEF n
<1>9. /\ disk' \in [Dirs -> [Files -> 0..MaxDatabases]] /\ disk'[Home]["db"] = n
      /\ \A d \in Dirs, f \in Files :
             disk'[d][f] = disk[d][f] \/ (d = Home /\ disk'[d][f] = n)
  BY <1>5, <1>6, <1>7
<1>10. /\ used' \in [1..MaxDatabases -> SUBSET Seeds]
       /\ \A m \in 1..MaxDatabases : m # n => used'[m] = used[m]
       /\ used'[n] \subseteq used[n] \cup {k.seed}
  BY <1>3, <1>5, <1>6, <1>8
<1>11. PICK c \in CallType : Become(p, c) /\ ~Working(c) /\ SeedOf(c)'
  <2>1. CASE Bail(p)
    BY <2>1, IdleType DEF Bail
  <2>2. CASE Goto(p, "finalize")
    <3>1. PICK c \in CallType :
              /\ Become(p, c) /\ c.pc = "finalize" /\ c.profile = k.profile
              /\ c.seed = k.seed /\ (c.remove <=> k.remove) /\ ~Working(c)
      BY <1>1, <2>2, GotoCall
    <3>2. SeedOf(c)'
      BY <1>3, <1>8, <3>1 DEF SeedOf, Migrated
    <3> QED BY <3>1, <3>2
  <2> QED BY <1>8, <2>1, <2>2
<1> QED BY <1>2, <1>3, <1>4, <1>6, <1>8, <1>9, <1>10, <1>11, DatabaseStep

LEMMA CloseKeeps ==
    ASSUME StartupInv, NEW p \in Procs, Close(p)
    PROVE  StartupInv'
<1>1. Alone(p) /\ ~Working(call[p]) /\ call[p].pc = "open"
  BY AloneIfBusy DEF Working, Close, At
<1>2. file # Torn
  BY <1>1 DEF StartupInv, TornOK
<1>3. /\ disk \in [Dirs -> [Files -> 0..MaxDatabases]] /\ Home \in Dirs /\ "db" \in Files
      /\ databases \in Nat /\ MaxDatabases \in Nat
  BY Types
<1>4. PICK removed \in SUBSET Sidecars :
        disk' = [disk EXCEPT ![Home] = [f \in Files |-> IF f \in removed THEN 0 ELSE @[f]]]
  BY DEF Close
<1>5. "db" \notin removed
  BY DEF Sidecars
<1>6. /\ disk' \in [Dirs -> [Files -> 0..MaxDatabases]]
      /\ \A d \in Dirs, f \in Files : disk'[d][f] = disk[d][f] \/ disk'[d][f] = 0
      /\ \A d \in Dirs : disk'[d]["db"] = disk[d]["db"]
  BY <1>3, <1>4, <1>5
<1>7. Become(p, Idle) /\ UNCHANGED <<secure, file, databases, used, split, crashes>>
  BY DEF Close, Bail
<1>8. Databases' = Databases /\ 0 \notin Databases
  BY <1>3, <1>7 DEF Databases
<1>9. disk'[Home]["db"] # 0 => Belongs(disk[Home]["db"])'
  BY <1>3, <1>6, <1>7 DEF StartupInv, HomeOK, Belongs
<1>10. OneSeed' /\ SeedKept'
  BY <1>7, <1>8 DEF StartupInv, OneSeed, SeedKept
<1>11. DiskOK'
  BY <1>3, <1>6, <1>7 DEF StartupInv, DiskOK
<1>12. DatabasesKept'
  BY <1>6, <1>8 DEF StartupInv, DatabasesKept
<1>13. \A n \in Databases' \ split' : \A d, e \in Dirs, f, g \in Files :
           disk'[d][f] = n /\ disk'[e][g] = n => d = e
  BY <1>1, <1>6, <1>7, <1>8, FamilyNow
<1>14. /\ secure' \in Seeds \cup {None} /\ file' \in Seeds \cup {None, Torn} /\ file' # Torn
       /\ databases' \in 0..MaxDatabases
       /\ used' \in [1..MaxDatabases -> SUBSET Seeds]
       /\ \A n \in 1..MaxDatabases : used'[n] # {} => n \in Databases'
       /\ split' \subseteq Databases' /\ crashes' \in 0..MaxCrashes
  BY <1>2, <1>7, <1>8, Types
<1> QED BY <1>1, <1>6, <1>7, <1>9, <1>10, <1>11, <1>12, <1>13, <1>14, IdleType, WriterStep

-----------------------------------------------------------------------------
(* Preserving the database.                                                 *)

LEMMA PreserveKeeps ==
    ASSUME StartupInv, NEW p \in Procs, Preserve(p)
    PROVE  StartupInv'
<1>1. Alone(p) /\ ~Working(call[p]) /\ UNCHANGED <<durable, split, crashes>>
  BY AloneIfFree DEF Working, Preserve, At
<1>2. PICK d \in Dirs \ {Home} :
         NewDirectory(d) /\ Become(p, Call("move", "file", None, FALSE, d, 1))
  BY DEF Preserve
<1> DEFINE c == Call("move", "file", None, FALSE, d, 1)
<1>3. c \in CallType /\ c.pc = "move" /\ c.dir = d /\ c.at = 1
  BY Types DEF Call, CallType, Profiles
<1>4. Become(p, c)
  BY <1>2
<1> HIDE DEF c
<1>5. \A f \in Files : disk[d][f] = 0
  BY <1>2 DEF NewDirectory, Empty
<1>6. SeedOf(c)
  BY <1>3 DEF SeedOf
<1>7. MoveOf(c)'
  <2>1. \A j \in 1..4 : DatabaseFiles[j] \in Files /\ ~(j < 1)
    BY FileFacts
  <2>2. disk' = disk
    BY <1>1 DEF durable
  <2> QED BY <1>2, <1>3, <1>5, <2>1, <2>2 DEF MoveOf
<1>8. file # Torn
  BY DEF StartupInv, TornOK, Preserve
<1>9. disk[c.dir]["db"] = 0
  BY <1>3, <1>5, Types
<1>10. \A n \in Databases \ split' : \A a, e \in Dirs, f, g \in Files :
           disk[a][f] = n /\ disk[e][g] = n => a = e
  BY <1>1, FamilyNow
<1>11. split' \subseteq Databases /\ crashes' \in 0..MaxCrashes
  BY <1>1, Types
<1> QED BY <1>1, <1>3, <1>4, <1>6, <1>7, <1>8, <1>9, <1>10, <1>11, QuietStep

LEMMA MovingCall ==
    ASSUME NEW p \in Procs, call[p] \in CallType, NEW at \in 0..5,
           NEW pc \in {"move", "rollback"}, Moving(p, pc, at)
    PROVE  \E c \in CallType :
              /\ Become(p, c) /\ c.pc = pc /\ c.dir = call[p].dir /\ c.at = at
              /\ Working(c) /\ SeedOf(c) /\ SeedOf(c)'
<1>1. PICK d \in Dirs : d = call[p].dir
  BY DEF CallType
<1> DEFINE c == Call(pc, "file", None, FALSE, d, at)
<1>2. c \in CallType /\ c.pc = pc /\ c.dir = d /\ c.at = at
  BY DEF Call, CallType, Profiles
<1>3. Become(p, c)
  BY <1>1 DEF Moving
<1> HIDE DEF c
<1>4. Working(c) /\ SeedOf(c) /\ SeedOf(c)'
  BY <1>2 DEF Working, SeedOf
<1> QED BY <1>1, <1>2, <1>3, <1>4

\* What a preservation knows of the files.
LEMMA FamilyMoving ==
    ASSUME StartupInv, NEW p \in Procs, Alone(p),
           NEW n \in Databases \ split, NEW d \in Dirs, NEW e \in Dirs,
           NEW f \in Files, NEW g \in Files, disk[d][f] = n, disk[e][g] = n
    PROVE  d = e \/ {d, e} \subseteq {Home, call[p].dir}
<1>1. \A q \in Procs : q # p => ~Working(call[q])
  BY DEF Alone, Working
<1>2. FamilyOK
  BY DEF StartupInv
<1> QED BY <1>1, <1>2 DEF FamilyOK, Together

\* A step of a preservation that renames nothing.
LEMMA KeptStep ==
    ASSUME StartupInv, NEW p \in Procs, Alone(p), NEW c \in CallType, Become(p, c),
           Working(call[p]), Working(c), c.dir = call[p].dir,
           UNCHANGED <<durable, crashes>>, split \subseteq split', split' \subseteq Databases,
           SeedOf(c), MoveOf(c)'
    PROVE  StartupInv'
<1>1. file # Torn
  BY DEF StartupInv, TornOK, Working
<1>2. disk[c.dir]["db"] # 0 => Belongs(disk[c.dir]["db"])
  BY DEF StartupInv, HomeOK
<1>3. \A n \in Databases \ split' : \A d, e \in Dirs, f, g \in Files :
          disk[d][f] = n /\ disk[e][g] = n => d = e \/ {d, e} \subseteq {Home, c.dir}
  BY FamilyMoving
<1>4. crashes' \in 0..MaxCrashes
  BY Types
<1> QED BY <1>1, <1>2, <1>3, <1>4, QuietStep

\* A step of a preservation that renames f0 to a directory without that file.
LEMMA RenameStep ==
    ASSUME StartupInv, NEW p \in Procs, Alone(p), NEW c \in CallType, Become(p, c),
           Working(call[p]), Working(c), c.dir = call[p].dir, SeedOf(c)', MoveOf(c)',
           UNCHANGED <<secure, file, databases, used, split, crashes>>,
           NEW from \in {Home, c.dir}, NEW to \in {Home, c.dir}, from # to,
           NEW f0 \in Files, disk[to][f0] = 0,
           disk' \in [Dirs -> [Files -> 0..MaxDatabases]],
           disk'[from][f0] = 0, disk'[to][f0] = disk[from][f0],
           \A d \in Dirs, f \in Files :
               (f # f0 \/ d \notin {from, to}) => disk'[d][f] = disk[d][f]
    PROVE  StartupInv'
<1>1. file # Torn
  BY DEF StartupInv, TornOK, Working
<1>2. /\ Home \in Dirs /\ "db" \in Files /\ c.dir \in Dirs /\ from \in Dirs /\ to \in Dirs
      /\ databases \in Nat /\ disk \in [Dirs -> [Files -> 0..MaxDatabases]]
      /\ MaxDatabases \in Nat
  BY Types DEF CallType
<1>3. Databases' = Databases /\ 0 \notin Databases
  BY <1>2 DEF Databases
\* every file comes from the same directory or from the other one of the move
<1>4. \A d \in Dirs, f \in Files : disk'[d][f] # 0 =>
         \E b \in Dirs : /\ disk[b][f] = disk'[d][f]
                         /\ b = d \/ (b \in {Home, c.dir} /\ d \in {Home, c.dir})
  BY <1>2
<1>5. \A b \in {Home, c.dir} : disk[b]["db"] # 0 => Belongs(disk[b]["db"])
  BY DEF StartupInv, HomeOK
<1>6. \A b \in {Home, c.dir} : disk'[b]["db"] # 0 => Belongs(disk[b]["db"])'
  <2> SUFFICES ASSUME NEW b \in {Home, c.dir}, disk'[b]["db"] # 0
               PROVE  Belongs(disk[b]["db"])'
    OBVIOUS
  <2>1. PICK a \in {Home, c.dir} : disk[a]["db"] = disk'[b]["db"]
    BY <1>2, <1>4
  <2>2. Belongs(disk[a]["db"])
    BY <1>5, <2>1
  <2> QED BY <2>1, <2>2 DEF Belongs
<1>7. OneSeed' /\ SeedKept'
  BY <1>3 DEF StartupInv, OneSeed, SeedKept
<1>8. DiskOK'
  <2>1. \A d \in Dirs, f \in Files : disk[d][f] <= databases
    BY DEF StartupInv, DiskOK
  <2> QED BY <1>2, <1>4, <2>1 DEF DiskOK
<1>9. DatabasesKept'
  <2> SUFFICES ASSUME NEW n \in Databases PROVE \E d \in Dirs : disk'[d]["db"] = n
    BY <1>3 DEF DatabasesKept
  <2>1. PICK d \in Dirs : disk[d]["db"] = n
    BY DEF StartupInv, DatabasesKept
  <2> QED BY <1>2, <1>3, <2>1
<1>10. ASSUME NEW n \in Databases' \ split', NEW d \in Dirs, NEW e \in Dirs,
              NEW f \in Files, NEW g \in Files, disk'[d][f] = n, disk'[e][g] = n
       PROVE  d = e \/ {d, e} \subseteq {Home, c.dir}
  <2>1. PICK a \in Dirs : /\ disk[a][f] = n
                          /\ a = d \/ (a \in {Home, c.dir} /\ d \in {Home, c.dir})
    BY <1>3, <1>4, <1>10
  <2>2. PICK b \in Dirs : /\ disk[b][g] = n
                          /\ b = e \/ (b \in {Home, c.dir} /\ e \in {Home, c.dir})
    BY <1>3, <1>4, <1>10
  <2>3. a = b \/ {a, b} \subseteq {Home, c.dir}
    BY <1>3, <2>1, <2>2, FamilyMoving
  <2> QED BY <2>1, <2>2, <2>3
<1>11. /\ secure' \in Seeds \cup {None} /\ file' \in Seeds \cup {None, Torn} /\ file' # Torn
       /\ databases' \in 0..MaxDatabases
       /\ used' \in [1..MaxDatabases -> SUBSET Seeds]
       /\ \A n \in 1..MaxDatabases : used'[n] # {} => n \in Databases'
       /\ split' \subseteq Databases' /\ crashes' \in 0..MaxCrashes
  BY <1>1, <1>3, Types
<1> QED BY <1>6, <1>7, <1>8, <1>9, <1>10, <1>11, WriterStep

LEMMA RenameFacts ==
    ASSUME StartupInv, NEW from \in Dirs, NEW to \in Dirs, from # to, NEW f0 \in Files,
           Rename(f0, from, to)
    PROVE  /\ disk' \in [Dirs -> [Files -> 0..MaxDatabases]]
           /\ disk'[from][f0] = 0 /\ disk'[to][f0] = disk[from][f0]
           /\ \A d \in Dirs, f \in Files :
                  (f # f0 \/ d \notin {from, to}) => disk'[d][f] = disk[d][f]
<1>1. disk \in [Dirs -> [Files -> 0..MaxDatabases]] /\ 0 \in 0..MaxDatabases
  BY Types
<1> QED BY <1>1 DEF Rename

LEMMA MoveFileKeeps ==
    ASSUME StartupInv, NEW p \in Procs, MoveFile(p)
    PROVE  StartupInv'
<1>1. PICK k \in CallType : k = call[p] /\ k.pc = "move" /\ MoveOf(k)
  BY CallFacts DEF MoveFile, At
<1>2. Alone(p) /\ Working(call[p])
  BY <1>1, AloneIfBusy DEF Working
<1>3. PICK D \in Dirs : D = k.dir /\ D # Home /\ Home \in Dirs
  BY <1>1, Types DEF MoveOf, CallType
<1>4. PICK i \in 1..4 : i = k.at
  <2>1. k.at \in 1..5 /\ k.at <= 4
    BY <1>1, FileFacts DEF MoveOf, MoveFile
  <2> QED BY <2>1
<1>5. /\ i + 1 \in 1..5 /\ i - 1 \in 0..4
      /\ \A j \in 1..4 : /\ j < i + 1 <=> j < i \/ j = i
                         /\ j >= i + 1 => j >= i /\ j # i
                         /\ j <= i - 1 => j < i
                         /\ j > i - 1 => j >= i
  OBVIOUS
<1> DEFINE f0 == DatabaseFiles[i]
<1>6. /\ f0 \in Files
      /\ \A j \in 1..4 : DatabaseFiles[j] \in Files /\ (DatabaseFiles[j] = f0 => j = i)
  BY FileFacts
<1>7. \A j \in 1..4 : /\ j < i => disk[Home][DatabaseFiles[j]] = 0
                      /\ j >= i => disk[D][DatabaseFiles[j]] = 0
  BY <1>1, <1>3, <1>4 DEF MoveOf
<1>8. /\ UNCHANGED <<secure, file, databases, used, split, crashes>>
      /\ split' \subseteq Databases
  BY Types DEF MoveFile
<1>9. CASE disk[Home][f0] = 0 /\ Moving(p, "move", i + 1) /\ UNCHANGED disk
  <2>1. PICK c \in CallType :
           /\ Become(p, c) /\ c.pc = "move" /\ c.dir = call[p].dir /\ c.at = i + 1
           /\ Working(c) /\ SeedOf(c)
    BY <1>1, <1>5, <1>9, MovingCall
  <2>2. MoveOf(c)'
    BY <1>1, <1>3, <1>5, <1>7, <1>9, <2>1 DEF MoveOf
  <2>3. UNCHANGED <<durable, crashes>>
    BY <1>8, <1>9 DEF durable
  <2> QED BY <1>2, <1>8, <2>1, <2>2, <2>3, KeptStep
<1>10. CASE Rename(f0, Home, D) /\ Moving(p, "move", i + 1)
  <2>1. PICK c \in CallType :
           /\ Become(p, c) /\ c.pc = "move" /\ c.dir = call[p].dir /\ c.at = i + 1
           /\ Working(c) /\ SeedOf(c)'
    BY <1>1, <1>5, <1>10, MovingCall
  <2>2. /\ disk' \in [Dirs -> [Files -> 0..MaxDatabases]]
        /\ disk'[Home][f0] = 0 /\ disk'[D][f0] = disk[Home][f0]
        /\ \A d \in Dirs, f \in Files :
               (f # f0 \/ d \notin {Home, D}) => disk'[d][f] = disk[d][f]
    BY <1>3, <1>6, <1>10, RenameFacts
  <2>3. disk[D][f0] = 0
    BY <1>7
  <2> HIDE DEF f0
  <2>4. \A j \in 1..4 : /\ j < i + 1 => disk'[Home][DatabaseFiles[j]] = 0
                        /\ j >= i + 1 => disk'[D][DatabaseFiles[j]] = 0
    <3> SUFFICES ASSUME NEW j \in 1..4
                 PROVE  /\ j < i + 1 => disk'[Home][DatabaseFiles[j]] = 0
                        /\ j >= i + 1 => disk'[D][DatabaseFiles[j]] = 0
      OBVIOUS
    <3>1. CASE j = i
      BY <1>5, <2>2, <3>1 DEF f0
    <3>2. CASE j # i
      BY <1>3, <1>5, <1>6, <1>7, <2>2, <3>2
    <3> QED BY <3>1, <3>2
  <2>5. MoveOf(c)'
    BY <1>1, <1>3, <1>5, <2>1, <2>4 DEF MoveOf
  <2> QED BY <1>1, <1>2, <1>3, <1>6, <1>8, <2>1, <2>2, <2>3, <2>5, RenameStep
<1>11. CASE Moving(p, "rollback", i - 1) /\ UNCHANGED disk
  <2>1. PICK c \in CallType :
           /\ Become(p, c) /\ c.pc = "rollback" /\ c.dir = call[p].dir /\ c.at = i - 1
           /\ Working(c) /\ SeedOf(c)
    BY <1>1, <1>5, <1>11, MovingCall
  <2>2. MoveOf(c)'
    BY <1>1, <1>3, <1>5, <1>7, <1>11, <2>1 DEF MoveOf
  <2>3. UNCHANGED <<durable, crashes>>
    BY <1>8, <1>11 DEF durable
  <2> QED BY <1>2, <1>8, <2>1, <2>2, <2>3, KeptStep
<1> QED BY <1>1, <1>3, <1>4, <1>9, <1>10, <1>11 DEF MoveFile

LEMMA MoveBackKeeps ==
    ASSUME StartupInv, NEW p \in Procs, MoveBack(p)
    PROVE  StartupInv'
<1>1. PICK k \in CallType : k = call[p] /\ k.pc = "rollback" /\ MoveOf(k)
  BY CallFacts DEF MoveBack, At
<1>2. Alone(p) /\ Working(call[p])
  BY <1>1, AloneIfBusy DEF Working
<1>3. PICK D \in Dirs : D = k.dir /\ D # Home /\ Home \in Dirs
  BY <1>1, Types DEF MoveOf, CallType
<1>4. PICK i \in 1..4 : i = k.at
  <2>1. k.at \in 0..4 /\ k.at > 0
    BY <1>1 DEF MoveOf, MoveBack
  <2> QED BY <2>1
<1>5. /\ i - 1 \in 0..4 /\ i - 1 \in 0..5
      /\ \A j \in 1..4 : /\ j <= i - 1 => j <= i /\ j # i
                         /\ j > i - 1 => j > i \/ j = i
  OBVIOUS
<1> DEFINE f0 == DatabaseFiles[i]
<1>6. /\ f0 \in Files
      /\ \A j \in 1..4 : DatabaseFiles[j] \in Files /\ (DatabaseFiles[j] = f0 => j = i)
  BY FileFacts
<1>7. \A j \in 1..4 : /\ j <= i => disk[Home][DatabaseFiles[j]] = 0
                      /\ j > i => disk[D][DatabaseFiles[j]] \in split \cup {0}
  BY <1>1, <1>3, <1>4 DEF MoveOf
<1>8. UNCHANGED <<secure, file, databases, used, crashes>>
  BY DEF MoveBack
<1>9. PICK c \in CallType :
         /\ Become(p, c) /\ c.pc = "rollback" /\ c.dir = call[p].dir /\ c.at = i - 1
         /\ Working(c) /\ SeedOf(c) /\ SeedOf(c)'
  BY <1>1, <1>4, <1>5, MovingCall DEF MoveBack, NextBack
<1>10. \/ disk[D][f0] = 0 /\ UNCHANGED <<disk, split>>
       \/ Rename(f0, D, Home) /\ UNCHANGED split
       \/ disk[D][f0] # 0 /\ split' = split \cup {disk[D][f0]} /\ UNCHANGED disk
  BY <1>1, <1>3, <1>4 DEF MoveBack
<1>11. CASE UNCHANGED disk /\ split' \in {split, split \cup {disk[D][f0]}}
            /\ (disk[D][f0] # 0 => disk[D][f0] \in split')
  <2>1. split' \subseteq Databases /\ split \subseteq split'
    <3>1. disk[D][f0] # 0 => disk[D][f0] \in Databases
      BY <1>3, <1>6, Types DEF StartupInv, DiskOK, Databases
    <3>2. split \subseteq Databases
      BY Types
    <3>3. CASE disk[D][f0] # 0
      BY <1>11, <3>1, <3>2, <3>3
    <3>4. CASE disk[D][f0] = 0 /\ split' = split
      BY <3>2, <3>4
    <3> QED BY <1>10, <3>3, <3>4
  <2>2. MoveOf(c)'
    BY <1>1, <1>3, <1>5, <1>7, <1>9, <1>11, <2>1 DEF MoveOf
  <2>3. UNCHANGED <<durable, crashes>>
    BY <1>8, <1>11 DEF durable
  <2> QED BY <1>2, <1>9, <2>1, <2>2, <2>3, KeptStep
<1>12. CASE Rename(f0, D, Home) /\ UNCHANGED split
  <2>1. /\ disk' \in [Dirs -> [Files -> 0..MaxDatabases]]
        /\ disk'[D][f0] = 0 /\ disk'[Home][f0] = disk[D][f0]
        /\ \A d \in Dirs, f \in Files :
               (f # f0 \/ d \notin {D, Home}) => disk'[d][f] = disk[d][f]
    BY <1>3, <1>6, <1>12, RenameFacts
  <2>2. disk[Home][f0] = 0
    BY <1>7
  <2> HIDE DEF f0
  <2>3. \A j \in 1..4 : /\ j <= i - 1 => disk'[Home][DatabaseFiles[j]] = 0
                        /\ j > i - 1 => disk'[D][DatabaseFiles[j]] \in split' \cup {0}
    <3> SUFFICES ASSUME NEW j \in 1..4
                 PROVE  /\ j <= i - 1 => disk'[Home][DatabaseFiles[j]] = 0
                        /\ j > i - 1 => disk'[D][DatabaseFiles[j]] \in split' \cup {0}
      OBVIOUS
    <3>1. CASE j = i
      BY <1>5, <2>1, <3>1 DEF f0
    <3>2. CASE j # i
      BY <1>3, <1>5, <1>6, <1>7, <1>12, <2>1, <3>2
    <3> QED BY <3>1, <3>2
  <2>4. MoveOf(c)'
    BY <1>1, <1>3, <1>5, <1>9, <2>3 DEF MoveOf
  <2> QED BY <1>1, <1>2, <1>3, <1>6, <1>8, <1>9, <1>12, <2>1, <2>2, <2>4, RenameStep
<1> QED BY <1>10, <1>11, <1>12

\* A preservation ends, by itself or with its process, when what is left of a
\* database is in one of its two directories or is reported.
LEMMA EndStep ==
    ASSUME StartupInv, NEW p \in Procs, Alone(p), Bail(p), UNCHANGED durable,
           split \subseteq split', split' \subseteq Databases, crashes' \in 0..MaxCrashes,
           NEW b \in {Home, call[p].dir},
           \A f \in Files : disk[b][f] \in split' \cup {0}
    PROVE  StartupInv'
<1>1. 0 \notin Databases
  BY Types DEF Databases
<1>2. ASSUME NEW n \in Databases \ split', NEW d \in Dirs, NEW e \in Dirs,
             NEW f \in Files, NEW g \in Files, disk[d][f] = n, disk[e][g] = n
      PROVE  d = e
  <2>1. d = e \/ {d, e} \subseteq {Home, call[p].dir}
    BY <1>2, FamilyMoving
  <2>2. d # b /\ e # b
    BY <1>1, <1>2
  <2> QED BY <2>1, <2>2
<1> QED BY <1>2, IdleType, QuietStep DEF Bail

LEMMA MoveDoneKeeps ==
    ASSUME StartupInv, NEW p \in Procs, MoveDone(p)
    PROVE  StartupInv'
<1>1. PICK k \in CallType : k = call[p] /\ k.pc = "move" /\ MoveOf(k)
  BY CallFacts DEF MoveDone, At
<1>2. Alone(p) /\ Bail(p) /\ UNCHANGED <<durable, split, crashes>>
  BY <1>1, AloneIfBusy DEF MoveDone
<1>3. \A j \in 1..4 : disk[Home][DatabaseFiles[j]] = 0
  <2>1. k.at \in 1..5 /\ k.at > 4
    BY <1>1, FileFacts DEF MoveOf, MoveDone
  <2>2. k.at = 5 /\ \A j \in 1..4 : j < 5
    BY <2>1
  <2> QED BY <1>1, <2>2 DEF MoveOf
<1>4. \A f \in Files : disk[Home][f] = 0
  BY <1>3, FileFacts
<1>5. split' \subseteq Databases /\ crashes' \in 0..MaxCrashes
  BY <1>2, Types
<1> QED BY <1>2, <1>4, <1>5, EndStep

LEMMA RollbackDoneKeeps ==
    ASSUME StartupInv, NEW p \in Procs, RollbackDone(p)
    PROVE  StartupInv'
<1>1. PICK k \in CallType : k = call[p] /\ k.pc = "rollback" /\ MoveOf(k) /\ k.at = 0
  BY CallFacts DEF RollbackDone, At
<1>2. Alone(p) /\ Bail(p) /\ UNCHANGED <<durable, split, crashes>>
  BY <1>1, AloneIfBusy DEF RollbackDone
<1>3. \A j \in 1..4 : disk[k.dir][DatabaseFiles[j]] \in split \cup {0}
  BY <1>1 DEF MoveOf
<1>4. \A f \in Files : disk[call[p].dir][f] \in split' \cup {0}
  BY <1>1, <1>2, <1>3, FileFacts
<1>5. split' \subseteq Databases /\ crashes' \in 0..MaxCrashes
  BY <1>2, Types
<1> QED BY <1>2, <1>4, <1>5, EndStep

LEMMA CrashKeeps ==
    ASSUME StartupInv, NEW p \in Procs, Crash(p)
    PROVE  StartupInv'
<1>1. Alone(p) /\ Bail(p) /\ UNCHANGED durable
  BY AloneIfBusy DEF Crash, At
<1>2. crashes' \in 0..MaxCrashes
  BY Types, StartupAssumption DEF Crash
<1>3. CASE Working(call[p])
  <2>1. split' = split \cup ({disk[call[p].dir][f] : f \in Files} \ {0})
    BY <1>3 DEF Crash, Working
  <2>2. call[p].dir \in Dirs
    BY CallFacts DEF CallType
  <2>3. \A f \in Files : disk[call[p].dir][f] # 0 => disk[call[p].dir][f] \in Databases
    BY <2>2, Types DEF StartupInv, DiskOK, Databases
  <2>4. split' \subseteq Databases /\ split \subseteq split'
    BY <2>1, <2>3, Types
  <2>5. \A f \in Files : disk[call[p].dir][f] \in split' \cup {0}
    BY <2>1
  <2> QED BY <1>1, <1>2, <2>4, <2>5, EndStep
<1>4. CASE ~Working(call[p])
  <2>1. split' = split /\ split' \subseteq Databases
    BY <1>4, Types DEF Crash, Working
  <2>2. \A n \in Databases \ split' : \A d, e \in Dirs, f, g \in Files :
            disk[d][f] = n /\ disk[e][g] = n => d = e
    BY <1>1, <1>4, <2>1, FamilyNow
  <2> QED BY <1>1, <1>2, <2>1, <2>2, IdleType, QuietStep DEF Bail
<1> QED BY <1>3, <1>4

-----------------------------------------------------------------------------
(* The invariant.                                                           *)

LEMMA StartupInvInit == Init => StartupInv
<1> SUFFICES ASSUME Init PROVE StartupInv
  OBVIOUS
<1> USE DEF Init
<1>1. /\ Home \in Dirs /\ "db" \in Files /\ Idle \in CallType /\ Len(DatabaseFiles) + 1 = 5
      /\ MaxDatabases \in Nat /\ MaxCrashes \in Nat
  BY IdleType, FileFacts, StartupAssumption DEF Home, Dirs
<1>2. \A d \in Dirs, f \in Files : disk[d][f] = 0
  BY DEF Empty
<1>3. disk \in [Dirs -> [Files -> 0..MaxDatabases]]
  BY <1>1 DEF Empty
<1>4. Databases = {}
  BY DEF Databases
<1>5. \A p \in Procs : call[p] = Idle /\ call[p].pc = "idle" /\ ~Working(call[p])
  BY IdleType
<1>6. StartupTypeOK
  <2>1. call \in [Procs -> CallType]
    BY <1>1
  <2> QED BY <1>1, <1>3, <1>4, <2>1 DEF StartupTypeOK, CallType
<1>7. OneWriter /\ SeedsOK /\ MovesOK
  BY <1>5, IdleType DEF OneWriter, SeedsOK, MovesOK
<1>8. TornOK /\ HomeOK
  BY <1>1, <1>2, <1>5, StartupAssumption DEF TornOK, HomeOK
<1>9. OneSeed /\ DiskOK
  BY <1>2 DEF OneSeed, DiskOK
<1>10. FamilyOK /\ SeedKept /\ DatabasesKept
  BY <1>4 DEF FamilyOK, SeedKept, DatabasesKept
<1> QED BY <1>6, <1>7, <1>8, <1>9, <1>10 DEF StartupInv

LEMMA StartupInvStep == StartupInv /\ [Next]_vars => StartupInv'
<1> SUFFICES ASSUME StartupInv, [Next]_vars PROVE StartupInv'
  OBVIOUS
<1>1. CASE Next
  <2>1. PICK p \in Procs :
          \/ \E profile \in Profiles : Open(p, profile)
          \/ Resolve(p) \/ StoreSecure(p) \/ StoreFile(p) \/ WriteSeedFile(p)
          \/ VerifySeed(p) \/ OpenDatabase(p) \/ RemoveLegacy(p) \/ Fail(p)
          \/ Close(p)
          \/ Preserve(p) \/ MoveFile(p) \/ MoveDone(p) \/ MoveBack(p) \/ RollbackDone(p)
          \/ Crash(p)
    BY <1>1 DEF Next
  <2> QED BY <2>1, OpenKeeps, ResolveKeeps, StoreSecureKeeps, StoreFileKeeps,
             WriteSeedFileKeeps, VerifySeedKeeps, OpenDatabaseKeeps, RemoveLegacyKeeps,
             FailKeeps, CloseKeeps, PreserveKeeps, MoveFileKeeps, MoveDoneKeeps,
             MoveBackKeeps, RollbackDoneKeeps, CrashKeeps
<1>2. CASE UNCHANGED vars
  BY <1>2 DEF vars, durable, StartupInv, StartupTypeOK, OneWriter, SeedsOK, SeedOf, Migrated,
              DatabaseExists, TornOK, HomeOK, Working, Belongs, OneSeed, DiskOK, MovesOK,
              MoveOf, FamilyOK, Together, SeedKept, DatabasesKept, Databases
<1> QED BY <1>1, <1>2

LEMMA StartupInvariant == Spec => []StartupInv
BY StartupInvInit, StartupInvStep, PTL DEF Spec

LEMMA AtMostOne ==
    ASSUME NEW S, \A a, b \in S : a = b
    PROVE  Cardinality(S) <= 1
<1>1. CASE S = {}
  BY <1>1, FS_EmptySet
<1>2. CASE S # {}
  <2>1. PICK a : S = {a}
    BY <1>2
  <2>2. Cardinality({a}) = 1
    BY FS_Singleton
  <2> QED BY <2>1, <2>2
<1> QED BY <1>1, <1>2

\* The directory, the stores and the calls keep their types, and a wallet is
\* built only on a database that was created, however many processes open,
\* migrate, preserve and die (WalletStartup.StartupTypeOK).
THEOREM StartupTypeCorrect == Spec => []StartupTypeOK
<1>1. StartupInv => StartupTypeOK
  BY DEF StartupInv
<1> QED BY <1>1, StartupInvariant, PTL

\* The seed of every wallet ever built stays in the platform's store or in
\* seed.json through every failure and crash of a migration.
THEOREM SeedIsKept == Spec => []SeedKept
<1>1. StartupInv => SeedKept
  BY DEF StartupInv
<1> QED BY <1>1, StartupInvariant, PTL

\* No database is ever used with two seeds.
THEOREM DatabaseHasOneSeed == Spec => []OneSeedPerDatabase
<1>1. StartupInv => OneSeedPerDatabase
  <2> SUFFICES ASSUME StartupInv, NEW n \in Databases PROVE Cardinality(used[n]) <= 1
    BY DEF OneSeedPerDatabase
  <2>1. \A s, t \in used[n] : s = t
    BY Types DEF StartupInv, OneSeed
  <2> QED BY <2>1, AtMostOne
<1> QED BY <1>1, StartupInvariant, PTL

\* No move, rollback, restart or crash overwrites a database: the main file
\* of every one that was created is in some directory.
THEOREM DatabaseIsKept == Spec => []DatabasesKept
<1>1. StartupInv => DatabasesKept
  BY DEF StartupInv
<1> QED BY <1>1, StartupInvariant, PTL

\* Once no preservation is at work, the files of every database are in one
\* directory, those of a cut move or a reported failed rollback excepted.
THEOREM FamilyStaysTogether == Spec => []FamilyTogether
<1>1. StartupInv => FamilyTogether
  <2> SUFFICES ASSUME StartupInv, \A p \in Procs : call[p].pc \notin {"move", "rollback"},
                      NEW n \in Databases \ split
               PROVE  Cardinality({d \in Dirs : \E f \in Files : disk[d][f] = n}) <= 1
    BY DEF FamilyTogether
  <2> DEFINE S == {d \in Dirs : \E f \in Files : disk[d][f] = n}
  <2>1. \A d, e \in S : d = e
    BY DEF StartupInv, FamilyOK, Together, Working
  <2> QED BY <2>1, AtMostOne
<1> QED BY <1>1, StartupInvariant, PTL

=============================================================================
