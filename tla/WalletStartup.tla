--------------------------- MODULE WalletStartup ---------------------------
(***************************************************************************)
(* Opening one wallet directory (wallet/runtime.rs), resolving its seed    *)
(* and moving its database away (wallet/persistence.rs).                   *)
(*                                                                         *)
(* Several processes work on the directory.  Each call is a sequence of    *)
(* file and key-store operations; any of them may fail, which ends the     *)
(* call and drops the writer lock, and the process may die between two of  *)
(* them.  Durable are the platform's secure store, cashu/seed.json and the *)
(* SQLite files, in the wallet directory or in a recovery directory.       *)
(*                                                                         *)
(* A database is known by the number of its creation; a file holds part of *)
(* the database with that number.                                          *)
(***************************************************************************)
EXTENDS Integers, Sequences, FiniteSets

CONSTANTS
    Procs,            \* processes of the application
    Seeds,            \* seeds the generator and a faulty store can produce
    None, Torn,       \* no seed; a seed file whose write did not finish
    MaxDatabases, MaxRecoveryDirs, MaxCrashes

ASSUME StartupAssumption ==
    /\ None \notin Seeds /\ Torn \notin Seeds /\ None # Torn
    /\ MaxDatabases \in Nat /\ MaxRecoveryDirs \in Nat /\ MaxCrashes \in Nat

VARIABLES
    secure,      \* the seed in the caller's CashuWalletSeedStore
    file,        \* cashu/seed.json
    disk,        \* directory -> database file -> number of its database, 0: absent
    databases,   \* databases created so far
    used,        \* for each database, the seeds a wallet was built on it with
    split,       \* databases whose move was cut by a crash or a failed rollback
    call,        \* the call each process is in
    crashes

durable == <<secure, file, disk, databases, used>>
vars == <<durable, split, call, crashes>>

\* cashu_wallet_database_files: the database, then its sidecars, in the order moved.
DatabaseFiles == <<"db", "wal", "shm", "journal">>
Files == {DatabaseFiles[i] : i \in 1..Len(DatabaseFiles)}
Sidecars == {"wal", "shm", "journal"}

Home == 0                                  \* the wallet directory
Dirs == Home..MaxRecoveryDirs
Empty == [f \in Files |-> 0]

DatabaseFileExists == disk[Home]["db"] # 0
DatabaseExists == \E f \in Files : disk[Home][f] # 0

\* The profiles: open_file_backed, whose store is seed.json itself, and
\* open_with_seed_store, which migrates seed.json into the caller's store.
Profiles == {"file", "secure"}

Call(pc, profile, seed, remove, dir, at) ==
    [pc |-> pc, profile |-> profile, seed |-> seed, remove |-> remove,
     dir |-> dir, at |-> at]
Idle == Call("idle", "file", None, FALSE, Home, 0)

Init ==
    /\ secure = None /\ file = None
    /\ disk = [d \in Dirs |-> Empty]
    /\ databases = 0
    /\ used = [n \in 1..MaxDatabases |-> {}]
    /\ split = {}
    /\ call = [p \in Procs |-> Idle]
    /\ crashes = 0

-----------------------------------------------------------------------------
At(p, pc) == call[p].pc = pc
Become(p, c) == call' = [call EXCEPT ![p] = c]
Goto(p, pc) ==
    Become(p, Call(pc, call[p].profile, call[p].seed, call[p].remove, call[p].dir, call[p].at))
Resolved(p, pc, seed, remove) == Become(p, Call(pc, call[p].profile, seed, remove, Home, 0))
Bail(p) == Become(p, Idle)

\* acquire_wallet_writer_lock: held from here to the end of the call, and by an
\* open service until it is dropped.  A busy lock is an error at once.
NoLock(p) == TRUE
LockFree(p) == \A q \in Procs : At(q, "idle")

Open(p, profile) ==
    /\ At(p, "idle") /\ LockFree(p)
    /\ Become(p, Call("load", profile, None, FALSE, Home, 0))
    /\ UNCHANGED <<durable, split, crashes>>

\* Any step of an open may return an error: nothing is undone.
Fail(p) ==
    /\ call[p].pc \in {"load", "store", "write", "verify", "database", "finalize"}
    /\ Bail(p)
    /\ UNCHANGED <<durable, split, crashes>>

\* resolve_wallet_seed: what the store and the legacy file hold.
Stored(p) == IF call[p].profile = "secure" THEN secure ELSE file
Legacy(p) == IF call[p].profile = "secure" THEN file ELSE None

OverDatabase == FALSE
MustHaveSeed == DatabaseExists

Resolve(p) ==
    /\ At(p, "load")
    /\ \/ /\ Torn \in {Stored(p), Legacy(p)}         \* unreadable seed file
          /\ Bail(p)
       \/ /\ Stored(p) \in Seeds /\ Legacy(p) \in Seeds
          /\ IF Stored(p) = Legacy(p) THEN Resolved(p, "database", Stored(p), TRUE)
                                      ELSE Bail(p)
       \/ /\ Stored(p) \in Seeds /\ Legacy(p) = None
          /\ Resolved(p, "database", Stored(p), FALSE)
       \/ /\ Stored(p) = None /\ Legacy(p) \in Seeds
          /\ Resolved(p, "store", Legacy(p), TRUE)
       \/ /\ Stored(p) = None /\ Legacy(p) = None
          /\ \/ MustHaveSeed /\ Bail(p)
             \/ /\ ~MustHaveSeed
                /\ \E s \in Seeds \ ({secure, file} \cup UNION {used[n] : n \in DOMAIN used}) :
                     Resolved(p, "store", s, FALSE)
    /\ UNCHANGED <<durable, split, crashes>>

\* store_seed of a platform store, which may keep other bytes than it was given.
StoreSecure(p) ==
    /\ At(p, "store") /\ call[p].profile = "secure"
    /\ secure' \in Seeds
    /\ Goto(p, "verify")
    /\ UNCHANGED <<file, disk, databases, used, split, crashes>>

\* FileCashuWalletSeedStore::store_seed: another seed is never replaced; the
\* file is created first and written then.
Refuses(p) == file # None /\ file # call[p].seed

StoreFile(p) ==
    /\ At(p, "store") /\ call[p].profile = "file"
    /\ \/ Refuses(p) /\ Bail(p) /\ UNCHANGED file
       \/ ~Refuses(p) /\ file = call[p].seed /\ Goto(p, "verify") /\ UNCHANGED file
       \/ ~Refuses(p) /\ file # call[p].seed /\ Goto(p, "write") /\ file' = Torn
    /\ UNCHANGED <<secure, disk, databases, used, split, crashes>>

WriteSeedFile(p) ==
    /\ At(p, "write")
    /\ file' = call[p].seed
    /\ Goto(p, "verify")
    /\ UNCHANGED <<secure, disk, databases, used, split, crashes>>

\* The seed is loaded again and must be the one stored.
Unverified(p) == TRUE
Verified(p) == Stored(p) = call[p].seed

VerifySeed(p) ==
    /\ At(p, "verify")
    /\ IF Verified(p) THEN Goto(p, "database") ELSE Bail(p)
    /\ UNCHANGED <<durable, split, crashes>>

\* SQLite creates the database when its file is absent, and sidecars beside it.
\* The wallet is then built on it with the resolved seed, or an error returned.
OpenDatabase(p) ==
    /\ At(p, "database")
    /\ DatabaseFileExists \/ databases < MaxDatabases
    /\ LET n == IF DatabaseFileExists THEN disk[Home]["db"] ELSE databases + 1 IN
         /\ databases' = IF DatabaseFileExists THEN databases ELSE n
         /\ \E written \in SUBSET Sidecars :
              disk' = [disk EXCEPT ![Home] =
                         [f \in Files |-> IF f = "db" \/ f \in written THEN n ELSE @[f]]]
         /\ \/ /\ used' = [used EXCEPT ![n] = @ \cup {call[p].seed}]
               /\ Goto(p, "finalize")
            \/ UNCHANGED used /\ Bail(p)
    /\ UNCHANGED <<secure, file, split, crashes>>

\* finalize_legacy_seed_migration, after which the service is open.
RemoveLegacy(p) ==
    /\ At(p, "finalize")
    /\ file' = IF call[p].remove THEN None ELSE file
    /\ Goto(p, "open")
    /\ UNCHANGED <<secure, disk, databases, used, split, crashes>>

\* The service is dropped; SQLite may remove its sidecars.
Close(p) ==
    /\ At(p, "open")
    /\ \E removed \in SUBSET {f \in Sidecars : disk[Home][f] = disk[Home]["db"]} :
         disk' = [disk EXCEPT ![Home] = [f \in Files |-> IF f \in removed THEN 0 ELSE @[f]]]
    /\ Bail(p)
    /\ UNCHANGED <<secure, file, databases, used, split, crashes>>

-----------------------------------------------------------------------------
(* preserve_cashu_wallet_database.  "at" is the place of a file in          *)
(* DatabaseFiles: the next to move, or the next to move back.               *)

\* The recovery directory has a new unique name.
AnyDirectory(d) == TRUE
NewDirectory(d) == disk[d] = Empty

Preserve(p) ==
    /\ At(p, "idle") /\ LockFree(p)
    /\ DatabaseExists                                  \* else nothing to do
    /\ \E d \in Dirs \ {Home} :
         /\ NewDirectory(d)
         /\ Become(p, Call("move", "file", None, FALSE, d, 1))
    /\ UNCHANGED <<durable, split, crashes>>

Rename(f, from, to) ==
    disk' = [disk EXCEPT ![from][f] = 0, ![to][f] = disk[from][f]]
Moving(p, pc, at) == Become(p, Call(pc, "file", None, FALSE, call[p].dir, at))

MoveFile(p) ==
    /\ At(p, "move") /\ call[p].at <= Len(DatabaseFiles)
    /\ LET f == DatabaseFiles[call[p].at] IN
         \/ /\ disk[Home][f] = 0
            /\ Moving(p, "move", call[p].at + 1) /\ UNCHANGED disk
         \/ /\ disk[Home][f] # 0
            /\ Rename(f, Home, call[p].dir)
            /\ Moving(p, "move", call[p].at + 1)
         \/ /\ disk[Home][f] # 0                         \* the rename fails
            /\ Moving(p, "rollback", call[p].at - 1) /\ UNCHANGED disk
    /\ UNCHANGED <<secure, file, databases, used, split, crashes>>

MoveDone(p) ==
    /\ At(p, "move") /\ call[p].at > Len(DatabaseFiles)
    /\ Bail(p)
    /\ UNCHANGED <<durable, split, crashes>>

\* The files already moved are moved back, the last one first; a failure is
\* reported and the rollback goes on.
StopRollback(at) == 0
BackTwo(at) == at - 2
NextBack(at) == at - 1

MoveBack(p) ==
    /\ At(p, "rollback") /\ call[p].at > 0
    /\ LET f == DatabaseFiles[call[p].at]
           n == disk[call[p].dir][f] IN
         /\ Moving(p, "rollback", NextBack(call[p].at))
         /\ \/ n = 0 /\ UNCHANGED <<disk, split>>
            \/ n # 0 /\ Rename(f, call[p].dir, Home) /\ UNCHANGED split
            \/ n # 0 /\ split' = split \cup {n} /\ UNCHANGED disk
    /\ UNCHANGED <<secure, file, databases, used, crashes>>

RollbackDone(p) ==
    /\ At(p, "rollback") /\ call[p].at = 0
    /\ Bail(p)
    /\ UNCHANGED <<durable, split, crashes>>

-----------------------------------------------------------------------------
\* The process dies; the lock goes with it.
Crash(p) ==
    /\ ~At(p, "idle") /\ crashes < MaxCrashes
    /\ Bail(p)
    /\ split' = IF call[p].pc \in {"move", "rollback"}
                THEN split \cup ({disk[call[p].dir][f] : f \in Files} \ {0})
                ELSE split
    /\ crashes' = crashes + 1
    /\ UNCHANGED durable

Next ==
    \E p \in Procs :
        \/ \E profile \in Profiles : Open(p, profile)
        \/ Resolve(p) \/ StoreSecure(p) \/ StoreFile(p) \/ WriteSeedFile(p)
        \/ VerifySeed(p) \/ OpenDatabase(p) \/ RemoveLegacy(p) \/ Fail(p)
        \/ Close(p)
        \/ Preserve(p) \/ MoveFile(p) \/ MoveDone(p) \/ MoveBack(p) \/ RollbackDone(p)
        \/ Crash(p)

Spec == Init /\ [][Next]_vars

-----------------------------------------------------------------------------
(* Properties.                                                              *)

Databases == 1..databases

\* The variables have their types, and a wallet is built only on a database
\* that was created (runtime.rs, open).
StartupTypeOK ==
    /\ secure \in Seeds \cup {None}
    /\ file \in Seeds \cup {None, Torn}
    /\ disk \in [Dirs -> [Files -> 0..MaxDatabases]]
    /\ databases \in 0..MaxDatabases
    /\ used \in [1..MaxDatabases -> SUBSET Seeds]
    /\ \A n \in 1..MaxDatabases : used[n] # {} => n \in Databases
    /\ split \subseteq Databases
    /\ call \in [Procs -> [pc : {"idle", "load", "store", "write", "verify", "database",
                                 "finalize", "open", "move", "rollback"},
                           profile : Profiles, seed : Seeds \cup {None},
                           remove : BOOLEAN, dir : Dirs, at : 0..Len(DatabaseFiles) + 1]]
    /\ crashes \in 0..MaxCrashes

\* The seed a wallet was ever built with is never lost: whatever fails or dies
\* during a migration, one of the two stores still has it (resolve_wallet_seed
\* and finalize_legacy_seed_migration; the README's "removed only after an
\* exact secure-store round trip").
SeedKept ==
    \A n \in Databases : used[n] \subseteq {secure, file}

\* A database is never used with a second seed: its proofs belong to the first
\* (the writer lock, and "startup fails instead of generating a replacement").
OneSeedPerDatabase ==
    \A n \in Databases : Cardinality(used[n]) <= 1

\* The main file of every database ever created still exists somewhere: no
\* move, rollback or restart writes over one ("never silently recreated").
DatabasesKept ==
    \A n \in Databases : \E d \in Dirs : disk[d]["db"] = n

\* When nobody works on the directory, the files of a database are together in
\* one directory, unless a crash cut the move or the failed rollback was
\* reported (preserve_cashu_wallet_database, "moved files are rolled back").
FamilyTogether ==
    (\A p \in Procs : call[p].pc \notin {"move", "rollback"}) =>
        \A n \in Databases \ split :
            Cardinality({d \in Dirs : \E f \in Files : disk[d][f] = n}) <= 1
=============================================================================
