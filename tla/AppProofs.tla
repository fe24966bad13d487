----------------------------- MODULE AppProofs -----------------------------
(***************************************************************************)
(* Proofs about the life of the process: a reload panics only beside a     *)
(* stop that does not hold the lock, the cache feeds one persister at      *)
(* most, the collector is that of the current modules, and a graceful stop *)
(* leaves no message of a receiver behind.                                 *)
(***************************************************************************)
EXTENDS App, FiniteSetTheorems, TLAPS

(***************************************************************************)
(* The invariant.                                                          *)
(***************************************************************************)
Shared == {"persister", "collector"}   \* the fields that both handlers change

\* Where a handler is while it stops one of them.
StopPC == {<<"test", f>> : f \in Shared} \cup {<<"call", f>> : f \in Shared}
          \cup {<<"wait", f, i>> : f \in Shared, i \in Ids}
GracePC == {<<x>> : x \in {"idle", "begin", "lock", "dumpFiles", "dumpStop", "dumpCache", "stuck", "flushTest",
                           "unthrottle", "flush", "unlockDump", "exit", "done"}}
           \cup {<<"stop", f>> : f \in {"listeners", "server", "cache"}} \cup StopPC
ReloadPC == {<<x>> : x \in {"idle", "lock", "start", "newCollector", "sawCache", "sawPersister"}}
            \cup StopPC

PersisterType == [st : {"none", "up", "stopping", "down"}, hold : Nat, throttled : BOOLEAN]
CollectorType == [st : {"none", "up", "down"}, local : BOOLEAN, cache : Ids \cup {0, NilPointer},
                  persister : Ids \cup {0, NilPointer}, data : Nat]

\* Every variable keeps its type.
AppType ==
    /\ pc \in [Signals -> GracePC \cup ReloadPC]
    /\ pc["usr2"] \in GracePC /\ pc["hup"] \in ReloadPC
    /\ app \in [Fields -> Ids \cup {0}] /\ reloads \in 0..MaxReloads /\ config \in Configs
    /\ saw \in [cache : Ids \cup {0, NilPointer}, persister : Ids \cup {0, NilPointer}]
    /\ persister \in [Ids -> PersisterType] /\ collector \in [Ids -> CollectorType]
    /\ input \in [Sources -> Nat] /\ cacheUp \in BOOLEAN /\ dumped \in BOOLEAN /\ looked \in BOOLEAN
    /\ phase \in {"none", "grace", "dump", "all"} /\ lock \in {"free", "usr2", "hup"}

\* Who has the lock: a reload from configure to its end, a stop from the first
\* thing it stops to its end, or to the end of the dump.
LockOK ==
    /\ lock = "hup" <=> pc["hup"][1] \notin {"idle", "lock"}
    /\ lock = "usr2" <=> pc["usr2"][1] \notin {"idle", "begin", "lock", "done"} /\ ~dumped

\* The stop is past the flush.
Stopping == \/ pc["usr2"][1] \in {"test", "call", "wait", "exit", "done"}
            \/ pc["usr2"] = <<"stop", "cache">>
\* The stop is past the cache.
CacheGone == \/ pc["usr2"][1] \in {"exit", "done"}
             \/ pc["usr2"][1] \in {"test", "call", "wait"} /\ pc["usr2"][2] = "collector"
\* The stop is past the listeners.
Deaf == \/ pc["usr2"][1] \in {"flushTest", "unthrottle", "flush", "unlockDump"}
        \/ pc["usr2"] = <<"stop", "server">>

PhaseOK ==
    /\ phase = "none" <=> pc["usr2"][1] \in {"idle", "begin"}
    /\ pc["usr2"] # <<"stuck">> => (phase = "all" <=> Stopping)
    /\ pc["usr2"] = <<"stuck">> => ~dumped /\ ~cacheUp /\ phase \in {"dump", "all"}
    /\ dumped => phase = "all" /\ ~cacheUp
    /\ phase = "dump" => pc["usr2"][1] \in {"lock", "dumpFiles", "dumpStop"} \/ ~cacheUp
    /\ pc["usr2"][1] \in {"dumpFiles", "dumpStop", "dumpCache", "unlockDump"} => phase = "dump"
    /\ app["cache"] = 0 => CacheGone
    /\ CacheGone => ~cacheUp
    /\ Deaf \/ looked => app["listeners"] = 0
    /\ looked => input["receiver"] = 0

\* A stop runs, or has run, that does not exclude a reload.
Unlocked == phase = "all" /\ (dumped \/ pc["usr2"][1] = "done")

\* Without that, what a handler has read of a field is still true.
FieldsOK ==
    ~Unlocked =>
        /\ \A g \in Signals, f \in Shared :
              /\ pc[g] = <<"call", f>> => app[f] # 0
              /\ pc[g][1] = "wait" /\ pc[g][2] = f => app[f] = pc[g][3]
        /\ pc["hup"] = <<"start">> => app["persister"] = 0
        /\ pc["hup"][1] \in {"newCollector", "sawCache", "sawPersister"} => app["collector"] = 0
        /\ pc["hup"][1] \in {"sawCache", "sawPersister"} => saw.cache = app["cache"]
        /\ pc["hup"][1] = "sawPersister" => saw.persister = app["persister"]
        /\ \A c \in Ids : collector[c].cache # NilPointer /\ collector[c].persister # NilPointer

\* While the cache hands out batches, the field has every persister that runs.
PersisterOK ==
    cacheUp => \A i \in Ids : persister[i].st \in {"up", "stopping"} => i = app["persister"]

\* Before a stop, the field has every collector that runs, and that one is current
\* unless a reload is under way.
CollectorOK ==
    phase = "none" =>
        /\ \A i \in Ids : collector[i].st = "up" => i = app["collector"]
        /\ \A i \in Ids : pc["hup"] = <<"wait", "collector", i>> => collector[i].st # "up"
        /\ pc["hup"][1] \in {"idle", "lock"} =>
              /\ app["collector"] # 0
              /\ LET c == collector[app["collector"]] IN
                 /\ c.st = "up" /\ c.local = config.local
                 /\ c.cache = app["cache"] /\ c.persister = app["persister"]

AInv == AppType /\ LockOK /\ PhaseOK /\ FieldsOK /\ PersisterOK /\ CollectorOK /\ PanicsOnlyUnlocked

(***************************************************************************)
(* Control.                                                                *)
(***************************************************************************)
\* A handler goes on.
LEMMA GotoStep ==
    ASSUME AppType, NEW g \in Signals, NEW n, Goto(g, n)
    PROVE  /\ pc'[g] = n /\ \A k \in Signals : k # g => pc'[k] = pc[k]
           /\ (n \in GracePC \cup ReloadPC => pc' \in [Signals -> GracePC \cup ReloadPC])
BY DEF AppType, Goto

\* The handler of USR2 goes on.
LEMMA GraceGoto ==
    ASSUME AppType, NEW n \in GracePC, Goto("usr2", n)
    PROVE  /\ pc'["usr2"] = n /\ pc'["hup"] = pc["hup"]
           /\ pc' \in [Signals -> GracePC \cup ReloadPC]
BY GotoStep DEF Signals

\* The handler of HUP goes on.
LEMMA ReloadGoto ==
    ASSUME AppType, NEW n \in ReloadPC, Goto("hup", n)
    PROVE  /\ pc'["hup"] = n /\ pc'["usr2"] = pc["usr2"]
           /\ pc' \in [Signals -> GracePC \cup ReloadPC]
BY GotoStep DEF Signals

\* USR2 arrives.
LEMMA Usr2Step == ASSUME AInv, Running, Usr2 PROVE AInv'
<1>0. AppType /\ LockOK /\ PhaseOK /\ FieldsOK /\ PersisterOK /\ CollectorOK
  BY DEF AInv
<1>1. /\ pc["usr2"] = <<"idle">> /\ pc'["usr2"] = <<"begin">> /\ pc'["hup"] = pc["hup"]
      /\ pc' \in [Signals -> GracePC \cup ReloadPC] /\ <<"begin">> \in GracePC
      /\ UNCHANGED <<outcome, lock, app, reloads, config, saw, phase, dumped, looked, cacheUp, persister, collector, input>>
  <2>1. <<"begin">> \in GracePC
    BY DEF GracePC, StopPC, Shared
  <2>2. Goto("usr2", <<"begin">>)
    BY DEF Usr2
  <2> QED BY <1>0, <2>1, <2>2, GraceGoto DEF Usr2, Quiet, Rest, progress, objects, channels, counts, stopVars, dataVars
<1>2. AppType'
  BY <1>0, <1>1 DEF AppType
<1>3. LockOK'
  BY <1>0, <1>1 DEF LockOK, PhaseOK, Stopping
<1>4. PhaseOK'
  BY <1>0, <1>1 DEF PhaseOK, Stopping, CacheGone, Deaf, LockOK
<1>5. FieldsOK'
  BY <1>0, <1>1 DEF FieldsOK, Unlocked, LockOK, PhaseOK, CacheGone, Stopping, Signals
<1>6. PersisterOK'
  BY <1>0, <1>1 DEF PersisterOK
<1>7. CollectorOK'
  BY <1>0, <1>1 DEF CollectorOK, PhaseOK
<1>8. PanicsOnlyUnlocked'
  BY <1>0, <1>1 DEF PanicsOnlyUnlocked, Running
<1> QED BY <1>2, <1>3, <1>4, <1>5, <1>6, <1>7, <1>8 DEF AInv

\* GraceStop chooses between flush and dump.
LEMMA GraceStopStep == ASSUME AInv, Running, GraceStop PROVE AInv'
<1>0. AppType /\ LockOK /\ PhaseOK /\ FieldsOK /\ PersisterOK /\ CollectorOK
  BY DEF AInv
<1>1. /\ pc["usr2"] = <<"begin">> /\ pc'["usr2"] = <<"lock">> /\ pc'["hup"] = pc["hup"]
      /\ pc' \in [Signals -> GracePC \cup ReloadPC] /\ <<"lock">> \in GracePC
      /\ phase' \in {"grace", "dump"}
      /\ UNCHANGED <<outcome, lock, app, reloads, config, saw, dumped, looked, cacheUp, persister, collector, input>>
  <2>1. <<"lock">> \in GracePC
    BY DEF GracePC, StopPC, Shared
  <2>2. Goto("usr2", <<"lock">>)
    BY DEF GraceStop
  <2> QED BY <1>0, <2>1, <2>2, GraceGoto DEF GraceStop, Quiet, Rest, progress, objects, channels, counts, stopVars, dataVars
<1>2. AppType'
  BY <1>0, <1>1 DEF AppType
<1>3. LockOK'
  BY <1>0, <1>1 DEF LockOK, PhaseOK, Stopping
<1>4. PhaseOK'
  BY <1>0, <1>1 DEF PhaseOK, Stopping, CacheGone, Deaf, LockOK
<1>5. FieldsOK'
  BY <1>0, <1>1 DEF FieldsOK, Unlocked, LockOK, PhaseOK, CacheGone, Stopping, Signals
<1>6. PersisterOK'
  BY <1>0, <1>1 DEF PersisterOK
<1>7. CollectorOK'
  BY <1>0, <1>1 DEF CollectorOK, PhaseOK
<1>8. PanicsOnlyUnlocked'
  BY <1>0, <1>1 DEF PanicsOnlyUnlocked, Running
<1> QED BY <1>2, <1>3, <1>4, <1>5, <1>6, <1>7, <1>8 DEF AInv

\* The files are created.
LEMMA DumpFilesStep == ASSUME AInv, Running, DumpFiles PROVE AInv'
<1>0. AppType /\ LockOK /\ PhaseOK /\ FieldsOK /\ PersisterOK /\ CollectorOK
  BY DEF AInv
<1>1. /\ pc["usr2"] = <<"dumpFiles">> /\ pc'["usr2"] = <<"dumpStop">> /\ pc'["hup"] = pc["hup"]
      /\ pc' \in [Signals -> GracePC \cup ReloadPC] /\ <<"dumpStop">> \in GracePC
      /\ UNCHANGED <<outcome, lock, app, reloads, config, saw, phase, dumped, looked, cacheUp, persister, collector, input>>
  <2>1. <<"dumpStop">> \in GracePC
    BY DEF GracePC, StopPC, Shared
  <2>2. Goto("usr2", <<"dumpStop">>)
    BY DEF DumpFiles
  <2> QED BY <1>0, <2>1, <2>2, GraceGoto DEF DumpFiles, Quiet, Rest, progress, objects, channels, counts, stopVars, dataVars
<1>2. AppType'
  BY <1>0, <1>1 DEF AppType
<1>3. LockOK'
  BY <1>0, <1>1 DEF LockOK, PhaseOK, Stopping
<1>4. PhaseOK'
  BY <1>0, <1>1 DEF PhaseOK, Stopping, CacheGone, Deaf, LockOK
<1>5. FieldsOK'
  BY <1>0, <1>1 DEF FieldsOK, Unlocked, LockOK, PhaseOK, CacheGone, Stopping, Signals
<1>6. PersisterOK'
  BY <1>0, <1>1 DEF PersisterOK
<1>7. CollectorOK'
  BY <1>0, <1>1 DEF CollectorOK, PhaseOK
<1>8. PanicsOnlyUnlocked'
  BY <1>0, <1>1 DEF PanicsOnlyUnlocked, Running
<1> QED BY <1>2, <1>3, <1>4, <1>5, <1>6, <1>7, <1>8 DEF AInv

\* The cache stops.
LEMMA DumpStopStep == ASSUME AInv, Running, DumpStop PROVE AInv'
<1>0. AppType /\ LockOK /\ PhaseOK /\ FieldsOK /\ PersisterOK /\ CollectorOK
  BY DEF AInv
<1>1. /\ pc["usr2"] = <<"dumpStop">> /\ pc'["usr2"] = <<"dumpCache">> /\ pc'["hup"] = pc["hup"]
      /\ pc' \in [Signals -> GracePC \cup ReloadPC] /\ <<"dumpCache">> \in GracePC
      /\ cacheUp' = FALSE
      /\ UNCHANGED <<outcome, lock, app, reloads, config, saw, phase, dumped, looked, persister, collector, input>>
  <2>1. <<"dumpCache">> \in GracePC
    BY DEF GracePC, StopPC, Shared
  <2>2. Goto("usr2", <<"dumpCache">>)
    BY DEF DumpStop
  <2> QED BY <1>0, <2>1, <2>2, GraceGoto DEF DumpStop, Quiet, Rest, progress, objects, channels, counts, stopVars, dataVars
<1>2. AppType'
  BY <1>0, <1>1 DEF AppType
<1>3. LockOK'
  BY <1>0, <1>1 DEF LockOK, PhaseOK, Stopping
<1>4. PhaseOK'
  BY <1>0, <1>1 DEF PhaseOK, Stopping, CacheGone, Deaf, LockOK
<1>5. FieldsOK'
  BY <1>0, <1>1 DEF FieldsOK, Unlocked, LockOK, PhaseOK, CacheGone, Stopping, Signals
<1>6. PersisterOK'
  BY <1>0, <1>1 DEF PersisterOK
<1>7. CollectorOK'
  BY <1>0, <1>1 DEF CollectorOK, PhaseOK
<1>8. PanicsOnlyUnlocked'
  BY <1>0, <1>1 DEF PanicsOnlyUnlocked, Running
<1> QED BY <1>2, <1>3, <1>4, <1>5, <1>6, <1>7, <1>8 DEF AInv

\* Or its stop never returns.
LEMMA CacheStuckStep == ASSUME AInv, Running, CacheStuck PROVE AInv'
<1>0. AppType /\ LockOK /\ PhaseOK /\ FieldsOK /\ PersisterOK /\ CollectorOK
  BY DEF AInv
<1>1. /\ pc["usr2"] \in {<<"dumpStop">>, <<"stop", "cache">>} /\ pc'["usr2"] = <<"stuck">> /\ pc'["hup"] = pc["hup"]
      /\ pc' \in [Signals -> GracePC \cup ReloadPC] /\ <<"stuck">> \in GracePC
      /\ cacheUp = TRUE /\ cacheUp' = FALSE /\ ~dumped
      /\ UNCHANGED <<outcome, lock, app, reloads, config, saw, phase, dumped, looked, persister, collector, input>>
  <2>1. <<"stuck">> \in GracePC
    BY DEF GracePC, StopPC, Shared
  <2>2. Goto("usr2", <<"stuck">>)
    BY DEF CacheStuck
  <2> QED BY <1>0, <2>1, <2>2, GraceGoto DEF CacheStuck, AppType, PhaseOK, Quiet, Rest, progress, objects, channels, counts, stopVars, dataVars
<1>2. AppType'
  BY <1>0, <1>1 DEF AppType
<1>3. LockOK'
  BY <1>0, <1>1 DEF LockOK, PhaseOK, Stopping
<1>4. PhaseOK'
  BY <1>0, <1>1 DEF PhaseOK, Stopping, CacheGone, Deaf, LockOK
<1>5. FieldsOK'
  BY <1>0, <1>1 DEF FieldsOK, Unlocked, LockOK, PhaseOK, CacheGone, Stopping, Signals
<1>6. PersisterOK'
  BY <1>0, <1>1 DEF PersisterOK
<1>7. CollectorOK'
  BY <1>0, <1>1 DEF CollectorOK, PhaseOK
<1>8. PanicsOnlyUnlocked'
  BY <1>0, <1>1 DEF PanicsOnlyUnlocked, Running
<1> QED BY <1>2, <1>3, <1>4, <1>5, <1>6, <1>7, <1>8 DEF AInv

\* The dump is written.
LEMMA DumpCacheStep == ASSUME AInv, Running, DumpCache PROVE AInv'
<1>0. AppType /\ LockOK /\ PhaseOK /\ FieldsOK /\ PersisterOK /\ CollectorOK
  BY DEF AInv
<1>1. /\ pc["usr2"] = <<"dumpCache">> /\ pc'["usr2"] = <<"stop", "listeners">> /\ pc'["hup"] = pc["hup"]
      /\ pc' \in [Signals -> GracePC \cup ReloadPC] /\ <<"stop", "listeners">> \in GracePC
      /\ UNCHANGED <<outcome, lock, app, reloads, config, saw, phase, dumped, looked, cacheUp, persister, collector, input>>
  <2>1. <<"stop", "listeners">> \in GracePC
    BY DEF GracePC, StopPC, Shared
  <2>2. Goto("usr2", <<"stop", "listeners">>)
    BY DEF DumpCache
  <2> QED BY <1>0, <2>1, <2>2, GraceGoto DEF DumpCache, Quiet, Rest, progress, objects, channels, counts, stopVars, dataVars
<1>2. AppType'
  BY <1>0, <1>1 DEF AppType
<1>3. LockOK'
  BY <1>0, <1>1 DEF LockOK, PhaseOK, Stopping
<1>4. PhaseOK'
  BY <1>0, <1>1 DEF PhaseOK, Stopping, CacheGone, Deaf, LockOK
<1>5. FieldsOK'
  BY <1>0, <1>1 DEF FieldsOK, Unlocked, LockOK, PhaseOK, CacheGone, Stopping, Signals
<1>6. PersisterOK'
  BY <1>0, <1>1 DEF PersisterOK
<1>7. CollectorOK'
  BY <1>0, <1>1 DEF CollectorOK, PhaseOK
<1>8. PanicsOnlyUnlocked'
  BY <1>0, <1>1 DEF PanicsOnlyUnlocked, Running
<1> QED BY <1>2, <1>3, <1>4, <1>5, <1>6, <1>7, <1>8 DEF AInv

\* The dump is over.
LEMMA UnlockDumpStep == ASSUME AInv, Running, UnlockDump PROVE AInv'
<1>0. AppType /\ LockOK /\ PhaseOK /\ FieldsOK /\ PersisterOK /\ CollectorOK
  BY DEF AInv
<1>1. /\ pc["usr2"] = <<"unlockDump">> /\ pc'["usr2"] = <<"test", "persister">> /\ pc'["hup"] = pc["hup"]
      /\ pc' \in [Signals -> GracePC \cup ReloadPC] /\ <<"test", "persister">> \in GracePC
      /\ lock' = "free" /\ dumped' = TRUE /\ phase' = "all"
      /\ UNCHANGED <<outcome, app, reloads, config, saw, looked, cacheUp, persister, collector, input>>
  <2>1. <<"test", "persister">> \in GracePC
    BY DEF GracePC, StopPC, Shared
  <2>2. Goto("usr2", <<"test", "persister">>)
    BY DEF UnlockDump
  <2> QED BY <1>0, <2>1, <2>2, GraceGoto DEF UnlockDump, Quiet, Rest, progress, objects, channels, counts, stopVars, dataVars
<1>2. AppType'
  BY <1>0, <1>1 DEF AppType
<1>3. LockOK'
  BY <1>0, <1>1 DEF LockOK, PhaseOK, Stopping
<1>4. PhaseOK'
  BY <1>0, <1>1 DEF PhaseOK, Stopping, CacheGone, Deaf, LockOK
<1>5. FieldsOK'
  BY <1>0, <1>1 DEF FieldsOK, Unlocked, LockOK, PhaseOK, CacheGone, Stopping, Signals
<1>6. PersisterOK'
  BY <1>0, <1>1 DEF PersisterOK
<1>7. CollectorOK'
  BY <1>0, <1>1 DEF CollectorOK, PhaseOK
<1>8. PanicsOnlyUnlocked'
  BY <1>0, <1>1 DEF PanicsOnlyUnlocked, Running
<1> QED BY <1>2, <1>3, <1>4, <1>5, <1>6, <1>7, <1>8 DEF AInv

\* The stop gets the lock.
LEMMA GraceLockStep == ASSUME AInv, Running, GraceLock PROVE AInv'
<1>0. AppType /\ LockOK /\ PhaseOK /\ FieldsOK /\ PersisterOK /\ CollectorOK
  BY DEF AInv
<1>1. /\ pc["usr2"] = <<"lock">> /\ pc'["hup"] = pc["hup"] /\ pc' \in [Signals -> GracePC \cup ReloadPC]
      /\ pc'["usr2"] \in GracePC
      /\ lock = "free" /\ lock' = "usr2"
      /\ pc'["usr2"] = IF phase = "dump" THEN <<"dumpFiles">> ELSE <<"stop", "listeners">>
      /\ UNCHANGED <<outcome, app, reloads, config, saw, phase, dumped, looked, cacheUp, persister, collector, input>>
  <2>1. <<"dumpFiles">> \in GracePC /\ <<"stop", "listeners">> \in GracePC
    BY DEF GracePC, StopPC, Shared
  <2>2. Goto("usr2", <<"dumpFiles">>) \/ Goto("usr2", <<"stop", "listeners">>)
    BY DEF GraceLock
  <2>3. /\ pc'["usr2"] \in {<<"dumpFiles">>, <<"stop", "listeners">>} /\ pc'["hup"] = pc["hup"]
        /\ pc' \in [Signals -> GracePC \cup ReloadPC]
    BY <1>0, <2>1, <2>2, GraceGoto
  <2> QED BY <1>0, <2>1, <2>3 DEF GraceLock, AppType, Signals, Goto, Quiet, Rest, progress, objects, channels, counts, stopVars, dataVars
<1>2. AppType'
  BY <1>0, <1>1 DEF AppType
<1>3. LockOK'
  BY <1>0, <1>1 DEF LockOK, PhaseOK, Stopping
<1>4. PhaseOK'
  BY <1>0, <1>1 DEF PhaseOK, Stopping, CacheGone, Deaf, LockOK
<1>5. FieldsOK'
  BY <1>0, <1>1 DEF FieldsOK, Unlocked, LockOK, PhaseOK, CacheGone, Stopping, Signals
<1>6. PersisterOK'
  BY <1>0, <1>1 DEF PersisterOK
<1>7. CollectorOK'
  BY <1>0, <1>1 DEF CollectorOK, PhaseOK
<1>8. PanicsOnlyUnlocked'
  BY <1>0, <1>1 DEF PanicsOnlyUnlocked, Running
<1> QED BY <1>2, <1>3, <1>4, <1>5, <1>6, <1>7, <1>8 DEF AInv

\* The input channel is empty.
LEMMA FlushStep == ASSUME AInv, Running, Flush PROVE AInv'
<1>0. AppType /\ LockOK /\ PhaseOK /\ FieldsOK /\ PersisterOK /\ CollectorOK
  BY DEF AInv
<1>1. /\ pc["usr2"] = <<"flush">> /\ pc'["hup"] = pc["hup"] /\ pc' \in [Signals -> GracePC \cup ReloadPC]
      /\ pc'["usr2"] \in GracePC
      /\ input["receiver"] = 0 /\ looked' = TRUE
      /\ \/ phase = "grace" /\ phase' = "all" /\ pc'["usr2"] = <<"test", "persister">>
         \/ phase # "grace" /\ phase' = phase /\ pc'["usr2"] = <<"unlockDump">>
      /\ UNCHANGED <<outcome, lock, app, reloads, config, saw, dumped, cacheUp, persister, collector, input>>
  <2>1. <<"test", "persister">> \in GracePC /\ <<"unlockDump">> \in GracePC
    BY DEF GracePC, StopPC, Shared
  <2>2. Goto("usr2", <<"test", "persister">>) \/ Goto("usr2", <<"unlockDump">>)
    BY DEF Flush, InputLen, Sources
  <2>3. /\ pc'["usr2"] \in {<<"test", "persister">>, <<"unlockDump">>} /\ pc'["hup"] = pc["hup"]
        /\ pc' \in [Signals -> GracePC \cup ReloadPC]
    BY <1>0, <2>1, <2>2, GraceGoto
  <2> QED BY <1>0, <2>1, <2>3 DEF Flush, AppType, Signals, Goto, Quiet, Rest, progress, objects, channels, counts, stopVars, dataVars, InputLen, Sources
<1>2. AppType'
  BY <1>0, <1>1 DEF AppType
<1>3. LockOK'
  BY <1>0, <1>1 DEF LockOK, PhaseOK, Stopping
<1>4. PhaseOK'
  <2>1. CASE phase = "grace"
    BY <1>0, <1>1, <2>1 DEF PhaseOK, Stopping, CacheGone, Deaf
  <2>2. CASE phase # "grace"
    <3>1. phase = "dump"
      BY <1>0, <1>1, <2>2 DEF AppType, PhaseOK, Stopping
    <3> QED BY <1>0, <1>1, <2>2, <3>1 DEF PhaseOK, Stopping, CacheGone, Deaf
  <2> QED BY <2>1, <2>2
<1>5. FieldsOK'
  BY <1>0, <1>1 DEF FieldsOK, Unlocked, LockOK, PhaseOK, CacheGone, Stopping, Signals
<1>6. PersisterOK'
  BY <1>0, <1>1 DEF PersisterOK
<1>7. CollectorOK'
  BY <1>0, <1>1 DEF CollectorOK, PhaseOK
<1>8. PanicsOnlyUnlocked'
  BY <1>0, <1>1 DEF PanicsOnlyUnlocked, Running
<1> QED BY <1>2, <1>3, <1>4, <1>5, <1>6, <1>7, <1>8 DEF AInv

\* The end of GraceStop.
LEMMA CloseExitStep == ASSUME AInv, Running, CloseExit PROVE AInv'
<1>0. AppType /\ LockOK /\ PhaseOK /\ FieldsOK /\ PersisterOK /\ CollectorOK
  BY DEF AInv
<1>1. /\ pc["usr2"] = <<"exit">> /\ pc'["usr2"] = <<"done">> /\ pc'["hup"] = pc["hup"]
      /\ pc' \in [Signals -> GracePC \cup ReloadPC] /\ <<"done">> \in GracePC
      /\ app' \in [Fields -> Ids \cup {0}] /\ app'["listeners"] = app["listeners"] /\ app'["server"] = app["server"] /\ app'["persister"] = app["persister"]
      /\ app'["cache"] = app["cache"] /\ app'["collector"] = app["collector"]
      /\ lock' = IF dumped THEN lock ELSE "free" 
      /\ UNCHANGED <<outcome, reloads, config, saw, phase, dumped, looked, cacheUp, persister, collector, input>>
  <2>1. <<"done">> \in GracePC
    BY DEF GracePC, StopPC, Shared
  <2>2. Goto("usr2", <<"done">>)
    BY DEF CloseExit, AppType, Fields
  <2> QED BY <1>0, <2>1, <2>2, GraceGoto DEF CloseExit, Quiet, Rest, progress, objects, channels, counts, stopVars, dataVars, AppType, Fields
<1>2. AppType'
  BY <1>0, <1>1 DEF AppType
<1>3. LockOK'
  BY <1>0, <1>1 DEF LockOK, PhaseOK, Stopping
<1>4. PhaseOK'
  BY <1>0, <1>1 DEF PhaseOK, Stopping, CacheGone, Deaf, LockOK
<1>5. FieldsOK'
  BY <1>0, <1>1 DEF FieldsOK, Unlocked, LockOK, PhaseOK, CacheGone, Stopping, Signals
<1>6. PersisterOK'
  BY <1>0, <1>1 DEF PersisterOK
<1>7. CollectorOK'
  BY <1>0, <1>1 DEF CollectorOK, PhaseOK
<1>8. PanicsOnlyUnlocked'
  BY <1>0, <1>1 DEF PanicsOnlyUnlocked, Running
<1> QED BY <1>2, <1>3, <1>4, <1>5, <1>6, <1>7, <1>8 DEF AInv

\* Flush or not.
LEMMA FlushTestStep == ASSUME AInv, Running, FlushTest PROVE AInv'
<1>0. AppType /\ LockOK /\ PhaseOK /\ FieldsOK /\ PersisterOK /\ CollectorOK
  BY DEF AInv
<1>1. /\ pc["usr2"] = <<"flushTest">> /\ pc'["hup"] = pc["hup"] /\ pc' \in [Signals -> GracePC \cup ReloadPC]
      /\ pc'["usr2"] \in GracePC
      /\ \/ phase' = "all" /\ pc'["usr2"] = <<"test", "persister">>
         \/ phase' = phase /\ pc'["usr2"] \in {<<"unthrottle">>, <<"flush">>}
      /\ UNCHANGED <<outcome, lock, app, reloads, config, saw, dumped, looked, cacheUp, persister, collector, input>>
  <2>1. <<"test", "persister">> \in GracePC /\ <<"unthrottle">> \in GracePC /\ <<"flush">> \in GracePC
    BY DEF GracePC, StopPC, Shared
  <2>2. \/ phase' = "all" /\ Goto("usr2", <<"test", "persister">>)
        \/ phase' = phase /\ (Goto("usr2", <<"unthrottle">>) \/ Goto("usr2", <<"flush">>))
    BY DEF FlushTest
  <2>3. /\ pc'["hup"] = pc["hup"] /\ pc' \in [Signals -> GracePC \cup ReloadPC]
        /\ \/ phase' = "all" /\ pc'["usr2"] = <<"test", "persister">>
           \/ phase' = phase /\ pc'["usr2"] \in {<<"unthrottle">>, <<"flush">>}
    BY <1>0, <2>1, <2>2, GraceGoto
  <2> QED BY <2>1, <2>3 DEF FlushTest, Quiet, Rest, progress, objects, channels, counts, stopVars, dataVars
<1>2. AppType'
  BY <1>0, <1>1 DEF AppType
<1>3. LockOK'
  BY <1>0, <1>1 DEF LockOK, PhaseOK, Stopping
<1>4. PhaseOK'
  BY <1>0, <1>1 DEF PhaseOK, Stopping, CacheGone, Deaf, LockOK
<1>5. FieldsOK'
  BY <1>0, <1>1 DEF FieldsOK, Unlocked, LockOK, PhaseOK, CacheGone, Stopping, Signals
<1>6. PersisterOK'
  BY <1>0, <1>1 DEF PersisterOK
<1>7. CollectorOK'
  BY <1>0, <1>1 DEF CollectorOK, PhaseOK
<1>8. PanicsOnlyUnlocked'
  BY <1>0, <1>1 DEF PanicsOnlyUnlocked, Running
<1> QED BY <1>2, <1>3, <1>4, <1>5, <1>6, <1>7, <1>8 DEF AInv

\* The persister restarts without a throttle.
LEMMA UnthrottleStep == ASSUME AInv, Running, Unthrottle PROVE AInv'
<1>0. AppType /\ LockOK /\ PhaseOK /\ FieldsOK /\ PersisterOK /\ CollectorOK
  BY DEF AInv
<1>1. /\ pc["usr2"] = <<"unthrottle">> /\ pc'["hup"] = pc["hup"] /\ pc' \in [Signals -> GracePC \cup ReloadPC]
      /\ pc'["usr2"] \in {<<"unthrottle">>, <<"flush">>} /\ pc'["usr2"] \in GracePC
      /\ persister' \in [Ids -> PersisterType]
      /\ \A i \in Ids : i # app["persister"] => persister'[i] = persister[i]
      /\ UNCHANGED <<outcome, lock, app, reloads, config, saw, phase, dumped, looked, cacheUp, collector, input>>
  <2>1. <<"unthrottle">> \in GracePC /\ <<"flush">> \in GracePC
    BY DEF GracePC
  <2>2. pc' = pc \/ Goto("usr2", <<"flush">>)
    BY DEF Unthrottle
  <2>3. /\ pc["usr2"] = <<"unthrottle">> /\ pc'["hup"] = pc["hup"] /\ pc' \in [Signals -> GracePC \cup ReloadPC]
        /\ pc'["usr2"] \in {<<"unthrottle">>, <<"flush">>}
    BY <1>0, <2>1, <2>2, GraceGoto DEF Unthrottle, AppType
  <2>4. PICK i : i = app["persister"]
    OBVIOUS
  <2>5. persister \in [Ids -> PersisterType] /\ NewPersister(FALSE) \in PersisterType
    BY <1>0 DEF AppType, NewPersister, PersisterType
  <2>6. \/ persister' = [persister EXCEPT ![i] = [persister[i] EXCEPT !.st = "stopping"]]
        \/ persister' = [persister EXCEPT ![i] = NewPersister(FALSE)]
    BY <2>4 DEF Unthrottle
  <2>7. \A p \in PersisterType : [p EXCEPT !.st = "stopping"] \in PersisterType
    BY DEF PersisterType
  <2>8. /\ persister' \in [Ids -> PersisterType]
        /\ \A k \in Ids : k # i => persister'[k] = persister[k]
    <3>1. PICK x : (i \in Ids => x \in PersisterType) /\ persister' = [persister EXCEPT ![i] = x]
      BY <2>5, <2>6, <2>7
    <3> QED BY <2>5, <3>1
  <2> QED BY <2>1, <2>3, <2>4, <2>8 DEF Unthrottle, Quiet, Rest, progress, objects, channels, counts, stopVars, dataVars
<1>2. AppType'
  BY <1>0, <1>1 DEF AppType
<1>3. LockOK'
  BY <1>0, <1>1 DEF LockOK, PhaseOK, Stopping
<1>4. PhaseOK'
  BY <1>0, <1>1 DEF PhaseOK, Stopping, CacheGone, Deaf, LockOK
<1>5. FieldsOK'
  BY <1>0, <1>1 DEF FieldsOK, Unlocked, LockOK, PhaseOK, CacheGone, Stopping, Signals
<1>6. PersisterOK'
  BY <1>0, <1>1 DEF PersisterOK
<1>7. CollectorOK'
  BY <1>0, <1>1 DEF CollectorOK, PhaseOK
<1>8. PanicsOnlyUnlocked'
  BY <1>0, <1>1 DEF PanicsOnlyUnlocked, Running
<1> QED BY <1>2, <1>3, <1>4, <1>5, <1>6, <1>7, <1>8 DEF AInv

\* The listeners are gone.
LEMMA ListenersStep == ASSUME AInv, Running, StopOwn("listeners") PROVE AInv'
<1>0. AppType /\ LockOK /\ PhaseOK /\ FieldsOK /\ PersisterOK /\ CollectorOK
  BY DEF AInv
<1>1. /\ pc["usr2"] = <<"stop", "listeners">> /\ pc'["usr2"] = <<"stop", "server">> /\ pc'["hup"] = pc["hup"]
      /\ pc' \in [Signals -> GracePC \cup ReloadPC] /\ <<"stop", "server">> \in GracePC
      /\ app' \in [Fields -> Ids \cup {0}] /\ app'["listeners"] = 0
      /\ app'["server"] = app["server"] /\ app'["persister"] = app["persister"]
      /\ app'["cache"] = app["cache"] /\ app'["collector"] = app["collector"]
      /\ cacheUp' = cacheUp
      /\ UNCHANGED <<outcome, lock, reloads, config, saw, phase, dumped, looked, persister, collector, input>>
  <2>1. <<"stop", "server">> \in GracePC
    BY DEF GracePC, StopPC, Shared
  <2>2. Goto("usr2", <<"stop", "server">>)
    BY DEF StopOwn, After, AppType, Fields
  <2> QED BY <1>0, <2>1, <2>2, GraceGoto DEF StopOwn, Quiet, Rest, progress, objects, channels, counts, stopVars, dataVars, After, AppType, Fields
<1>2. AppType'
  BY <1>0, <1>1 DEF AppType
<1>3. LockOK'
  BY <1>0, <1>1 DEF LockOK, PhaseOK, Stopping
<1>4. PhaseOK'
  BY <1>0, <1>1 DEF PhaseOK, Stopping, CacheGone, Deaf, LockOK
<1>5. FieldsOK'
  BY <1>0, <1>1 DEF FieldsOK, Unlocked, LockOK, PhaseOK, CacheGone, Stopping, Signals
<1>6. PersisterOK'
  BY <1>0, <1>1 DEF PersisterOK
<1>7. CollectorOK'
  BY <1>0, <1>1 DEF CollectorOK, PhaseOK
<1>8. PanicsOnlyUnlocked'
  BY <1>0, <1>1 DEF PanicsOnlyUnlocked, Running
<1> QED BY <1>2, <1>3, <1>4, <1>5, <1>6, <1>7, <1>8 DEF AInv

\* The cache is gone.
LEMMA CacheStep == ASSUME AInv, Running, StopOwn("cache") PROVE AInv'
<1>0. AppType /\ LockOK /\ PhaseOK /\ FieldsOK /\ PersisterOK /\ CollectorOK
  BY DEF AInv
<1>1. /\ pc["usr2"] = <<"stop", "cache">> /\ pc'["usr2"] = <<"test", "collector">> /\ pc'["hup"] = pc["hup"]
      /\ pc' \in [Signals -> GracePC \cup ReloadPC] /\ <<"test", "collector">> \in GracePC
      /\ app' \in [Fields -> Ids \cup {0}] /\ app'["cache"] = 0
      /\ app'["listeners"] = app["listeners"] /\ app'["server"] = app["server"] /\ app'["persister"] = app["persister"]
      /\ app'["collector"] = app["collector"]
      /\ cacheUp' = FALSE
      /\ UNCHANGED <<outcome, lock, reloads, config, saw, phase, dumped, looked, persister, collector, input>>
  <2>1. <<"test", "collector">> \in GracePC
    BY DEF GracePC, StopPC, Shared
  <2>2. Goto("usr2", <<"test", "collector">>)
    BY DEF StopOwn, After, AppType, Fields
  <2> QED BY <1>0, <2>1, <2>2, GraceGoto DEF StopOwn, Quiet, Rest, progress, objects, channels, counts, stopVars, dataVars, After, AppType, Fields
<1>2. AppType'
  BY <1>0, <1>1 DEF AppType
<1>3. LockOK'
  BY <1>0, <1>1 DEF LockOK, PhaseOK, Stopping
<1>4. PhaseOK'
  BY <1>0, <1>1 DEF PhaseOK, Stopping, CacheGone, Deaf, LockOK
<1>5. FieldsOK'
  BY <1>0, <1>1 DEF FieldsOK, Unlocked, LockOK, PhaseOK, CacheGone, Stopping, Signals
<1>6. PersisterOK'
  BY <1>0, <1>1 DEF PersisterOK
<1>7. CollectorOK'
  BY <1>0, <1>1 DEF CollectorOK, PhaseOK
<1>8. PanicsOnlyUnlocked'
  BY <1>0, <1>1 DEF PanicsOnlyUnlocked, Running
<1> QED BY <1>2, <1>3, <1>4, <1>5, <1>6, <1>7, <1>8 DEF AInv

\* carbonserver is gone.
LEMMA ServerStep == ASSUME AInv, Running, StopOwn("server") PROVE AInv'
<1>0. AppType /\ LockOK /\ PhaseOK /\ FieldsOK /\ PersisterOK /\ CollectorOK
  BY DEF AInv
<1>1. /\ pc["usr2"] = <<"stop", "server">> /\ pc'["hup"] = pc["hup"] /\ pc' \in [Signals -> GracePC \cup ReloadPC]
      /\ pc'["usr2"] \in GracePC
      /\ pc'["usr2"] = IF phase = "grace" THEN <<"flushTest">> ELSE <<"flush">>
      /\ app' \in [Fields -> Ids \cup {0}]
      /\ app'["listeners"] = app["listeners"] /\ app'["persister"] = app["persister"]
      /\ app'["cache"] = app["cache"] /\ app'["collector"] = app["collector"]
      /\ UNCHANGED <<outcome, lock, reloads, config, saw, phase, dumped, looked, cacheUp, persister, collector, input>>
  <2>1. <<"flushTest">> \in GracePC /\ <<"flush">> \in GracePC
    BY DEF GracePC, StopPC, Shared
  <2>2. Goto("usr2", <<"flushTest">>) \/ Goto("usr2", <<"flush">>)
    BY DEF StopOwn, After, Fields
  <2>3. /\ pc'["usr2"] \in {<<"flushTest">>, <<"flush">>} /\ pc'["hup"] = pc["hup"]
        /\ pc' \in [Signals -> GracePC \cup ReloadPC]
    BY <1>0, <2>1, <2>2, GraceGoto
  <2> QED BY <1>0, <2>1, <2>3 DEF StopOwn, AppType, Signals, Goto, Quiet, Rest, progress, objects, channels, counts, stopVars, dataVars, After, Fields
<1>2. AppType'
  BY <1>0, <1>1 DEF AppType
<1>3. LockOK'
  BY <1>0, <1>1 DEF LockOK, PhaseOK, Stopping
<1>4. PhaseOK'
  BY <1>0, <1>1 DEF PhaseOK, Stopping, CacheGone, Deaf, LockOK
<1>5. FieldsOK'
  BY <1>0, <1>1 DEF FieldsOK, Unlocked, LockOK, PhaseOK, CacheGone, Stopping, Signals
<1>6. PersisterOK'
  BY <1>0, <1>1 DEF PersisterOK
<1>7. CollectorOK'
  BY <1>0, <1>1 DEF CollectorOK, PhaseOK
<1>8. PanicsOnlyUnlocked'
  BY <1>0, <1>1 DEF PanicsOnlyUnlocked, Running
<1> QED BY <1>2, <1>3, <1>4, <1>5, <1>6, <1>7, <1>8 DEF AInv

(***************************************************************************)
(* The fields that both handlers stop.                                     *)
(***************************************************************************)
\* Where a handler goes after such a field.
Beyond(g, f) == IF f = "persister" THEN IF g = "hup" THEN <<"start">> ELSE <<"stop", "cache">>
                ELSE IF g = "hup" THEN <<"newCollector">> ELSE <<"exit">>

\* Where a handler stands after a field that the handlers share.
LEMMA AfterShared ==
    ASSUME NEW g \in Signals, NEW f \in Shared
    PROVE  /\ After(g, f) = Beyond(g, f)
           /\ g = "usr2" => Beyond(g, f) \in GracePC
           /\ g = "hup" => Beyond(g, f) \in ReloadPC
           /\ f \in Fields
BY DEF After, Beyond, Shared, Signals, GracePC, ReloadPC, Fields

\* A field is compared with nil.
LEMMA GraceTestStep == ASSUME AInv, Running, NEW f \in Shared, Test("usr2", f) PROVE AInv'
<1>0. AppType /\ LockOK /\ PhaseOK /\ FieldsOK /\ PersisterOK /\ CollectorOK
  BY DEF AInv
<1>1. /\ pc'["hup"] = pc["hup"] /\ pc' \in [Signals -> GracePC \cup ReloadPC]
      /\ pc'["usr2"] \in GracePC /\ "usr2" \in Signals
      /\ pc["usr2"] = <<"test", f>>
      /\ pc'["usr2"] = IF app[f] = 0 THEN Beyond("usr2", f) ELSE <<"call", f>>
      /\ UNCHANGED <<outcome, lock, app, reloads, config, saw, phase, dumped, looked, cacheUp, persister, collector, input>>
  <2>1. <<"call", f>> \in GracePC /\ "usr2" \in Signals
    BY DEF GracePC, StopPC, Signals
  <2>2. After("usr2", f) = Beyond("usr2", f) /\ Beyond("usr2", f) \in GracePC
    BY <2>1, AfterShared
  <2>3. PICK n \in GracePC : n = IF app[f] = 0 THEN Beyond("usr2", f) ELSE <<"call", f>>
    BY <2>1, <2>2
  <2>4. Goto("usr2", n)
    BY <2>2, <2>3 DEF Test
  <2>5. pc'["usr2"] = n /\ pc'["hup"] = pc["hup"] /\ pc' \in [Signals -> GracePC \cup ReloadPC]
    BY <1>0, <2>4, GraceGoto
  <2> QED BY <2>1, <2>3, <2>5 DEF Test, Quiet, Rest, progress, objects, channels, counts, stopVars, dataVars
<1>2. AppType'
  BY <1>0, <1>1 DEF AppType
<1>3. LockOK'
  BY <1>0, <1>1 DEF LockOK, PhaseOK, Stopping, Beyond
<1>4. PhaseOK'
  BY <1>0, <1>1 DEF PhaseOK, Stopping, CacheGone, Deaf, Beyond, Shared
<1>5. FieldsOK'
  BY <1>0, <1>1 DEF FieldsOK, Unlocked, LockOK, PhaseOK, CacheGone, Stopping, Signals, Beyond, Shared
<1>6. PersisterOK'
  BY <1>0, <1>1 DEF PersisterOK
<1>7. CollectorOK'
  BY <1>0, <1>1 DEF CollectorOK, PhaseOK, Stopping, Beyond
<1>8. PanicsOnlyUnlocked'
  BY <1>0, <1>1 DEF PanicsOnlyUnlocked, Running
<1> QED BY <1>2, <1>3, <1>4, <1>5, <1>6, <1>7, <1>8 DEF AInv

\* Stop has returned.
LEMMA GraceReturnStep == ASSUME AInv, Running, NEW f \in Shared, StopReturns("usr2", f) PROVE AInv'
<1>0. AppType /\ LockOK /\ PhaseOK /\ FieldsOK /\ PersisterOK /\ CollectorOK
  BY DEF AInv
<1>1. /\ pc'["hup"] = pc["hup"] /\ pc' \in [Signals -> GracePC \cup ReloadPC]
      /\ pc'["usr2"] \in GracePC /\ "usr2" \in Signals
      /\ pc["usr2"][1] = "wait" /\ pc["usr2"][2] = f /\ pc'["usr2"] = Beyond("usr2", f)
      /\ pc["usr2"] = <<"wait", f, pc["usr2"][3]>>
      /\ f = "persister" => persister[pc["usr2"][3]].st = "down"
      /\ app' \in [Fields -> Ids \cup {0}] /\ app'[f] = 0
      /\ \A k \in Fields : k # f => app'[k] = app[k]
      /\ UNCHANGED <<outcome, lock, reloads, config, saw, phase, dumped, looked, cacheUp, persister, collector, input>>
  <2>1. pc["usr2"][1] = "wait" /\ pc["usr2"][2] = f /\ "usr2" \in Signals
    BY DEF StopReturns, Signals
  <2>2. After("usr2", f) = Beyond("usr2", f) /\ Beyond("usr2", f) \in GracePC /\ f \in Fields
    BY <2>1, AfterShared
  <2>3. PICK n \in GracePC : n = Beyond("usr2", f)
    BY <2>2
  <2>4. Goto("usr2", n) /\ app' = [app EXCEPT ![f] = 0]
    BY <2>2, <2>3 DEF StopReturns
  <2>5. pc'["usr2"] = n /\ pc'["hup"] = pc["hup"] /\ pc' \in [Signals -> GracePC \cup ReloadPC]
    BY <1>0, <2>4, GraceGoto
  <2>6. app' \in [Fields -> Ids \cup {0}] /\ app'[f] = 0 /\ \A k \in Fields : k # f => app'[k] = app[k]
    BY <1>0, <2>2, <2>4 DEF AppType
  <2>7. pc["usr2"] = <<"wait", f, pc["usr2"][3]>>
    BY <1>0, <2>1 DEF AppType, GracePC, StopPC
  <2> QED BY <2>1, <2>3, <2>5, <2>6, <2>7 DEF StopReturns, Quiet, Rest, progress, objects, channels, counts, stopVars, dataVars
<1>2. AppType'
  BY <1>0, <1>1 DEF AppType
<1>3. LockOK'
  BY <1>0, <1>1 DEF LockOK, PhaseOK, Stopping, Beyond
<1>4. PhaseOK'
  BY <1>0, <1>1 DEF PhaseOK, Stopping, CacheGone, Deaf, Beyond, Shared, Fields
<1>5. FieldsOK'
  BY <1>0, <1>1 DEF FieldsOK, Unlocked, LockOK, PhaseOK, CacheGone, Stopping, Signals, Beyond, Shared, Fields
<1>6. PersisterOK'
  BY <1>0, <1>1 DEF PersisterOK, FieldsOK, Unlocked, PhaseOK, CacheGone, Shared, Fields, Signals
<1>7. CollectorOK'
  BY <1>0, <1>1 DEF CollectorOK, FieldsOK, Unlocked, PhaseOK, Stopping, Beyond, Shared, Fields, Signals
<1>8. PanicsOnlyUnlocked'
  BY <1>0, <1>1 DEF PanicsOnlyUnlocked, Running
<1> QED BY <1>2, <1>3, <1>4, <1>5, <1>6, <1>7, <1>8 DEF AInv

\* A field is compared with nil.
LEMMA ReloadTestStep == ASSUME AInv, Running, NEW f \in Shared, Test("hup", f) PROVE AInv'
<1>0. AppType /\ LockOK /\ PhaseOK /\ FieldsOK /\ PersisterOK /\ CollectorOK
  BY DEF AInv
<1>1. /\ pc'["usr2"] = pc["usr2"] /\ pc' \in [Signals -> GracePC \cup ReloadPC]
      /\ pc'["hup"] \in ReloadPC /\ "hup" \in Signals
      /\ pc["hup"] = <<"test", f>>
      /\ pc'["hup"] = IF app[f] = 0 THEN Beyond("hup", f) ELSE <<"call", f>>
      /\ UNCHANGED <<outcome, lock, app, reloads, config, saw, phase, dumped, looked, cacheUp, persister, collector, input>>
  <2>1. <<"call", f>> \in ReloadPC /\ "hup" \in Signals
    BY DEF ReloadPC, StopPC, Signals
  <2>2. After("hup", f) = Beyond("hup", f) /\ Beyond("hup", f) \in ReloadPC
    BY <2>1, AfterShared
  <2>3. PICK n \in ReloadPC : n = IF app[f] = 0 THEN Beyond("hup", f) ELSE <<"call", f>>
    BY <2>1, <2>2
  <2>4. Goto("hup", n)
    BY <2>2, <2>3 DEF Test
  <2>5. pc'["hup"] = n /\ pc'["usr2"] = pc["usr2"] /\ pc' \in [Signals -> GracePC \cup ReloadPC]
    BY <1>0, <2>4, ReloadGoto
  <2> QED BY <2>1, <2>3, <2>5 DEF Test, Quiet, Rest, progress, objects, channels, counts, stopVars, dataVars
<1>2. AppType'
  BY <1>0, <1>1 DEF AppType
<1>3. LockOK'
  BY <1>0, <1>1 DEF LockOK, PhaseOK, Stopping, Beyond
<1>4. PhaseOK'
  BY <1>0, <1>1 DEF PhaseOK, Stopping, CacheGone, Deaf, Beyond, Shared
<1>5. FieldsOK'
  BY <1>0, <1>1 DEF FieldsOK, Unlocked, LockOK, PhaseOK, CacheGone, Stopping, Signals, Beyond, Shared
<1>6. PersisterOK'
  BY <1>0, <1>1 DEF PersisterOK
<1>7. CollectorOK'
  BY <1>0, <1>1 DEF CollectorOK, PhaseOK, Stopping, Beyond
<1>8. PanicsOnlyUnlocked'
  BY <1>0, <1>1 DEF PanicsOnlyUnlocked, Running
<1> QED BY <1>2, <1>3, <1>4, <1>5, <1>6, <1>7, <1>8 DEF AInv

\* Stop has returned.
LEMMA ReloadReturnStep == ASSUME AInv, Running, NEW f \in Shared, StopReturns("hup", f) PROVE AInv'
<1>0. AppType /\ LockOK /\ PhaseOK /\ FieldsOK /\ PersisterOK /\ CollectorOK
  BY DEF AInv
<1>1. /\ pc'["usr2"] = pc["usr2"] /\ pc' \in [Signals -> GracePC \cup ReloadPC]
      /\ pc'["hup"] \in ReloadPC /\ "hup" \in Signals
      /\ pc["hup"][1] = "wait" /\ pc["hup"][2] = f /\ pc'["hup"] = Beyond("hup", f)
      /\ pc["hup"] = <<"wait", f, pc["hup"][3]>>
      /\ f = "persister" => persister[pc["hup"][3]].st = "down"
      /\ app' \in [Fields -> Ids \cup {0}] /\ app'[f] = 0
      /\ \A k \in Fields : k # f => app'[k] = app[k]
      /\ UNCHANGED <<outcome, lock, reloads, config, saw, phase, dumped, looked, cacheUp, persister, collector, input>>
  <2>1. pc["hup"][1] = "wait" /\ pc["hup"][2] = f /\ "hup" \in Signals
    BY DEF StopReturns, Signals
  <2>2. After("hup", f) = Beyond("hup", f) /\ Beyond("hup", f) \in ReloadPC /\ f \in Fields
    BY <2>1, AfterShared
  <2>3. PICK n \in ReloadPC : n = Beyond("hup", f)
    BY <2>2
  <2>4. Goto("hup", n) /\ app' = [app EXCEPT ![f] = 0]
    BY <2>2, <2>3 DEF StopReturns
  <2>5. pc'["hup"] = n /\ pc'["usr2"] = pc["usr2"] /\ pc' \in [Signals -> GracePC \cup ReloadPC]
    BY <1>0, <2>4, ReloadGoto
  <2>6. app' \in [Fields -> Ids \cup {0}] /\ app'[f] = 0 /\ \A k \in Fields : k # f => app'[k] = app[k]
    BY <1>0, <2>2, <2>4 DEF AppType
  <2>7. pc["hup"] = <<"wait", f, pc["hup"][3]>>
    BY <1>0, <2>1 DEF AppType, ReloadPC, StopPC
  <2> QED BY <2>1, <2>3, <2>5, <2>6, <2>7 DEF StopReturns, Quiet, Rest, progress, objects, channels, counts, stopVars, dataVars
<1>2. AppType'
  BY <1>0, <1>1 DEF AppType
<1>3. LockOK'
  BY <1>0, <1>1 DEF LockOK, PhaseOK, Stopping, Beyond
<1>4. PhaseOK'
  BY <1>0, <1>1 DEF PhaseOK, Stopping, CacheGone, Deaf, Beyond, Shared, Fields
<1>5. FieldsOK'
  BY <1>0, <1>1 DEF FieldsOK, Unlocked, LockOK, PhaseOK, CacheGone, Stopping, Signals, Beyond, Shared, Fields
<1>6. PersisterOK'
  BY <1>0, <1>1 DEF PersisterOK, FieldsOK, Unlocked, PhaseOK, CacheGone, Shared, Fields, Signals
<1>7. CollectorOK'
  BY <1>0, <1>1 DEF CollectorOK, FieldsOK, Unlocked, PhaseOK, Stopping, Beyond, Shared, Fields, Signals
<1>8. PanicsOnlyUnlocked'
  BY <1>0, <1>1 DEF PanicsOnlyUnlocked, Running
<1> QED BY <1>2, <1>3, <1>4, <1>5, <1>6, <1>7, <1>8 DEF AInv

\* A handler that calls Stop of a nil pointer, or a reload that uses a cache that
\* is gone, is beside a stop without the lock.
LEMMA PanicStep ==
    ASSUME AInv, Panic, Rest, Unlocked
    PROVE  AInv'
<1>1. AppType /\ LockOK /\ PhaseOK /\ FieldsOK /\ PersisterOK /\ CollectorOK
  BY DEF AInv
<1>2. UNCHANGED <<pc, lock, app, reloads, config, saw, phase, dumped, looked, cacheUp, persister,
                  collector, input>>
  BY DEF Panic, Rest, progress, objects, channels
<1>3. AppType' /\ LockOK'
  BY <1>1, <1>2 DEF AppType, LockOK
<1>4. PhaseOK'
  BY <1>1, <1>2 DEF PhaseOK, Stopping, CacheGone, Deaf
<1>5. FieldsOK'
  BY <1>1, <1>2 DEF FieldsOK, Unlocked
<1>6. PersisterOK' /\ CollectorOK'
  BY <1>1, <1>2 DEF PersisterOK, CollectorOK
<1>7. pc["usr2"][1] = "done" => pc["usr2"] = <<"done">>
  BY <1>1 DEF AppType, GracePC, StopPC
<1>8. PanicsOnlyUnlocked'
  BY <1>2, <1>7 DEF Unlocked, PanicsOnlyUnlocked
<1> QED BY <1>3, <1>4, <1>5, <1>6, <1>8 DEF AInv

\* Stop is called.
LEMMA GraceCallStep == ASSUME AInv, Running, NEW f \in Shared, CallStop("usr2", f) PROVE AInv'
<1>0. AppType /\ LockOK /\ PhaseOK /\ FieldsOK /\ PersisterOK /\ CollectorOK
  BY DEF AInv
<1>1. CASE app[f] = 0
  <2>1. pc["usr2"] = <<"call", f>> /\ Panic /\ Rest
    BY <1>1 DEF CallStop
  <2>2. Unlocked
    BY <1>0, <1>1, <2>1 DEF FieldsOK, Signals
  <2> QED BY <2>1, <2>2, PanicStep
<1>2. CASE app[f] # 0
  <2>1. /\ pc'["hup"] = pc["hup"] /\ pc' \in [Signals -> GracePC \cup ReloadPC]
        /\ pc'["usr2"] \in GracePC /\ "usr2" \in Signals
        /\ pc["usr2"] = <<"call", f>> /\ app[f] \in Ids /\ pc'["usr2"] = <<"wait", f, app[f]>>
        /\ persister' \in [Ids -> PersisterType] /\ collector' \in [Ids -> CollectorType]
        /\ \A i \in Ids : \/ persister'[i] = persister[i]
                          \/ persister[i].st = "up" /\ i = app["persister"]
        /\ \A i \in Ids : /\ collector'[i].cache = collector[i].cache
                          /\ collector'[i].persister = collector[i].persister
                          /\ collector'[i].st = IF f = "collector" /\ i = app[f] THEN "down" ELSE collector[i].st
        /\ UNCHANGED <<outcome, lock, app, reloads, config, saw, phase, dumped, looked, cacheUp, input>>
    <3>1. pc["usr2"] = <<"call", f>> /\ "usr2" \in Signals /\ f \in Fields
      BY DEF CallStop, Signals, Shared, Fields
    <3>2. PICK i \in Ids : i = app[f]
      BY <1>0, <1>2, <3>1 DEF AppType
    <3>9. <<"wait", f, i>> \in GracePC
      BY DEF GracePC, StopPC
    <3>3. PICK n \in GracePC : n = <<"wait", f, i>>
      BY <3>9
    <3>4. /\ Goto("usr2", n)
          /\ persister' = IF f = "persister" /\ persister[i].st = "up"
                          THEN [persister EXCEPT ![i].st = "stopping"] ELSE persister
          /\ collector' = IF f = "collector" THEN [collector EXCEPT ![i].st = "down"] ELSE collector
      BY <1>2, <3>2, <3>3 DEF CallStop
    <3>5. pc'["usr2"] = n /\ pc'["hup"] = pc["hup"] /\ pc' \in [Signals -> GracePC \cup ReloadPC]
      BY <1>0, <3>4, GraceGoto
    <3>6. /\ persister' \in [Ids -> PersisterType]
          /\ \A k \in Ids : persister'[k] = persister[k] \/ (persister[k].st = "up" /\ k = i /\ f = "persister")
      BY <1>0, <3>4 DEF AppType, PersisterType
    <3>7. /\ collector' \in [Ids -> CollectorType]
          /\ \A k \in Ids : /\ collector'[k].cache = collector[k].cache
                            /\ collector'[k].persister = collector[k].persister
                            /\ collector'[k].st = IF f = "collector" /\ k = i THEN "down" ELSE collector[k].st
      BY <1>0, <3>4 DEF AppType, CollectorType
    <3>8. UNCHANGED <<outcome, lock, app, reloads, config, saw, phase, dumped, looked, cacheUp, input>>
      BY <1>2, <3>2 DEF CallStop, Quiet, Rest, progress, objects, channels, counts, stopVars, dataVars
    <3>10. \A k \in Ids : \/ persister'[k] = persister[k]
                          \/ persister[k].st = "up" /\ k = app["persister"]
      <4>1. f = "persister" => i = app["persister"]
        BY <3>2, Zenon
      <4> QED BY <3>6, <4>1, Zenon
    <3>11. \A k \in Ids : /\ collector'[k].cache = collector[k].cache
                          /\ collector'[k].persister = collector[k].persister
                          /\ collector'[k].st = IF f = "collector" /\ k = app[f] THEN "down" ELSE collector[k].st
      BY <3>2, <3>7
    <3>12. /\ app[f] \in Ids /\ pc'["usr2"] = <<"wait", f, app[f]>> /\ pc'["usr2"] \in GracePC
      BY <3>2, <3>3, <3>5
    <3> QED BY <3>1, <3>5, <3>6, <3>7, <3>8, <3>10, <3>11, <3>12, Zenon
  <2>2. AppType'
    BY <1>0, <2>1 DEF AppType
  <2>3. LockOK'
    BY <1>0, <2>1 DEF LockOK, PhaseOK, Stopping
  <2>4. PhaseOK'
    BY <1>0, <2>1 DEF PhaseOK, Stopping, CacheGone, Deaf, Shared
  <2>5. FieldsOK'
    BY <1>0, <2>1 DEF FieldsOK, Unlocked, LockOK, PhaseOK, CacheGone, Stopping, Signals, Shared
  <2>6. PersisterOK'
    BY <1>0, <2>1 DEF PersisterOK
  <2>7. CollectorOK'
    BY <1>0, <2>1 DEF CollectorOK, PhaseOK, Stopping, Shared
  <2>8. PanicsOnlyUnlocked'
    BY <1>0, <2>1 DEF PanicsOnlyUnlocked, Running
  <2> QED BY <2>2, <2>3, <2>4, <2>5, <2>6, <2>7, <2>8 DEF AInv
<1> QED BY <1>1, <1>2

\* Stop is called.
LEMMA ReloadCallStep == ASSUME AInv, Running, NEW f \in Shared, CallStop("hup", f) PROVE AInv'
<1>0. AppType /\ LockOK /\ PhaseOK /\ FieldsOK /\ PersisterOK /\ CollectorOK
  BY DEF AInv
<1>1. CASE app[f] = 0
  <2>1. pc["hup"] = <<"call", f>> /\ Panic /\ Rest
    BY <1>1 DEF CallStop
  <2>2. Unlocked
    BY <1>0, <1>1, <2>1 DEF FieldsOK, Signals
  <2> QED BY <2>1, <2>2, PanicStep
<1>2. CASE app[f] # 0
  <2>1. /\ pc'["usr2"] = pc["usr2"] /\ pc' \in [Signals -> GracePC \cup ReloadPC]
        /\ pc'["hup"] \in ReloadPC /\ "hup" \in Signals
        /\ pc["hup"] = <<"call", f>> /\ app[f] \in Ids /\ pc'["hup"] = <<"wait", f, app[f]>>
        /\ persister' \in [Ids -> PersisterType] /\ collector' \in [Ids -> CollectorType]
        /\ \A i \in Ids : \/ persister'[i] = persister[i]
                          \/ persister[i].st = "up" /\ i = app["persister"]
        /\ \A i \in Ids : /\ collector'[i].cache = collector[i].cache
                          /\ collector'[i].persister = collector[i].persister
                          /\ collector'[i].st = IF f = "collector" /\ i = app[f] THEN "down" ELSE collector[i].st
        /\ UNCHANGED <<outcome, lock, app, reloads, config, saw, phase, dumped, looked, cacheUp, input>>
    <3>1. pc["hup"] = <<"call", f>> /\ "hup" \in Signals /\ f \in Fields
      BY DEF CallStop, Signals, Shared, Fields
    <3>2. PICK i \in Ids : i = app[f]
      BY <1>0, <1>2, <3>1 DEF AppType
    <3>9. <<"wait", f, i>> \in ReloadPC
      BY DEF ReloadPC, StopPC
    <3>3. PICK n \in ReloadPC : n = <<"wait", f, i>>
      BY <3>9
    <3>4. /\ Goto("hup", n)
          /\ persister' = IF f = "persister" /\ persister[i].st = "up"
                          THEN [persister EXCEPT ![i].st = "stopping"] ELSE persister
          /\ collector' = IF f = "collector" THEN [collector EXCEPT ![i].st = "down"] ELSE collector
      BY <1>2, <3>2, <3>3 DEF CallStop
    <3>5. pc'["hup"] = n /\ pc'["usr2"] = pc["usr2"] /\ pc' \in [Signals -> GracePC \cup ReloadPC]
      BY <1>0, <3>4, ReloadGoto
    <3>6. /\ persister' \in [Ids -> PersisterType]
          /\ \A k \in Ids : persister'[k] = persister[k] \/ (persister[k].st = "up" /\ k = i /\ f = "persister")
      BY <1>0, <3>4 DEF AppType, PersisterType
    <3>7. /\ collector' \in [Ids -> CollectorType]
          /\ \A k \in Ids : /\ collector'[k].cache = collector[k].cache
                            /\ collector'[k].persister = collector[k].persister
                            /\ collector'[k].st = IF f = "collector" /\ k = i THEN "down" ELSE collector[k].st
      BY <1>0, <3>4 DEF AppType, CollectorType
    <3>8. UNCHANGED <<outcome, lock, app, reloads, config, saw, phase, dumped, looked, cacheUp, input>>
      BY <1>2, <3>2 DEF CallStop, Quiet, Rest, progress, objects, channels, counts, stopVars, dataVars
    <3>10. \A k \in Ids : \/ persister'[k] = persister[k]
                          \/ persister[k].st = "up" /\ k = app["persister"]
      <4>1. f = "persister" => i = app["persister"]
        BY <3>2, Zenon
      <4> QED BY <3>6, <4>1, Zenon
    <3>11. \A k \in Ids : /\ collector'[k].cache = collector[k].cache
                          /\ collector'[k].persister = collector[k].persister
                          /\ collector'[k].st = IF f = "collector" /\ k = app[f] THEN "down" ELSE collector[k].st
      BY <3>2, <3>7
    <3>12. /\ app[f] \in Ids /\ pc'["hup"] = <<"wait", f, app[f]>> /\ pc'["hup"] \in ReloadPC
      BY <3>2, <3>3, <3>5
    <3> QED BY <3>1, <3>5, <3>6, <3>7, <3>8, <3>10, <3>11, <3>12, Zenon
  <2>2. AppType'
    BY <1>0, <2>1 DEF AppType
  <2>3. LockOK'
    BY <1>0, <2>1 DEF LockOK, PhaseOK, Stopping
  <2>4. PhaseOK'
    BY <1>0, <2>1 DEF PhaseOK, Stopping, CacheGone, Deaf, Shared
  <2>5. FieldsOK'
    BY <1>0, <2>1 DEF FieldsOK, Unlocked, LockOK, PhaseOK, CacheGone, Stopping, Signals, Shared
  <2>6. PersisterOK'
    BY <1>0, <2>1 DEF PersisterOK
  <2>7. CollectorOK'
    BY <1>0, <2>1 DEF CollectorOK, PhaseOK, Stopping, Shared
  <2>8. PanicsOnlyUnlocked'
    BY <1>0, <2>1 DEF PanicsOnlyUnlocked, Running
  <2> QED BY <2>2, <2>3, <2>4, <2>5, <2>6, <2>7, <2>8 DEF AInv
<1> QED BY <1>1, <1>2
(***************************************************************************)
(* Reloads.                                                                *)
(***************************************************************************)
\* The number of the object that a reload makes.
LEMMA NewId == ASSUME AppType PROVE reloads + 1 \in Ids
BY AppAssumption DEF AppType, Ids

\* HUP arrives.
LEMMA HupStep == ASSUME AInv, Running, Hup PROVE AInv'
<1>0. AppType /\ LockOK /\ PhaseOK /\ FieldsOK /\ PersisterOK /\ CollectorOK
  BY DEF AInv
<1>1. /\ pc["hup"] = <<"idle">> /\ pc'["hup"] = <<"lock">> /\ pc'["usr2"] = pc["usr2"]
      /\ pc' \in [Signals -> GracePC \cup ReloadPC] /\ <<"lock">> \in ReloadPC
      /\ reloads' \in 0..MaxReloads
      /\ UNCHANGED <<outcome, lock, app, config, saw, phase, dumped, looked, cacheUp, persister, collector, input>>
  <2>1. <<"lock">> \in ReloadPC
    BY DEF ReloadPC
  <2>2. Goto("hup", <<"lock">>)
    BY DEF Hup
  <2>3. reloads' \in 0..MaxReloads
    BY <1>0, AppAssumption DEF Hup, AppType
  <2> QED BY <1>0, <2>1, <2>2, <2>3, ReloadGoto DEF Hup, Quiet, progress, objects, channels
<1>2. AppType'
  BY <1>0, <1>1 DEF AppType
<1>3. LockOK'
  BY <1>0, <1>1 DEF LockOK
<1>4. PhaseOK'
  BY <1>0, <1>1 DEF PhaseOK, Stopping, CacheGone, Deaf
<1>5. FieldsOK'
  BY <1>0, <1>1 DEF FieldsOK, Unlocked, Signals
<1>6. PersisterOK' /\ CollectorOK'
  BY <1>0, <1>1 DEF PersisterOK, CollectorOK
<1>7. PanicsOnlyUnlocked'
  BY <1>1 DEF PanicsOnlyUnlocked, Running
<1> QED BY <1>2, <1>3, <1>4, <1>5, <1>6, <1>7 DEF AInv

\* configure succeeds, and the reload has the lock, or fails.
LEMMA ConfigureStep == ASSUME AInv, Running, Configure PROVE AInv'
<1>0. AppType /\ LockOK /\ PhaseOK /\ FieldsOK /\ PersisterOK /\ CollectorOK
  BY DEF AInv
<1>1. /\ pc["hup"] = <<"lock">> /\ pc'["usr2"] = pc["usr2"] /\ pc'["hup"] \in ReloadPC
      /\ pc' \in [Signals -> GracePC \cup ReloadPC] /\ config' \in Configs /\ lock = "free"
      /\ \/ pc'["hup"] = <<"test", "persister">> /\ lock' = "hup"
         \/ pc'["hup"] = <<"idle">> /\ lock' = lock /\ config' = config
      /\ UNCHANGED <<outcome, app, reloads, saw, phase, dumped, looked, cacheUp, persister, collector, input>>
  <2>1. <<"test", "persister">> \in ReloadPC /\ <<"idle">> \in ReloadPC
    BY DEF ReloadPC, StopPC, Shared
  <2>2. \/ Goto("hup", <<"test", "persister">>) /\ lock' = "hup"
        \/ Goto("hup", <<"idle">>) /\ lock' = lock /\ config' = config
    BY DEF Configure
  <2>3. /\ pc'["usr2"] = pc["usr2"] /\ pc' \in [Signals -> GracePC \cup ReloadPC]
        /\ \/ pc'["hup"] = <<"test", "persister">> /\ lock' = "hup"
           \/ pc'["hup"] = <<"idle">> /\ lock' = lock /\ config' = config
    BY <1>0, <2>1, <2>2, ReloadGoto
  <2>4. pc["hup"] = <<"lock">> /\ config' \in Configs /\ lock = "free"
    BY <1>0 DEF Configure, AppType
  <2>5. UNCHANGED <<outcome, app, reloads, saw, phase, dumped, looked, cacheUp, persister, collector, input>>
    BY DEF Configure, progress, objects, channels
  <2> QED BY <2>1, <2>3, <2>4, <2>5
<1>2. AppType'
  BY <1>0, <1>1 DEF AppType
<1>3. LockOK'
  BY <1>0, <1>1 DEF LockOK
<1>4. PhaseOK'
  BY <1>0, <1>1 DEF PhaseOK, Stopping, CacheGone, Deaf
<1>5. FieldsOK'
  BY <1>0, <1>1 DEF FieldsOK, Unlocked, Signals
<1>6. PersisterOK' /\ CollectorOK'
  BY <1>0, <1>1 DEF PersisterOK, CollectorOK
<1>7. PanicsOnlyUnlocked'
  BY <1>1 DEF PanicsOnlyUnlocked, Running
<1> QED BY <1>2, <1>3, <1>4, <1>5, <1>6, <1>7 DEF AInv

\* The new persister.
LEMMA StartPersisterStep == ASSUME AInv, Running, StartPersister PROVE AInv'
<1>0. AppType /\ LockOK /\ PhaseOK /\ FieldsOK /\ PersisterOK /\ CollectorOK
  BY DEF AInv
<1>1. CASE Panic
  <2>1. pc["hup"] = <<"start">> /\ app["cache"] = 0 /\ Rest
    BY <1>1 DEF StartPersister, Panic, Quiet, Goto, Running
  <2>2. Unlocked
    BY <1>0, <2>1 DEF PhaseOK, LockOK, Unlocked, CacheGone, Stopping
  <2> QED BY <1>1, <2>1, <2>2, PanicStep
<1>2. CASE ~Panic
  <2>1. PICK i \in Ids : i = reloads + 1
    BY <1>0, NewId
  <2>2. NewPersister(config.throttled) \in PersisterType
    BY <1>0, AppAssumption DEF NewPersister, PersisterType, AppType
  <2>3. <<"test", "collector">> \in ReloadPC
    BY DEF ReloadPC, StopPC, Shared
  <2>4. Goto("hup", <<"test", "collector">>)
    BY <1>2 DEF StartPersister
  <2>5. /\ pc'["hup"] = <<"test", "collector">> /\ pc'["usr2"] = pc["usr2"]
        /\ pc' \in [Signals -> GracePC \cup ReloadPC]
    BY <1>0, <2>3, <2>4, ReloadGoto
  <2>6. \/ app' = app /\ persister' = persister
        \/ app' = [app EXCEPT !["persister"] = i]
           /\ persister' = [persister EXCEPT ![i] = NewPersister(config.throttled)]
    BY <1>2, <2>1 DEF StartPersister, Quiet, objects
  <2>7. pc["hup"] = <<"start">>
    BY DEF StartPersister
  <2>8. UNCHANGED <<outcome, lock, reloads, config, saw, phase, dumped, looked, cacheUp, collector, input>>
    BY <1>2 DEF StartPersister, Quiet, Rest, progress, objects, channels
  <2>9. app' \in [Fields -> Ids \cup {0}] /\ persister' \in [Ids -> PersisterType]
    BY <1>0, <2>2, <2>6 DEF AppType
  <2>10. \A f \in Fields : f # "persister" => app'[f] = app[f]
    BY <1>0, <2>6 DEF AppType
  <2>11. AppType'
    BY <1>0, <2>3, <2>5, <2>8, <2>9 DEF AppType
  <2>12. LockOK'
    BY <1>0, <2>5, <2>7, <2>8 DEF LockOK
  <2>13. PhaseOK'
    BY <1>0, <2>5, <2>8, <2>10 DEF PhaseOK, Stopping, CacheGone, Deaf, Fields
  <2>14. FieldsOK'
    BY <1>0, <2>5, <2>7, <2>8, <2>10 DEF FieldsOK, Unlocked, Signals, Shared, Fields, LockOK, PhaseOK, Stopping
  <2>15. PersisterOK'
    <3> SUFFICES ASSUME cacheUp, NEW k \in Ids, persister'[k].st \in {"up", "stopping"}
                 PROVE  k = app'["persister"]
      BY <2>8 DEF PersisterOK
    <3>1. ~Unlocked
      BY <1>0 DEF Unlocked, PhaseOK, CacheGone
    <3>2. app["persister"] = 0
      BY <1>0, <2>7, <3>1 DEF FieldsOK
    <3>3. CASE app' = app /\ persister' = persister
      BY <1>0, <3>3 DEF PersisterOK
    <3>4. CASE app' = [app EXCEPT !["persister"] = i]
               /\ persister' = [persister EXCEPT ![i] = NewPersister(config.throttled)]
      <4>1. app'["persister"] = i
        BY <1>0, <3>4 DEF AppType, Fields
      <4>2. k # i => persister'[k] = persister[k]
        BY <1>0, <3>4 DEF AppType
      <4>3. 0 \notin Ids
        BY DEF Ids
      <4> QED BY <1>0, <3>2, <4>1, <4>2, <4>3 DEF PersisterOK
    <3> QED BY <2>6, <3>3, <3>4
  <2>16. CollectorOK'
    BY <1>0, <2>5, <2>8, <2>10 DEF CollectorOK, Fields
  <2>17. PanicsOnlyUnlocked'
    BY <2>8 DEF PanicsOnlyUnlocked, Running
  <2> QED BY <2>11, <2>12, <2>13, <2>14, <2>15, <2>16, <2>17 DEF AInv
<1> QED BY <1>1, <1>2

\* NewCollector compares the cache with nil ...
LEMMA SeesCacheStep == ASSUME AInv, Running, CollectorSeesCache PROVE AInv'
<1>0. AppType /\ LockOK /\ PhaseOK /\ FieldsOK /\ PersisterOK /\ CollectorOK
  BY DEF AInv
<1>1. /\ pc["hup"] = <<"newCollector">> /\ pc'["hup"] = <<"sawCache">> /\ pc'["usr2"] = pc["usr2"]
      /\ pc' \in [Signals -> GracePC \cup ReloadPC] /\ <<"sawCache">> \in ReloadPC
      /\ saw' \in [cache : Ids \cup {0, NilPointer}, persister : Ids \cup {0, NilPointer}]
      /\ saw'.cache = app["cache"]
      /\ UNCHANGED <<outcome, lock, app, reloads, config, phase, dumped, looked, cacheUp, persister, collector, input>>
  <2>1. <<"sawCache">> \in ReloadPC
    BY DEF ReloadPC
  <2>2. Goto("hup", <<"sawCache">>)
    BY DEF CollectorSeesCache
  <2>3. app["cache"] \in Ids \cup {0}
    BY <1>0 DEF AppType, Fields
  <2>4. /\ saw' \in [cache : Ids \cup {0, NilPointer}, persister : Ids \cup {0, NilPointer}]
        /\ saw'.cache = app["cache"]
    BY <1>0, <2>3 DEF AppType, CollectorSeesCache
  <2> QED BY <1>0, <2>1, <2>2, <2>4, ReloadGoto DEF CollectorSeesCache, Rest, objects, channels
<1>2. AppType'
  BY <1>0, <1>1 DEF AppType
<1>3. LockOK'
  BY <1>0, <1>1 DEF LockOK
<1>4. PhaseOK'
  BY <1>0, <1>1 DEF PhaseOK, Stopping, CacheGone, Deaf
<1>5. FieldsOK'
  BY <1>0, <1>1 DEF FieldsOK, Unlocked, Signals
<1>6. PersisterOK' /\ CollectorOK'
  BY <1>0, <1>1 DEF PersisterOK, CollectorOK
<1>7. PanicsOnlyUnlocked'
  BY <1>1 DEF PanicsOnlyUnlocked, Running
<1> QED BY <1>2, <1>3, <1>4, <1>5, <1>6, <1>7 DEF AInv

\* ... reads it again, and compares the persister ...
LEMMA SeesPersisterStep == ASSUME AInv, Running, CollectorSeesPersister PROVE AInv'
<1>0. AppType /\ LockOK /\ PhaseOK /\ FieldsOK /\ PersisterOK /\ CollectorOK
  BY DEF AInv
<1>1. /\ pc["hup"] = <<"sawCache">> /\ pc'["hup"] = <<"sawPersister">> /\ pc'["usr2"] = pc["usr2"]
      /\ pc' \in [Signals -> GracePC \cup ReloadPC] /\ <<"sawPersister">> \in ReloadPC
      /\ saw' \in [cache : Ids \cup {0, NilPointer}, persister : Ids \cup {0, NilPointer}]
      /\ saw'.cache = Reread("cache", saw.cache) /\ saw'.persister = app["persister"]
      /\ UNCHANGED <<outcome, lock, app, reloads, config, phase, dumped, looked, cacheUp, persister, collector, input>>
  <2>1. <<"sawPersister">> \in ReloadPC
    BY DEF ReloadPC
  <2>2. Goto("hup", <<"sawPersister">>)
    BY DEF CollectorSeesPersister
  <2>3. app["persister"] \in Ids \cup {0} /\ Reread("cache", saw.cache) \in Ids \cup {0, NilPointer}
    BY <1>0 DEF AppType, Fields, Reread
  <2>4. /\ saw' \in [cache : Ids \cup {0, NilPointer}, persister : Ids \cup {0, NilPointer}]
        /\ saw'.cache = Reread("cache", saw.cache) /\ saw'.persister = app["persister"]
    BY <2>3 DEF CollectorSeesPersister
  <2> QED BY <1>0, <2>1, <2>2, <2>4, ReloadGoto DEF CollectorSeesPersister, Rest, objects, channels
<1>2. AppType'
  BY <1>0, <1>1 DEF AppType
<1>3. LockOK'
  BY <1>0, <1>1 DEF LockOK
<1>4. PhaseOK'
  BY <1>0, <1>1 DEF PhaseOK, Stopping, CacheGone, Deaf
<1>5. FieldsOK'
  BY <1>0, <1>1 DEF FieldsOK, Unlocked, Signals, Reread
<1>6. PersisterOK' /\ CollectorOK'
  BY <1>0, <1>1 DEF PersisterOK, CollectorOK
<1>7. PanicsOnlyUnlocked'
  BY <1>1 DEF PanicsOnlyUnlocked, Running
<1> QED BY <1>2, <1>3, <1>4, <1>5, <1>6, <1>7 DEF AInv
\* ... reads it again, and the new collector runs.
LEMMA NewCollectorStep == ASSUME AInv, Running, NewCollector PROVE AInv'
<1>0. AppType /\ LockOK /\ PhaseOK /\ FieldsOK /\ PersisterOK /\ CollectorOK
  BY DEF AInv
<1>1. CASE Panic
  <2>1. pc["hup"] = <<"sawPersister">> /\ app["cache"] = 0 /\ Rest
    BY <1>1 DEF NewCollector, Panic, Running
  <2>2. Unlocked
    BY <1>0, <2>1 DEF PhaseOK, LockOK, Unlocked, CacheGone, Stopping
  <2> QED BY <1>1, <2>1, <2>2, PanicStep
<1>2. CASE ~Panic
  <2>1. PICK i \in Ids : i = reloads + 1
    BY <1>0, NewId
  <2>2. PICK c : c = [NoCollector EXCEPT !.st = "up", !.local = config.local, !.cache = saw.cache,
                                         !.persister = Reread("persister", saw.persister)]
    OBVIOUS
  <2>3. /\ c.st = "up" /\ c.local = config.local /\ c.cache = saw.cache
        /\ c.persister = Reread("persister", saw.persister) /\ c \in CollectorType
    BY <1>0, <2>2, AppAssumption DEF NoCollector, CollectorType, AppType, Reread, Fields
  <2>4. /\ pc["hup"] = <<"sawPersister">> /\ collector' = [collector EXCEPT ![i] = c]
        /\ app' = [app EXCEPT !["collector"] = i] /\ lock' = "free"
        /\ saw' = [cache |-> 0, persister |-> 0]
        /\ Goto("hup", <<"idle">>)
    BY <1>2, <2>1, <2>2 DEF NewCollector
  <2>5. UNCHANGED <<outcome, reloads, config, phase, dumped, looked, cacheUp, persister, input>>
    BY <1>2 DEF NewCollector, Rest, channels
  <2>6. <<"idle">> \in ReloadPC
    BY DEF ReloadPC
  <2>7. /\ pc'["hup"] = <<"idle">> /\ pc'["usr2"] = pc["usr2"]
        /\ pc' \in [Signals -> GracePC \cup ReloadPC]
    BY <1>0, <2>4, <2>6, ReloadGoto
  <2>8. /\ app' \in [Fields -> Ids \cup {0}] /\ app'["collector"] = i
        /\ \A f \in Fields : f # "collector" => app'[f] = app[f]
    BY <1>0, <2>4 DEF AppType, Fields
  <2>9. /\ collector' \in [Ids -> CollectorType] /\ collector'[i] = c
        /\ \A k \in Ids : k # i => collector'[k] = collector[k]
    BY <1>0, <2>3, <2>4 DEF AppType
  <2>10. ~Unlocked => c.cache = app["cache"] /\ c.persister = app["persister"] /\ app["collector"] = 0
    BY <1>0, <2>3, <2>4 DEF FieldsOK, Reread
  <2>11. app["cache"] # NilPointer /\ app["persister"] # NilPointer /\ 0 \notin Ids /\ i # 0
    BY <1>0 DEF AppType, Fields, NilPointer, Ids
  <2>12. AppType'
    BY <1>0, <2>4, <2>5, <2>6, <2>7, <2>8, <2>9 DEF AppType
  <2>13. LockOK'
    BY <1>0, <2>4, <2>5, <2>7 DEF LockOK
  <2>14. PhaseOK'
    BY <1>0, <2>5, <2>7, <2>8 DEF PhaseOK, Stopping, CacheGone, Deaf, Fields
  <2>15. FieldsOK'
    <3>1. ~Unlocked' => ~Unlocked
      BY <2>5, <2>7 DEF Unlocked
    <3>2. ~Unlocked => pc["usr2"][1] \in {"idle", "begin", "lock"}
      BY <1>0, <2>4 DEF LockOK, PhaseOK, Unlocked, Stopping
    <3>3. ~Unlocked => \A k \in Ids : collector'[k].cache # NilPointer /\ collector'[k].persister # NilPointer
      BY <1>0, <2>9, <2>10, <2>11 DEF FieldsOK
    <3> QED BY <2>7, <3>1, <3>2, <3>3 DEF FieldsOK, Signals
  <2>16. PersisterOK'
    BY <1>0, <2>5, <2>8 DEF PersisterOK, Fields
  <2>17. CollectorOK'
    <3> SUFFICES ASSUME phase = "none" PROVE CollectorOK'
      BY <2>5 DEF CollectorOK
    <3>1. ~Unlocked
      BY DEF Unlocked
    <3>2. \A k \in Ids : collector'[k].st = "up" => k = app'["collector"]
      BY <1>0, <2>8, <2>9, <2>10, <2>11, <3>1 DEF CollectorOK
    <3>3. /\ app'["collector"] # 0 /\ collector'[app'["collector"]] = c
          /\ app'["cache"] = app["cache"] /\ app'["persister"] = app["persister"]
      BY <2>8, <2>9, <2>11 DEF Fields
    <3> QED BY <2>3, <2>5, <2>7, <2>10, <3>1, <3>2, <3>3 DEF CollectorOK
  <2>18. PanicsOnlyUnlocked'
    BY <2>5 DEF PanicsOnlyUnlocked, Running
  <2> QED BY <2>12, <2>13, <2>14, <2>15, <2>16, <2>17, <2>18 DEF AInv
<1> QED BY <1>1, <1>2

(***************************************************************************)
(* The goroutines around the handlers.                                     *)
(***************************************************************************)
\* What leaves the fields, the lock and the handlers alone, runs no other persister
\* or collector, and puts nothing of a receiver into the channel once the listeners
\* are gone.
LEMMA AsideStep ==
    ASSUME AInv, AppType',
           UNCHANGED <<lock, app, reloads, config, saw, phase, dumped, looked, cacheUp, pc>>,
           \A i \in Ids : persister'[i].st \in {"up", "stopping"} => persister[i].st \in {"up", "stopping"},
           \A i \in Ids : /\ collector'[i].st = collector[i].st /\ collector'[i].local = collector[i].local
                          /\ collector'[i].cache = collector[i].cache
                          /\ collector'[i].persister = collector[i].persister,
           app["listeners"] = 0 /\ input["receiver"] = 0 => input'["receiver"] = 0,
           outcome' = "panic" => outcome = "panic" \/ Unlocked
    PROVE  AInv'
<1>0. AppType /\ LockOK /\ PhaseOK /\ FieldsOK /\ PersisterOK /\ CollectorOK /\ PanicsOnlyUnlocked
  BY DEF AInv
<1>1. LockOK'
  BY <1>0 DEF LockOK
<1>2. PhaseOK'
  BY <1>0 DEF PhaseOK, Stopping, CacheGone, Deaf
<1>3. FieldsOK'
  BY <1>0 DEF FieldsOK, Unlocked
<1>4. PersisterOK'
  BY <1>0 DEF PersisterOK
<1>5. CollectorOK'
  <2> SUFFICES ASSUME phase = "none" PROVE CollectorOK'
    BY DEF CollectorOK
  <2>1. app["collector"] # 0 => app["collector"] \in Ids
    BY <1>0 DEF AppType, Fields
  <2> QED BY <1>0, <2>1 DEF CollectorOK
<1>6. pc["usr2"][1] = "done" => pc["usr2"] = <<"done">>
  BY <1>0 DEF AppType, GracePC, StopPC
<1>7. PanicsOnlyUnlocked'
  BY <1>0, <1>6 DEF PanicsOnlyUnlocked, Unlocked
<1> QED BY <1>1, <1>2, <1>3, <1>4, <1>5, <1>7 DEF AInv

\* Input and output of the cache, the scans, main, and a failed dump.
LEMMA ChannelStep ==
    ASSUME AInv, Running,
           \/ DumpFails \/ Receive \/ RestoreLine \/ XlogReceive \/ Scan \/ Loop \/ CacheReceive
           \/ Confirmed \/ UNCHANGED vars
    PROVE  AInv'
<1> USE DEF stopVars, dataVars, objects, channels, counts, progress
<1>0. AppType
  BY DEF AInv
<1>1. UNCHANGED <<lock, app, reloads, config, saw, phase, dumped, looked, cacheUp, pc, persister, collector>>
  BY DEF DumpFails, Receive, RestoreLine, XlogReceive, Scan, Loop, LoopRead, LoopEval, LoopReceive,
         CacheReceive, Confirmed, vars, Rest
<1>2. outcome' # "panic"
  BY DEF DumpFails, Receive, RestoreLine, XlogReceive, Scan, Loop, LoopRead, LoopEval, LoopReceive,
         CacheReceive, Confirmed, vars, Rest, Running
<1>3. /\ input' \in [Sources -> Nat]
      /\ app["listeners"] = 0 /\ input["receiver"] = 0 => input'["receiver"] = 0
  <2>1. CASE input' = input
    BY <1>0, <2>1 DEF AppType
  <2>2. CASE Receive
    BY <1>0, <2>2 DEF AppType, Receive, Put, Sources
  <2>3. CASE RestoreLine
    BY <1>0, <2>3 DEF AppType, RestoreLine, Put, Sources
  <2>4. CASE \E s \in Sources : input[s] > 0 /\ input' = [input EXCEPT ![s] = @ - 1]
    BY <1>0, <2>4 DEF AppType, Sources
  <2> QED BY <2>1, <2>2, <2>3, <2>4 DEF DumpFails, XlogReceive, Scan, Loop, LoopRead, LoopEval,
             LoopReceive, CacheReceive, Confirmed, vars, Rest
<1>4. AppType'
  BY <1>0, <1>1, <1>3 DEF AppType
<1> QED BY <1>1, <1>2, <1>3, <1>4, AsideStep

\* A batch on its way through a persister, and the end of one.
LEMMA PersisterSideStep ==
    ASSUME AInv, Running, NEW i \in Ids, Take(i) \/ Store(i) \/ PersisterEnds(i)
    PROVE  AInv'
<1> USE DEF stopVars, dataVars, objects, channels, counts, progress
<1>0. AppType /\ persister \in [Ids -> PersisterType] /\ persister[i] \in PersisterType
  BY DEF AInv, AppType
<1>1. UNCHANGED <<outcome, lock, app, reloads, config, saw, phase, dumped, looked, cacheUp, pc, collector, input>>
  BY DEF Take, Store, PersisterEnds
<1>2. PICK p : /\ p \in PersisterType /\ (p.st = persister[i].st \/ p.st = "down")
               /\ persister' = [persister EXCEPT ![i] = p]
  <2>1. CASE Take(i)
    <3>1. /\ persister' = [persister EXCEPT ![i] = [persister[i] EXCEPT !.hold = @ + 1]]
      BY <2>1 DEF Take
    <3>2. [persister[i] EXCEPT !.hold = @ + 1] \in PersisterType
      BY <1>0 DEF PersisterType
    <3>3. [persister[i] EXCEPT !.hold = @ + 1].st = persister[i].st
      BY <1>0 DEF PersisterType
    <3> QED BY <3>1, <3>2, <3>3
  <2>2. CASE Store(i)
    <3>1. persister[i].hold > 0 /\ persister' = [persister EXCEPT ![i] = [persister[i] EXCEPT !.hold = @ - 1]]
      BY <2>2 DEF Store
    <3>2. [persister[i] EXCEPT !.hold = @ - 1] \in PersisterType
      BY <1>0, <3>1 DEF PersisterType
    <3>3. [persister[i] EXCEPT !.hold = @ - 1].st = persister[i].st
      BY <1>0 DEF PersisterType
    <3> QED BY <3>1, <3>2, <3>3
  <2>3. CASE PersisterEnds(i)
    <3>1. persister' = [persister EXCEPT ![i] = [persister[i] EXCEPT !.st = "down"]]
      BY <2>3 DEF PersisterEnds
    <3>2. [persister[i] EXCEPT !.st = "down"] \in PersisterType
      BY <1>0 DEF PersisterType
    <3>3. [persister[i] EXCEPT !.st = "down"].st = "down"
      BY <1>0 DEF PersisterType
    <3> QED BY <3>1, <3>2, <3>3
  <2> QED BY <2>1, <2>2, <2>3
<1>3. /\ persister' \in [Ids -> PersisterType]
      /\ \A k \in Ids : persister'[k].st \in {"up", "stopping"} => persister[k].st \in {"up", "stopping"}
  BY <1>0, <1>2
<1>4. AppType'
  BY <1>0, <1>1, <1>3 DEF AppType
<1> QED BY <1>1, <1>3, <1>4, AsideStep DEF Running

\* A value on its way through a collector.
LEMMA CollectorSideStep ==
    ASSUME AInv, Running, NEW c \in Ids, Collect(c) \/ Send(c)
    PROVE  AInv'
<1> USE DEF stopVars, dataVars, objects, channels, counts, progress
<1>0. AppType /\ collector \in [Ids -> CollectorType] /\ collector[c] \in CollectorType /\ FieldsOK
  BY DEF AInv, AppType
<1>1. UNCHANGED <<lock, app, reloads, config, saw, phase, dumped, looked, cacheUp, pc, persister>>
  BY DEF Collect, Send
<1>2. collector' = collector
      \/ \E d \in Nat : collector' = [collector EXCEPT ![c] = [collector[c] EXCEPT !.data = d]]
  <2>1. collector[c].data \in Nat
    BY <1>0 DEF CollectorType
  <2>2. CASE Collect(c)
    <3>1. collector' = collector
          \/ collector' = [collector EXCEPT ![c].data = IF @ < DataCap THEN @ + 1 ELSE @]
      BY <2>2 DEF Collect
    <3>2. PICK d \in Nat : d = IF collector[c].data < DataCap THEN collector[c].data + 1 ELSE collector[c].data
      BY <2>1
    <3>3. collector' = collector \/ collector' = [collector EXCEPT ![c] = [collector[c] EXCEPT !.data = d]]
      BY <3>1, <3>2
    <3> QED BY <3>3
  <2>3. CASE Send(c)
    <3>1. collector[c].data > 0 /\ collector' = [collector EXCEPT ![c].data = @ - 1]
      BY <2>3 DEF Send
    <3>2. PICK d \in Nat : d = collector[c].data - 1
      BY <2>1, <3>1
    <3>3. collector' = [collector EXCEPT ![c] = [collector[c] EXCEPT !.data = d]]
      BY <3>1, <3>2
    <3> QED BY <3>3
  <2> QED BY <2>2, <2>3
<1>3. /\ collector' \in [Ids -> CollectorType]
      /\ \A k \in Ids : /\ collector'[k].st = collector[k].st /\ collector'[k].local = collector[k].local
                        /\ collector'[k].cache = collector[k].cache
                        /\ collector'[k].persister = collector[k].persister
  <2>1. CASE collector' = collector
    BY <1>0, <2>1
  <2>2. ASSUME NEW d \in Nat, collector' = [collector EXCEPT ![c] = [collector[c] EXCEPT !.data = d]]
        PROVE  <1>3!1 /\ <1>3!2
    <3>1. PICK q : q = [collector[c] EXCEPT !.data = d]
      OBVIOUS
    <3>2. /\ q \in CollectorType /\ q.st = collector[c].st /\ q.local = collector[c].local
          /\ q.cache = collector[c].cache /\ q.persister = collector[c].persister
      BY <1>0, <3>1 DEF CollectorType
    <3>3. collector' = [collector EXCEPT ![c] = q]
      BY <2>2, <3>1
    <3> QED BY <1>0, <3>2, <3>3
  <2> QED BY <1>2, <2>1, <2>2
<1>4. /\ input' \in [Sources -> Nat] /\ (input["receiver"] = 0 => input'["receiver"] = 0)
  BY <1>0 DEF AppType, Collect, Send, Put, Sources
<1>5. AppType'
  BY <1>0, <1>1, <1>3, <1>4 DEF AppType
<1>6. outcome' = "panic" => Unlocked
  <2>1. outcome' = "panic" => NilPointer \in {collector[c].cache, collector[c].persister}
    BY DEF Collect, Send, Running
  <2> QED BY <1>0, <2>1 DEF FieldsOK
<1> QED BY <1>1, <1>3, <1>4, <1>5, <1>6, AsideStep
(***************************************************************************)
(* The theorems.                                                           *)
(***************************************************************************)
\* The invariant holds when Start has returned.
LEMMA AppInit == ASSUME Init PROVE AInv
<1> USE DEF Init
<1>0. 1 \in Ids /\ 0 \notin Ids /\ NilPointer \notin Ids /\ NilPointer # 0
  BY AppAssumption DEF Ids, NilPointer
<1>1. /\ pc["usr2"] = <<"idle">> /\ pc["hup"] = <<"idle">> /\ pc \in [Signals -> GracePC \cup ReloadPC]
      /\ <<"idle">> \in GracePC /\ <<"idle">> \in ReloadPC
  BY DEF Signals, GracePC, ReloadPC
<1>2. /\ app \in [Fields -> Ids \cup {0}] /\ app["cache"] = 1 /\ app["collector"] = 1
      /\ app["listeners"] = 1 /\ app["persister"] \in {0, 1}
  BY <1>0 DEF Fields
<1>3. /\ config.throttled \in BOOLEAN /\ config.local \in BOOLEAN /\ config \in Configs
      /\ reloads \in 0..MaxReloads
  BY AppAssumption
<1>4. /\ persister \in [Ids -> PersisterType]
      /\ \A i \in Ids : persister[i].st \in {"up", "stopping"} => i = app["persister"]
  <2>1. NewPersister(config.throttled) \in PersisterType /\ NoPersister \in PersisterType
    BY <1>3 DEF NewPersister, NoPersister, PersisterType
  <2>2. NoPersister.st = "none"
    BY DEF NoPersister
  <2> QED BY <2>1, <2>2
<1>5. PICK c : c = [NoCollector EXCEPT !.st = "up", !.local = config.local, !.cache = 1,
                                       !.persister = app["persister"]]
  OBVIOUS
<1>6. /\ c \in CollectorType /\ c.st = "up" /\ c.local = config.local /\ c.cache = 1
      /\ c.persister = app["persister"]
  BY <1>0, <1>2, <1>3, <1>5 DEF NoCollector, CollectorType
<1>7. /\ NoCollector \in CollectorType /\ NoCollector.st = "none" /\ NoCollector.cache = 0
      /\ NoCollector.persister = 0
  BY DEF NoCollector, CollectorType
<1>8. collector = [i \in Ids |-> IF i = 1 THEN c ELSE NoCollector]
  BY <1>5
<1>9. AppType
  <2>1. collector \in [Ids -> CollectorType]
    BY <1>6, <1>7, <1>8
  <2>2. saw \in [cache : Ids \cup {0, NilPointer}, persister : Ids \cup {0, NilPointer}]
    OBVIOUS
  <2>3. input \in [Sources -> Nat]
    OBVIOUS
  <2> QED BY <1>1, <1>2, <1>3, <1>4, <2>1, <2>2, <2>3 DEF AppType
<1>10. LockOK /\ PhaseOK
  BY <1>1, <1>2 DEF LockOK, PhaseOK, Stopping, CacheGone, Deaf
<1>11. FieldsOK
  <2>1. \A i \in Ids : collector[i].cache # NilPointer /\ collector[i].persister # NilPointer
    BY <1>0, <1>2, <1>6, <1>7, <1>8
  <2> QED BY <1>1, <2>1 DEF FieldsOK, Signals
<1>12. PersisterOK
  BY <1>4 DEF PersisterOK
<1>13. CollectorOK
  <2>1. \A i \in Ids : collector[i].st = "up" => i = app["collector"]
    BY <1>2, <1>7, <1>8
  <2>2. collector[app["collector"]] = c
    BY <1>0, <1>2, <1>8
  <2> QED BY <1>1, <1>2, <1>6, <2>1, <2>2 DEF CollectorOK
<1> QED BY <1>9, <1>10, <1>11, <1>12, <1>13 DEF AInv, PanicsOnlyUnlocked

\* Every step of every goroutine keeps it.
LEMMA AppStep == ASSUME AInv, [Next]_vars PROVE AInv'
<1>1. CASE UNCHANGED vars
  <2>1. AppType /\ UNCHANGED <<outcome, lock, app, reloads, config, saw, phase, dumped, looked, cacheUp,
                               pc, persister, collector, input>>
    BY <1>1 DEF AInv, vars, stopVars, dataVars, objects, channels, progress
  <2>2. AppType'
    BY <2>1 DEF AppType
  <2> QED BY <2>1, <2>2, AsideStep
<1>2. CASE Next
  <2>1. Running
    BY <1>2 DEF Next
  <2>2. ASSUME NEW g \in Signals, StopField(g) PROVE AInv'
    <3>1. PICK f \in Shared : Test(g, f) \/ CallStop(g, f) \/ StopReturns(g, f)
      BY <2>2 DEF StopField, Shared
    <3>2. CASE g = "usr2"
      BY <2>1, <3>1, <3>2, GraceTestStep, GraceCallStep, GraceReturnStep
    <3>3. CASE g = "hup"
      BY <2>1, <3>1, <3>3, ReloadTestStep, ReloadCallStep, ReloadReturnStep
    <3> QED BY <3>2, <3>3 DEF Signals
  <2>3. CASE GraceStopping
    BY <2>1, <2>3, ListenersStep, ServerStep, CacheStep, GraceStopStep, GraceLockStep, FlushTestStep,
       UnthrottleStep, FlushStep, DumpFilesStep, DumpStopStep, DumpCacheStep, UnlockDumpStep, CloseExitStep
       DEF GraceStopping
  <2>4. CASE Reloading
    BY <2>1, <2>4, ConfigureStep, StartPersisterStep, SeesCacheStep, SeesPersisterStep, NewCollectorStep
       DEF Reloading
  <2>5. CASE Usr2 \/ Hup \/ CacheStuck
    BY <2>1, <2>5, Usr2Step, HupStep, CacheStuckStep
  <2>6. CASE DumpFails \/ Receive \/ RestoreLine \/ XlogReceive \/ Scan \/ Loop \/ CacheReceive \/ Confirmed
    BY <2>1, <2>6, ChannelStep
  <2>7. CASE PersisterSide
    BY <2>1, <2>7, PersisterSideStep DEF PersisterSide
  <2>8. CASE \E c \in Ids : Collect(c) \/ Send(c)
    BY <2>1, <2>8, CollectorSideStep
  <2> QED BY <1>2, <2>2, <2>3, <2>4, <2>5, <2>6, <2>7, <2>8 DEF Next
<1> QED BY <1>1, <1>2

\* The invariant holds throughout, for any number of reloads, any configurations and
\* any capacity of the channels.
THEOREM AppInvariance == Spec => []AInv
<1>1. Init => AInv
  BY AppInit
<1>2. AInv /\ [Next]_vars => AInv'
  BY AppStep
<1> QED BY <1>1, <1>2, PTL DEF Spec

\* A reload, a stop or a collector panics only beside, or after, a stop that does not
\* hold the lock.
THEOREM LockedHandlersDoNotPanic == Spec => []PanicsOnlyUnlocked
<1>1. AInv => PanicsOnlyUnlocked
  BY DEF AInv
<1> QED BY <1>1, AppInvariance, PTL

\* The cache never feeds two persisters.
THEOREM AtMostOnePersister == Spec => []OnePersister
<1>1. AInv => OnePersister
  <2> SUFFICES ASSUME AInv, cacheUp
               PROVE  Cardinality({i \in Ids : persister[i].st \in {"up", "stopping"}}) <= 1
    BY DEF OnePersister
  <2>1. PICK S : S = {i \in Ids : persister[i].st \in {"up", "stopping"}}
    OBVIOUS
  <2>2. S \subseteq {app["persister"]}
    BY <2>1 DEF AInv, PersisterOK
  <2>3. IsFiniteSet({app["persister"]}) /\ Cardinality({app["persister"]}) = 1
    BY FS_Singleton
  <2>4. IsFiniteSet(S) /\ Cardinality(S) <= 1
    BY <2>2, <2>3, FS_Subset
  <2> QED BY <2>1, <2>4
<1> QED BY <1>1, AppInvariance, PTL

\* Before a stop, the collector is the only one that runs and knows the current
\* modules, whenever no reload is under way.
THEOREM CollectorAlwaysCurrent == Spec => []CollectorCurrent
<1>1. AInv => CollectorCurrent
  <2> SUFFICES ASSUME AInv, lock = "free", phase = "none" PROVE CollectorCurrent
    BY DEF CollectorCurrent
  <2>1. pc["hup"][1] \in {"idle", "lock"}
    BY DEF AInv, LockOK
  <2> QED BY <2>1 DEF AInv, CollectorOK, CollectorCurrent
<1> QED BY <1>1, AppInvariance, PTL

\* A graceful stop that has waited for the input channel leaves no message of a
\* receiver in it.
THEOREM NoMessageLeft == Spec => []OnlyOwnPointsLeft
<1>1. AInv => OnlyOwnPointsLeft
  BY DEF AInv, PhaseOK, OnlyOwnPointsLeft
<1> QED BY <1>1, AppInvariance, PTL
=============================================================================
