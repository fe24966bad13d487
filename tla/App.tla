-------------------------------- MODULE App --------------------------------
(***************************************************************************)
(* The life of a started process (carbon/app.go, carbon/grace.go,          *)
(* carbon-agent.go): main waits in Loop, one goroutine answers USR2 with   *)
(* GraceStop, one answers HUP with ReloadConfig, and around them the       *)
(* collector and the restorer feed the cache's input channel.              *)
(*                                                                         *)
(* The subject is the fields of App and the lock on them.  A field is 0    *)
(* (nil) or the number of the object it points to.  The cache and the      *)
(* persister, which Cache, Persister, Pipeline and Dump have in detail,    *)
(* are counts of batches here.  The stop after a dump does not hold the    *)
(* lock: every read and every write of a field that another goroutine may  *)
(* write is a step of its own (a pointer is read or written as a whole).   *)
(***************************************************************************)
EXTENDS Integers, FiniteSets

CONSTANTS
    MaxReloads,   \* bound: HUP signals
    MaxMessages,  \* bound: messages of receivers
    MaxLines,     \* lines of the dump file that Restore reads
    MaxTicks,     \* bound: values that collectors produce
    InputCap,     \* capacity of the input channel
    ConfirmCap,   \* capacity of the confirmation channel
    DataCap,      \* capacity of Collector.data
    Configs,      \* what a configuration file may say
    Servers       \* carbonserver: "off", "scan" and "plain" (scan-frequency 0)

ASSUME AppAssumption ==
    /\ MaxReloads \in Nat /\ MaxMessages \in Nat /\ MaxLines \in Nat /\ MaxTicks \in Nat
    /\ InputCap \in Nat \ {0} /\ ConfirmCap \in Nat \ {0} /\ DataCap \in Nat \ {0}
    /\ Configs \subseteq [whisper : BOOLEAN, throttled : BOOLEAN, dump : BOOLEAN,
                          local : BOOLEAN]
    /\ Servers \subseteq {"off", "scan", "plain"}

Ids       == 1..(MaxReloads + 1)
Fields    == {"listeners", "server", "persister", "cache", "collector", "exit"}
Signals   == {"usr2", "hup"}
Sources   == {"receiver", "restorer", "collector"}
NilPointer == -1  \* a statModule that holds a nil pointer

VARIABLES
    outcome,      \* "running", "ended", "fatal" (log.Fatal) or "panic"
    lock,         \* who holds App's lock: "free", "usr2" or "hup"
    config,       \* app.Config
    app,          \* the fields of App
    server,       \* which carbonserver was started
    updater,      \* its fileListUpdater: "none", "select", "scan" or "done"
    loopPC,       \* main, in Loop
    pc,           \* the two signal handlers
    phase,        \* what GraceStop is doing: "none", "grace", "dump" or "all"
    dumped,       \* GraceStopDump has returned
    looked,       \* a flush loop has seen an empty input channel
    saw,          \* what NewCollector found when it compared with nil
    reloads,
    persister,    \* the Whisper objects
    collector,    \* the Collector objects
    cacheUp,      \* the cache's goroutines run
    xlogging,     \* the input log's goroutine runs
    input,        \* messages in the input channel, by source
    cached,       \* batches in the cache and its output channel
    confirm,      \* batches in the confirmation channel
    received, linesLeft, ticks

progress == <<phase, dumped, looked, saw>>
objects  == <<persister, collector, cacheUp, xlogging>>
channels == <<input, cached, confirm>>
counts   == <<received, linesLeft, ticks>>

stopVars == <<outcome, lock, config, app, server, updater, loopPC, pc, progress, reloads>>
dataVars == <<objects, channels, counts>>
vars == <<stopVars, dataVars>>

NoPersister == [st |-> "none", hold |-> 0, throttled |-> FALSE]
NoCollector == [st |-> "none", local |-> FALSE, cache |-> 0, persister |-> 0,
                data |-> 0]

InputLen == input["receiver"] + input["restorer"] + input["collector"]
Put(s)   == input' = [input EXCEPT ![s] = @ + 1]

NewPersister(throttled) == [st |-> "up", hold |-> 0, throttled |-> throttled]

\* Start has returned without an error.
Init ==
    /\ outcome = "running" /\ lock = "free"
    /\ config \in Configs /\ server \in Servers
    /\ app = [f \in Fields |-> CASE f = "persister" -> IF config.whisper THEN 1 ELSE 0
                                 [] f = "server"    -> IF server = "off" THEN 0 ELSE 1
                                 [] OTHER           -> 1]
    /\ updater = IF server = "scan" THEN "scan" ELSE "none"
    /\ loopPC = "read" /\ pc = [g \in Signals |-> <<"idle">>]
    /\ phase = "none" /\ dumped = FALSE /\ looked = FALSE /\ reloads = 0
    /\ saw = [cache |-> 0, persister |-> 0]
    /\ persister = [i \in Ids |-> IF i = app["persister"] THEN NewPersister(config.throttled)
                                                          ELSE NoPersister]
    /\ collector = [i \in Ids |-> IF i = 1 THEN [NoCollector EXCEPT
                        !.st = "up", !.local = config.local, !.cache = 1,
                        !.persister = app["persister"]]
                    ELSE NoCollector]
    /\ cacheUp = TRUE /\ xlogging = FALSE
    /\ input = [s \in Sources |-> 0] /\ cached = 0 /\ confirm = 0
    /\ received = 0 /\ ticks = 0
    /\ linesLeft = IF config.dump THEN MaxLines ELSE 0

-----------------------------------------------------------------------------
(***************************************************************************)
(* Who feeds the input channel, and who empties it.                        *)
(***************************************************************************)
Receive ==
    /\ app["listeners"] # 0 /\ received < MaxMessages
    /\ InputLen < InputCap
    /\ Put("receiver") /\ received' = received + 1
    /\ UNCHANGED <<stopVars, objects, cached, confirm, linesLeft, ticks>>

\* Restore runs until the last line of the last file is sent; nobody stops it.
RestoreLine ==
    /\ linesLeft > 0
    /\ InputLen < InputCap
    /\ Put("restorer") /\ linesLeft' = linesLeft - 1
    /\ UNCHANGED <<stopVars, objects, cached, confirm, received, ticks>>

\* The collector's worker: collect() calls Stat of each module.  A value goes to
\* data, or is dropped when that is full.  Stat of a nil pointer panics.
Collect(c) ==
    /\ collector[c].st = "up" /\ ticks < MaxTicks
    /\ ticks' = ticks + 1
    /\ IF NilPointer \in {collector[c].cache, collector[c].persister}
       THEN outcome' = "panic" /\ UNCHANGED collector
       ELSE /\ collector' = [collector EXCEPT ![c].data = IF @ < DataCap THEN @ + 1 ELSE @]
            /\ UNCHANGED outcome
    /\ UNCHANGED <<lock, config, app, server, updater, loopPC, pc, progress, reloads, persister,
                   cacheUp, xlogging, channels, received, linesLeft>>

\* The collector's sender: a value goes to the cache, or to another host (SendLoop
\* tries until it succeeds).
Send(c) ==
    /\ collector[c].st = "up" /\ collector[c].data > 0
    /\ collector' = [collector EXCEPT ![c].data = @ - 1]
    /\ IF collector[c].local THEN InputLen < InputCap /\ Put("collector")
                             ELSE UNCHANGED input
    /\ UNCHANGED <<stopVars, persister, cacheUp, xlogging, cached, confirm, counts>>

\* The cache's worker; the message may join a batch that is there.
CacheReceive ==
    /\ cacheUp
    /\ \E s \in Sources : input[s] > 0 /\ input' = [input EXCEPT ![s] = @ - 1]
    /\ cached' \in {cached + 1} \cup ({cached} \ {0})
    /\ UNCHANGED <<stopVars, objects, confirm, counts>>

\* The input log of GraceStopDump reads the same channel.
XlogReceive ==
    /\ xlogging
    /\ \E s \in Sources : input[s] > 0 /\ input' = [input EXCEPT ![s] = @ - 1]
    /\ UNCHANGED <<stopVars, objects, cached, confirm, counts>>

\* A persister takes a batch from the output channel, also one that was told to
\* stop: select may prefer the batch to the exit channel.
Take(i) ==
    /\ persister[i].st \in {"up", "stopping"} /\ cached > 0
    /\ cached' = cached - 1
    /\ persister' = [persister EXCEPT ![i].hold = @ + 1]
    /\ UNCHANGED <<stopVars, collector, cacheUp, xlogging, input, confirm, counts>>

\* store: write the batch, then confirm it, which blocks on a full channel.
Store(i) ==
    /\ persister[i].hold > 0 /\ confirm < ConfirmCap
    /\ confirm' = confirm + 1
    /\ persister' = [persister EXCEPT ![i].hold = @ - 1]
    /\ UNCHANGED <<stopVars, collector, cacheUp, xlogging, input, cached, counts>>

\* Only the cache's tracker reads confirmations.
Confirmed ==
    /\ cacheUp /\ confirm > 0
    /\ confirm' = confirm - 1
    /\ UNCHANGED <<stopVars, objects, input, cached, counts>>

\* The goroutines of a persister whose exit channel is closed end when they have
\* stored what they took.
PersisterEnds(i) ==
    /\ persister[i].st = "stopping" /\ persister[i].hold = 0
    /\ persister' = [persister EXCEPT ![i].st = "down"]
    /\ UNCHANGED <<stopVars, collector, cacheUp, xlogging, channels, counts>>

\* fileListUpdater: a tick begins a scan, a scan leads back to select.
Scan ==
    /\ updater \in {"select", "scan"}
    /\ updater' = IF updater = "scan" THEN "select" ELSE "scan"
    /\ UNCHANGED <<outcome, lock, config, app, server, loopPC, pc, progress, reloads, dataVars>>

-----------------------------------------------------------------------------
(***************************************************************************)
(* main: Loop looks at app.exit under the lock and reads it again without. *)
(***************************************************************************)
LoopRead ==
    /\ loopPC = "read" /\ lock = "free"
    /\ IF app["exit"] = 0 THEN outcome' = "ended" /\ UNCHANGED loopPC
                          ELSE loopPC' = "eval" /\ UNCHANGED outcome
    /\ UNCHANGED <<lock, config, app, server, updater, pc, progress, reloads, dataVars>>

\* A receive from a nil channel never returns.
LoopEval ==
    /\ loopPC = "eval"
    /\ loopPC' = IF app["exit"] = 0 THEN "nil" ELSE "receive"
    /\ UNCHANGED <<outcome, lock, config, app, server, updater, pc, progress, reloads,
                   dataVars>>

\* app.exit was closed, so main returns and the process ends.
LoopReceive ==
    /\ loopPC = "receive" /\ app["exit"] = 0
    /\ outcome' = "ended"
    /\ UNCHANGED <<lock, config, app, server, updater, loopPC, pc, progress, reloads, dataVars>>

(***************************************************************************)
(* "if app.F != nil { app.F.Stop(); app.F = nil }", which both handlers    *)
(* execute.                                                                *)
(***************************************************************************)
Goto(g, next) == pc' = [pc EXCEPT ![g] = next]
Rest == UNCHANGED <<config, server, loopPC, reloads, counts>>
Quiet == UNCHANGED <<outcome, lock, app, updater, progress, objects, channels>>
Panic ==
    /\ outcome' = "panic"
    /\ UNCHANGED <<lock, app, updater, pc, progress, objects, channels>>

\* Mutant: the new collector is not told of the modules.
AfterNoModules(g, f) ==
    CASE f = "listeners" -> <<"stop", "server">>
      [] f = "server"    -> IF phase = "grace" THEN <<"flushTest">> ELSE <<"flush">>
      [] f = "persister" -> IF g = "hup" THEN <<"start">> ELSE <<"stop", "cache">>
      [] f = "cache"     -> <<"test", "collector">>
      [] f = "collector" -> IF g = "hup" THEN <<"sawPersister">> ELSE <<"exit">>

\* What comes after field f: the order of stopListeners, stopAll and ReloadConfig.
After(g, f) ==
    CASE f = "listeners" -> <<"stop", "server">>
      [] f = "server"    -> IF phase = "grace" THEN <<"flushTest">> ELSE <<"flush">>
      [] f = "persister" -> IF g = "hup" THEN <<"start">> ELSE <<"stop", "cache">>
      [] f = "cache"     -> <<"test", "collector">>
      [] f = "collector" -> IF g = "hup" THEN <<"newCollector">> ELSE <<"exit">>

\* Mutant: Listen makes a local exitChan and leaves the field nil.
StopOwnShadowed(f) ==
    /\ pc["usr2"] = <<"stop", f>>
    /\ f = "server" => app[f] = 0
    /\ cacheUp' = (cacheUp /\ f # "cache")
    /\ app' = [app EXCEPT ![f] = 0]
    /\ Goto("usr2", After("usr2", f))
    /\ UNCHANGED <<outcome, lock, updater, progress, persister, collector, xlogging, channels>>
    /\ Rest

\* A field that only GraceStop changes, in one step.  Receivers and carbonlink, and
\* the cache (or else CacheStuck), stop when their goroutines have ended.
\* carbonserver's Stop sends on exitChan, which fileListUpdater receives in its
\* select; without a scan frequency exitChan is nil.
StopOwn(f) ==
    /\ pc["usr2"] = <<"stop", f>>
    /\ f = "server" /\ app[f] # 0 => updater = "select"
    /\ updater' = IF f = "server" /\ app[f] # 0 THEN "done" ELSE updater
    /\ cacheUp' = (cacheUp /\ f # "cache")
    /\ app' = [app EXCEPT ![f] = 0]
    /\ Goto("usr2", After("usr2", f))
    /\ UNCHANGED <<outcome, lock, progress, persister, collector, xlogging, channels>>
    /\ Rest

\* The other two fields: compare ...
Test(g, f) ==
    /\ pc[g] = <<"test", f>>
    /\ Goto(g, IF app[f] = 0 THEN After(g, f) ELSE <<"call", f>>)
    /\ Quiet /\ Rest

\* ... call Stop of the object that the field holds now.  A persister that is being
\* stopped already is waited for; the goroutines of a collector wait for nothing
\* without looking at the exit channel or a timeout ...
CallStop(g, f) ==
    /\ pc[g] = <<"call", f>>
    /\ IF app[f] = 0 THEN Panic
       ELSE /\ Goto(g, <<"wait", f, app[f]>>)
            /\ persister' = IF f = "persister" /\ persister[app[f]].st = "up"
                            THEN [persister EXCEPT ![app[f]].st = "stopping"] ELSE persister
            /\ collector' = IF f = "collector"
                            THEN [collector EXCEPT ![app[f]].st = "down"] ELSE collector
            /\ UNCHANGED <<outcome, lock, app, updater, progress, cacheUp, xlogging, channels>>
    /\ Rest

\* Mutant: a persister's goroutines are not waited for.
StopReturnsEarly(g, f) ==
    /\ pc[g][1] = "wait" /\ pc[g][2] = f
    /\ app' = [app EXCEPT ![f] = 0]
    /\ Goto(g, After(g, f))
    /\ UNCHANGED <<outcome, lock, updater, progress, objects, channels>>
    /\ Rest

\* ... and assign nil when it has returned.
StopReturns(g, f) ==
    /\ pc[g][1] = "wait" /\ pc[g][2] = f
    /\ f = "persister" => persister[pc[g][3]].st = "down"
    /\ app' = [app EXCEPT ![f] = 0]
    /\ Goto(g, After(g, f))
    /\ UNCHANGED <<outcome, lock, updater, progress, objects, channels>>
    /\ Rest

(***************************************************************************)
(* USR2: GraceStop, once.                                                  *)
(***************************************************************************)
Usr2 ==
    /\ pc["usr2"] = <<"idle">>
    /\ Goto("usr2", <<"begin">>)
    /\ Quiet /\ Rest

\* GraceStop looks at the configuration without the lock.
GraceStop ==
    /\ pc["usr2"] = <<"begin">>
    /\ Goto("usr2", <<"lock">>)
    /\ phase' = IF config.dump THEN "dump" ELSE "grace"
    /\ UNCHANGED <<outcome, lock, app, updater, dumped, looked, saw, objects, channels>>
    /\ Rest

\* Mutant: the flush begins without the lock.
GraceLockNot ==
    /\ pc["usr2"] = <<"lock">>
    /\ Goto("usr2", IF phase = "dump" THEN <<"dumpFiles">> ELSE <<"stop", "listeners">>)
    /\ Quiet /\ Rest

GraceLock ==
    /\ pc["usr2"] = <<"lock">> /\ lock = "free"
    /\ lock' = "usr2"
    /\ Goto("usr2", IF phase = "dump" THEN <<"dumpFiles">> ELSE <<"stop", "listeners">>)
    /\ UNCHANGED <<outcome, app, updater, progress, objects, channels>>
    /\ Rest

\* (stopAll begins with stopListeners once more, which finds nothing to stop.)
\* Flush only if there are a cache and a persister; a throttled persister is
\* restarted first.
FlushTest ==
    /\ pc["usr2"] = <<"flushTest">>
    /\ phase' = IF app["cache"] # 0 /\ app["persister"] # 0 THEN phase ELSE "all"
    /\ Goto("usr2", IF app["cache"] = 0 \/ app["persister"] = 0 THEN <<"test", "persister">>
                    ELSE IF persister[app["persister"]].throttled THEN <<"unthrottle">>
                    ELSE <<"flush">>)
    /\ UNCHANGED <<outcome, lock, app, updater, dumped, looked, saw, objects, channels>>
    /\ Rest

\* Stop, SetMaxUpdatesPerSecond(0), Start of the same object.
Unthrottle ==
    LET i == app["persister"] IN
    /\ pc["usr2"] = <<"unthrottle">>
    /\ \/ /\ persister[i].st = "up"
          /\ persister' = [persister EXCEPT ![i].st = "stopping"]
          /\ UNCHANGED pc
       \/ /\ persister[i].st = "down"
          /\ persister' = [persister EXCEPT ![i] = NewPersister(FALSE)]
          /\ Goto("usr2", <<"flush">>)
    /\ UNCHANGED <<outcome, lock, app, updater, progress, collector, cacheUp, xlogging,
                   channels>>
    /\ Rest

\* Mutant: the flush loop does not look at the input channel.
FlushIgnoresInput ==
    /\ pc["usr2"] = <<"flush">>
    /\ phase = "grace" => cached = 0
    /\ looked' = TRUE
    /\ IF phase = "grace"
       THEN Goto("usr2", <<"test", "persister">>) /\ phase' = "all" /\ UNCHANGED xlogging
       ELSE Goto("usr2", <<"unlockDump">>) /\ xlogging' = FALSE /\ UNCHANGED phase
    /\ UNCHANGED <<outcome, lock, app, updater, dumped, saw, persister, collector, cacheUp,
                   channels>>
    /\ Rest

\* FlushLoop of GraceStop (the reads of the size and of the channel's length are
\* apart in Pipeline) and of GraceStopDump, which then ends the input log.
Flush ==
    /\ pc["usr2"] = <<"flush">>
    /\ InputLen = 0
    /\ phase = "grace" => cached = 0
    /\ looked' = TRUE
    /\ IF phase = "grace"
       THEN Goto("usr2", <<"test", "persister">>) /\ phase' = "all" /\ UNCHANGED xlogging
       ELSE Goto("usr2", <<"unlockDump">>) /\ xlogging' = FALSE /\ UNCHANGED phase
    /\ UNCHANGED <<outcome, lock, app, updater, dumped, saw, persister, collector, cacheUp,
                   channels>>
    /\ Rest

\* GraceStopDump creates its files, starts the input log ...
DumpFiles ==
    /\ pc["usr2"] = <<"dumpFiles">>
    /\ xlogging' = TRUE
    /\ Goto("usr2", <<"dumpStop">>)
    /\ UNCHANGED <<outcome, lock, app, updater, progress, persister, collector, cacheUp, channels>>
    /\ Rest

\* ... stops the cache ...
DumpStop ==
    /\ pc["usr2"] = <<"dumpStop">>
    /\ cacheUp' = FALSE
    /\ Goto("usr2", <<"dumpCache">>)
    /\ UNCHANGED <<outcome, lock, app, updater, progress, persister, collector, xlogging, channels>>
    /\ Rest

\* ... writes its contents, and stops the listeners.
DumpCache ==
    /\ pc["usr2"] = <<"dumpCache">>
    /\ cached' = 0
    /\ Goto("usr2", <<"stop", "listeners">>)
    /\ UNCHANGED <<outcome, lock, app, updater, progress, objects, input, confirm>>
    /\ Rest

\* Either stop of the cache can wait for ever: the tracker has ended with its query
\* channel full, and the worker sends to it the query of a carbonlink or
\* carbonserver handler, which no stop waits for (WorkerStuck of Cache).
CacheStuck ==
    /\ pc["usr2"] \in {<<"dumpStop">>, <<"stop", "cache">>} /\ cacheUp
    /\ cacheUp' = FALSE
    /\ Goto("usr2", <<"stuck">>)
    /\ UNCHANGED <<outcome, lock, app, updater, progress, persister, collector, xlogging, channels>>
    /\ Rest

\* GraceStopDump returns and gives up the lock; stopAll follows without it.
UnlockDump ==
    /\ pc["usr2"] = <<"unlockDump">>
    /\ lock' = "free" /\ dumped' = TRUE /\ phase' = "all"
    /\ Goto("usr2", <<"test", "persister">>)
    /\ UNCHANGED <<outcome, app, updater, looked, saw, objects, channels>>
    /\ Rest

\* A file cannot be created, written, flushed or closed: logrus.Fatal.
DumpFails ==
    /\ pc["usr2"] \in {<<"dumpFiles">>, <<"dumpCache">>, <<"unlockDump">>}
    /\ outcome' = "fatal"
    /\ UNCHANGED <<lock, app, updater, pc, progress, objects, channels>>
    /\ Rest

\* The end of stopAll: close(app.exit), app.exit = nil; GraceStop returns.
CloseExit ==
    /\ pc["usr2"] = <<"exit">>
    /\ app' = [app EXCEPT !["exit"] = 0]
    /\ lock' = IF dumped THEN lock ELSE "free"
    /\ Goto("usr2", <<"done">>)
    /\ UNCHANGED <<outcome, updater, progress, objects, channels>>
    /\ Rest

(***************************************************************************)
(* HUP: ReloadConfig, under the lock.                                      *)
(***************************************************************************)
Hup ==
    /\ pc["hup"] = <<"idle">> /\ reloads < MaxReloads
    /\ reloads' = reloads + 1
    /\ Goto("hup", <<"lock">>)
    /\ Quiet /\ UNCHANGED <<config, server, loopPC, counts>>

\* configure replaces the configuration, or fails and ReloadConfig returns.
Configure ==
    /\ pc["hup"] = <<"lock">> /\ lock = "free"
    /\ \/ /\ config' \in Configs
          /\ lock' = "hup"
          /\ Goto("hup", <<"test", "persister">>)
       \/ Goto("hup", <<"idle">>) /\ UNCHANGED <<config, lock>>
    /\ UNCHANGED <<outcome, app, updater, progress, objects, channels, server, loopPC, reloads,
                   counts>>

\* startPersister takes its channels from the cache.
StartPersister ==
    LET i == reloads + 1 IN
    /\ pc["hup"] = <<"start">>
    /\ \/ ~config.whisper /\ Goto("hup", <<"test", "collector">>) /\ Quiet
       \/ config.whisper /\ app["cache"] = 0 /\ Panic
       \/ /\ config.whisper /\ app["cache"] # 0
          /\ persister' = [persister EXCEPT ![i] = NewPersister(config.throttled)]
          /\ app' = [app EXCEPT !["persister"] = i]
          /\ Goto("hup", <<"test", "collector">>)
          /\ UNCHANGED <<outcome, lock, updater, progress, collector, cacheUp, xlogging,
                         channels>>
    /\ Rest

\* NewCollector: each module is compared with nil and then read again.
Reread(field, found) == IF found = 0 THEN 0 ELSE IF app[field] = 0 THEN NilPointer ELSE app[field]

CollectorSeesCache ==
    /\ pc["hup"] = <<"newCollector">>
    /\ saw' = [saw EXCEPT !.cache = app["cache"]]
    /\ Goto("hup", <<"sawCache">>)
    /\ UNCHANGED <<outcome, lock, app, updater, phase, dumped, looked, objects, channels>>
    /\ Rest

CollectorSeesPersister ==
    /\ pc["hup"] = <<"sawCache">>
    /\ saw' = [cache |-> Reread("cache", saw.cache), persister |-> app["persister"]]
    /\ Goto("hup", <<"sawPersister">>)
    /\ UNCHANGED <<outcome, lock, app, updater, phase, dumped, looked, objects, channels>>
    /\ Rest

\* The goroutines start; a local sender needs the cache's input channel.
NewCollector ==
    LET i == reloads + 1 IN
    /\ pc["hup"] = <<"sawPersister">>
    /\ IF config.local /\ app["cache"] = 0 THEN Panic
       ELSE /\ collector' = [collector EXCEPT ![i] = [NoCollector EXCEPT
                    !.st = "up", !.local = config.local, !.cache = saw.cache,
                    !.persister = Reread("persister", saw.persister)]]
            /\ app' = [app EXCEPT !["collector"] = i]
            /\ saw' = [cache |-> 0, persister |-> 0]
            /\ lock' = "free"
            /\ Goto("hup", <<"idle">>)
            /\ UNCHANGED <<outcome, updater, phase, dumped, looked, persister, cacheUp,
                           xlogging, channels>>
    /\ Rest

-----------------------------------------------------------------------------
Running == outcome = "running"

StopField(g) == \E f \in {"persister", "collector"} :
                    Test(g, f) \/ CallStop(g, f) \/ StopReturns(g, f)
GraceStopping == \/ \E f \in {"listeners", "server", "cache"} : StopOwn(f)
                 \/ GraceStop \/ GraceLock \/ FlushTest \/ Unthrottle \/ Flush
                 \/ DumpFiles \/ DumpStop \/ DumpCache \/ UnlockDump \/ CloseExit
Reloading == \/ Configure \/ StartPersister \/ CollectorSeesCache \/ CollectorSeesPersister
             \/ NewCollector
Loop      == LoopRead \/ LoopEval \/ LoopReceive
PersisterSide == \E i \in Ids : Take(i) \/ Store(i) \/ PersisterEnds(i)

Next ==
    /\ Running
    /\ \/ Usr2 \/ Hup \/ DumpFails \/ CacheStuck \/ Receive \/ RestoreLine \/ XlogReceive \/ Scan
       \/ \E c \in Ids : Collect(c) \/ Send(c)
       \/ \E g \in Signals : StopField(g)
       \/ GraceStopping \/ Reloading \/ Loop
       \/ CacheReceive \/ Confirmed \/ PersisterSide

(***************************************************************************)
(* Fairness: every goroutine that can move does, and carbonserver's exit   *)
(* message is received when fileListUpdater comes to its select again and  *)
(* again.  None for signals, clients, ticks, and failures.  (Reloads and   *)
(* input are bounded here, so that weak fairness is enough for the lock    *)
(* and for the flush loop.)                                                *)
(***************************************************************************)
Fairness ==
    /\ WF_vars(Running /\ (GraceStopping \/ StopField("usr2")))
    /\ SF_vars(Running /\ StopOwn("server"))
    /\ WF_vars(Running /\ (Reloading \/ StopField("hup")))
    /\ WF_vars(Running /\ Loop)
    /\ WF_vars(Running /\ updater = "scan" /\ Scan)
    /\ WF_vars(Running /\ (CacheReceive \/ Confirmed))
    /\ WF_vars(Running /\ XlogReceive)
    /\ WF_vars(Running /\ PersisterSide)

Spec == Init /\ [][Next]_vars /\ Fairness

-----------------------------------------------------------------------------
\* A reload that meets a stop panics in just two situations: GraceStop is over
\* and main has not returned yet (app.go:124 uses app.Cache, which is nil), or
\* the stopAll after a dump runs beside it without the lock (grace.go:30).  A
\* reload before a stop, or one that waits for the lock while GraceStop or
\* GraceStopDump holds it, never does.
PanicsOnlyUnlocked ==
    outcome = "panic" => phase = "all" /\ (dumped \/ pc["usr2"] = <<"done">>)

\* As long as the cache hands out batches there is one persister at most, also
\* while a reload replaces it or GraceStop restarts it: two would write to the
\* same files (app.go:118, grace.go:43).
OnePersister ==
    cacheUp => Cardinality({i \in Ids : persister[i].st \in {"up", "stopping"}}) <= 1

\* app.go: "Should be re-created on every change config/modules".  Whenever a
\* goroutine may look at App the collector asks the persister that runs and the
\* cache, sends where the configuration says, and is the only one that runs,
\* until GraceStop changes the modules.
CollectorCurrent ==
    lock = "free" /\ phase = "none" =>
        /\ app["collector"] # 0
        /\ LET c == collector[app["collector"]] IN
           /\ c.st = "up" /\ c.local = config.local
           /\ c.cache = app["cache"] /\ c.persister = app["persister"]
        /\ \A i \in Ids : collector[i].st = "up" => i = app["collector"]

\* When a graceful stop has waited for the input channel, no message of a
\* receiver is left in it at the end, although the collector and the restorer
\* share the channel and are not stopped before the flush: only their points can
\* come later and be lost (grace.go:72, grace.go:191, collector.go:119).
OnlyOwnPointsLeft ==
    outcome = "ended" /\ looked => input["receiver"] = 0

\* What a graceful stop can wait for for ever: a carbonserver without a scan
\* frequency (carbonserver.go:785), a cache whose worker is left in its send to the
\* tracker (cache.go:272), and after a dump a persister that cannot get
\* rid of its confirmations (grace.go:143; a reload may be the one that waits,
\* with the lock).  Or main waits on a nil channel, because the whole stop took
\* place between its two reads of app.exit (app.go:351).
Blocked ==
    \/ server = "plain" /\ pc["usr2"] = <<"stop", "server">>
    \/ pc["usr2"] = <<"stuck">>
    \/ dumped /\ confirm = ConfirmCap
         /\ \E i \in Ids : persister[i].st = "stopping" /\ persister[i].hold > 0
    \/ loopPC = "nil" /\ app["exit"] = 0

\* A process that gets USR2 ends, whatever reloads, collector, restorer and
\* receivers do, unless it is blocked in one of the four ways.
StopEnds == pc["usr2"] = <<"begin">> ~> outcome # "running" \/ Blocked
=============================================================================
