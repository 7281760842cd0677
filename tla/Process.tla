------------------------------ MODULE Process ------------------------------
(***************************************************************************)
(* The life of the process (src/kids.cc, Start, Stop and ReloadStoreConfig *)
(* of src/master.cc, src/worker.cc and src/storer.cc): the main thread     *)
(* creates the master, starts the threads and runs the master's loop; the  *)
(* signal thread stops everything on SIGTERM (SIGINT and SIGPIPE are the   *)
(* same, the command SHUTDOWN sends one) and hands a new configuration to  *)
(* the storer on SIGHUP.                                                   *)
(*                                                                         *)
(* Event loops are numbered in the order they are started: the storer's is *)
(* 0, the workers' are 1..N, the master's N + 1 is run by the main thread. *)
(* Configurations are numbered as they are parsed, 0 is the first one.     *)
(***************************************************************************)
EXTENDS Integers

CONSTANTS
  N,         \* worker_threads
  MaxReload  \* bound on the configurations that are parsed

ASSUME ProcessAssumption == N \in Nat \ {0} /\ MaxReload \in Nat

VARIABLES
  main,     \* "create", "start", "loop", "delete", "exited", or "dead" after a crash
  thread,   \* loops: "none", "started", "running", "ended"
  stop,     \* loops: eventl_->stop
  sig,      \* the signal thread: "wait", "delete", "refresh", "clear", "stop", "join", "done"
  victim,   \* the loop that Stop is about
  pending,  \* signals to be waited for
  parsed,   \* number of the newest configuration
  ctx,      \* the global ctx, 0 for NULL: main has a ctx of its own
  alive,    \* configurations that are not deleted
  conf,     \* the storer's conf_
  loaded,   \* the storer's conf_loaded_
  reload,   \* the storer: "idle", "refreshed", "creating"
  reading,  \* the configuration from which it creates its stores
  used,     \* the configuration of its stores
  finished, \* history: the storer is done with the last configuration
  crowded,  \* history: a SIGHUP was handled before it was
  lost      \* history: a loop was told to stop before it began

life == <<main, thread, stop, victim>>
handing == <<parsed, ctx, alive, conf>>
storing == <<reload, reading, used>>
history == <<finished, crowded, lost>>
vars == <<main, thread, stop, sig, victim, pending, parsed, ctx, alive, conf, loaded,
          reload, reading, used, finished, crowded, lost>>

Loops == 0..(N + 1)
Master == N + 1

(* When CreateSignalThread has returned; Storer::Create sets conf_loaded_. *)
Init ==
  /\ main = "create"
  /\ thread = [l \in Loops |-> "none"]
  /\ stop = [l \in Loops |-> FALSE]
  /\ sig = "wait" /\ victim = Master /\ pending = {}
  /\ parsed = 0 /\ ctx = 0 /\ alive = {0} /\ conf = 0 /\ loaded = TRUE
  /\ reload = "idle" /\ reading = 0 /\ used = 0
  /\ finished = TRUE /\ crowded = FALSE /\ lost = FALSE

(* A signal is sent to the process; a second one of a kind changes nothing. *)
Signal(s) ==
  /\ s \notin pending
  /\ pending' = pending \cup {s}
  /\ UNCHANGED <<life, sig, handing, loaded, storing, history>>

----------------------------------------------------------------------------
(* The process crashes, or ends by LogFatal. *)
Die ==
  /\ main' = "dead"
  /\ UNCHANGED <<thread, stop, sig, victim, pending, handing, loaded, storing, history>>

(* Master::Create. *)
Create ==
  /\ main = "create"
  /\ \/ /\ main' = "start"
        /\ UNCHANGED <<thread, stop, sig, victim, pending, handing, loaded, storing, history>>
     \/ Die

(* Master::Start starts the next thread, and in the end its own loop. *)
Start(l) ==
  /\ main = "start"
  /\ thread[l] = "none" /\ \A k \in 0..(l - 1) : thread[k] # "none"
  /\ thread' = [thread EXCEPT ![l] = "started"]
  /\ main' = IF l = Master THEN "loop" ELSE main
  /\ UNCHANGED <<stop, sig, victim, pending, handing, loaded, storing, history>>

(* aeMain begins. *)
EnterLoop(l) ==
  /\ thread[l] = "started"
  /\ thread' = [thread EXCEPT ![l] = "running"]
  /\ stop' = [stop EXCEPT ![l] = FALSE] /\ lost' = (lost \/ stop[l])
  /\ UNCHANGED <<main, sig, victim, pending, handing, loaded, storing, finished, crowded>>

(* aeMain ends, between two handlers. *)
LeaveLoop(l) ==
  /\ thread[l] = "running" /\ stop[l]
  /\ l = 0 => reload = "idle"
  /\ thread' = [thread EXCEPT ![l] = "ended"]
  /\ UNCHANGED <<main, stop, sig, victim, pending, handing, loaded, storing, history>>

(* Mutant: main does not wait for the signal thread. *)
MainJoinsNobody ==
  /\ main = "loop" /\ thread[Master] = "ended"
  /\ main' = "delete"
  /\ UNCHANGED <<thread, stop, sig, victim, pending, handing, loaded, storing, history>>

(* main joins the signal thread. *)
MainJoins ==
  /\ main = "loop" /\ thread[Master] = "ended" /\ sig = "done"
  /\ main' = "delete"
  /\ UNCHANGED <<thread, stop, sig, victim, pending, handing, loaded, storing, history>>

(* delete kids and main's own ctx; the global one is left. *)
Exit ==
  /\ main = "delete"
  /\ main' = "exited" /\ alive' = alive \ {0}
  /\ UNCHANGED <<thread, stop, sig, victim, pending, parsed, ctx, conf, loaded, storing, history>>

----------------------------------------------------------------------------
(* SIGTERM: before Master::Create has returned there is no master, or half *)
(* of one. Stop of that one crashes, or goes on with what there is: a loop *)
(* that is not made yet is one with no thread.                             *)
TakeTerm ==
  /\ sig = "wait" /\ "TERM" \in pending
  /\ pending' = pending \ {"TERM"}
  /\ \/ /\ main = "create" /\ main' = "dead" /\ UNCHANGED sig
     \/ sig' = "stop" /\ UNCHANGED main
  /\ UNCHANGED <<thread, stop, victim, handing, loaded, storing, history>>

(* Mutant: the storer is not told to stop. *)
StopForgetsStorer ==
  /\ sig = "stop"
  /\ stop' = [stop EXCEPT ![victim] = victim # 0 \/ @]
  /\ IF victim = Master THEN victim' = 1 /\ UNCHANGED sig
                        ELSE sig' = "join" /\ UNCHANGED victim
  /\ UNCHANGED <<main, thread, pending, handing, loaded, storing, history>>

(* Stop of the master, the workers and the storer: the flag is set. *)
Stop ==
  /\ sig = "stop"
  /\ stop' = [stop EXCEPT ![victim] = TRUE]
  /\ IF victim = Master THEN victim' = 1 /\ UNCHANGED sig
                        ELSE sig' = "join" /\ UNCHANGED victim
  /\ UNCHANGED <<main, thread, pending, handing, loaded, storing, history>>

(* The loop after this one in Stop: workers in order, the storer last. *)
Following(l) == IF l = N THEN 0 ELSE l + 1

(* pthread_join of a thread that ends; of one that was never created it    *)
(* crashes or returns with an error that nobody looks at.                  *)
Join ==
  /\ sig = "join"
  /\ \/ /\ thread[victim] \in {"ended", "none"}
        /\ IF victim = 0 THEN sig' = "done" /\ UNCHANGED victim
                         ELSE sig' = "stop" /\ victim' = Following(victim)
        /\ UNCHANGED main
     \/ thread[victim] = "none" /\ main' = "dead" /\ UNCHANGED <<sig, victim>>
  /\ UNCHANGED <<thread, stop, pending, handing, loaded, storing, history>>

(* SIGHUP: the file is parsed. *)
TakeHup ==
  /\ sig = "wait" /\ "HUP" \in pending
  /\ pending' = pending \ {"HUP"}
  /\ \/ /\ parsed < MaxReload
        /\ parsed' = parsed + 1 /\ alive' = alive \cup {parsed'}
        /\ sig' = "delete"
        /\ crowded' = (crowded \/ ~finished) /\ finished' = FALSE
     \/ UNCHANGED <<parsed, alive, sig, crowded, finished>>   \* an error in it
  /\ UNCHANGED <<life, ctx, conf, loaded, storing, lost>>

(* delete ctx; ctx = ctx_reloaded. *)
DeleteCtx ==
  /\ sig = "delete"
  /\ alive' = IF ctx = 0 THEN alive ELSE alive \ {ctx}
  /\ ctx' = parsed /\ sig' = "refresh"
  /\ UNCHANGED <<life, pending, parsed, conf, loaded, storing, history>>

(* Mutant: the flag is cleared before the configuration is there. *)
RefreshFlagFirst ==
  /\ \/ sig = "refresh" /\ loaded' = FALSE /\ sig' = "clear" /\ UNCHANGED conf
     \/ sig = "clear" /\ conf' = ctx /\ sig' = "wait" /\ UNCHANGED loaded
  /\ UNCHANGED <<life, pending, parsed, ctx, alive, storing, history>>

(* Storer::RefreshConfig; the storer may be there before the workers are. *)
RefreshConfig ==
  /\ \/ sig = "refresh" /\ conf' = ctx /\ sig' = "clear" /\ UNCHANGED loaded
     \/ sig = "clear" /\ loaded' = FALSE /\ sig' = "wait" /\ UNCHANGED conf
  /\ UNCHANGED <<life, pending, parsed, ctx, alive, storing, history>>

(* Master::ReloadStoreConfig when there is no storer yet. *)
RefreshNobody ==
  main = "create" /\ sig = "refresh" /\ Die

----------------------------------------------------------------------------
(* IfConfigRefreshed, in Storer::Cron. *)
IfConfigRefreshed ==
  /\ thread[0] = "running" /\ reload = "idle" /\ ~loaded
  /\ loaded' = TRUE /\ reload' = "refreshed"
  /\ UNCHANGED <<life, sig, pending, handing, reading, used, history>>

(* Storer::DoConfigReload passes conf_ to Store::Create. *)
DoConfigReload ==
  /\ reload = "refreshed"
  /\ reading' = conf /\ reload' = "creating"
  /\ UNCHANGED <<life, sig, pending, handing, loaded, used, history>>

(* Mutant: the flag is set again at the end of the reload. *)
StoreCreatedSetsFlag ==
  /\ reload = "creating"
  /\ \/ /\ used' = reading /\ reload' = "idle" /\ loaded' = TRUE
        /\ finished' = (finished \/ reading = parsed)
        /\ UNCHANGED <<life, sig, pending, handing, reading, crowded, lost>>
     \/ reading \notin alive /\ Die

(* Store::Create and Open have read what conf_ pointed to; if it was       *)
(* deleted meanwhile, anything may happen.                                 *)
StoreCreated ==
  /\ reload = "creating"
  /\ \/ /\ used' = reading /\ reload' = "idle"
        /\ finished' = (finished \/ reading = parsed)
        /\ UNCHANGED <<life, sig, pending, handing, loaded, reading, crowded, lost>>
     \/ reading \notin alive /\ Die

MainStep == Create \/ (\E l \in Loops : Start(l)) \/ MainJoins \/ Exit
SignalStep ==
  TakeTerm \/ Stop \/ Join \/ TakeHup \/ DeleteCtx \/ RefreshConfig \/ RefreshNobody
LoopStep(l) == EnterLoop(l) \/ LeaveLoop(l)
ReloadStep == IfConfigRefreshed \/ DoConfigReload \/ StoreCreated

Next ==
  /\ main \notin {"dead", "exited"}
  /\ \/ MainStep \/ SignalStep \/ ReloadStep
     \/ \E l \in Loops : LoopStep(l)
     \/ \E s \in {"TERM", "HUP"} : Signal(s)

Running == main \notin {"dead", "exited"}

(* Every thread goes on as long as it can; loops wake up for their crons.  *)
Fairness ==
  /\ WF_vars(Running /\ MainStep)
  /\ WF_vars(Running /\ SignalStep)
  /\ WF_vars(Running /\ ReloadStep)
  /\ \A l \in Loops : WF_vars(Running /\ LoopStep(l))

Spec == Init /\ [][Next]_vars /\ Fairness

----------------------------------------------------------------------------
TypeOK ==
  /\ main \in {"create", "start", "loop", "delete", "exited", "dead"}
  /\ thread \in [Loops -> {"none", "started", "running", "ended"}]
  /\ stop \in [Loops -> BOOLEAN]
  /\ sig \in {"wait", "delete", "refresh", "clear", "stop", "join", "done"}
  /\ victim \in Loops
  /\ pending \subseteq {"TERM", "HUP"}
  /\ parsed \in 0..MaxReload /\ ctx \in 0..parsed /\ alive \subseteq 0..parsed
  /\ conf \in 0..parsed /\ reading \in 0..parsed /\ used \in 0..parsed
  /\ loaded \in BOOLEAN
  /\ reload \in {"idle", "refreshed", "creating"}
  /\ finished \in BOOLEAN /\ crowded \in BOOLEAN /\ lost \in BOOLEAN

(* The master, and with it the workers, the storer and the queue, is       *)
(* deleted when nobody is left to use it: every loop has ended and the     *)
(* signal thread is done (src/kids.cc:193), also when the signal came      *)
(* while threads were being started.                                       *)
DeleteIsLast ==
  main \in {"delete", "exited"} =>
    sig = "done" /\ \A l \in Loops : thread[l] = "ended"

(* As long as every SIGHUP is handled after the storer is done with the    *)
(* one before, the storer creates its stores from a configuration that is  *)
(* not deleted, the first one included. (Two in a row delete it under its  *)
(* hands.)                                                                 *)
ReloadAlive == ~crowded /\ reload = "creating" => reading \in alive

(* The storer ends up with the newest configuration that was accepted,     *)
(* whatever the order of RefreshConfig and its own crons, unless the       *)
(* process is told to stop.                                                *)
LatestUsed ==
  []<>(used = ctx \/ sig \in {"stop", "join", "done"} \/ main = "dead")

(* A signal that is taken ends the process, whenever it comes: during the  *)
(* start, with a reload under way or a second signal after it. One thing   *)
(* keeps it from ending: a loop that was told to stop before it began, for *)
(* aeMain clears the flag, so that the stop is lost and Join waits.        *)
StopEnds == (sig = "stop") ~> (main \in {"exited", "dead"} \/ lost)
=============================================================================
