---------------------------- MODULE ProcessProofs ----------------------------
(***************************************************************************)
(* Proofs about the life of the process, for every number of workers and   *)
(* of reloads: types, DeleteIsLast and ReloadAlive.                        *)
(*                                                                         *)
(* DeleteIsLast rests on the flag of the master.  aeMain clears it, so a   *)
(* master that leaves its loop was stopped after it entered it; by then    *)
(* every thread has been started, and each pthread_join has waited.        *)
(* ReloadAlive rests on the way a configuration takes: unless signals      *)
(* crowd, one SIGHUP at a time is between TakeHup and StoreCreated.        *)
(***************************************************************************)
EXTENDS Process, TLAPS

(* Threads are started in order; none before Master::Create has returned. *)
StartedInOrder ==
  /\ \A l \in Loops : thread[l] # "none" => \A k \in 0..(l - 1) : thread[k] # "none"
  /\ main \in {"loop", "delete", "exited"} => thread[Master] # "none"

(* The loops that Stop has joined. *)
Joined ==
  IF sig = "done" THEN 0..N
  ELSE IF victim = 0 THEN 1..N
  ELSE IF victim = Master THEN {} ELSE 1..(victim - 1)

(* A stop that reached the master in its loop has joined threads that      *)
(* really ended.                                                           *)
StopOrder ==
  /\ sig = "join" => victim # Master
  /\ sig = "done" => victim = 0
  /\ thread[Master] = "ended" => stop[Master]
  /\ thread[Master] \in {"running", "ended"} /\ stop[Master] =>
       /\ sig \in {"stop", "join", "done"} /\ victim # Master
       /\ \A l \in Joined : thread[l] = "ended"

(* The storer reloads only while its loop runs. *)
ReloadInLoop == reload # "idle" => thread[0] = "running"

LifeInv ==
  /\ TypeOK /\ StartedInOrder /\ StopOrder /\ ReloadInLoop
  /\ main \in {"delete", "exited"} => sig = "done" /\ thread[Master] = "ended"

(* Where the newest configuration is, if no SIGHUP overtook another. *)
HandedOver ==
  ~crowded =>
    /\ parsed = 0 => finished
    /\ reload # "idle" => loaded
    /\ sig # "delete" => ctx = parsed
    /\ sig = "delete" => ctx # parsed
    /\ sig \notin {"delete", "refresh"} => conf = parsed
    /\ sig \in {"delete", "refresh", "clear"} => ~finished
    /\ finished \/ sig \in {"delete", "refresh", "clear"} => loaded /\ reload = "idle"
    /\ ~finished => parsed \in alive
    /\ reload = "creating" => reading = parsed

Inv == LifeInv /\ HandedOver
----------------------------------------------------------------------------
(* Every step keeps the types. *)
LEMMA TypeStep ==
  ASSUME TypeOK, sig = "join" => victim # Master, [Next]_vars
  PROVE  TypeOK'
<1> USE ProcessAssumption
<1>2. CASE Create
  <2>1. main' \in {"start", "dead"}
    BY <1>2, Zenon DEF Create, Die
  <2>2. UNCHANGED <<thread, stop, sig, victim, pending, handing, loaded, storing, history>>
    BY <1>2, Zenon DEF Create, Die
  <2> QED BY <2>1, <2>2 DEF TypeOK, Loops, Master, handing, storing, history
<1>3. ASSUME NEW l \in Loops, Start(l) PROVE TypeOK'
  BY <1>3 DEF Start, TypeOK, Loops, Master, life, handing, storing, history
<1>4. CASE MainJoins
  BY <1>4 DEF MainJoins, TypeOK, Loops, Master, life, handing, storing, history
<1>5. CASE Exit
  BY <1>5 DEF Exit, TypeOK, Loops, Master, life, handing, storing, history
<1>6. CASE TakeTerm
  BY <1>6 DEF TakeTerm, TypeOK, Loops, Master, life, handing, storing, history
<1>7. CASE Stop
  BY <1>7 DEF Stop, TypeOK, Loops, Master, life, handing, storing, history
<1>8. CASE Join
  BY <1>8 DEF Join, Following, TypeOK, Loops, Master, life, handing, storing, history
<1>9. CASE TakeHup
  <2>1. parsed' \in 0..MaxReload /\ parsed' >= parsed
    BY <1>9 DEF TakeHup, TypeOK
  <2>2. finished' \in BOOLEAN /\ crowded' \in BOOLEAN
    <3>1. (crowded \/ ~finished) \in BOOLEAN
      BY Zenon
    <3> QED BY <1>9, <3>1, Zenon DEF TakeHup, TypeOK
  <2>3. alive' \subseteq 0..parsed'
    <3>1. alive' \subseteq alive \cup {parsed'}
      BY <1>9, Zenon DEF TakeHup
    <3>2. \A a \in alive : a \in 0..parsed'
      BY <2>1 DEF TypeOK
    <3> QED BY <2>1, <3>1, <3>2
  <2> QED BY <1>9, <2>1, <2>2, <2>3
    DEF TakeHup, TypeOK, Loops, Master, life, storing, history
<1>10. CASE DeleteCtx
  BY <1>10 DEF DeleteCtx, TypeOK, Loops, Master, life, handing, storing, history
<1>11. CASE RefreshConfig
  BY <1>11 DEF RefreshConfig, TypeOK, Loops, Master, life, handing, storing, history
<1>12. CASE RefreshNobody
  BY <1>12 DEF RefreshNobody, Die, TypeOK, Loops, Master, life, handing, storing, history
<1>13. CASE IfConfigRefreshed
  BY <1>13 DEF IfConfigRefreshed, TypeOK, Loops, Master, life, handing, storing, history
<1>14. CASE DoConfigReload
  BY <1>14 DEF DoConfigReload, TypeOK, Loops, Master, life, handing, storing, history
<1>15. CASE StoreCreated
  <2>1. CASE Die
    BY <2>1 DEF Die, TypeOK, Loops, Master, handing, storing, history
  <2>2. CASE ~Die
    <3>1. /\ used' = reading /\ reload' = "idle" /\ finished' = (finished \/ reading = parsed)
          /\ UNCHANGED <<life, sig, pending, handing, loaded, reading, crowded, lost>>
      BY <1>15, <2>2, Zenon DEF StoreCreated
    <3>2. finished' \in BOOLEAN
      <4>1. (finished \/ reading = parsed) \in BOOLEAN
        BY Zenon
      <4> QED BY <3>1, <4>1, Zenon
    <3> QED BY <3>1, <3>2 DEF TypeOK, Loops, Master, life, handing
  <2> QED BY <2>1, <2>2
<1>16. ASSUME NEW l \in Loops, EnterLoop(l) PROVE TypeOK'
  <2>1. lost' \in BOOLEAN
    <3>1. (lost \/ stop[l]) \in BOOLEAN
      BY Zenon
    <3> QED BY <1>16, <3>1, Zenon DEF EnterLoop
  <2> QED BY <1>16, <2>1 DEF EnterLoop, TypeOK, Loops, Master, life, handing, storing, history
<1>17. ASSUME NEW l \in Loops, LeaveLoop(l) PROVE TypeOK'
  BY <1>17 DEF LeaveLoop, TypeOK, Loops, Master, life, handing, storing, history
<1>18. ASSUME NEW s \in {"TERM", "HUP"}, Signal(s) PROVE TypeOK'
  BY <1>18 DEF Signal, TypeOK, Loops, Master, life, handing, storing, history
<1>19. CASE UNCHANGED vars
  BY <1>19 DEF vars, TypeOK, Loops, Master
<1> QED BY <1>2, <1>3, <1>4, <1>5, <1>6, <1>7, <1>8, <1>9, <1>10, <1>11, <1>12,
           <1>13, <1>14, <1>15, <1>16, <1>17, <1>18, <1>19
  DEF Next, MainStep, SignalStep, LoopStep, ReloadStep

(* Every step keeps the order of starting, stopping and joining. *)
LEMMA LifeStep ==
  ASSUME LifeInv, [Next]_vars
  PROVE  LifeInv'
<1> USE ProcessAssumption
<1>1. TypeOK'
  BY TypeStep DEF LifeInv, StopOrder
<1>2. CASE Create
  <2>1. CASE main = "create" /\ main' = "start"
             /\ UNCHANGED <<thread, stop, sig, victim, pending, handing, loaded, storing,
                            history>>
    BY <1>1, <2>1 DEF LifeInv, StartedInOrder, StopOrder, Joined, ReloadInLoop, storing
  <2>2. CASE Die
    BY <1>1, <2>2
      DEF Die, LifeInv, TypeOK, StartedInOrder, StopOrder, Joined,
          ReloadInLoop, Loops, Master, life, handing, storing
  <2> QED BY <1>2, <2>1, <2>2 DEF Create
<1>3. ASSUME NEW l \in Loops, Start(l) PROVE LifeInv'
  BY <1>3, <1>1
    DEF Start, LifeInv, TypeOK, StartedInOrder, StopOrder, ReloadInLoop, Loops,
        Master, storing
<1>4. CASE MainJoins
  BY <1>4, <1>1
    DEF MainJoins, LifeInv, StartedInOrder, StopOrder, Joined, ReloadInLoop,
        storing
<1>5. CASE Exit
  BY <1>5, <1>1
    DEF Exit, LifeInv, StartedInOrder, StopOrder, Joined, ReloadInLoop, storing
<1>6. CASE TakeTerm
  BY <1>6, <1>1
    DEF TakeTerm, LifeInv, StartedInOrder, StopOrder, ReloadInLoop, storing
<1>7. CASE Stop
  <2>1. /\ sig = "stop" /\ main' = main /\ thread' = thread /\ reload' = reload
        /\ stop' = [stop EXCEPT ![victim] = TRUE]
    BY <1>7 DEF Stop, storing
  <2>2. StartedInOrder' /\ ReloadInLoop'
        /\ (main' \in {"delete", "exited"} => sig' = "done" /\ thread'[Master] = "ended")
    BY <2>1 DEF LifeInv, StartedInOrder, ReloadInLoop
  <2>3. CASE victim = Master
    <3>1. sig' = "stop" /\ victim' = 1 /\ stop'[Master]
      BY <1>7, <2>1, <2>3 DEF Stop, LifeInv, TypeOK
    <3>2. Joined' = {} /\ 1 # Master
      BY <3>1 DEF Joined, Master
    <3>3. StopOrder'
      BY <3>1, <3>2 DEF StopOrder
    <3> QED BY <1>1, <2>2, <3>3 DEF LifeInv
  <2>4. CASE victim # Master
    <3>1. sig' = "join" /\ victim' = victim
      BY <1>7, <2>4 DEF Stop
    <3>2. stop'[Master] = stop[Master]
      <4>1. Master \in Loops /\ stop \in [Loops -> BOOLEAN]
        BY DEF LifeInv, TypeOK, Loops, Master
      <4> QED BY <2>1, <2>4, <4>1, Zenon
    <3>3. Joined' = Joined
      BY <2>1, <3>1 DEF Joined
    <3>4. StopOrder'
      BY <2>1, <2>4, <3>1, <3>2, <3>3 DEF LifeInv, StopOrder
    <3> QED BY <1>1, <2>2, <3>4 DEF LifeInv
  <2> QED BY <2>3, <2>4
<1>8. CASE Join
  <2>1. /\ sig = "join" /\ thread' = thread /\ stop' = stop /\ reload' = reload
        /\ victim \in 0..N
    BY <1>8 DEF Join, LifeInv, StopOrder, TypeOK, Loops, Master, storing
  <2>2. ReloadInLoop' /\ StartedInOrder'
        /\ (main' \in {"delete", "exited"} => sig' = "done" /\ thread'[Master] = "ended")
    BY <1>8, <2>1 DEF Join, LifeInv, ReloadInLoop, StartedInOrder
  <2>3. CASE UNCHANGED <<sig, victim>>
    BY <1>1, <2>1, <2>2, <2>3 DEF LifeInv, StopOrder, Joined
  <2>4. CASE /\ thread[victim] \in {"ended", "none"}
             /\ IF victim = 0 THEN sig' = "done" /\ UNCHANGED victim
                              ELSE sig' = "stop" /\ victim' = Following(victim)
    <3>1. victim' \in 0..N /\ Joined' = Joined \cup {victim}
      BY <2>1, <2>4 DEF Joined, Following, Master
    <3>2. thread[Master] # "none" => thread[victim] # "none"
      BY <2>1 DEF LifeInv, StartedInOrder, Loops, Master
    <3>3. StopOrder'
      BY <2>1, <2>4, <3>1, <3>2 DEF LifeInv, StopOrder, Master
    <3> QED BY <1>1, <2>2, <3>3 DEF LifeInv
  <2> QED BY <1>8, <2>3, <2>4 DEF Join
<1>9. CASE TakeHup
  BY <1>9, <1>1
    DEF TakeHup, LifeInv, StartedInOrder, StopOrder, ReloadInLoop, life, storing
<1>10. CASE DeleteCtx
  BY <1>10, <1>1
    DEF DeleteCtx, LifeInv, StartedInOrder, StopOrder, ReloadInLoop, life, storing
<1>11. CASE RefreshConfig
  BY <1>11, <1>1
    DEF RefreshConfig, LifeInv, StartedInOrder, StopOrder, ReloadInLoop, life,
        storing
<1>12. CASE RefreshNobody
  BY <1>12, <1>1
    DEF RefreshNobody, Die, LifeInv, StartedInOrder, StopOrder, ReloadInLoop,
        storing
<1>13. CASE IfConfigRefreshed
  BY <1>13, <1>1
    DEF IfConfigRefreshed, LifeInv, StartedInOrder, StopOrder, Joined,
        ReloadInLoop, life
<1>14. CASE DoConfigReload
  BY <1>14, <1>1
    DEF DoConfigReload, LifeInv, StartedInOrder, StopOrder, Joined, ReloadInLoop,
        life
<1>15. CASE StoreCreated
  BY <1>15, <1>1
    DEF StoreCreated, Die, LifeInv, StartedInOrder, StopOrder, Joined,
        ReloadInLoop, life
<1>16. ASSUME NEW l \in Loops, EnterLoop(l) PROVE LifeInv'
  BY <1>16, <1>1
    DEF EnterLoop, LifeInv, TypeOK, StartedInOrder, StopOrder, Joined,
        ReloadInLoop, storing
<1>17. ASSUME NEW l \in Loops, LeaveLoop(l) PROVE LifeInv'
  BY <1>17, <1>1
    DEF LeaveLoop, LifeInv, StartedInOrder, StopOrder, Joined, ReloadInLoop,
        storing
<1>18. ASSUME NEW s \in {"TERM", "HUP"}, Signal(s) PROVE LifeInv'
  BY <1>18, <1>1
    DEF Signal, LifeInv, StartedInOrder, StopOrder, Joined, ReloadInLoop, life,
        storing
<1>19. CASE UNCHANGED vars
  BY <1>19, <1>1 DEF vars, LifeInv, StartedInOrder, StopOrder, Joined, ReloadInLoop
<1> QED BY <1>2, <1>3, <1>4, <1>5, <1>6, <1>7, <1>8, <1>9, <1>10, <1>11, <1>12,
           <1>13, <1>14, <1>15, <1>16, <1>17, <1>18, <1>19
  DEF Next, MainStep, SignalStep, LoopStep, ReloadStep

(* Every step keeps a configuration on its way. *)
LEMMA HandedOverStep ==
  ASSUME LifeInv, HandedOver, [Next]_vars
  PROVE  HandedOver'
<1> USE ProcessAssumption
<1>2. CASE Create
  BY <1>2 DEF Create, Die, HandedOver, handing, storing, history
<1>3. ASSUME NEW l \in Loops, Start(l) PROVE HandedOver'
  BY <1>3
    DEF Start, HandedOver, LifeInv, TypeOK, Loops, Master, life, handing, storing, history
<1>4. CASE MainJoins
  BY <1>4 DEF MainJoins, HandedOver, handing, storing, history
<1>5. CASE Exit
  BY <1>5
    DEF Exit, HandedOver, LifeInv, TypeOK, Loops, Master, life, handing, storing, history
<1>6. CASE TakeTerm
  BY <1>6 DEF TakeTerm, HandedOver, handing, storing, history
<1>7. CASE Stop
  BY <1>7
    DEF Stop, HandedOver, LifeInv, TypeOK, Loops, Master, life, handing, storing, history
<1>8. CASE Join
  BY <1>8 DEF Join, HandedOver, handing, storing, history
<1>9. CASE TakeHup
  <2>1. CASE UNCHANGED <<parsed, alive, sig, crowded, finished>>
    BY <1>9, <2>1 DEF TakeHup, HandedOver, storing, history
  <2>2. CASE /\ parsed' = parsed + 1 /\ alive' = alive \cup {parsed'}
             /\ sig' = "delete"
             /\ crowded' = (crowded \/ ~finished) /\ finished' = FALSE
    <3>1. SUFFICES ASSUME ~crowded' PROVE HandedOver'
      BY DEF HandedOver
    <3>2. ~crowded /\ finished
      BY <2>2, <3>1, Zenon DEF LifeInv, TypeOK
    <3>3. ctx = parsed /\ loaded /\ reload = "idle"
      BY <1>9, <3>2 DEF TakeHup, HandedOver
    <3> QED BY <1>9, <2>2, <3>3 DEF TakeHup, HandedOver, LifeInv, TypeOK, storing, history
  <2> QED BY <1>9, <2>1, <2>2 DEF TakeHup
<1>10. CASE DeleteCtx
  BY <1>10 DEF DeleteCtx, HandedOver, storing, history
<1>11. CASE RefreshConfig
  BY <1>11 DEF RefreshConfig, HandedOver, storing, history
<1>12. CASE RefreshNobody
  BY <1>12 DEF RefreshNobody, Die, HandedOver, handing, storing, history
<1>13. CASE IfConfigRefreshed
  BY <1>13 DEF IfConfigRefreshed, HandedOver, handing, history
<1>14. CASE DoConfigReload
  BY <1>14 DEF DoConfigReload, HandedOver, handing, history
<1>15. CASE StoreCreated
  BY <1>15 DEF StoreCreated, Die, HandedOver, handing, history
<1>16. ASSUME NEW l \in Loops, EnterLoop(l) PROVE HandedOver'
  BY <1>16 DEF EnterLoop, HandedOver, handing, storing, history
<1>17. ASSUME NEW l \in Loops, LeaveLoop(l) PROVE HandedOver'
  BY <1>17 DEF LeaveLoop, HandedOver, handing, storing, history
<1>18. ASSUME NEW s \in {"TERM", "HUP"}, Signal(s) PROVE HandedOver'
  BY <1>18
    DEF Signal, HandedOver, LifeInv, TypeOK, Loops, Master, life, handing, storing, history
<1>19. CASE UNCHANGED vars
  BY <1>19 DEF vars, HandedOver, LifeInv, TypeOK, Loops, Master
<1> QED BY <1>2, <1>3, <1>4, <1>5, <1>6, <1>7, <1>8, <1>9, <1>10, <1>11, <1>12,
           <1>13, <1>14, <1>15, <1>16, <1>17, <1>18, <1>19
  DEF Next, MainStep, SignalStep, LoopStep, ReloadStep

----------------------------------------------------------------------------
(* The process starts in order, with nothing to hand over. *)
LEMMA Starts ==
  ASSUME Init
  PROVE  Inv
<1> USE ProcessAssumption
<1>1. TypeOK
  <2>1. Master \in Loops /\ 0 \in 0..MaxReload /\ 0 \in 0..0
    BY DEF Loops, Master
  <2>2. stop \in [Loops -> BOOLEAN] /\ loaded \in BOOLEAN
        /\ finished \in BOOLEAN /\ crowded \in BOOLEAN /\ lost \in BOOLEAN
    BY Zenon DEF Init
  <2> QED BY <2>1, <2>2 DEF Init, TypeOK
<1>2. /\ \A l \in Loops : thread[l] = "none"
      /\ Master \in Loops
  BY DEF Init, Loops, Master
<1>3. StartedInOrder /\ StopOrder /\ ReloadInLoop
  BY <1>2 DEF Init, StartedInOrder, StopOrder, ReloadInLoop
<1> QED BY <1>1, <1>3 DEF Init, Inv, LifeInv, HandedOver

(* The strengthening of the properties below. *)
LEMMA Invariant == Spec => []Inv
<1>1. Inv /\ [Next]_vars => Inv'
  BY LifeStep, HandedOverStep DEF Inv
<1> QED BY <1>1, Starts, PTL DEF Spec

(* Every state has the types of the variables: in particular Stop and Join *)
(* of src/master.cc never leave the loops there are.                       *)
THEOREM TypeCorrect == Spec => []TypeOK
<1>1. Inv => TypeOK
  BY DEF Inv, LifeInv
<1> QED BY <1>1, Invariant, PTL

(* The master is deleted (src/kids.cc:193) when every loop has ended and   *)
(* the signal thread is done, for any number of workers and whenever the   *)
(* signal came: also while Master::Start was still starting threads.       *)
THEOREM DeletedLast == Spec => []DeleteIsLast
<1>1. LifeInv => DeleteIsLast
  BY ProcessAssumption DEF LifeInv, StopOrder, Joined, DeleteIsLast, Loops, Master
<1> QED BY <1>1, Invariant, PTL DEF Inv

(* A storer that creates its stores (DoConfigReload, src/storer.cc) reads  *)
(* a configuration that is not deleted, for any number of reloads, as long *)
(* as no SIGHUP is handled before the storer is done with the last one.    *)
THEOREM ReloadReadsAlive == Spec => []ReloadAlive
<1>1. Inv => ReloadAlive
  BY DEF Inv, HandedOver, ReloadAlive
<1> QED BY <1>1, Invariant, PTL
===============================================================================
