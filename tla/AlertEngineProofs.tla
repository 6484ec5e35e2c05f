-------------------------- MODULE AlertEngineProofs --------------------------
(***************************************************************************)
(* Proofs about AlertEngine for any number of rules, any duration and any     *)
(* number of faults.  Types hold for any number of pods; what is announced is *)
(* proved for one, since a second pod's file tracker decides on a copy of its *)
(* own, and two engines on Redis decide on entries the other has changed.     *)
(***************************************************************************)
EXTENDS AlertEngine, TLAPS

OnePod == \A p, q \in Pod : p = q

(* The end of a rule or of a cycle: the job is done, the sample kept or gone.  *)
Leaves(p, where) ==
  /\ pc' = [pc EXCEPT ![p] = where]
  /\ rule' \in [Pod -> Rule] /\ \A q \in Pod : q # p => rule'[q] = rule[q]
  /\ job' = [job EXCEPT ![p] = "none"]
  /\ sample' = sample \/ sample' = [sample EXCEPT ![p] = NoSample]

LEMMA RestLeaves ==
  ASSUME TypeOK, NEW p \in Pod, NEW where, Rest(p, where) PROVE Leaves(p, where)
  BY RulesAssumption DEF TypeOK, Rest, Goto, Leaves, Rule

LEMMA AdvanceLeaves ==
  ASSUME TypeOK, NEW p \in Pod, Advance(p) PROVE Leaves(p, "idle") \/ Leaves(p, "eval")
<1>1. CASE rule[p] = NumRules
  BY <1>1, RestLeaves DEF Advance
<1>2. CASE rule[p] # NumRules
  <2>1. rule[p] + 1 \in Rule
    BY <1>2, RulesAssumption DEF TypeOK, Rule
  <2> QED BY <1>2, <2>1 DEF Advance, Goto, TypeOK, Leaves
<1> QED BY <1>1, <1>2

LEMMA LeavesType ==
  ASSUME TypeOK, NEW p \in Pod, NEW where \in {"off", "idle", "down", "eval"}, Leaves(p, where)
  PROVE  /\ pc' \in [Pod -> Inside \cup {"off", "idle", "down"}]
         /\ rule' \in [Pod -> Rule]
         /\ sample' \in [Pod -> [Rule -> {"none", "failed", "breached", "clear"}]]
         /\ job' \in [Pod -> {"none", "firing", "resolved"}]
<1>1. NoSample \in [Rule -> {"none", "failed", "breached", "clear"}]
  BY DEF NoSample
<1> QED BY <1>1 DEF TypeOK, Leaves, Inside

LEMMA FaultType ==
  ASSUME TypeOK, NEW on, NEW kind \in {"fetch", "harm"}, Fault(on, kind)
  PROVE  /\ faults' \in [fetch : 0..MaxFaults, harm : 0..MaxFaults]
         /\ kind = "harm" => faults'.harm # 0
         /\ kind = "fetch" => faults'.harm = faults.harm
<1>1. faults \in [fetch : Nat, harm : Nat] /\ MaxFaults \in Nat
      /\ faults.fetch + faults.harm < MaxFaults /\ faults' = [faults EXCEPT ![kind] = @ + 1]
  BY FlagsAssumption DEF TypeOK, Fault
<1>2. CASE kind = "fetch"
  BY <1>1, <1>2
<1>3. CASE kind = "harm"
  BY <1>1, <1>3
<1> QED BY <1>2, <1>3

(* The trackers store entries.                                               *)
StoreType == /\ disk \in [Rule -> Entry] /\ mem \in [Pod -> [Rule -> Entry]]
             /\ torn \subseteq {"state", "history"}

LEMMA PutType ==
  ASSUME TypeOK, NEW p \in Pod, NEW e \in Entry, Put(p, e) \/ PutRaises(p, e)
  PROVE  StoreType'
<1>1. rule[p] \in Rule /\ disk \in [Rule -> Entry] /\ mem \in [Pod -> [Rule -> Entry]]
      /\ torn \subseteq {"state", "history"}
  BY DEF TypeOK
<1>2. CASE UseRedis
  BY <1>1, <1>2 DEF Put, PutRaises, StoreType
<1>3. CASE ~UseRedis
  <2>1. mem' = [mem EXCEPT ![p] = [mem[p] EXCEPT ![rule[p]] = e]]
    BY <1>3, <1>1 DEF Put, PutRaises
  <2>2. mem' \in [Pod -> [Rule -> Entry]]
    BY <1>1, <2>1
  <2>3. disk' = disk \/ disk' = mem'[p]
    BY <1>3 DEF Put, PutRaises
  <2>4. torn' \subseteq {"state", "history"}
    BY <1>1, <1>3 DEF Put, PutRaises, Cut
  <2> QED BY <1>1, <2>2, <2>3, <2>4 DEF StoreType
<1> QED BY <1>2, <1>3

LEMMA StoredType ==
  ASSUME TypeOK, NEW p \in Pod
  PROVE  /\ Stored(p) \in Entry /\ Breached(Stored(p)) \in Entry
         /\ \A s \in {"firing", "resolved"} : [Stored(p) EXCEPT !.status = s] \in Entry
<1>1. Stored(p) \in Entry
  BY DEF TypeOK, Stored
<1> QED BY <1>1 DEF Breached, Entry

LEMMA OlderType == ASSUME NEW e \in Entry PROVE Older(e) \in Entry /\ Older(e).status = e.status
  BY RulesAssumption DEF Entry, Older

-----------------------------------------------------------------------------
(* Types.  A status that is stored and sent is one that was decided on.       *)
Working == {"store", "record", "fence", "send"}
JobInv == \A p \in Pod : pc[p] \in Working => job[p] # "none"

LEMMA TypeInit == Init => TypeOK /\ JobInv
<1> SUFFICES ASSUME Init PROVE TypeOK /\ JobInv
  OBVIOUS
<1>1. NoEntry \in Entry
  BY RulesAssumption DEF NoEntry, Entry
<1>2. 1 \in Rule
  BY RulesAssumption DEF Rule
<1> QED BY <1>1, <1>2, FlagsAssumption DEF Init, TypeOK, JobInv, NoSample, Inside, Working

LEMMA TypeNext == ASSUME TypeOK, JobInv, [Next]_vars PROVE TypeOK'
<1>l. ASSUME NEW p \in Pod, Advance(p)
      PROVE  /\ pc' \in [Pod -> Inside \cup {"off", "idle", "down"}] /\ rule' \in [Pod -> Rule]
             /\ sample' \in [Pod -> [Rule -> {"none", "failed", "breached", "clear"}]]
             /\ job' \in [Pod -> {"none", "firing", "resolved"}]
  BY <1>l, AdvanceLeaves, LeavesType
<1>r. ASSUME NEW p \in Pod, NEW where \in {"off", "idle", "down"}, Rest(p, where)
      PROVE  /\ pc' \in [Pod -> Inside \cup {"off", "idle", "down"}] /\ rule' \in [Pod -> Rule]
             /\ sample' \in [Pod -> [Rule -> {"none", "failed", "breached", "clear"}]]
             /\ job' \in [Pod -> {"none", "firing", "resolved"}]
  BY <1>r, RestLeaves, LeavesType
<1>g. ASSUME NEW p \in Pod, NEW where \in Inside \cup {"off", "idle", "down"}, Goto(p, where)
      PROVE  pc' \in [Pod -> Inside \cup {"off", "idle", "down"}]
  BY <1>g DEF Goto, TypeOK
<1>1. ASSUME NEW p \in Pod, Fetch(p) PROVE TypeOK'
  <2>1. PICK failed \in SUBSET Rule :
          /\ IF failed = {} THEN UNCHANGED faults ELSE Fault(FetchFails, "fetch")
          /\ sample' = [sample EXCEPT ![p] = [r \in Rule |-> Observed(failed, r)]]
          /\ told' = [r \in Rule |-> told[r] /\ Observed(failed, r) # "clear"]
    BY <1>1 DEF Fetch
  <2>2. faults' \in [fetch : 0..MaxFaults, harm : 0..MaxFaults]
    BY <2>1, FaultType DEF TypeOK
  <2>3. sample' \in [Pod -> [Rule -> {"none", "failed", "breached", "clear"}]]
    BY <2>1 DEF TypeOK, Observed
  <2>4. told' \in [Rule -> BOOLEAN]
    BY <2>1
  <2>5. pc' \in [Pod -> Inside \cup {"off", "idle", "down"}]
    BY <1>1, <1>g DEF Fetch, Inside
  <2> QED BY <1>1, <2>2, <2>3, <2>4, <2>5 DEF Fetch, TypeOK, store
<1>2. ASSUME NEW p \in Pod, Skip(p) \/ Remediate(p) PROVE TypeOK'
  BY <1>2, <1>l DEF Skip, Remediate, TypeOK, store, history
<1>3. ASSUME NEW p \in Pod, CheckBreached(p) PROVE TypeOK'
  <2> DEFINE e == Breached(Stored(p))
  <2>1. StoreType'
    BY <1>3, PutType, StoredType DEF CheckBreached
  <2>2. faults' \in [fetch : 0..MaxFaults, harm : 0..MaxFaults]
    BY <1>3, FaultType DEF CheckBreached, TypeOK
  <2>3. /\ pc' \in [Pod -> Inside \cup {"off", "idle", "down"}] /\ rule' \in [Pod -> Rule]
        /\ sample' \in [Pod -> [Rule -> {"none", "failed", "breached", "clear"}]]
        /\ job' \in [Pod -> {"none", "firing", "resolved"}]
    <3>1. \/ Goto(p, "store") /\ job' = [job EXCEPT ![p] = "firing"] /\ UNCHANGED <<rule, sample>>
          \/ Advance(p) \/ Rest(p, "idle")
      BY <1>3 DEF CheckBreached, Abort
    <3>2. CASE Goto(p, "store") /\ job' = [job EXCEPT ![p] = "firing"] /\ UNCHANGED <<rule, sample>>
      BY <1>g, <3>2 DEF Inside, TypeOK
    <3> QED BY <1>l, <1>r, <3>1, <3>2
  <2> QED BY <1>3, <2>1, <2>2, <2>3 DEF CheckBreached, TypeOK, StoreType, history
<1>4. ASSUME NEW p \in Pod, CheckClear(p) PROVE TypeOK'
  <2>1. faults' \in [fetch : 0..MaxFaults, harm : 0..MaxFaults]
    BY <1>4, FaultType DEF CheckClear, TypeOK
  <2>2. \/ Goto(p, "store") /\ job' = [job EXCEPT ![p] = "resolved"] /\ UNCHANGED <<rule, sample>>
        \/ Advance(p)
    BY <1>4 DEF CheckClear
  <2>3. CASE Goto(p, "store") /\ job' = [job EXCEPT ![p] = "resolved"] /\ UNCHANGED <<rule, sample>>
    <3>1. pc' \in [Pod -> Inside \cup {"off", "idle", "down"}]
      BY <1>g, <2>3 DEF Inside
    <3> QED BY <1>4, <2>1, <2>3, <3>1 DEF CheckClear, TypeOK, store, history
  <2>4. CASE Advance(p)
    BY <1>4, <1>l, <2>1, <2>4 DEF CheckClear, TypeOK, store, history
  <2> QED BY <2>2, <2>3, <2>4
<1>5. ASSUME NEW p \in Pod, SetStatus(p) PROVE TypeOK'
  <2>1. job[p] \in {"firing", "resolved"}
    BY <1>5 DEF SetStatus, JobInv, TypeOK, At, Working
  <2>2. StoreType'
    BY <1>5, <2>1, PutType, StoredType DEF SetStatus
  <2>3. faults' \in [fetch : 0..MaxFaults, harm : 0..MaxFaults]
    BY <1>5, FaultType DEF SetStatus, TypeOK
  <2>4. \/ Goto(p, "record") /\ UNCHANGED <<rule, sample, job>>
        \/ Rest(p, "idle")
    BY <1>5 DEF SetStatus, Abort
  <2>5. /\ pc' \in [Pod -> Inside \cup {"off", "idle", "down"}] /\ rule' \in [Pod -> Rule]
        /\ sample' \in [Pod -> [Rule -> {"none", "failed", "breached", "clear"}]]
        /\ job' \in [Pod -> {"none", "firing", "resolved"}]
    BY <1>g, <1>r, <2>4 DEF Inside, TypeOK
  <2> QED BY <1>5, <2>2, <2>3, <2>5 DEF SetStatus, TypeOK, StoreType, history
<1>6. ASSUME NEW p \in Pod, Record(p) PROVE TypeOK'
  <2>1. faults' \in [fetch : 0..MaxFaults, harm : 0..MaxFaults]
    BY <1>6, FaultType DEF Record, TypeOK
  <2>2. torn' \subseteq {"state", "history"}
    BY <1>6 DEF Record, Cut, TypeOK
  <2>3. /\ pc' \in [Pod -> Inside \cup {"off", "idle", "down"}] /\ rule' \in [Pod -> Rule]
        /\ sample' \in [Pod -> [Rule -> {"none", "failed", "breached", "clear"}]]
        /\ job' \in [Pod -> {"none", "firing", "resolved"}]
    BY <1>6, <1>g, <1>r DEF Record, Abort, Inside, TypeOK
  <2> QED BY <1>6, <2>1, <2>2, <2>3 DEF Record, TypeOK, history
<1>7. ASSUME NEW p \in Pod, Fence(p) PROVE TypeOK'
  <2>1. faults' \in [fetch : 0..MaxFaults, harm : 0..MaxFaults]
    BY <1>7, FaultType DEF Fence, TypeOK
  <2>2. pc' \in [Pod -> Inside \cup {"off", "idle", "down"}]
    BY <1>7, <1>g DEF Fence, Inside
  <2> QED BY <1>7, <2>1, <2>2 DEF Fence, TypeOK, store, history
<1>8. ASSUME NEW p \in Pod, Send(p) PROVE TypeOK'
  <2>1. pc' \in [Pod -> Inside \cup {"off", "idle", "down"}]
    BY <1>8, <1>g DEF Send, Inside
  <2> QED BY <1>8, <2>1 DEF Send, TypeOK, store
<1>9. ASSUME NEW p \in Pod, Tell(p) PROVE TypeOK'
  <2>1. CASE Goto(p, "remediate") /\ UNCHANGED <<rule, sample, job>>
    <3>1. pc' \in [Pod -> Inside \cup {"off", "idle", "down"}]
      BY <2>1, <1>g DEF Inside
    <3> QED BY <1>9, <2>1, <3>1 DEF Tell, TypeOK, store, history
  <2>2. CASE Advance(p)
    BY <1>9, <2>2, <1>l DEF Tell, TypeOK, store, history
  <2> QED BY <1>9, <2>1, <2>2 DEF Tell
<1>10. ASSUME NEW p \in Pod, TakeOver(p) PROVE TypeOK'
  BY <1>10, <1>g DEF TakeOver, TypeOK, store, history
<1>11. ASSUME NEW p \in Pod, StandDown(p) PROVE TypeOK'
  BY <1>11, <1>r DEF StandDown, TypeOK, store, history
<1>12. ASSUME NEW p \in Pod, Crash(p) PROVE TypeOK'
  <2>1. faults' \in [fetch : 0..MaxFaults, harm : 0..MaxFaults]
    BY <1>12, FaultType DEF Crash
  <2>2. torn' \subseteq {"state", "history"}
    BY <1>12 DEF Crash, Saving, TypeOK
  <2> QED BY <1>12, <1>r, <2>1, <2>2 DEF Crash, TypeOK, history
<1>13. ASSUME NEW p \in Pod, Restart(p) PROVE TypeOK'
  BY <1>13, <1>g DEF Restart, TypeOK, history
<1>14. ASSUME NEW r \in Rule, Flip(r) PROVE TypeOK'
  <2>1. flips' \in 0..MaxFlips
    BY <1>14, FlagsAssumption DEF Flip, TypeOK
  <2> QED BY <1>14, <2>1 DEF Flip, TypeOK, store, engine, history
<1>15. CASE LoseLock
  <2>1. faults' \in [fetch : 0..MaxFaults, harm : 0..MaxFaults]
    BY <1>15, FaultType DEF LoseLock
  <2> QED BY <1>15, <2>1 DEF LoseLock, TypeOK, store, engine, history
<1>16. CASE Tick
  BY <1>16, OlderType DEF Tick, TypeOK, engine, history
<1>17. CASE UNCHANGED vars
  BY <1>17 DEF vars, TypeOK, store, engine, history
<1> QED BY <1>1, <1>2, <1>3, <1>4, <1>5, <1>6, <1>7, <1>8, <1>9, <1>10, <1>11, <1>12, <1>13, <1>14,
           <1>15, <1>16, <1>17 DEF Next, Engine

LEMMA JobNext == ASSUME TypeOK, JobInv, [Next]_vars PROVE JobInv'
<1>l. ASSUME NEW p \in Pod, Advance(p) \/ Rest(p, "idle") \/ Rest(p, "off") \/ Rest(p, "down")
      PROVE  JobInv'
  <2>1. \E where \in {"idle", "off", "down", "eval"} : Leaves(p, where)
    BY <1>l, AdvanceLeaves, RestLeaves
  <2> QED BY <2>1 DEF Leaves, JobInv, Working, TypeOK
<1>g. ASSUME NEW p \in Pod, NEW where, Goto(p, where), UNCHANGED job,
             where \in Working => pc[p] \in Working
      PROVE  JobInv'
  BY <1>g DEF Goto, JobInv, TypeOK
<1>s. ASSUME NEW p \in Pod, NEW j \in {"firing", "resolved"}, Goto(p, "store"),
             job' = [job EXCEPT ![p] = j]
      PROVE  JobInv'
  BY <1>s DEF Goto, JobInv, Working, TypeOK
<1>1. ASSUME NEW p \in Pod, Engine(p) PROVE JobInv'
  <2>1. CASE Fetch(p) \/ Fence(p) \/ Send(p)
    BY <2>1, <1>g DEF Fetch, Fence, Send, At, Working
  <2>2. CASE Skip(p) \/ Remediate(p)
    BY <2>2, <1>l DEF Skip, Remediate
  <2>3. CASE CheckBreached(p) \/ CheckClear(p)
    BY <2>3, <1>l, <1>s DEF CheckBreached, CheckClear, Abort
  <2>4. CASE SetStatus(p) \/ Record(p) \/ Tell(p)
    BY <2>4, <1>l, <1>g DEF SetStatus, Record, Tell, Abort, At, Working
  <2> QED BY <1>1, <2>1, <2>2, <2>3, <2>4 DEF Engine
<1>2. ASSUME NEW p \in Pod, TakeOver(p) \/ StandDown(p) \/ Crash(p) \/ Restart(p) PROVE JobInv'
  BY <1>2, <1>l, <1>g DEF TakeOver, StandDown, Crash, Restart, Working
<1>3. CASE (\E r \in Rule : Flip(r)) \/ LoseLock \/ Tick \/ UNCHANGED vars
  BY <1>3 DEF Flip, LoseLock, Tick, vars, engine, JobInv
<1> QED BY <1>1, <1>2, <1>3 DEF Next

(* The types of the engine's state hold for any number of pods and rules.     *)
THEOREM AlertTypes == Spec => []TypeOK
<1>1. Init => TypeOK /\ JobInv
  BY TypeInit
<1>2. TypeOK /\ JobInv /\ [Next]_vars => (TypeOK /\ JobInv)'
  BY TypeNext, JobNext
<1> QED BY <1>1, <1>2, PTL DEF Spec

-----------------------------------------------------------------------------
(* One pod with the file tracker: what was told is stored as firing, here and *)
(* in the file, and a firing that is on its way was not told yet.             *)
Firing(r) == disk[r].status = "firing" /\ \A p \in Pod : mem[p][r].status = "firing"

ToldInv == \A r \in Rule : told[r] => Firing(r) /\ \A p \in Pod : sample[p][r] # "clear"
FireJobInv ==
  \A p \in Pod : pc[p] \in Working /\ job[p] = "firing"
    => /\ ~told[rule[p]] /\ sample[p][rule[p]] = "breached"
       /\ pc[p] # "store" => Firing(rule[p])
ClearJobInv == \A p \in Pod : At(p, "store") /\ job[p] = "resolved" => sample[p][rule[p]] = "clear"
FireInv == ToldInv /\ FireJobInv /\ ClearJobInv

\* One pod: what the store says is on the way of the announcements.
Says(p, r) == IF UseRedis THEN disk[r].status ELSE mem[p][r].status
SaidInv == \A p \in Pod, r \in Rule : Says(p, r) = "firing"
             => \/ last[r] = "firing"
                \/ rule[p] = r /\ job[p] = "firing" /\ pc[p] \in Working \ {"store"}
ResolvedJobInv ==
  \A p \in Pod : pc[p] \in Working /\ job[p] = "resolved"
    => last[rule[p]] = "firing" /\ (pc[p] # "store" => Says(p, rule[p]) # "firing")
AloneInv == \A p \in Pod : ~At(p, "down")
                            /\ (LeaderLock /\ pc[p] \in Inside \cup {"idle"} => owner = p)
CalmInv == SaidInv /\ ResolvedJobInv /\ AloneInv
QuietInv == Unharmed => CalmInv
LEMMA FireInit == ASSUME Init PROVE FireInv
  BY DEF Init, FireInv, ToldInv, FireJobInv, ClearJobInv, Working, At

\* A file tracker that writes "firing" for the rules told keeps what it says.
LEMMA FilePut ==
  ASSUME ~UseRedis, OnePod, TypeOK, ToldInv, NEW p \in Pod, NEW e \in Entry,
         Put(p, e) \/ PutRaises(p, e), told[rule[p]] => e.status = "firing"
  PROVE  \A r \in Rule : told[r] \/ (r = rule[p] /\ Put(p, e) /\ e.status = "firing") => Firing(r)'
<1> SUFFICES ASSUME NEW r \in Rule, told[r] \/ (r = rule[p] /\ Put(p, e) /\ e.status = "firing")
             PROVE  Firing(r)'
  OBVIOUS
<1>1. /\ rule[p] \in Rule /\ disk \in [Rule -> Entry] /\ mem \in [Pod -> [Rule -> Entry]]
      /\ mem' = [mem EXCEPT ![p] = [mem[p] EXCEPT ![rule[p]] = e]]
      /\ disk' = disk \/ disk' = mem'[p]
      /\ Put(p, e) => disk' = mem'[p]
  BY DEF TypeOK, Put, PutRaises
<1>2. mem'[p][r].status = "firing"
  BY <1>1 DEF ToldInv, Firing
<1>3. disk'[r].status = "firing"
  BY <1>1, <1>2 DEF ToldInv, Firing
<1> QED BY <1>2, <1>3 DEF Firing, OnePod

LEMMA FireNext ==
  ASSUME ~UseRedis, OnePod, TypeOK, JobInv, FireInv, [Next]_vars PROVE FireInv'
\* A step that stores nothing and leaves the working part.
<1>l. ASSUME NEW p \in Pod, UNCHANGED <<disk, mem, told>>,
             Advance(p) \/ Rest(p, "idle") \/ Rest(p, "off") \/ Rest(p, "down")
      PROVE  FireInv'
  <2>1. PICK where \in {"idle", "off", "down", "eval"} : Leaves(p, where)
    BY <1>l, AdvanceLeaves, RestLeaves
  <2>2. ToldInv'
    BY <1>l, <2>1 DEF FireInv, ToldInv, Firing, Leaves, OnePod, TypeOK, NoSample
  <2>3. pc'[p] = where
    BY <2>1 DEF Leaves, TypeOK
  <2> QED BY <2>2, <2>3 DEF OnePod, FireInv, FireJobInv, ClearJobInv, Working, At
\* A step that stores nothing and keeps the job.
<1>g. ASSUME NEW p \in Pod, NEW where \in Inside \cup {"off", "idle"}, Goto(p, where),
             UNCHANGED <<disk, mem, told, sample, rule, job>>,
             where \in Working => pc[p] \in Working /\ where # "store" /\ pc[p] # "store"
      PROVE  FireInv'
  <2>1. pc'[p] = where
    BY <1>g DEF Goto, TypeOK
  <2> QED BY <1>g, <2>1 DEF OnePod, FireInv, ToldInv, Firing, FireJobInv, ClearJobInv, Working, At
\* A save that leaves the working part.
<1>p. ASSUME NEW p \in Pod, NEW e \in Entry, Put(p, e) \/ PutRaises(p, e),
             told[rule[p]] => e.status = "firing", UNCHANGED told, Advance(p) \/ Rest(p, "idle")
      PROVE  FireInv'
  <2>1. PICK where \in {"idle", "eval"} : Leaves(p, where)
    BY <1>p, AdvanceLeaves, RestLeaves
  <2>2. \A r \in Rule : told[r] => Firing(r)'
    BY <1>p, FilePut DEF FireInv
  <2>3. ToldInv'
    BY <1>p, <2>1, <2>2 DEF FireInv, ToldInv, Leaves, OnePod, TypeOK, NoSample
  <2>4. pc'[p] = where
    BY <2>1 DEF Leaves, TypeOK
  <2> QED BY <2>3, <2>4 DEF OnePod, FireInv, FireJobInv, ClearJobInv, Working, At
<1>1. ASSUME NEW p \in Pod, Fetch(p) PROVE FireInv'
  <2>1. PICK failed \in SUBSET Rule :
          /\ sample' = [sample EXCEPT ![p] = [r \in Rule |-> Observed(failed, r)]]
          /\ told' = [r \in Rule |-> told[r] /\ Observed(failed, r) # "clear"]
    BY <1>1 DEF Fetch
  <2>2. sample'[p] = [r \in Rule |-> Observed(failed, r)] /\ pc'[p] = "eval"
    BY <1>1, <2>1 DEF Fetch, Goto, TypeOK
  <2>3. ToldInv'
    <3>1. \A r \in Rule : told'[r] => told[r] /\ Observed(failed, r) # "clear"
      BY <2>1
    <3>2. \A r \in Rule : Firing(r) => Firing(r)'
      BY <1>1 DEF Fetch, store, Firing
    <3>3. \A r \in Rule : sample'[p][r] = Observed(failed, r)
      BY <2>2
    <3> QED BY <3>1, <3>2, <3>3 DEF FireInv, ToldInv, OnePod
  <2> QED BY <2>2, <2>3 DEF OnePod, FireInv, FireJobInv, ClearJobInv, Working, At
<1>2. ASSUME NEW p \in Pod, Skip(p) \/ Remediate(p) PROVE FireInv'
  BY <1>2, <1>l DEF Skip, Remediate, store, history
<1>3. ASSUME NEW p \in Pod, CheckBreached(p) PROVE FireInv'
  <2> DEFINE e == Breached(Stored(p))
  <2>0. e \in Entry /\ (told[rule[p]] => e.status = "firing")
    BY StoredType DEF Breached, Stored, FireInv, ToldInv, Firing, TypeOK
  <2>1. CASE (Put(p, e) \/ PutRaises(p, e)) /\ (Advance(p) \/ Rest(p, "idle"))
    BY <1>3, <1>p, <2>0, <2>1 DEF CheckBreached, history
  <2>2. CASE /\ Put(p, e) /\ e.status # "firing" /\ Goto(p, "store")
             /\ job' = [job EXCEPT ![p] = "firing"] /\ UNCHANGED <<rule, sample>>
    <3>1. \A r \in Rule : told[r] => Firing(r)'
      BY <2>0, <2>2, FilePut DEF FireInv
    <3>2. pc'[p] = "store" /\ job'[p] = "firing" /\ sample[p][rule[p]] = "breached"
          /\ rule[p] \in Rule /\ ~told[rule[p]] /\ UNCHANGED <<told, rule, sample>>
      BY <1>3, <2>0, <2>2 DEF CheckBreached, Evaluates, Goto, TypeOK, history
    <3> QED BY <3>1, <3>2 DEF OnePod, FireInv, ToldInv, FireJobInv, ClearJobInv, At
  <2> QED BY <1>3, <2>1, <2>2 DEF CheckBreached, Abort
<1>4. ASSUME NEW p \in Pod, CheckClear(p) PROVE FireInv'
  <2>1. CASE Advance(p)
    BY <1>4, <1>l, <2>1 DEF CheckClear, store, history
  <2>2. CASE Goto(p, "store") /\ job' = [job EXCEPT ![p] = "resolved"] /\ UNCHANGED <<rule, sample>>
    <3>1. pc'[p] = "store" /\ job'[p] = "resolved" /\ sample[p][rule[p]] = "clear"
          /\ UNCHANGED <<disk, mem, told, rule, sample>>
      BY <1>4, <2>2 DEF CheckClear, Evaluates, Goto, TypeOK, store, history
    <3> QED BY <3>1 DEF OnePod, FireInv, ToldInv, Firing, FireJobInv, ClearJobInv, At
  <2> QED BY <1>4, <2>1, <2>2 DEF CheckClear
<1>5. ASSUME NEW p \in Pod, SetStatus(p) PROVE FireInv'
  <2> DEFINE e == [Stored(p) EXCEPT !.status = job[p]]
  <2>0. job[p] \in {"firing", "resolved"} /\ Stored(p) \in Entry /\ e \in Entry
        /\ e.status = job[p] /\ pc[p] = "store" /\ UNCHANGED told
    <3>1. job[p] \in {"firing", "resolved"} /\ pc[p] = "store" /\ UNCHANGED told
      BY <1>5 DEF SetStatus, JobInv, TypeOK, At, Working, history
    <3> QED BY <3>1, StoredType DEF Entry
  <2>1. told[rule[p]] => e.status = "firing"
    BY <2>0 DEF FireInv, ToldInv, ClearJobInv, At, TypeOK
  <2>2. CASE PutRaises(p, e) /\ Rest(p, "idle")
    BY <1>p, <2>0, <2>1, <2>2
  <2>3. CASE Put(p, e) /\ Goto(p, "record") /\ UNCHANGED <<rule, sample, job>>
    <3>1. \A r \in Rule : told[r] \/ (r = rule[p] /\ job[p] = "firing") => Firing(r)'
      BY <2>0, <2>1, <2>3, FilePut DEF FireInv
    <3>2. pc'[p] = "record" /\ rule'[p] \in Rule /\ UNCHANGED <<told, rule, sample, job>>
      BY <2>0, <2>3 DEF Goto, TypeOK
    <3>3. ToldInv'
      BY <3>1, <3>2 DEF FireInv, ToldInv
    <3>4. FireJobInv'
      <4> SUFFICES ASSUME job[p] = "firing"
                   PROVE  ~told[rule[p]] /\ sample[p][rule[p]] = "breached" /\ Firing(rule[p])'
        BY <3>2 DEF OnePod, FireJobInv
      <4>1. \A r \in Rule : r = rule'[p] => Firing(r)'
        BY <3>1, <3>2
      <4>2. Firing(rule[p])'
        BY <3>2, <4>1
      <4> QED BY <2>0, <4>2 DEF FireInv, FireJobInv, Working
    <3> QED BY <3>2, <3>3, <3>4 DEF OnePod, FireInv, ClearJobInv, At
  <2> QED BY <1>5, <2>2, <2>3 DEF SetStatus, Abort
<1>6. ASSUME NEW p \in Pod, Record(p) PROVE FireInv'
  <2>1. CASE Rest(p, "idle")
    BY <1>6, <1>l, <2>1 DEF Record, history
  <2>2. CASE Goto(p, "fence") /\ UNCHANGED <<rule, sample, job>>
    BY <1>6, <1>g, <2>2 DEF Record, history, At, Working, Inside
  <2> QED BY <1>6, <2>1, <2>2 DEF Record, Abort
<1>7. ASSUME NEW p \in Pod, Fence(p) PROVE FireInv'
  <2>1. Goto(p, "send") \/ Goto(p, "tell")
    BY <1>7 DEF Fence
  <2> QED BY <1>7, <1>g, <2>1 DEF Fence, store, history, At, Working, Inside
<1>8. ASSUME NEW p \in Pod, Send(p) PROVE FireInv'
  <2>1. pc[p] = "send" /\ pc'[p] = "tell" /\ UNCHANGED <<disk, mem, sample, rule, job>>
        /\ told' = IF job[p] = "firing" THEN [told EXCEPT ![rule[p]] = TRUE] ELSE told
    BY <1>8 DEF Send, Goto, At, TypeOK, store
  <2>2. ToldInv'
    BY <2>1 DEF OnePod, FireInv, ToldInv, FireJobInv, Firing, Working, TypeOK
  <2> QED BY <2>1, <2>2 DEF OnePod, FireInv, FireJobInv, ClearJobInv, Working, At
<1>9. ASSUME NEW p \in Pod, Tell(p) PROVE FireInv'
  <2>1. CASE Goto(p, "remediate") /\ UNCHANGED <<rule, sample, job>>
    BY <1>9, <1>g, <2>1 DEF Tell, store, history, Working, Inside
  <2>2. CASE Advance(p)
    BY <1>9, <1>l, <2>2 DEF Tell, store, history
  <2> QED BY <1>9, <2>1, <2>2 DEF Tell
<1>10. ASSUME NEW p \in Pod, TakeOver(p) PROVE FireInv'
  BY <1>10, <1>g DEF TakeOver, store, history, Working
<1>11. ASSUME NEW p \in Pod, StandDown(p) \/ Crash(p) PROVE FireInv'
  BY <1>11, <1>l DEF StandDown, Crash, store, history
<1>12. ASSUME NEW p \in Pod, Restart(p) PROVE FireInv'
  <2>1. pc'[p] \in {"off", "idle"} /\ mem' = [mem EXCEPT ![p] = disk]
        /\ UNCHANGED <<disk, told, sample>>
    BY <1>12 DEF Restart, Goto, TypeOK, history
  <2>2. ToldInv'
    BY <2>1 DEF OnePod, FireInv, ToldInv, Firing, TypeOK
  <2> QED BY <2>1, <2>2 DEF OnePod, FireInv, FireJobInv, ClearJobInv, Working, At
<1>13. CASE (\E r \in Rule : Flip(r)) \/ LoseLock \/ UNCHANGED vars
  BY <1>13 DEF Flip, LoseLock, vars, store, engine, history, FireInv, ToldInv, Firing, FireJobInv,
              ClearJobInv, At
<1>14. CASE Tick
  <2>1. \A r \in Rule : Firing(r) => Firing(r)'
    BY <1>14, OlderType DEF Tick, Firing, TypeOK
  <2>2. UNCHANGED <<told, sample, pc, rule, job>>
    BY <1>14 DEF Tick, engine, history
  <2>3. ToldInv'
    BY <2>1, <2>2 DEF FireInv, ToldInv
  <2>4. FireJobInv'
    <3> SUFFICES ASSUME NEW p \in Pod, pc[p] \in Working, job[p] = "firing"
                 PROVE  /\ ~told[rule[p]] /\ sample[p][rule[p]] = "breached"
                        /\ pc[p] # "store" => Firing(rule[p])'
      BY <2>2 DEF FireJobInv
    <3>1. ASSUME pc[p] # "store" PROVE Firing(rule[p])'
      <4>1. rule[p] \in Rule /\ Firing(rule[p])
        BY <3>1 DEF FireInv, FireJobInv, TypeOK
      <4>2. \A r \in Rule : r = rule'[p] => Firing(r)'
        BY <2>1, <2>2, <4>1
      <4> QED BY <2>2, <4>1, <4>2
    <3> QED BY <3>1 DEF FireInv, FireJobInv
  <2> QED BY <2>2, <2>3, <2>4 DEF FireInv, ClearJobInv, At
<1> QED BY <1>1, <1>2, <1>3, <1>4, <1>5, <1>6, <1>7, <1>8, <1>9, <1>10, <1>11, <1>12, <1>13,
           <1>14 DEF Next, Engine

(* With the file tracker on one pod a breach is announced once.              *)
THEOREM FiresOnceOnFile == ASSUME ~UseRedis, OnePod PROVE Spec => FiresOncePerBreach
<1> DEFINE Once == \A p \in Pod : Send(p) /\ job[p] = "firing" => ~told[rule[p]]
<1>1. Init => TypeOK /\ JobInv /\ FireInv
  BY TypeInit, FireInit
<1>2. TypeOK /\ JobInv /\ FireInv /\ [Next]_vars => (TypeOK /\ JobInv /\ FireInv)'
  BY TypeNext, JobNext, FireNext
<1>3. FireInv => [Once]_vars
  BY DEF FireInv, FireJobInv, Send, At, Working
<1>4. Spec => [][Once]_vars
  BY <1>1, <1>2, <1>3, PTL DEF Spec
<1> QED BY <1>4 DEF FiresOncePerBreach

-----------------------------------------------------------------------------
(* One pod, either tracker.  A fault other than a failed fetch ends the       *)
(* promise for good, so it holds step by step of what no such fault preceded. *)
LEMMA Harm == ASSUME TypeOK, NEW on, Fault(on, "harm") PROVE ~Unharmed'
  BY FaultType DEF Unharmed

LEMMA CalmInit == ASSUME Init PROVE CalmInv
  BY OwnerAssumption DEF Init, CalmInv, SaidInv, Says, ResolvedJobInv, AloneInv, Working, Inside, At, NoEntry

LEMMA CalmNext ==
  ASSUME OnePod, TypeOK, JobInv, CalmInv, Unharmed, Unharmed', [Next]_vars PROVE CalmInv'
\* The end of a rule: nothing is stored or sent.
<1>l. ASSUME NEW p \in Pod, UNCHANGED <<last, owner>>, Advance(p),
             \A r \in Rule : Says(p, r)' = "firing" => last[r] = "firing", pc[p] \in Inside
      PROVE  CalmInv'
  <2>1. PICK where \in {"idle", "eval"} : Leaves(p, where)
    BY <1>l, AdvanceLeaves
  <2>2. pc'[p] = where
    BY <2>1 DEF Leaves, TypeOK
  <2> QED BY <1>l, <2>2 DEF OnePod, CalmInv, SaidInv, ResolvedJobInv, AloneInv, Working, Inside, At
\* A step of the engine that stores nothing and sends nothing.
<1>g. ASSUME NEW p \in Pod, NEW where \in Inside, Goto(p, where), pc[p] \in Inside \cup {"idle"},
             UNCHANGED <<disk, mem, last, owner>>,
             \/ UNCHANGED <<rule, job>> /\ where \in Working \ {"store"} /\ pc[p] \in Working \ {"store"}
             \/ where \notin Working /\ \A r \in Rule : Says(p, r) = "firing" => last[r] = "firing"
      PROVE  CalmInv'
  <2>1. pc'[p] = where /\ \A r : Says(p, r)' = Says(p, r)
    BY <1>g DEF Goto, TypeOK, Says
  <2>2. SaidInv'
    BY <1>g, <2>1 DEF OnePod, CalmInv, SaidInv, Working
  <2>3. ResolvedJobInv'
    <3>1. CASE where \notin Working
      BY <2>1, <3>1 DEF OnePod, ResolvedJobInv
    <3>2. CASE where \in Working
      <4>1. \A q \in Pod : q = p /\ (Says(q, rule[q]) # "firing" => Says(q, rule[q])' # "firing")
        BY <1>g, <3>2 DEF OnePod, Says
      <4> QED BY <1>g, <2>1, <3>2, <4>1 DEF CalmInv, ResolvedJobInv
    <3> QED BY <3>1, <3>2
  <2>4. AloneInv'
    BY <1>g, <2>1 DEF OnePod, CalmInv, AloneInv, Inside, At
  <2> QED BY <2>2, <2>3, <2>4 DEF CalmInv
\* At the evaluation of a rule all that is firing was announced.
<1>e. ASSUME NEW p \in Pod, pc[p] \notin Working \ {"store"}, NEW r \in Rule, Says(p, r) = "firing"
      PROVE  last[r] = "firing"
  BY <1>e DEF CalmInv, SaidInv
\* What a tracker says after it stored e.
<1>p. ASSUME NEW p \in Pod, NEW e \in Entry, Put(p, e), NEW r \in Rule
      PROVE  Says(p, r)' = IF r = rule[p] THEN e.status ELSE Says(p, r)
  <2>1. rule[p] \in Rule /\ disk \in [Rule -> Entry] /\ mem[p] \in [Rule -> Entry]
        /\ mem \in [Pod -> [Rule -> Entry]]
    BY DEF TypeOK
  <2>2. CASE UseRedis
    BY <1>p, <2>1, <2>2 DEF Put, Says
  <2>3. CASE ~UseRedis
    <3>1. mem'[p] = [mem[p] EXCEPT ![rule[p]] = e]
      BY <1>p, <2>1, <2>3 DEF Put
    <3> QED BY <2>1, <2>3, <3>1 DEF Says
  <2> QED BY <2>2, <2>3
<1>1. ASSUME NEW p \in Pod, Fetch(p) PROVE CalmInv'
  BY <1>1, <1>g, <1>e DEF Fetch, At, Working, Inside, store
<1>2. ASSUME NEW p \in Pod, Skip(p) \/ Remediate(p) PROVE CalmInv'
  <2>1. pc[p] \in {"eval", "remediate"} /\ UNCHANGED <<disk, mem, last, owner>> /\ Advance(p)
    BY <1>2 DEF Skip, Remediate, Evaluates, At, store, history
  <2>2. \A r \in Rule : Says(p, r)' = "firing" => last[r] = "firing"
    BY <1>e, <2>1 DEF Says, Working
  <2> QED BY <1>l, <2>1, <2>2 DEF Inside
<1>3. ASSUME NEW p \in Pod, CheckBreached(p) PROVE CalmInv'
  <2> DEFINE e == Breached(Stored(p))
  <2>0. /\ e \in Entry /\ (e.status = "firing" => Says(p, rule[p]) = "firing")
        /\ pc[p] = "eval" /\ rule[p] \in Rule /\ UNCHANGED <<last, owner>>
    <3>1. Stored(p) \in Entry /\ Stored(p).status = Says(p, rule[p])
      BY StoredType DEF Stored, Says
    <3>2. e \in Entry /\ (e.status = "firing" => Stored(p).status = "firing")
      BY <3>1, StoredType DEF Breached, Entry
    <3>3. pc[p] = "eval" /\ rule[p] \in Rule /\ UNCHANGED <<last, owner>>
      BY <1>3 DEF CheckBreached, Evaluates, At, history, TypeOK
    <3> QED BY <3>1, <3>2, <3>3
  <2>1. Put(p, e)
    BY <1>3, Harm DEF CheckBreached
  <2>2. \A r \in Rule : Says(p, r)' = "firing" => last[r] = "firing"
    BY <1>p, <1>e, <2>0, <2>1 DEF Working
  <2>3. CASE Advance(p)
    BY <1>l, <2>0, <2>2, <2>3 DEF Inside
  <2>4. CASE Goto(p, "store") /\ job' = [job EXCEPT ![p] = "firing"] /\ UNCHANGED <<rule, sample>>
    <3>1. pc'[p] = "store" /\ job'[p] = "firing"
      BY <2>4 DEF Goto, TypeOK
    <3> QED BY <2>0, <2>2, <3>1 DEF OnePod, CalmInv, SaidInv, ResolvedJobInv, AloneInv, At, Inside
  <2> QED BY <1>3, <2>3, <2>4, Harm DEF CheckBreached
<1>4. ASSUME NEW p \in Pod, CheckClear(p) PROVE CalmInv'
  <2>0. /\ pc[p] = "eval" /\ rule[p] \in Rule /\ UNCHANGED <<disk, mem, last, owner>>
        /\ (Resolves(Stored(p)) => Says(p, rule[p]) = "firing")
    BY <1>4 DEF CheckClear, Evaluates, At, store, history, Resolves, Stored, Says, TypeOK
  <2>1. \A r \in Rule : Says(p, r)' = "firing" => last[r] = "firing"
    BY <1>e, <2>0 DEF Says, Working
  <2>2. CASE Advance(p)
    BY <1>l, <2>0, <2>1, <2>2 DEF Inside
  <2>3. CASE /\ Resolves(Stored(p)) /\ Goto(p, "store")
             /\ job' = [job EXCEPT ![p] = "resolved"] /\ UNCHANGED <<rule, sample>>
    <3>1. pc'[p] = "store" /\ job'[p] = "resolved" /\ last[rule[p]] = "firing"
      BY <1>e, <2>0, <2>3 DEF Goto, TypeOK, Working
    <3> QED BY <2>0, <2>1, <2>3, <3>1 DEF OnePod, CalmInv, SaidInv, ResolvedJobInv, AloneInv, At, Inside
  <2> QED BY <1>4, <2>2, <2>3 DEF CheckClear
<1>5. ASSUME NEW p \in Pod, SetStatus(p) PROVE CalmInv'
  <2> DEFINE e == [Stored(p) EXCEPT !.status = job[p]]
  <2>0. /\ pc[p] = "store" /\ rule[p] \in Rule /\ job[p] \in {"firing", "resolved"}
        /\ UNCHANGED <<last, owner>>
    BY <1>5 DEF SetStatus, JobInv, At, Working, history, TypeOK
  <2>1. e \in Entry /\ e.status = job[p]
    BY <2>0, StoredType DEF Entry
  <2>2. Put(p, e) /\ Goto(p, "record") /\ UNCHANGED <<rule, job>>
    BY <1>5, Harm DEF SetStatus
  <2>3. pc'[p] = "record"
    BY <2>2 DEF Goto, TypeOK
  <2>4. \A r \in Rule : Says(p, r)' = IF r = rule[p] THEN job[p] ELSE Says(p, r)
    BY <1>p, <2>1, <2>2
  <2>5. SaidInv'
    BY <1>e, <2>0, <2>2, <2>3, <2>4 DEF OnePod, SaidInv, Working
  <2>6. ResolvedJobInv'
    <3> SUFFICES ASSUME job[p] = "resolved"
                 PROVE  last[rule[p]] = "firing" /\ Says(p, rule[p])' # "firing"
      BY <2>0, <2>2, <2>3 DEF OnePod, ResolvedJobInv
    <3>1. \A r \in Rule : r = rule[p] => Says(p, r)' # "firing"
      BY <2>4
    <3> QED BY <2>0, <2>2, <3>1 DEF CalmInv, ResolvedJobInv, Working, Says
  <2>7. AloneInv'
    BY <2>0, <2>3 DEF OnePod, CalmInv, AloneInv, Inside, At
  <2> QED BY <2>5, <2>6, <2>7 DEF CalmInv
<1>6. ASSUME NEW p \in Pod, Record(p) PROVE CalmInv'
  BY <1>6, <1>g, Harm DEF Record, At, Working, Inside, history
<1>7. ASSUME NEW p \in Pod, Fence(p) PROVE CalmInv'
  <2>1. LeaderLock => owner = p
    BY <1>7 DEF Fence, CalmInv, AloneInv, At, Inside
  <2> QED BY <1>7, <1>g, <2>1, Harm DEF Fence, At, Working, Inside, store, history
<1>8. ASSUME NEW p \in Pod, Send(p) PROVE CalmInv'
  <2>1. pc[p] = "send" /\ pc'[p] = "tell" /\ rule[p] \in Rule /\ UNCHANGED <<disk, mem, rule, job, owner>>
        /\ last' = [last EXCEPT ![rule[p]] = job[p]] /\ last \in [Rule -> {"none", "firing", "resolved"}]
    BY <1>8 DEF Send, Goto, At, TypeOK, store
  <2>2. \A r \in Rule : Says(p, r)' = Says(p, r)
    BY <2>1 DEF Says
  <2>3. SaidInv'
    <3> SUFFICES ASSUME NEW r \in Rule, Says(p, r) = "firing" PROVE last'[r] = "firing"
      BY <2>2 DEF OnePod, SaidInv
    <3>1. CASE r = rule[p]
      <4>1. job[p] = "firing"
        BY <2>1, <3>1 DEF JobInv, CalmInv, ResolvedJobInv, Working, TypeOK
      <4> QED BY <2>1, <3>1, <4>1
    <3>2. CASE r # rule[p]
      BY <2>1, <3>2 DEF CalmInv, SaidInv
    <3> QED BY <3>1, <3>2
  <2> QED BY <2>1, <2>3 DEF OnePod, CalmInv, ResolvedJobInv, AloneInv, Working, Inside, At
<1>9. ASSUME NEW p \in Pod, Tell(p) PROVE CalmInv'
  <2>1. pc[p] = "tell" /\ UNCHANGED <<disk, mem, last, owner>>
    BY <1>9 DEF Tell, At, store, history
  <2>2. \A r \in Rule : Says(p, r) = "firing" => last[r] = "firing"
    BY <1>e, <2>1 DEF Working
  <2>3. CASE Goto(p, "remediate") /\ UNCHANGED <<rule, sample, job>>
    BY <1>g, <2>1, <2>2, <2>3 DEF Working, Inside
  <2>4. CASE Advance(p)
    BY <1>l, <2>1, <2>2, <2>4 DEF Inside, Says
  <2> QED BY <1>9, <2>3, <2>4 DEF Tell
<1>10. ASSUME NEW p \in Pod, TakeOver(p) PROVE CalmInv'
  <2>1. pc[p] = "off" /\ pc'[p] = "idle" /\ owner' = p /\ UNCHANGED <<disk, mem, last>>
    BY <1>10 DEF TakeOver, At, Goto, TypeOK, store, history
  <2> QED BY <2>1, <1>e DEF OnePod, CalmInv, SaidInv, Says, ResolvedJobInv, AloneInv, Working, At
<1>11. ASSUME NEW p \in Pod, StandDown(p) PROVE CalmInv'
  BY <1>11 DEF StandDown, CalmInv, AloneInv
<1>12. ASSUME NEW p \in Pod, Crash(p) \/ Restart(p) PROVE CalmInv'
  BY <1>12, Harm DEF Crash, Restart, CalmInv, AloneInv
<1>13. CASE LoseLock
  BY <1>13, Harm DEF LoseLock
<1>14. CASE (\E r \in Rule : Flip(r)) \/ UNCHANGED vars
  BY <1>14 DEF Flip, vars, store, engine, history, CalmInv, SaidInv, Says, ResolvedJobInv, AloneInv, At
<1>15. CASE Tick
  <2>1. UNCHANGED <<pc, rule, job, last, owner>>
    BY <1>15 DEF Tick, engine, history
  <2>2. \A p \in Pod, r \in Rule : Says(p, r)' = Says(p, r)
    BY <1>15, OlderType DEF Tick, Says, TypeOK
  <2>3. \A p \in Pod : rule[p] \in Rule
    BY DEF TypeOK
  <2>4. SaidInv' /\ AloneInv'
    BY <2>1, <2>2 DEF CalmInv, SaidInv, AloneInv, At
  <2>5. ResolvedJobInv'
    <3>1. \A p \in Pod, r \in Rule : pc[p] \in Working /\ job[p] = "resolved" /\ r = rule[p]
            => last[r] = "firing" /\ (pc[p] # "store" => Says(p, r)' # "firing")
      BY <2>2 DEF CalmInv, ResolvedJobInv
    <3> QED BY <2>1, <2>3, <3>1 DEF ResolvedJobInv, Says
  <2> QED BY <2>4, <2>5 DEF CalmInv
<1> QED BY <1>1, <1>2, <1>3, <1>4, <1>5, <1>6, <1>7, <1>8, <1>9, <1>10, <1>11, <1>12, <1>13,
           <1>14, <1>15 DEF Next, Engine

LEMMA HarmStays == ASSUME TypeOK, [Next]_vars, Unharmed' PROVE Unharmed
<1>f. ASSUME NEW on, Fault(on, "fetch") PROVE Unharmed
  BY <1>f, FaultType DEF Unharmed
<1>1. UNCHANGED faults \/ (\E on : Fault(on, "harm")) \/ (\E on : Fault(on, "fetch"))
  BY DEF Next, Engine, Fetch, Skip, CheckBreached, CheckClear, SetStatus, Record, Fence, Send, Tell,
         Remediate, TakeOver, StandDown, Crash, Restart, Flip, LoseLock, Tick, vars
<1> QED BY <1>1, <1>f, Harm DEF Unharmed

(* On one pod, with either tracker, a resolution is announced only after the  *)
(* firing was, until the store fails, the pod dies or the lock is lost.       *)
THEOREM ResolvesWhatFiredAlways == ASSUME OnePod PROVE Spec => ResolvesWhatFired
<1> DEFINE After == \A p \in Pod : Send(p) /\ job[p] = "resolved" /\ Unharmed
                                     => last[rule[p]] = "firing"
<1>1. Init => TypeOK /\ JobInv /\ QuietInv
  BY TypeInit, CalmInit DEF QuietInv
<1>2. TypeOK /\ JobInv /\ QuietInv /\ [Next]_vars => (TypeOK /\ JobInv /\ QuietInv)'
  BY TypeNext, JobNext, CalmNext, HarmStays DEF QuietInv
<1>3. QuietInv => [After]_vars
  BY DEF QuietInv, CalmInv, ResolvedJobInv, Send, At, Working
<1>4. Spec => [][After]_vars
  BY <1>1, <1>2, <1>3, PTL DEF Spec
<1> QED BY <1>4 DEF ResolvesWhatFired
-----------------------------------------------------------------------------
(* Under the leader lock.  A pod that owns the lock runs the engine: the lock *)
(* is taken together with the start and lost before the end.                  *)

OwnerRuns == owner \in Pod => owner \in Leading

\* A step of the engine itself leaves it running.
LEMMA EngineRunsOn ==
  ASSUME TypeOK, NEW p \in Pod, Engine(p)
  PROVE  Leading' = Leading /\ owner' = owner
<1>1. /\ pc[p] \notin {"off", "down"} /\ owner' = owner
      /\ \E w \in Inside \cup {"idle"} : pc' = [pc EXCEPT ![p] = w]
  <2>1. Fetch(p) \/ Skip(p) \/ CheckBreached(p) \/ CheckClear(p) \/ SetStatus(p) \/ Record(p)
        \/ Fence(p) \/ Send(p) \/ Tell(p) \/ Remediate(p)
    BY DEF Engine
  <2> QED
    BY <2>1 DEF Fetch, Skip, Evaluates, CheckBreached, CheckClear, SetStatus, Record, Fence, Send,
       Tell, Remediate, Advance, Abort, Rest, Goto, At, Inside
<1> QED BY <1>1 DEF Leading, TypeOK, Inside

LEMMA UnderLockNext ==
  ASSUME LeaderLock, TypeOK, OwnerRuns, [Next]_vars
  PROVE  [Lock!Next]_Lock!lockVars /\ OwnerRuns'
<1>0. Leading \subseteq Pod /\ owner \in Pod \cup {Nobody}
  BY DEF Leading, TypeOK
<1>1. ASSUME NEW p \in Pod, Engine(p) PROVE UNCHANGED <<owner, Leading>>
  BY <1>1, EngineRunsOn
<1>2. ASSUME NEW p \in Pod, Restart(p) PROVE UNCHANGED <<owner, Leading>>
  BY <1>2 DEF Restart, Goto, At, Leading, TypeOK
<1>3. ASSUME \/ Tick \/ UNCHANGED vars
             \/ \E r \in Rule : Flip(r)
      PROVE  UNCHANGED <<owner, Leading>>
  BY <1>3 DEF Tick, Flip, vars, engine, Leading
<1>4. ASSUME NEW p \in Pod, TakeOver(p) PROVE Lock!Start(p) /\ OwnerRuns'
  <2>1. Leading' = Leading \cup {p} /\ p \notin Leading
    BY <1>4 DEF TakeOver, Goto, At, Leading, TypeOK
  <2> QED BY <1>4, <2>1 DEF TakeOver, Lock!Start, OwnerRuns
<1>5. ASSUME NEW p \in Pod, StandDown(p) PROVE Lock!Stop(p) /\ OwnerRuns'
  <2>1. Leading' = Leading \ {p} /\ p \in Leading
    BY <1>5 DEF StandDown, Rest, Goto, At, Leading, TypeOK, Inside
  <2> QED BY <1>0, <1>5, <2>1 DEF StandDown, Lock!Stop, OwnerRuns
<1>6. CASE LoseLock
  <2>1. Leading' = Leading
    BY <1>6 DEF LoseLock, engine, Leading
  <2> QED BY <1>6, <2>1, OwnerAssumption DEF LoseLock, Lock!Next, Lock!Lose, OwnerRuns
<1>7. ASSUME NEW p \in Pod, Crash(p) PROVE [Lock!Next]_Lock!lockVars /\ OwnerRuns'
  <2>1. Leading' = Leading \ {p} /\ owner' = (IF owner = p THEN Nobody ELSE owner)
    BY <1>7 DEF Crash, Rest, Goto, At, Leading, TypeOK
  <2>2. CASE p \in Leading
    BY <1>0, <2>1, <2>2, OwnerAssumption DEF Lock!Next, Lock!Stop, OwnerRuns
  <2>3. CASE p \notin Leading
    <3>1. Leading' = Leading /\ owner' = owner
      BY <2>1, <2>3 DEF OwnerRuns
    <3> QED BY <3>1 DEF OwnerRuns, Lock!lockVars
  <2> QED BY <2>2, <2>3
<1>8. ASSUME UNCHANGED <<owner, Leading>> PROVE [Lock!Next]_Lock!lockVars /\ OwnerRuns'
  BY <1>8 DEF OwnerRuns, Lock!lockVars
<1> QED
  BY <1>1, <1>2, <1>3, <1>4, <1>5, <1>6, <1>7, <1>8 DEF Next, Lock!Next

(* The engine that AlertEngine models is one that leader election may start   *)
(* and stop: its take-overs, losses and late stops are LeaderLock's, which    *)
(* LeaderElection implements (engine.py 391-396, leader.py 174-220).          *)
THEOREM AlertsUnderLock == ASSUME LeaderLock PROVE Spec => AssumesLeaderLock
<1>1. Init => Lock!Init /\ OwnerRuns
  BY OwnerAssumption DEF Init, Lock!Init, Leading, OwnerRuns
<1>2. TypeOK /\ OwnerRuns /\ [Next]_vars => [Lock!Next]_Lock!lockVars /\ OwnerRuns'
  BY UnderLockNext
<1> QED BY <1>1, <1>2, AlertTypes, PTL DEF Spec, AssumesLeaderLock, Lock!Spec
=============================================================================
