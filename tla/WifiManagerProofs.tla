------------------------- MODULE WifiManagerProofs -------------------------
(***************************************************************************)
(* Proofs about WifiManager: ctx.lock always has a task that will give it, *)
(* and is_endless_connect comes with a task to delete, but for the states  *)
(* the properties name.  Both rest on where each kind of task can be and   *)
(* on the kinds of task that ctx.task can name.                            *)
(***************************************************************************)
EXTENDS WifiManager, TLAPS

LPoints == {"idle", "took", "refused", "delay", "connecting", "begin", "scan", "scanwait",
            "scanned", "redo", "conn", "connected", "gone"}
HPoints == {"idle", "mode", "set", "reco"}
RPoints == {"off", "new", "begun", "try", "wait", "pause", "ended"}
DPoints == {"off", "wait", "told", "timeout", "ending", "switching"}

Points == LPoints \cup HPoints \cup RPoints \cup DPoints

\* The points where tasks of each kind can be.
Placed(p) ==
    /\ p \in [Tasks -> Points]
    /\ p["L"] \in LPoints /\ p["H"] \in HPoints
    /\ \A r \in Recons : p[r] \in RPoints
    /\ \A s \in Delayed : p[s] \in DPoints

\* There is a task that has the lock and will give it.
Owned(p) ==
    \/ p["L"] = "gone"
    \/ \E t \in Tasks \ Delayed : p[t] \in Holding
    \/ \E s \in Delayed : p[s] \in DelayedHolding

Lives(p, t) == t \in Tasks /\ p[t] \notin {"off", "gone"}

\* Handle t is of a task that lives, or in one of the states in which it need not.
Pointed(p, t) == Lives(p, t) \/ (\E r \in Recons : p[r] = "begun") \/ p["L"] = "gone"

Handles == {"none", "L"} \cup Recons

Inductive ==
    /\ Placed(pc) /\ task \in Handles /\ cred \in BOOLEAN
    /\ lock = "taken" => Owned(pc)
    /\ is_endless_connect => Pointed(pc, task)

\* From p to q tasks are created and nothing else changes.
OnlyStarts(p, q) ==
    /\ q \in [Tasks -> Points]
    /\ \A t \in Tasks :
          \/ q[t] = p[t]
          \/ p[t] = "off" /\ t \in Delayed /\ q[t] = "wait"
          \/ p[t] = "off" /\ t \in Recons /\ q[t] = "new"

----------------------------------------------------------------------------
(* Facts about the creation of tasks *)

\* The kinds of task differ, and each task has one kind.
LEMMA Kinds ==
    /\ "L" \in Tasks /\ "H" \in Tasks
    /\ Recons \subseteq Tasks /\ Delayed \subseteq Tasks
    /\ Stops \subseteq Delayed /\ Starts \subseteq Delayed
    /\ "L" \notin Recons /\ "L" \notin Delayed /\ "H" \notin Recons /\ "H" \notin Delayed
    /\ Recons \cap Delayed = {}
    /\ "none" \notin Tasks
  BY WifiAssumption DEF Tasks, Delayed

\* xTaskCreate starts a task that was not there, or none.
LEMMA CreateStarts ==
    ASSUME NEW p, NEW S, NEW at, NEW q \in xTaskCreate(p, S, at)
    PROVE  q = p \/ \E c \in S : p[c] = "off" /\ q = [p EXCEPT ![c] = at]
<1>1. CASE q # p
  <2>1. Free(p, S) # {} /\ q = [p EXCEPT ![Created(p, S)] = at]
    BY <1>1 DEF xTaskCreate
  <2>2. Created(p, S) \in Free(p, S)
    BY <2>1 DEF Created
  <2> QED
    BY <2>1, <2>2 DEF Free
<1> QED
  BY <1>1

\* Tasks that are created change neither who holds the lock nor who is alive.
LEMMA StartsKeep ==
    ASSUME NEW p, NEW q, Placed(p), OnlyStarts(p, q)
    PROVE  /\ Placed(q)
           /\ Owned(p) => Owned(q)
           /\ \A t : Pointed(p, t) => Pointed(q, t)
<1>1. q["L"] = p["L"] /\ q["H"] = p["H"]
  BY Kinds DEF OnlyStarts
<1>2. \A r \in Recons : q[r] \in RPoints
  BY Kinds DEF OnlyStarts, Placed, RPoints
<1>3. \A s \in Delayed : q[s] \in DPoints
  BY Kinds DEF OnlyStarts, Placed, DPoints
<1>4. \A t \in Tasks : p[t] # "off" => q[t] = p[t]
  BY DEF OnlyStarts
<1>5. Owned(p) => Owned(q)
  BY <1>1, <1>4, Kinds DEF Owned, Holding, DelayedHolding
<1>6. \A t : Pointed(p, t) => Pointed(q, t)
  BY <1>1, <1>4, Kinds DEF Pointed, Lives
<1> QED
  BY <1>1, <1>2, <1>3, <1>5, <1>6 DEF Placed, OnlyStarts

\* handle_wifi_connected creates at most a task that closes the access point.
LEMMA ConnectedStarts ==
    ASSUME NEW p \in [Tasks -> Points], NEW n, handle_wifi_connected(p, n)
    PROVE  OnlyStarts(p, pc')
<1>1. pc' = p \/ \E c \in Stops : p[c] = "off" /\ pc' = [p EXCEPT ![c] = "wait"]
  BY CreateStarts DEF handle_wifi_connected
<1> QED
  BY <1>1, Kinds DEF OnlyStarts, Points, DPoints

\* disconn_handler creates at most a task that opens the access point and, when it
\* has the lock, a reconnection task; if it did, that task has the lock.
LEMMA DisconnectedStarts ==
    ASSUME NEW p \in [Tasks -> Points], NEW n, NEW l, disconn_handler(p, n, l)
    PROVE  /\ OnlyStarts(p, pc')
           /\ Inherited(p, l) = "taken" => l = "taken" \/ \E r \in Recons : pc'[r] = "new"
<1>1. PICK p1 :
         /\ p1 = p \/ p1 \in xTaskCreate(p, Starts, "wait")
         /\ pc' = p1 \/ pc' \in xTaskCreate(p1, Recons, "new")
  BY DEF disconn_handler
<1>2. p1 = p \/ \E c \in Starts : p[c] = "off" /\ p1 = [p EXCEPT ![c] = "wait"]
  BY <1>1, CreateStarts
<1>3. pc' = p1 \/ \E c \in Recons : p1[c] = "off" /\ pc' = [p1 EXCEPT ![c] = "new"]
  BY <1>1, CreateStarts
<1>4. /\ p1 \in [Tasks -> Points]
      /\ \A t \in Tasks : p1[t] = p[t] \/ (p[t] = "off" /\ t \in Delayed /\ p1[t] = "wait")
  BY <1>2, Kinds DEF Points, DPoints
<1>5. /\ pc' \in [Tasks -> Points]
      /\ \A t \in Tasks : pc'[t] = p1[t] \/ (p1[t] = "off" /\ t \in Recons /\ pc'[t] = "new")
  BY <1>3, <1>4, Kinds DEF Points, RPoints
<1>6. OnlyStarts(p, pc')
  BY <1>4, <1>5, Kinds DEF OnlyStarts
<1>7. Started(p, pc') \cap Recons # {} => \E r \in Recons : pc'[r] = "new"
  BY <1>6, Kinds DEF Started, OnlyStarts
<1>8. Inherited(p, l) = "taken" => l = "taken" \/ \E r \in Recons : pc'[r] = "new"
  BY <1>7 DEF Inherited
<1> QED
  BY <1>6, <1>8

\* After start-up the lock is free, or a reconnection task has it.
LEMMA BootedOwned ==
    ASSUME NEW c \in BOOLEAN, NEW m
    PROVE  /\ Placed(Booted(c, m).pc)
           /\ Booted(c, m).lock = "taken" => Owned(Booted(c, m).pc)
<1> DEFINE none == [s \in Tasks |-> "off"]
           r == Created(none, Recons)
           d == Created(none, Starts)
           b == Booted(c, m)
<1>1. none \in [Tasks -> Points] /\ Recons \in SUBSET Tasks /\ Starts \in SUBSET Tasks
  BY Kinds DEF Points, DPoints
<1>2. Free(none, Recons) # {} /\ Free(none, Starts) # {}
  BY WifiAssumption, Kinds DEF Free
<1>3. r \in Recons /\ d \in Starts
  BY <1>1, <1>2 DEF Created, Free
<1>4. b.lock = IF c THEN "taken" ELSE "free"
  BY DEF Booted
<1>5. b.pc = [t \in Tasks |->
               IF t \in {"L", "H"} THEN "idle"
               ELSE IF c /\ t = r THEN "new"
               ELSE IF c /\ m = "AP_AUTO_STA_ON" /\ t = d THEN "wait" ELSE "off"]
  BY DEF Booted
<1> HIDE DEF b, r, d, none
<1>6. /\ b.pc["L"] = "idle" /\ b.pc["H"] = "idle"
      /\ \A t \in Recons : b.pc[t] \in {"new", "off"}
      /\ \A t \in Delayed : b.pc[t] \in {"wait", "off"}
      /\ b.pc \in [Tasks -> Points]
  <2>1. \A t \in Recons : b.pc[t] \in {"new", "off"}
    BY <1>3, <1>5, Kinds
  <2>2. \A t \in Delayed : b.pc[t] \in {"wait", "off"}
    BY <1>3, <1>5, Kinds
  <2>3. b.pc \in [Tasks -> Points]
    BY <1>5 DEF Points, LPoints, RPoints, DPoints
  <2> QED
    BY <2>1, <2>2, <2>3, <1>5, Kinds
<1>7. c => b.pc[r] = "new"
  BY <1>3, <1>5, Kinds
<1>8. Placed(b.pc)
  BY <1>6 DEF Placed, LPoints, HPoints, RPoints, DPoints
<1>9. b.lock = "taken" => Owned(b.pc)
  BY <1>3, <1>4, <1>7, Kinds DEF Owned, Holding
<1> QED
  BY <1>4, <1>8, <1>9 DEF b

----------------------------------------------------------------------------
(* The inductive invariant *)

\* A task is moved.
LEMMA OneMoves ==
    ASSUME Inductive, NEW t \in Tasks, NEW at \in Points, NEW q,
           q = [pc EXCEPT ![t] = at],
           t = "L" => at \in LPoints, t = "H" => at \in HPoints,
           t \in Recons => at \in RPoints, t \in Delayed => at \in DPoints
    PROVE  /\ Placed(q)
           /\ q[t] = at
           /\ \A u \in Tasks : u # t => q[u] = pc[u]
           /\ \A u : Pointed(pc, u) /\ pc[t] \notin {"begun", "gone"}
                    /\ (u # t \/ at \notin {"off", "gone"}) => Pointed(q, u)
           /\ t \notin Delayed /\ Owned(pc) /\ pc[t] \notin Holding \cup {"gone"} => Owned(q)
           /\ t \notin Delayed /\ at \in Holding => Owned(q)
           /\ t \in Delayed /\ at \in DelayedHolding => Owned(q)
<1>1. pc \in [Tasks -> Points] /\ Placed(pc)
  BY DEF Inductive, Placed
<1>2. q \in [Tasks -> Points] /\ q[t] = at /\ \A u \in Tasks : u # t => q[u] = pc[u]
  BY <1>1
<1>3. Placed(q)
  BY <1>1, <1>2, Kinds DEF Placed
<1>4. \A u : Pointed(pc, u) /\ pc[t] \notin {"begun", "gone"}
            /\ (u # t \/ at \notin {"off", "gone"}) => Pointed(q, u)
  BY <1>2, Kinds DEF Pointed, Lives
<1>5. t \notin Delayed /\ Owned(pc) /\ pc[t] \notin Holding \cup {"gone"} => Owned(q)
  BY <1>2, Kinds DEF Owned
<1>6. /\ t \notin Delayed /\ at \in Holding => Owned(q)
      /\ t \in Delayed /\ at \in DelayedHolding => Owned(q)
  BY <1>2, Kinds DEF Owned
<1> QED
  BY <1>2, <1>3, <1>4, <1>5, <1>6

\* The invariant speaks of five variables only.
LEMMA SameKeeps ==
    ASSUME Inductive, UNCHANGED <<pc, lock, task, is_endless_connect, cred>>
    PROVE  Inductive'
  BY DEF Inductive, Placed, Owned, Pointed, Lives, Handles

\* Steps of Ltask that move it alone, and keep ctx.task and is_endless_connect.
LEMMA LSteps ==
    ASSUME Inductive,
           \/ \E name \in {"scan", "connect"} : LTake(name)
           \/ LTook \/ LRefused \/ LDeletesItself
           \/ ScanChannel \/ ScanWait \/ ScanGive \/ ConnectWait
    PROVE  Inductive'
<1>1. UNCHANGED <<task, is_endless_connect, cred>> /\ pc["L"] \notin {"begun", "gone"}
  BY DEF LTake, LTook, LRefused, LDeletesItself, Deleting, ScanChannel, ScanWait, ScanGive,
         ConnectWait, flags, flash
<1>2. PICK at \in LPoints :
         /\ pc' = [pc EXCEPT !["L"] = at]
         /\ \/ at = "gone"
            \/ at \in Holding
            \/ lock' = "free"
            \/ lock' = lock /\ pc["L"] \notin Holding \cup {"gone"}
  <2>1. ASSUME NEW name \in {"scan", "connect"}, LTake(name) PROVE
           \E at \in LPoints :
              /\ pc' = [pc EXCEPT !["L"] = at]
              /\ at \in Holding \/ (lock' = lock /\ pc["L"] = "idle")
    BY <2>1 DEF LTake, LPoints, Holding
  <2>2. ASSUME LTook \/ LRefused \/ LDeletesItself PROVE
           \E at \in LPoints :
              /\ pc' = [pc EXCEPT !["L"] = at]
              /\ at = "gone" \/ at \in Holding \/ (lock' = lock /\ pc["L"] = "refused")
    BY <2>2 DEF LTook, LRefused, LDeletesItself, LPoints, Holding
  <2>3. ASSUME ScanChannel \/ ScanWait \/ ScanGive \/ ConnectWait PROVE
           \E at \in LPoints :
              /\ pc' = [pc EXCEPT !["L"] = at]
              /\ at \in Holding \/ lock' = "free"
    BY <2>3 DEF ScanChannel, ScanWait, ScanGive, ConnectWait, LPoints, Holding
  <2> QED
    BY <2>1, <2>2, <2>3 DEF Holding
<1>3. "L" \in Tasks /\ "L" \notin Delayed /\ "L" \notin Recons /\ "L" # "H" /\ at \in Points
  BY <1>2, Kinds DEF Points
<1>4. Placed(pc') /\ pc'["L"] = at
  <2>1. Placed(pc')
    BY <1>2, <1>3, OneMoves
  <2>2. pc'["L"] = at
    BY <1>2, <1>3 DEF Inductive, Placed
  <2> QED
    BY <2>1, <2>2
<1>5. Pointed(pc, task) => Pointed(pc', task)
  <2>1. CASE at = "gone"
    BY <1>4, <2>1 DEF Pointed
  <2>2. CASE at # "gone"
    <3>1. at \notin {"off", "gone"}
      BY <2>2 DEF LPoints
    <3> QED
      BY <1>1, <1>2, <1>3, <3>1, OneMoves
  <2> QED
    BY <2>1, <2>2
<1>6. at \in Holding => Owned(pc')
  BY <1>2, <1>3, OneMoves
<1>7. Owned(pc) /\ pc["L"] \notin Holding \cup {"gone"} => Owned(pc')
  BY <1>2, <1>3, OneMoves
<1>8. at = "gone" => Owned(pc')
  BY <1>4 DEF Owned
<1> QED
  BY <1>1, <1>2, <1>4, <1>5, <1>6, <1>7, <1>8 DEF Inductive, Handles

\* A scan or a connect begins.
LEMMA LStarts ==
    ASSUME Inductive, ScanStart \/ ConnectStart
    PROVE  Inductive'
<1>1. PICK at \in {"scan", "conn"} : pc' = [pc EXCEPT !["L"] = at]
  BY DEF ScanStart, ConnectStart
<1>2. task' = "L" /\ cred' = cred
  BY DEF ScanStart, ConnectStart, flash
<1>3. "L" \in Tasks /\ "L" \notin Delayed /\ "L" \notin Recons /\ "L" # "H"
      /\ at \in Points /\ at \in LPoints
  BY <1>1, Kinds DEF Points, LPoints
<1>4. Placed(pc') /\ pc'["L"] = at
  BY <1>1, <1>3, OneMoves
<1>5. Owned(pc')
  BY <1>1, <1>3, <1>4 DEF Owned, Holding
<1>6. Pointed(pc', "L")
  BY <1>1, <1>3, <1>4 DEF Pointed, Lives
<1> QED
  BY <1>2, <1>4, <1>5, <1>6 DEF Inductive, Handles

\* A task that reconnects, or what is where it was, is deleted.
LEMMA LDeletes ==
    ASSUME Inductive, LDelete
    PROVE  Inductive'
<1>1. PICK p \in Deleted(task) : pc' = [p EXCEPT !["L"] = "begin"]
  BY DEF LDelete
<1>2. PICK x : x \in Named(task) /\ p = [t \in Tasks |-> IF t = x THEN "off" ELSE pc[t]]
  BY <1>1 DEF Deleted
<1>3. x \notin {"L", "H"}
  <2>1. task \in Recons
    BY DEF LDelete, Inductive, Handles
  <2> QED
    BY <1>2, <2>1, Kinds DEF Named
<1>4. pc \in [Tasks -> Points] /\ Placed(pc)
  BY DEF Inductive, Placed
<1>5. p \in [Tasks -> Points] /\ Placed(p)
  <2>1. p \in [Tasks -> Points]
    BY <1>2, <1>4 DEF Points, DPoints
  <2>2. p["L"] = pc["L"] /\ p["H"] = pc["H"]
    BY <1>2, <1>3, Kinds
  <2>3. \A r \in Recons : p[r] \in RPoints
    BY <1>2, <1>4, Kinds DEF Placed, RPoints
  <2>4. \A s \in Delayed : p[s] \in DPoints
    BY <1>2, <1>4, Kinds DEF Placed, DPoints
  <2> QED
    BY <1>4, <2>1, <2>2, <2>3, <2>4 DEF Placed
<1>6. Placed(pc') /\ pc'["L"] = "begin"
  BY <1>1, <1>5, Kinds DEF Placed, Points, LPoints
<1>7. Owned(pc')
  BY <1>6, Kinds DEF Owned, Holding
<1> QED
  BY <1>6, <1>7 DEF LDelete, Inductive, Handles, flash

\* Steps of the HTTP server's task.
LEMMA HSteps ==
    ASSUME Inductive,
           \/ \E m \in Modes : ChangeMode(m)
           \/ ModeTake
           \/ \E ok \in BOOLEAN : ModeSet(ok)
    PROVE  Inductive'
<1>1. UNCHANGED <<task, is_endless_connect, cred>>
  BY DEF ChangeMode, ModeTake, ModeSet, flags, flash
<1>2. PICK at \in HPoints :
         /\ pc' = [pc EXCEPT !["H"] = at]
         /\ at = "set" \/ lock' = "free" \/ (lock' = lock /\ pc["H"] # "set")
  <2>1. pc["H"] \in HPoints /\ pc = [pc EXCEPT !["H"] = pc["H"]]
    BY Kinds DEF Inductive, Placed
  <2>2. ASSUME NEW m \in Modes, ChangeMode(m) PROVE
           \E at \in HPoints :
              /\ pc' = [pc EXCEPT !["H"] = at]
              /\ lock' = lock /\ pc["H"] # "set"
    BY <2>1, <2>2 DEF ChangeMode, HPoints
  <2>3. ASSUME ModeTake PROVE
           \E at \in HPoints :
              /\ pc' = [pc EXCEPT !["H"] = at]
              /\ at = "set" \/ (lock' = lock /\ pc["H"] # "set")
    BY <2>3 DEF ModeTake, HPoints
  <2>4. ASSUME NEW ok \in BOOLEAN, ModeSet(ok) PROVE
           \E at \in HPoints : pc' = [pc EXCEPT !["H"] = at] /\ lock' = "free"
    BY <2>4 DEF ModeSet, HPoints
  <2> QED
    BY <2>1, <2>2, <2>3, <2>4
<1>3. "H" \in Tasks /\ "H" \notin Delayed /\ "H" \notin Recons /\ "H" # "L"
      /\ at \notin {"off", "gone"}
  BY <1>2, Kinds DEF HPoints
<1>4. at \in Points /\ pc["H"] \in HPoints
  BY DEF Points, Inductive, Placed
<1>5. pc["H"] \notin {"begun", "gone"}
  BY <1>4 DEF HPoints
<1>6. Placed(pc')
  BY <1>2, <1>3, <1>4, OneMoves
<1>7. Pointed(pc, task) => Pointed(pc', task)
  BY <1>2, <1>3, <1>4, <1>5, OneMoves
<1>8. Owned(pc) /\ pc["H"] \notin Holding \cup {"gone"} => Owned(pc')
  BY <1>2, <1>3, <1>4, OneMoves
<1>9. at \in Holding => Owned(pc')
  BY <1>2, <1>3, <1>4, OneMoves
<1>10. lock' = "taken" => Owned(pc')
  BY <1>2, <1>4, <1>8, <1>9 DEF Holding, HPoints, Inductive
<1> QED
  BY <1>1, <1>6, <1>7, <1>10 DEF Inductive, Handles

\* Steps of a reconnection task that create no other task.
LEMMA RSteps ==
    ASSUME Inductive, NEW r \in Recons,
           ReconBegin(r) \/ ReconTask(r) \/ ReconTry(r) \/ ReconPause(r) \/ ReconEnd(r)
    PROVE  Inductive'
<1>1. PICK at \in RPoints :
         /\ pc' = [pc EXCEPT ![r] = at]
         /\ at \in Holding \/ (at = "off" /\ lock' = "free" /\ is_endless_connect' = FALSE)
         /\ \/ at = "begun"
            \/ task' = r /\ at # "off"
            \/ at = "off"
            \/ /\ pc[r] # "begun"
               /\ UNCHANGED <<task, is_endless_connect>>
  <2>1. CASE ReconBegin(r)
    BY <2>1 DEF ReconBegin, RPoints, Holding
  <2>2. CASE ReconTask(r)
    BY <2>2 DEF ReconTask, RPoints, Holding
  <2>3. CASE ReconTry(r)
    BY <2>3 DEF ReconTry, RPoints, Holding
  <2>4. CASE ReconPause(r)
    BY <2>4 DEF ReconPause, RPoints, Holding, flags
  <2>5. CASE ReconEnd(r)
    BY <2>5 DEF ReconEnd, RPoints
  <2> QED
    BY <2>1, <2>2, <2>3, <2>4, <2>5
<1>2. task' \in {task, r} /\ cred' = cred
  BY DEF ReconBegin, ReconTask, ReconTry, ReconPause, ReconEnd, flash
<1>3. /\ r \in Tasks /\ r \notin Delayed /\ r # "L" /\ r # "H" /\ at \in Points
      /\ at # "gone"
  BY <1>1, Kinds DEF Points, RPoints
<1>4. Placed(pc') /\ pc'[r] = at
  BY <1>1, <1>3, OneMoves
<1>5. at \in Holding => Owned(pc')
  BY <1>1, <1>3, OneMoves
<1>6. pc[r] # "gone"
  BY DEF Inductive, Placed, RPoints
<1>7. pc[r] # "begun" /\ at # "off" /\ Pointed(pc, task) => Pointed(pc', task)
  BY <1>1, <1>3, <1>6, OneMoves
<1>8. at = "begun" => Pointed(pc', task')
  BY <1>4 DEF Pointed
<1>9. task' = r /\ at # "off" => Pointed(pc', task')
  BY <1>3, <1>4 DEF Pointed, Lives
<1>10. at = "off" => is_endless_connect' = FALSE /\ lock' = "free"
  BY <1>1 DEF Holding
<1>11. is_endless_connect' => Pointed(pc', task')
  BY <1>1, <1>7, <1>8, <1>9, <1>10 DEF Inductive
<1>12. lock' = "taken" => Owned(pc')
  BY <1>1, <1>5
<1> QED
  BY <1>2, <1>4, <1>11, <1>12 DEF Inductive, Handles

\* Steps of a delayed task.
LEMMA DSteps ==
    ASSUME Inductive, NEW s \in Delayed,
           DelayedWake(s) \/ DelayedTake(s) \/ \E ok \in BOOLEAN : DelayedEnd(s, ok)
    PROVE  Inductive'
<1>1. UNCHANGED <<task, is_endless_connect, cred>>
  BY DEF DelayedWake, DelayedTake, DelayedEnd, flags, flash
<1>2. PICK at \in DPoints :
         /\ pc' = [pc EXCEPT ![s] = at]
         /\ \/ at \in DelayedHolding
            \/ lock' = lock /\ pc[s] = "wait"
            \/ lock' = "free"
  <2>1. CASE DelayedWake(s)
    BY <2>1 DEF DelayedWake, DPoints
  <2>2. CASE DelayedTake(s)
    <3>1. pc' = [pc EXCEPT ![s] = IF pc[s] = "told" THEN "ending" ELSE "switching"]
      BY <2>2, Kinds DEF DelayedTake, Inductive, Placed
    <3> QED
      BY <2>2, <3>1 DEF DelayedTake, DPoints, DelayedHolding
  <2>3. ASSUME NEW ok \in BOOLEAN, DelayedEnd(s, ok)
        PROVE  pc' = [pc EXCEPT ![s] = "off"] /\ lock' = "free"
    BY <2>3 DEF DelayedEnd
  <2> QED
    BY <2>1, <2>2, <2>3 DEF DPoints
<1>3. /\ s \in Tasks /\ s \notin Recons /\ s # "L" /\ s # "H" /\ at \in Points
      /\ s \notin Handles
  BY Kinds DEF Points, Handles
<1>4. pc[s] \notin {"begun", "gone"}
  BY DEF Inductive, Placed, DPoints
<1>5. Placed(pc') /\ \A u \in Tasks : u # s => pc'[u] = pc[u]
  <2>1. Placed(pc')
    BY <1>2, <1>3, OneMoves
  <2>2. \A u \in Tasks : u # s => pc'[u] = pc[u]
    BY <1>2, <1>3, OneMoves
  <2> QED
    BY <2>1, <2>2
<1>6. Pointed(pc, task) /\ task # s => Pointed(pc', task)
  BY <1>2, <1>3, <1>4, OneMoves
<1>7. at \in DelayedHolding => Owned(pc')
  BY <1>2, <1>3, OneMoves
<1>8. pc[s] = "wait" /\ Owned(pc) => Owned(pc')
  BY <1>5, Kinds DEF Owned, DelayedHolding
<1>9. lock' = "taken" => Owned(pc')
  BY <1>2, <1>7, <1>8 DEF Inductive
<1> QED
  BY <1>1, <1>3, <1>5, <1>6, <1>9 DEF Inductive

\* A task moves and others are created: what OneMoves and StartsKeep say.
LEMMA MovesAndStarts ==
    ASSUME Inductive, NEW t \in Tasks, NEW at \in Points, NEW p,
           p = [pc EXCEPT ![t] = at], OnlyStarts(p, pc'),
           t = "L" => at \in LPoints, t = "H" => at \in HPoints,
           t \in Recons => at \in RPoints, t \notin Delayed,
           pc[t] \notin {"begun", "gone"}, at \notin {"off", "gone"}
    PROVE  /\ Placed(pc')
           /\ \A u : Pointed(pc, u) => Pointed(pc', u)
           /\ Owned(pc) /\ pc[t] \notin Holding => Owned(pc')
           /\ at \in Holding => Owned(pc')
<1>1. Placed(p)
  BY OneMoves
<1>2. \A u : Pointed(pc, u) => Pointed(p, u)
  BY OneMoves
<1>3. Owned(pc) /\ pc[t] \notin Holding => Owned(p)
  BY OneMoves
<1>4. at \in Holding => Owned(p)
  BY OneMoves
<1> QED
  BY <1>1, <1>2, <1>3, <1>4, StartsKeep

\* Ltask after a failed connect or a broken reconnection, and after a success.
LEMMA LEnds ==
    ASSUME Inductive, Redo \/ ConnectDone
    PROVE  Inductive'
<1> DEFINE p == [pc EXCEPT !["L"] = "idle"]
<1>1. UNCHANGED <<task, is_endless_connect>> /\ cred' \in BOOLEAN
  BY DEF Redo, ConnectDone, flash, Inductive
<1>2. pc["L"] \in {"redo", "connected"}
  BY DEF Redo, ConnectDone
<1>3. /\ "L" \in Tasks /\ "L" \notin Delayed /\ "L" \notin Recons /\ "L" # "H"
      /\ "idle" \in Points /\ "idle" \in LPoints /\ "idle" \notin {"off", "gone"}
      /\ p \in [Tasks -> Points]
      /\ pc["L"] \notin Holding /\ pc["L"] \notin {"begun", "gone"}
  BY <1>2, Kinds DEF Inductive, Placed, Points, LPoints, Holding
<1>4. /\ OnlyStarts(p, pc')
      /\ lock' = "taken" => lock = "taken" \/ \E r \in Recons : pc'[r] = "new"
  <2>1. CASE Redo /\ cred
    <3>1. disconn_handler(p, note, lock) /\ lock' = Inherited(p, lock)
      BY <2>1 DEF Redo
    <3> QED
      BY <1>3, <3>1, DisconnectedStarts
  <2>2. CASE Redo /\ ~cred
    BY <1>3, <2>2 DEF Redo, OnlyStarts
  <2>3. CASE ConnectDone
    <3>1. handle_wifi_connected(p, note) /\ lock' = lock
      BY <2>3 DEF ConnectDone
    <3> QED
      BY <1>3, <3>1, ConnectedStarts
  <2> QED
    BY <2>1, <2>2, <2>3
<1>5. /\ Placed(pc') /\ \A u : Pointed(pc, u) => Pointed(pc', u)
      /\ Owned(pc) => Owned(pc')
  BY <1>3, <1>4, MovesAndStarts
<1>6. lock' = "taken" => Owned(pc')
  BY <1>4, <1>5, Kinds DEF Inductive, Owned, Holding
<1> QED
  BY <1>1, <1>5, <1>6 DEF Inductive, Handles

\* The second half of set_wifi_mode, which gives the lock.
LEMMA HEnds ==
    ASSUME Inductive, ModeReco
    PROVE  Inductive'
<1> DEFINE p == [pc EXCEPT !["H"] = "idle"]
<1>1. UNCHANGED <<task, is_endless_connect, cred>> /\ lock' = "free"
      /\ disconn_handler(p, note, lock) /\ pc["H"] = "reco"
  BY DEF ModeReco
<1>2. /\ "H" \in Tasks /\ "H" \notin Delayed /\ "H" \notin Recons /\ "L" # "H"
      /\ "idle" \in Points /\ "idle" \in HPoints /\ "idle" \notin {"off", "gone"}
      /\ p \in [Tasks -> Points] /\ pc["H"] \notin {"begun", "gone"}
  BY <1>1, Kinds DEF Inductive, Placed, Points, HPoints
<1>3. OnlyStarts(p, pc')
  BY <1>1, <1>2, DisconnectedStarts
<1>4. Placed(pc') /\ \A u : Pointed(pc, u) => Pointed(pc', u)
  BY <1>2, <1>3, MovesAndStarts
<1> QED
  BY <1>1, <1>4 DEF Inductive, Handles

\* The end of a try to reconnect.
LEMMA REnds ==
    ASSUME Inductive, NEW r \in Recons, ReconWait(r)
    PROVE  Inductive'
<1> DEFINE ends == union # "null" \/ ~auto_reconnect
           at == IF ends THEN "ended" ELSE "pause"
           p == [pc EXCEPT ![r] = at]
           n == note \ {r}
<1>1. /\ UNCHANGED <<task, is_endless_connect, cred>>
      /\ lock' = IF ends THEN lock ELSE "free"
      /\ IF union # "null" THEN handle_wifi_connected(p, n) ELSE pc' = p
      /\ pc[r] = "wait"
  BY DEF ReconWait, flash
<1>2. /\ r \in Tasks /\ r \notin Delayed /\ r # "L" /\ r # "H"
      /\ at \in Points /\ at \in RPoints /\ p \in [Tasks -> Points]
      /\ at \notin {"off", "gone"} /\ pc[r] \notin {"begun", "gone"}
  BY <1>1, Kinds DEF Inductive, Placed, Points, RPoints
<1>3. OnlyStarts(p, pc')
  <2>1. CASE union # "null"
    BY <1>1, <1>2, <2>1, ConnectedStarts
  <2>2. CASE union = "null"
    BY <1>1, <1>2, <2>2 DEF OnlyStarts
  <2> QED
    BY <2>1, <2>2
<1>4. /\ Placed(pc') /\ \A u : Pointed(pc, u) => Pointed(pc', u)
      /\ at \in Holding => Owned(pc')
  <2> HIDE DEF at
  <2> QED
    BY <1>2, <1>3, MovesAndStarts
<1>5. lock' = "taken" => Owned(pc')
  BY <1>1, <1>4 DEF Holding
<1> QED
  BY <1>1, <1>4, <1>5 DEF Inductive, Handles

\* The event of a connection that failed or was lost.
LEMMA DisconnectedKeeps ==
    ASSUME Inductive, OnDisconnected
    PROVE  Inductive'
<1>1. UNCHANGED <<task, is_endless_connect, cred>>
  BY DEF OnDisconnected, flash
<1>2. CASE event_ctx.cb
  <2>1. UNCHANGED <<pc, lock>>
    BY <1>2 DEF OnDisconnected
  <2> QED
    BY <1>1, <2>1, SameKeeps
<1>3. CASE ~event_ctx.cb
  <2>1. disconn_handler(pc, note, lock) /\ lock' = Inherited(pc, lock)
    BY <1>3 DEF OnDisconnected
  <2>2. Placed(pc) /\ pc \in [Tasks -> Points]
    BY DEF Inductive, Placed
  <2>3. /\ OnlyStarts(pc, pc')
        /\ lock' = "taken" => lock = "taken" \/ \E r \in Recons : pc'[r] = "new"
    BY <2>1, <2>2, DisconnectedStarts
  <2>4. Placed(pc') /\ (Owned(pc) => Owned(pc')) /\ \A t : Pointed(pc, t) => Pointed(pc', t)
    BY <2>2, <2>3, StartsKeep
  <2>5. lock' = "taken" => Owned(pc')
    BY <2>3, <2>4, Kinds DEF Inductive, Owned, Holding
  <2> QED
    BY <1>1, <2>4, <2>5 DEF Inductive, Handles
<1> QED
  BY <1>2, <1>3

\* A restart after a panic.
LEMMA RestartKeeps ==
    ASSUME Inductive, Restart
    PROVE  Inductive'
<1>1. /\ pc' = Booted(cred, saved).pc /\ lock' = Booted(cred, saved).lock
      /\ task' = "none" /\ is_endless_connect' = FALSE /\ cred' = cred
  BY DEF Restart, flash
<1>2. cred \in BOOLEAN
  BY DEF Inductive
<1> QED
  BY <1>1, <1>2, BootedOwned DEF Inductive, Handles

\* Every step keeps the invariant.
LEMMA StepKeeps ==
    ASSUME Inductive, [Next]_vars
    PROVE  Inductive'
<1>1. CASE Disconnect \/ OnConnected \/ OnGotIp \/ OnDisconnectedRetry \/ OnScanDone
           \/ UNCHANGED vars
  <2>1. UNCHANGED <<pc, lock, task, is_endless_connect, cred>>
    BY <1>1 DEF Disconnect, OnConnected, OnGotIp, OnDisconnectedRetry, OnScanDone,
                vars, flags, flash
  <2> QED
    BY <2>1, SameKeeps
<1>2. CASE WildScan \/ WildTask
  BY <1>2, RestartKeeps DEF WildScan, WildTask
<1>3. CASE ScanStart \/ ConnectStart
  BY <1>3, LStarts
<1>4. CASE LDelete
  BY <1>4, LDeletes
<1>5. CASE \/ \E name \in {"scan", "connect"} : LTake(name)
           \/ LTook \/ LRefused \/ LDeletesItself
           \/ ScanChannel \/ ScanWait \/ ScanGive \/ ConnectWait
  BY <1>5, LSteps
<1>6. CASE Redo \/ ConnectDone
  BY <1>6, LEnds
<1>7. CASE (\E m \in Modes : ChangeMode(m)) \/ ModeTake \/ (\E ok \in BOOLEAN : ModeSet(ok))
  BY <1>7, HSteps
<1>8. CASE ModeReco
  BY <1>8, HEnds
<1>9. CASE \E r \in Recons :
              ReconBegin(r) \/ ReconTask(r) \/ ReconTry(r) \/ ReconWait(r) \/ ReconPause(r) \/ ReconEnd(r)
  BY <1>9, RSteps, REnds
<1>10. CASE \E s \in Delayed : DelayedWake(s) \/ DelayedTake(s)
                               \/ \E ok \in BOOLEAN : DelayedEnd(s, ok)
  BY <1>10, DSteps
<1>11. CASE OnDisconnected
  BY <1>11, DisconnectedKeeps
<1> QED
  BY <1>1, <1>2, <1>3, <1>4, <1>5, <1>6, <1>7, <1>8, <1>9, <1>10, <1>11 DEF Next

\* The invariant holds in every state that can be reached.
THEOREM WifiInvariant == Spec => []Inductive
<1>1. Init => Inductive
  <2> SUFFICES ASSUME Init PROVE Inductive
    OBVIOUS
  <2>1. /\ pc = Booted(cred, saved).pc /\ lock = Booted(cred, saved).lock
        /\ task = "none" /\ is_endless_connect = FALSE /\ cred \in BOOLEAN
    BY DEF Init
  <2> QED
    BY <2>1, BootedOwned DEF Inductive, Handles
<1>2. Inductive /\ [Next]_vars => Inductive'
  BY StepKeeps
<1> QED
  BY <1>1, <1>2, PTL DEF Spec

\* ctx.lock is never lost, for any number of tasks, modes and channels
\* (wifi_manager.c:271-306, 346-362, 397-405, 494-503, 561-600, 616): whoever
\* gave what another one took, while it is taken a task is going to give it,
\* unless Ltask deleted itself.
THEOREM LockIsNeverLost == Spec => []LockHasOwner
<1>1. Inductive => LockHasOwner
  BY DEF Inductive, Owned, LockHasOwner
<1> QED
  BY <1>1, WifiInvariant, PTL

\* While is_endless_connect is set ctx.task is a task that exists, but between the
\* assignments of wifi_manager.c:561 and 562 and after Ltask deleted itself, for any
\* number of reconnection tasks, scans and connects.
THEOREM EndlessTaskIsAlive == Spec => []EndlessHasTask
<1>1. Inductive => EndlessHasTask
  BY DEF Inductive, Pointed, Lives, Alive, EndlessHasTask
<1> QED
  BY <1>1, WifiInvariant, PTL

=============================================================================
