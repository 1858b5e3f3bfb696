------------------------- MODULE ShellWorkersProofs -------------------------
(***************************************************************************)
(* What ShellWorkers promises for every set of workers, every order of     *)
(* their guards and all bounds: TypeOK, ChildrenAwaited, OutcomeIsCurrent, *)
(* and that neither a result nor a child that ended is slept over.         *)
(*                                                                         *)
(* waitpid(-1) spares the children of the workers because the loop and a   *)
(* worker never hold a guard together (Guarded), and because every child   *)
(* has one that waits for it (Named).  That a worker at rest shows the     *)
(* truth needs what holds on the way (Truth): the last power command of    *)
(* the queue is the one that is expected, and the snapshot a command is    *)
(* compared with is what the radio does, also when a refresh unblocked it. *)
(***************************************************************************)
EXTENDS ShellWorkers, SequenceTheorems, TLAPS

(* A guard has one holder; the loop has none outside of reap_children.     *)
Guarded ==
  /\ taken > 0 => ui = "reap"
  /\ \A w \in Worker : LoopGuards(w) => ~WorkerGuards(w)

(* A worker knows a child exactly while it waits for it; the child of a    *)
(* power command, or one that comes before it, is that of such a command.  *)
Awaits(w) ==
  /\ child[w] # NoPid <=> step[w] = "waiting"
  /\ step[w] \in {"run", "waiting"} /\ stage[w] = "command" => job[w] \in Power
  /\ step[w] \in {"run", "waiting"} /\ stage[w] = "before" => job[w] = "on"
Awaiting == \A w \in Worker : Awaits(w)

(* Nobody else knows that child, and it was not waited for.                *)
Named ==
  \A w \in Worker :
    /\ child[w] # NoPid => proc[child[w]] # "none" /\ child[w] # player
    /\ \A v \in Worker : w # v /\ child[w] # NoPid => child[w] # child[v]

HasPower(w) == \E i \in 1 .. Len(queue[w]) : queue[w][i] \in Power

(* What was accepted is queued or is being done.                           *)
Pending(w) == due[w] => queue[w] # <<>> \/ step[w] \in {"marked", "lock", "run", "waiting"}

(* The snapshot is what the radio does, but for the first one, before the  *)
(* refresh that comes first.                                               *)
First(w) ==
  \/ step[w] = "idle" /\ queue[w] # <<>> /\ Head(queue[w]) = "refresh"
  \/ step[w] \in {"marked", "lock"} /\ job[w] = "refresh"
Current(w) ==
  /\ step[w] \in {"idle", "marked", "lock", "published"} => snap[w].powered = radio[w] \/ First(w)
  /\ step[w] = "publish" => after[w] = radio[w]

(* What the radio will be when the command at work is done.                *)
ChildRuns(w) == step[w] = "waiting" /\ proc[child[w]] = "running"
AtWork(w) ==
  \/ step[w] \in {"marked", "lock"} /\ job[w] \in Power
  \/ step[w] \in {"run", "waiting"} /\ stage[w] = "before"
  \/ stage[w] = "command" /\ (step[w] = "run" \/ ChildRuns(w))
Target(w) == IF AtWork(w) THEN job[w] ELSE radio[w]
Meant(w) ==
  /\ \A i \in 1 .. Len(queue[w]) :
       queue[w][i] \in Power /\ (\A j \in 1 .. Len(queue[w]) : j > i => queue[w][j] \notin Power)
         => expected[w] = queue[w][i]
  /\ ~HasPower(w) => expected[w] \in {Target(w), "any"}

Truthful(w) == Pending(w) /\ Current(w) /\ Meant(w)
Truth == \A w \in Worker : Truthful(w)

Inv == TypeOK /\ Awaiting /\ Guarded /\ Named

-----------------------------------------------------------------------------
(* A queue with one more command.                                          *)
LEMMA EnqueuedShape ==
  ASSUME TypeOK, NEW w \in Worker, NEW c \in Command, Accepts(w)
  PROVE  /\ Enqueued(w, c) \in Seq(Command) /\ Len(Enqueued(w, c)) <= QueueCap
         /\ \/ Enqueued(w, c) = Append(queue[w], c)
            \/ Enqueued(w, c) = queue[w] /\ c = "refresh" /\ queue[w] # <<>>
BY BoundAssumption DEF TypeOK, Accepts, Enqueued

(* A request changes the queues only in that way.                          *)
LEMMA AskTypes ==
  ASSUME TypeOK, NEW ws, ws \subseteq Worker, NEW c \in Command, Ask(ws, c)
  PROVE  /\ queue' \in [Worker -> Seq(Command)] /\ \A w \in Worker : Len(queue'[w]) <= QueueCap
         /\ asked' \in [Worker -> Nat] /\ due' \in [Worker -> BOOLEAN]
         /\ expected' \in [Worker -> Power \cup {"any"}]
<1>1. ASSUME NEW w \in Worker PROVE queue'[w] \in Seq(Command) /\ Len(queue'[w]) <= QueueCap
  BY EnqueuedShape DEF Ask, MayAsk, TypeOK
<1>2. queue' = [w \in Worker |-> queue'[w]]
  BY DEF Ask
<1> QED
  BY <1>1, <1>2 DEF Ask, TypeOK, Power

LEMMA WorkerTypes ==
  ASSUME TypeOK, NEW w \in Worker, ThreadMain(w)
  PROVE  TypeOK'
<1>1. CASE Dequeue(w)
  <2>1. queue[w] \in Seq(Command) /\ queue[w] # <<>> /\ Len(queue[w]) <= QueueCap
    BY <1>1 DEF Dequeue, TypeOK
  <2>2. Head(queue[w]) \in Command /\ Tail(queue[w]) \in Seq(Command) /\ Len(Tail(queue[w])) <= QueueCap
    BY <2>1, BoundAssumption
  <2> QED
    BY <1>1, <2>2 DEF Dequeue, Goes, TypeOK, Steps, loopVars, askVars
<1>2. CASE Announce(w)
  BY <1>2 DEF Announce, Goes, TypeOK, Steps, askVars
<1>3. CASE DoCommand(w)
  BY <1>3 DEF DoCommand, FirstStage, Goes, TypeOK, Steps, Stages, loopVars, askVars
<1>4. CASE Spawn(w)
  BY <1>4 DEF Spawn, Goes, TypeOK, Steps, loopVars, askVars
<1>5. CASE SpawnNothing(w)
  <2>1. expected' \in [Worker -> Power \cup {"any"}]
    BY <1>5 DEF SpawnNothing, Expects, TypeOK
  <2>2. stage' \in [Worker -> Stages]
    BY <1>5 DEF SpawnNothing, NextStage, TypeOK, Stages
  <2> QED
    BY <1>5, <2>1, <2>2 DEF SpawnNothing, TypeOK, loopVars
<1>6. CASE RunWait(w)
  <2>1. stage' \in [Worker -> Stages]
    BY <1>6 DEF RunWait, NextStage, TypeOK, Stages
  <2> QED
    BY <1>6, <2>1 DEF RunWait, Goes, TypeOK, Steps, loopVars, askVars
<1>7. CASE BackendRefresh(w)
  BY <1>7 DEF BackendRefresh, Goes, TypeOK, Steps, loopVars
<1>8. CASE Publish(w)
  BY <1>8 DEF Publish, Goes, TypeOK, Steps, loopVars, askVars, Command, Power
<1> QED
  BY <1>1, <1>2, <1>3, <1>6, <1>7, <1>8, <1>4, <1>5 DEF ThreadMain

LEMMA TickTypes ==
  ASSUME TypeOK, Tick
  PROVE  TypeOK'
<1>1. CASE TickBusy
  BY <1>1 DEF Tick, TickBusy, TypeOK, askVars
<1>2. CASE WifiTick
  <2>1. PICK old \in SUBSET {w \in Worker : ~Consumed(w).busy} :
          /\ Ask(old, "refresh")
          /\ shown' = [w \in Worker |-> IF w \in old THEN [Consumed(w) EXCEPT !.busy = TRUE] ELSE Consumed(w)]
    BY <1>2 DEF WifiTick
  <2>2. /\ queue' \in [Worker -> Seq(Command)] /\ \A w \in Worker : Len(queue'[w]) <= QueueCap
        /\ asked' \in [Worker -> Nat] /\ due' \in [Worker -> BOOLEAN]
        /\ expected' \in [Worker -> Power \cup {"any"}]
    BY <2>1, AskTypes DEF Command
  <2>3. \A w \in Worker : Consumed(w) \in [powered : Power, busy : BOOLEAN]
    BY DEF Consumed, TypeOK
  <2>4. shown' \in [Worker -> [powered : Power, busy : BOOLEAN]]
    BY <2>1, <2>3
  <2>5. snap' \in [Worker -> [powered : Power, busy : BOOLEAN, new : BOOLEAN]]
    <3>1. snap' = [w \in Worker |-> [snap[w] EXCEPT !.new = @ /\ ~Consumes(w)]]
      BY <1>2 DEF WifiTick
    <3>2. snap \in [Worker -> [powered : Power, busy : BOOLEAN, new : BOOLEAN]]
      BY DEF TypeOK
    <3>3. \A w \in Worker : (snap[w].new /\ ~Consumes(w)) \in BOOLEAN
      BY <3>2
    <3> QED
      BY <3>1, <3>2, <3>3
  <2> QED
    BY <2>2, <2>4, <2>5 DEF Tick, TypeOK
<1> QED
  BY <1>1, <1>2 DEF Tick

LEMMA InputTypes ==
  ASSUME TypeOK, Input
  PROVE  TypeOK'
<1>1. CASE Plain
  BY <1>1 DEF Input, Plain, TypeOK, askVars
<1>2. ASSUME NEW w \in Worker, NEW c \in Command, Ask({w}, c), shown' \in [Worker -> [powered : Power, busy : BOOLEAN]]
      PROVE  TypeOK'
  <2>1. /\ queue' \in [Worker -> Seq(Command)] /\ \A v \in Worker : Len(queue'[v]) <= QueueCap
        /\ asked' \in [Worker -> Nat] /\ due' \in [Worker -> BOOLEAN]
        /\ expected' \in [Worker -> Power \cup {"any"}]
    BY <1>2, AskTypes
  <2> QED
    BY <1>2, <2>1 DEF Input, TypeOK
<1>3. ASSUME NEW w \in Switched, Switch(w) PROVE TypeOK'
  BY <1>2, <1>3, OrderAssumption DEF Switch, Other, Command, Power, TypeOK
<1>4. ASSUME NEW w \in Worker, OpenMenu(w) PROVE TypeOK'
  BY <1>2, <1>4 DEF OpenMenu, Command, TypeOK
<1> QED
  BY <1>1, <1>3, <1>4 DEF Input

LEMMA InitTypes == Init => TypeOK
<1> SUFFICES ASSUME Init PROVE TypeOK
  OBVIOUS
<1>1. Len(Order) \in Nat
  BY OrderAssumption
<1>2. ASSUME NEW w \in Worker PROVE queue[w] \in Seq(Command) /\ Len(queue[w]) <= QueueCap
  <2>1. CASE w \in Switched
    <3>1. expected[w] \in Power
      BY <2>1 DEF Init
    <3>2. queue[w] = <<"refresh">> \o <<expected[w]>>
      BY <2>1 DEF Init
    <3>3. <<"refresh">> \in Seq(Command) /\ <<expected[w]>> \in Seq(Command)
      BY <3>1 DEF Command
    <3> QED
      BY <3>2, <3>3, BoundAssumption
  <2>2. CASE w \notin Switched
    <3>1. queue[w] = <<"refresh">> \o <<>>
      BY <2>2 DEF Init
    <3>2. <<"refresh">> \in Seq(Command) /\ <<>> \in Seq(Command)
      BY DEF Command
    <3> QED
      BY <3>1, <3>2, BoundAssumption
  <2> QED
    BY <2>1, <2>2
<1>3. queue = [w \in Worker |-> queue[w]]
  BY DEF Init
<1>4. queue \in [Worker -> Seq(Command)] /\ \A w \in Worker : Len(queue[w]) <= QueueCap
  BY <1>2, <1>3
<1>5. radio \in [Worker -> Power] /\ expected \in [Worker -> Power \cup {"any"}]
  BY DEF Init
<1>6. /\ step \in [Worker -> Steps] /\ job \in [Worker -> Command] /\ after \in [Worker -> Power]
      /\ child \in [Worker -> Pid \cup {NoPid}] /\ due \in [Worker -> BOOLEAN] /\ asked \in [Worker -> Nat]
      /\ stage \in [Worker -> Stages]
  BY DEF Init, Steps, Stages, Power, Command
<1>7. /\ shown \in [Worker -> [powered : Power, busy : BOOLEAN]]
      /\ snap \in [Worker -> [powered : Power, busy : BOOLEAN, new : BOOLEAN]]
  BY DEF Init, Power
<1>8. ui = "top" /\ taken = 0 /\ sigchld = FALSE /\ recent = FALSE /\ event = FALSE /\ player = NoPid
  BY DEF Init
<1>9. ui \in {"top", "reap", "tick", "poll", "pollBusy"} /\ taken \in 0 .. Len(Order)
  BY <1>1, <1>8
<1>10. sigchld \in BOOLEAN /\ recent \in BOOLEAN /\ event \in BOOLEAN /\ player \in Pid \cup {NoPid}
  BY <1>8
<1>11. proc \in [Pid -> {"none", "running", "ended"}]
  BY DEF Init
<1> QED
  BY <1>4, <1>5, <1>6, <1>7, <1>9, <1>10, <1>11 DEF TypeOK

LEMMA NextTypes == TypeOK /\ Awaiting /\ [Next]_vars => TypeOK'
<1> SUFFICES ASSUME TypeOK, Awaiting, [Next]_vars PROVE TypeOK'
  OBVIOUS
<1>1. CASE Top
  BY <1>1 DEF Top, LoopGoes, TypeOK, workVars, askVars
<1>2. CASE ReapChildren
  <2>1. taken \in 0 .. Len(Order) /\ Len(Order) \in Nat
    BY OrderAssumption DEF TypeOK
  <2>2. CASE TryLock
    BY <1>2, <2>1, <2>2 DEF ReapChildren, TryLock, AllTaken, TypeOK, workVars, askVars
  <2>3. CASE PutOff
    BY <1>2, <2>1, <2>3 DEF ReapChildren, PutOff, LoopGoes, TypeOK, workVars, askVars
  <2>4. ASSUME NEW p \in Pid, WaitAny(p) PROVE TypeOK'
    BY <1>2, <2>1, <2>4 DEF ReapChildren, WaitAny, TypeOK, workVars, askVars
  <2> QED
    BY <1>2, <2>2, <2>3, <2>4 DEF ReapChildren
<1>3. CASE ReapDone
  <2>1. ui' = "tick" /\ taken' \in 0 .. Len(Order)
    BY <1>3, OrderAssumption DEF ReapDone, LoopGoes
  <2> QED
    BY <1>3, <2>1 DEF ReapDone, TypeOK, workVars, askVars
<1>4. CASE Tick
  BY <1>4, TickTypes
<1>5. CASE Woken \/ Deadline \/ GracePasses
  BY <1>5 DEF Woken, Deadline, GracePasses, LoopGoes, TypeOK, workVars, askVars
<1>6. CASE Input
  BY <1>6, InputTypes
<1>7. ASSUME NEW w \in Worker, ThreadMain(w) PROVE TypeOK'
  BY <1>7, WorkerTypes
<1>8. ASSUME NEW p \in Pid, Exit(p) PROVE TypeOK'
  <2>1. \A w \in Worker : child[w] = p /\ stage[w] = "command" => job[w] \in Power
    BY PidAssumption DEF Awaiting, Awaits
  <2>2. radio' \in [Worker -> Power] /\ expected' \in [Worker -> Power \cup {"any"}]
    <3>1. CASE \E w \in Worker : child[w] = p /\ Succeeds(w)
      BY <2>1, <3>1 DEF Succeeds, Expects, Power, TypeOK
    <3>2. CASE \E w \in Worker : child[w] = p /\ Fails(w)
      BY <3>2 DEF Fails, Expects, TypeOK
    <3>3. CASE UNCHANGED <<radio, expected>>
      BY <3>3 DEF TypeOK
    <3> QED
      BY <1>8, <3>1, <3>2, <3>3 DEF Exit, CommandEnds
  <2> QED
    BY <1>8, <2>2 DEF Exit, TypeOK, workVars
<1>9. CASE OnVideo
  BY <1>9 DEF OnVideo, Collected, TypeOK, loopVars, workVars, askVars
<1>10. CASE PlayerStop
  BY <1>10 DEF PlayerStop, TypeOK, workVars, askVars
<1>11. CASE UNCHANGED vars
  BY <1>11 DEF vars, loopVars, workVars, askVars, TypeOK
<1> QED
  BY <1>1, <1>2, <1>3, <1>4, <1>5, <1>6, <1>7, <1>8, <1>9, <1>10, <1>11 DEF Next, Loop

(* Only a worker's own steps move it and name or forget its child.         *)
LEMMA NextAwaits == TypeOK /\ Awaiting /\ [Next]_vars => Awaiting'
<1> SUFFICES ASSUME TypeOK, Awaiting, [Next]_vars, NEW v \in Worker PROVE Awaits(v)'
  BY DEF Awaiting
<1>1. CASE UNCHANGED <<step, job, stage, child>>
  BY <1>1 DEF Awaiting, Awaits
<1>2. ASSUME NEW w \in Worker, ThreadMain(w) PROVE Awaits(v)'
  <2>1. CASE Dequeue(w)
    BY <2>1 DEF Dequeue, Goes, Awaiting, Awaits, TypeOK
  <2>2. CASE Announce(w)
    BY <2>2 DEF Announce, Goes, Awaiting, Awaits, TypeOK
  <2>3. CASE DoCommand(w)
    <3>1. /\ step[w] = "lock" /\ step' = [step EXCEPT ![w] = "run"] /\ UNCHANGED <<job, child>>
          /\ stage' = [stage EXCEPT ![w] = FirstStage(w)]
      BY <2>3 DEF DoCommand, Goes
    <3> QED
      BY <3>1 DEF FirstStage, Awaiting, Awaits, TypeOK, Command, Power
  <2>4. CASE Spawn(w)
    BY <2>4, PidAssumption DEF Spawn, Goes, Awaiting, Awaits, TypeOK
  <2>5. CASE SpawnNothing(w)
    <3>1. /\ step[w] = "run" /\ UNCHANGED <<step, job, child>>
          /\ stage' = [stage EXCEPT ![w] = NextStage(w)]
      BY <2>5 DEF SpawnNothing
    <3> QED
      BY <3>1 DEF NextStage, Awaiting, Awaits, TypeOK, Power
  <2>6. CASE RunWait(w)
    <3>1. /\ step[w] = "waiting" /\ step' = [step EXCEPT ![w] = "run"] /\ job' = job
          /\ child' = [child EXCEPT ![w] = NoPid] /\ stage' = [stage EXCEPT ![w] = NextStage(w)]
      BY <2>6 DEF RunWait, Goes
    <3> QED
      BY <3>1 DEF NextStage, Awaiting, Awaits, TypeOK, Power
  <2>7. CASE BackendRefresh(w)
    BY <2>7 DEF BackendRefresh, Goes, Awaiting, Awaits, TypeOK
  <2>8. CASE Publish(w)
    BY <2>8 DEF Publish, Goes, Awaiting, Awaits, TypeOK
  <2> QED
    BY <1>2, <2>1, <2>2, <2>3, <2>4, <2>5, <2>6, <2>7, <2>8 DEF ThreadMain
<1>3. (\E w \in Worker : ThreadMain(w)) \/ UNCHANGED <<step, job, stage, child>>
  BY DEF Next, Loop, Top, ReapChildren, ReapDone, Tick, Woken, Deadline, GracePasses, Input, Exit, OnVideo,
         PlayerStop, vars, workVars
<1> QED
  BY <1>1, <1>2, <1>3

(* Every variable has its type, and a worker's queue never has more        *)
(* commands than its array, in every reachable state.                      *)
THEOREM TypeCorrect == Spec => []TypeOK
<1>1. Init => TypeOK /\ Awaiting
  BY InitTypes DEF Init, Awaiting, Awaits
<1>2. TypeOK /\ Awaiting /\ [Next]_vars => (TypeOK /\ Awaiting)'
  BY NextTypes, NextAwaits
<1> QED
  BY <1>1, <1>2, PTL DEF Spec

-----------------------------------------------------------------------------
(* The loop takes a guard that is free and a worker one that the loop does *)
(* not have.                                                               *)
LEMMA NextGuarded == TypeOK /\ Guarded /\ [Next]_vars => Guarded'
<1> SUFFICES ASSUME TypeOK, Guarded, [Next]_vars PROVE Guarded'
  OBVIOUS
<1>1. taken \in 0 .. Len(Order) /\ Len(Order) \in Nat
  BY OrderAssumption DEF TypeOK
<1>2. CASE UNCHANGED <<taken, step>> /\ (ui' # ui => ui # "reap")
  BY <1>1, <1>2 DEF Guarded, LoopGuards, WorkerGuards
<1>3. CASE ReapChildren /\ TryLock
  <2>1. ui' = "reap" /\ taken' = taken + 1 /\ step' = step /\ ~WorkerGuards(Order[taken + 1])
    BY <1>3 DEF ReapChildren, TryLock, workVars
  <2>2. ASSUME NEW w \in Worker, LoopGuards(w)' PROVE ~WorkerGuards(w)'
    <3>1. PICK i \in 1 .. taken + 1 : Order[i] = w
      BY <2>1, <2>2 DEF LoopGuards
    <3>2. CASE i = taken + 1
      BY <2>1, <3>1, <3>2 DEF WorkerGuards
    <3>3. CASE i \in 1 .. taken
      BY <2>1, <3>1, <3>3 DEF WorkerGuards, LoopGuards, Guarded
    <3> QED
      BY <1>1, <3>2, <3>3
  <2> QED
    BY <2>1, <2>2 DEF Guarded
<1>4. CASE taken' = 0 /\ UNCHANGED step
  BY <1>4 DEF Guarded, LoopGuards
<1>5. ASSUME NEW w \in Worker, ThreadMain(w) PROVE Guarded'
  <2>1. UNCHANGED <<ui, taken>>
    BY <1>5 DEF ThreadMain, Dequeue, Announce, DoCommand, Spawn, SpawnNothing, RunWait, BackendRefresh, Publish,
                loopVars
  <2>2. \A v \in Worker : WorkerGuards(v)' => WorkerGuards(v) \/ ~LoopGuards(v)
    BY <1>5 DEF ThreadMain, Dequeue, Announce, DoCommand, Spawn, SpawnNothing, RunWait, BackendRefresh, Publish,
                Goes, WorkerGuards, TypeOK
  <2> QED
    BY <2>1, <2>2 DEF Guarded, LoopGuards
<1>6. \/ UNCHANGED <<taken, step>> /\ (ui' # ui => ui # "reap")
      \/ ReapChildren /\ TryLock
      \/ taken' = 0 /\ UNCHANGED step
      \/ \E w \in Worker : ThreadMain(w)
  BY DEF Next, Loop, Top, ReapChildren, PutOff, WaitAny, ReapDone, Tick, Woken, Deadline, GracePasses, Input,
         Exit, OnVideo, PlayerStop, Polls, LoopGoes, vars, loopVars, workVars
<1> QED
  BY <1>2, <1>3, <1>4, <1>5, <1>6

(* A free process number is nobody's, and a process that somebody waits    *)
(* for is taken from the table by nobody else.                             *)
LEMMA NextNamed == Inv /\ [Next]_vars => Named'
<1> SUFFICES ASSUME Inv, [Next]_vars PROVE Named'
  OBVIOUS
<1> USE PidAssumption DEF Inv
<1>1. CASE UNCHANGED <<proc, child, player>>
  BY <1>1 DEF Named
<1>2. ASSUME NEW p \in Pid, ReapChildren, WaitAny(p) PROVE Named'
  <2>1. \A w \in Worker : LoopGuards(w)
    BY <1>2, OrderAssumption DEF WaitAny, AllTaken, LoopGuards
  <2>2. \A w \in Worker : child[w] = NoPid
    BY <2>1 DEF Guarded, WorkerGuards, Awaiting, Awaits
  <2> QED
    BY <1>2, <2>2 DEF ReapChildren, workVars, Named
<1>3. ASSUME NEW w \in Worker, Spawn(w) PROVE Named'
  <2>1. PICK p \in Pid : NextPid(p) /\ child' = [child EXCEPT ![w] = p] /\ proc' = [proc EXCEPT ![p] = "running"]
    BY <1>3 DEF Spawn
  <2>2. p # player /\ \A v \in Worker : child[v] # p
    BY <2>1 DEF NextPid, Free
  <2>3. player' = player
    BY <1>3 DEF Spawn
  <2> QED
    BY <2>1, <2>2, <2>3 DEF Named, TypeOK
<1>4. ASSUME NEW w \in Worker, RunWait(w) PROVE Named'
  <2>1. child[w] # NoPid
    BY <1>4 DEF RunWait, Goes, Awaiting, Awaits
  <2> QED
    BY <1>4, <2>1 DEF RunWait, Named, TypeOK
<1>5. ASSUME NEW p \in Pid, Exit(p) PROVE Named'
  BY <1>5 DEF Exit, workVars, Named, TypeOK
<1>6. CASE OnVideo
  <2>1. PICK p \in Pid : (NextPid(p) \/ p = player) /\ player' = p /\ proc' = [Collected EXCEPT ![p] = "running"]
    BY <1>6 DEF OnVideo
  <2>2. \A v \in Worker : child[v] # p \/ child[v] = NoPid
    BY <2>1 DEF NextPid, Free, Named
  <2>3. child' = child
    BY <1>6 DEF OnVideo, workVars
  <2> QED
    BY <2>1, <2>2, <2>3 DEF Named, Collected, TypeOK
<1>7. CASE PlayerStop
  BY <1>7 DEF PlayerStop, workVars, Named, TypeOK
<1>8. \/ UNCHANGED <<proc, child, player>>
      \/ ReapChildren /\ \E p \in Pid : WaitAny(p)
      \/ \E w \in Worker : Spawn(w) \/ RunWait(w)
      \/ \E p \in Pid : Exit(p)
      \/ OnVideo \/ PlayerStop
  BY DEF Next, Loop, ThreadMain, Dequeue, Announce, DoCommand, SpawnNothing, BackendRefresh, Publish, Top,
         ReapChildren, TryLock, PutOff, ReapDone, Tick, Woken, Deadline, GracePasses, Input, vars, workVars
<1> QED
  BY <1>1, <1>2, <1>3, <1>4, <1>5, <1>6, <1>7, <1>8

LEMMA InitInv == Init => Inv
<1> SUFFICES ASSUME Init PROVE Inv
  OBVIOUS
<1>1. TypeOK
  BY InitTypes
<1>2. taken = 0 /\ \A w \in Worker : step[w] = "idle" /\ child[w] = NoPid
  BY DEF Init
<1> QED
  BY <1>1, <1>2 DEF Inv, Awaiting, Awaits, Guarded, LoopGuards, Named

LEMMA InvCorrect == Spec => []Inv
<1>1. Inv /\ [Next]_vars => Inv'
  BY NextTypes, NextAwaits, NextGuarded, NextNamed DEF Inv
<1> QED
  BY <1>1, InitInv, PTL DEF Spec

(* waitpid(-1) of the loop never takes the child a worker waits for, with  *)
(* any number of workers and in whatever order the loop takes the guards.  *)
THEOREM ChildrenAreAwaited == Spec => []ChildrenAwaited
<1>1. Inv => ChildrenAwaited
  BY PidAssumption DEF Inv, Awaiting, Awaits, Named, ChildrenAwaited, TypeOK
<1> QED
  BY <1>1, InvCorrect, PTL

-----------------------------------------------------------------------------
(* What a worker's truth is about, but for its child.                      *)
Same(w) ==
  /\ due'[w] = due[w] /\ queue'[w] = queue[w] /\ step'[w] = step[w] /\ job'[w] = job[w]
  /\ snap'[w].powered = snap[w].powered /\ radio'[w] = radio[w] /\ after'[w] = after[w]
  /\ expected'[w] = expected[w] /\ stage'[w] = stage[w]

LEMMA SameTruth ==
  ASSUME NEW w \in Worker, Truthful(w), Same(w), ChildRuns(w)' <=> ChildRuns(w)
  PROVE  Truthful(w)'
<1>1. Pending(w)'
  BY DEF Truthful, Same, Pending
<1>2. Current(w)'
  BY DEF Truthful, Same, Current, First
<1>3. Target(w)' = Target(w)
  BY DEF Same, ChildRuns, Target, AtWork
<1>4. Meant(w)'
  BY <1>3 DEF Truthful, Same, Meant, HasPower
<1> QED
  BY <1>1, <1>2, <1>4 DEF Truthful

(* One more request.                                                       *)
LEMMA AskedTruth ==
  ASSUME TypeOK, NEW w \in Worker, Truthful(w), NEW c \in Command,
         \/ queue'[w] = Append(queue[w], c)
         \/ queue'[w] = queue[w] /\ c = "refresh" /\ queue[w] # <<>>,
         expected'[w] = IF c \in Power THEN c ELSE expected[w],
         step'[w] = step[w], job'[w] = job[w], stage'[w] = stage[w], radio'[w] = radio[w], after'[w] = after[w],
         snap'[w].powered = snap[w].powered, ChildRuns(w)' <=> ChildRuns(w)
  PROVE  Truthful(w)'
<1>1. queue[w] \in Seq(Command) /\ c \in Power \cup {"refresh"}
  BY DEF TypeOK, Command
<1>2. Pending(w)'
  BY <1>1 DEF Pending
<1>3. queue[w] # <<>> => queue'[w] # <<>> /\ Head(queue'[w]) = Head(queue[w])
  BY <1>1
<1>4. Current(w)'
  BY <1>3 DEF Truthful, Current, First
<1>5. Target(w)' = Target(w)
  BY DEF ChildRuns, Target, AtWork
<1>6. CASE queue'[w] = queue[w] /\ c = "refresh"
  BY <1>2, <1>4, <1>5, <1>6 DEF Truthful, Meant, HasPower, Power
<1>7. CASE queue'[w] = Append(queue[w], c)
  <2> DEFINE n == Len(queue[w])
  <2>1. /\ n \in Nat /\ Len(queue'[w]) = n + 1 /\ queue'[w][n + 1] = c
        /\ \A i \in 1 .. n : queue'[w][i] = queue[w][i]
    BY <1>1, <1>7
  <2>2. CASE c \in Power
    <3>1. ASSUME NEW i \in 1 .. n + 1, \A j \in 1 .. n + 1 : j > i => queue'[w][j] \notin Power
          PROVE  expected'[w] = queue'[w][i]
      BY <2>1, <2>2, <3>1
    <3> QED
      BY <1>2, <1>4, <2>1, <2>2, <3>1 DEF Truthful, Meant, HasPower
  <2>3. CASE c \notin Power
    <3>1. ASSUME NEW i \in 1 .. n + 1, queue'[w][i] \in Power,
                 \A j \in 1 .. n + 1 : j > i => queue'[w][j] \notin Power
          PROVE  expected'[w] = queue'[w][i]
      <4>1. i \in 1 .. n
        BY <2>1, <2>3, <3>1
      <4>2. queue[w][i] \in Power
        BY <2>1, <3>1, <4>1
      <4>3. ASSUME NEW j \in 1 .. n, j > i PROVE queue[w][j] \notin Power
        <5>1. j \in 1 .. n + 1 /\ queue'[w][j] = queue[w][j]
          BY <2>1
        <5> QED
          BY <3>1, <4>3, <5>1
      <4> QED
        BY <2>1, <2>3, <4>1, <4>2, <4>3 DEF Truthful, Meant
    <3>2. HasPower(w) => HasPower(w)'
      <4> SUFFICES ASSUME NEW i \in 1 .. n, queue[w][i] \in Power PROVE HasPower(w)'
        BY DEF HasPower
      <4>1. i \in 1 .. Len(queue'[w]) /\ queue'[w][i] = queue[w][i]
        BY <2>1
      <4> QED
        BY <4>1 DEF HasPower, Power
    <3> QED
      BY <1>2, <1>4, <1>5, <2>1, <2>3, <3>1, <3>2 DEF Truthful, Meant
  <2> QED
    BY <2>2, <2>3
<1> QED
  BY <1>2, <1>4, <1>6, <1>7 DEF Truthful

(* The worker takes the first command of its queue.                        *)
LEMMA DequeuedTruth ==
  ASSUME TypeOK, NEW w \in Worker, Truthful(w), Dequeue(w)
  PROVE  Truthful(w)'
<1> DEFINE q == queue[w]
<1>1. /\ step[w] = "idle" /\ step'[w] = "marked" /\ job'[w] = Head(q) /\ queue'[w] = Tail(q) /\ q # <<>>
      /\ snap'[w].powered = snap[w].powered /\ radio'[w] = radio[w] /\ expected'[w] = expected[w]
  BY DEF Dequeue, Goes, TypeOK, askVars
<1>2. /\ q \in Seq(Command) /\ Len(q) \in Nat \ {0} /\ Len(Tail(q)) = Len(q) - 1 /\ Head(q) = q[1]
      /\ q[1] \in Command /\ \A i \in 1 .. Len(q) - 1 : Tail(q)[i] = q[i + 1]
  BY <1>1 DEF TypeOK
<1>3. Pending(w)' /\ Current(w)'
  BY <1>1 DEF Truthful, Pending, Current, First
<1>4. ASSUME NEW i \in 1 .. Len(q) - 1, Tail(q)[i] \in Power,
             \A j \in 1 .. Len(q) - 1 : j > i => Tail(q)[j] \notin Power
      PROVE  expected'[w] = Tail(q)[i]
  <2>1. i + 1 \in 1 .. Len(q) /\ q[i + 1] \in Power
    BY <1>2, <1>4
  <2>2. ASSUME NEW j \in 1 .. Len(q), j > i + 1 PROVE q[j] \notin Power
    <3>1. j - 1 \in 1 .. Len(q) - 1 /\ j - 1 > i /\ j = (j - 1) + 1
      BY <1>2, <2>2
    <3>2. Tail(q)[j - 1] = q[(j - 1) + 1]
      BY <1>2, <3>1
    <3> QED
      BY <1>4, <3>1, <3>2
  <2> QED
    BY <1>1, <1>2, <2>1, <2>2 DEF Truthful, Meant
<1>5. ASSUME ~HasPower(w)' PROVE expected'[w] \in {Target(w)', "any"}
  <2>1. \A j \in 1 .. Len(q) : j > 1 => q[j] \notin Power
    <3> SUFFICES ASSUME NEW j \in 1 .. Len(q), j > 1 PROVE q[j] \notin Power
      OBVIOUS
    <3>1. j - 1 \in 1 .. Len(q) - 1 /\ j = (j - 1) + 1
      BY <1>2
    <3>2. Tail(q)[j - 1] = q[(j - 1) + 1]
      BY <1>2, <3>1
    <3>3. \A i \in 1 .. Len(q) - 1 : Tail(q)[i] \notin Power
      BY <1>1, <1>2, <1>5 DEF HasPower
    <3> QED
      BY <3>1, <3>2, <3>3
  <2>2. CASE q[1] \in Power
    <3>1. expected[w] = q[1]
      BY <1>2, <2>1, <2>2 DEF Truthful, Meant
    <3> QED
      BY <1>1, <1>2, <2>2, <3>1 DEF Target, AtWork, ChildRuns
  <2>3. CASE q[1] \notin Power
    <3>1. ~HasPower(w)
      BY <1>2, <2>1, <2>3 DEF HasPower
    <3> QED
      BY <1>1, <1>2, <2>3, <3>1 DEF Truthful, Meant, Target, AtWork, ChildRuns
  <2> QED
    BY <2>2, <2>3
<1> QED
  BY <1>1, <1>2, <1>3, <1>4, <1>5 DEF Truthful, Meant

(* A command that failed by itself.                                        *)
LEMMA FailedMeant ==
  ASSUME TypeOK, NEW w \in Worker, Meant(w), Expects(w, "any"), queue'[w] = queue[w]
  PROVE  /\ Meant(w)'
         /\ \A v \in Worker : v # w => expected'[v] = expected[v]
<1>1. expected'[w] = IF HasPower(w) THEN expected[w] ELSE "any"
  BY DEF Expects, HasPower, TypeOK
<1>2. \A v \in Worker : v # w => expected'[v] = expected[v]
  BY DEF Expects, TypeOK
<1>3. HasPower(w)' <=> HasPower(w)
  BY DEF HasPower
<1>4. CASE HasPower(w)
  BY <1>1, <1>2, <1>3, <1>4 DEF Meant
<1>5. CASE ~HasPower(w)
  BY <1>1, <1>2, <1>3, <1>5 DEF Meant, HasPower
<1> QED
  BY <1>4, <1>5

(* The other steps of the worker.                                          *)
LEMMA OwnTruth ==
  ASSUME Inv, NEW w \in Worker, Truthful(w), ThreadMain(w)
  PROVE  Truthful(w)'
<1> USE DEF Inv
<1>1. CASE Dequeue(w)
  BY <1>1, DequeuedTruth
<1>2. CASE Announce(w)
  <2>1. /\ \/ step[w] = "marked" /\ step'[w] = "lock"
           \/ step[w] = "published" /\ step'[w] = "idle"
        /\ UNCHANGED <<due, queue, job, snap, radio, expected>>
    BY <1>2 DEF Announce, Goes, TypeOK, askVars
  <2> QED
    BY <2>1 DEF Truthful, Pending, Current, First, Meant, HasPower, Target, AtWork, ChildRuns
<1>3. CASE Spawn(w)
  <2>1. PICK p \in Pid : child' = [child EXCEPT ![w] = p] /\ proc' = [proc EXCEPT ![p] = "running"]
    BY <1>3 DEF Spawn
  <2>2. /\ step[w] = "run" /\ step'[w] = "waiting" /\ proc'[child'[w]] = "running"
        /\ UNCHANGED <<due, queue, job, stage, snap, radio, expected>>
    BY <1>3, <2>1 DEF Spawn, Goes, TypeOK, askVars
  <2>3. Target(w)' = Target(w)
    BY <2>2 DEF Target, AtWork, ChildRuns
  <2> QED
    BY <2>2, <2>3 DEF Truthful, Pending, Current, First, Meant, HasPower
<1>4. CASE SpawnNothing(w)
  <2>1. /\ step[w] = "run" /\ stage[w] # "done" /\ stage'[w] = NextStage(w)
        /\ UNCHANGED <<due, queue, step, job, snap, radio>>
    BY <1>4 DEF SpawnNothing, TypeOK
  <2>2. Pending(w)' /\ Current(w)'
    BY <2>1 DEF Truthful, Pending, Current, First
  <2>3. CASE stage[w] = "command"
    <3>1. Expects(w, "any") /\ queue'[w] = queue[w]
      BY <1>4, <2>1, <2>3 DEF SpawnNothing
    <3> QED
      BY <2>2, <3>1, FailedMeant DEF Truthful
  <2>4. CASE stage[w] # "command"
    <3>1. expected' = expected
      BY <1>4, <2>4 DEF SpawnNothing
    <3>2. Target(w)' = Target(w)
      BY <2>1, <2>4 DEF NextStage, Target, AtWork, ChildRuns, TypeOK, Stages
    <3> QED
      BY <2>1, <2>2, <3>1, <3>2 DEF Truthful, Meant, HasPower
  <2> QED
    BY <2>3, <2>4
<1>5. CASE DoCommand(w)
  <2>1. /\ step[w] = "lock" /\ step'[w] = "run" /\ stage'[w] = FirstStage(w)
        /\ UNCHANGED <<due, queue, job, snap, radio, expected>>
    BY <1>5 DEF DoCommand, Goes, TypeOK, askVars
  <2>2. Pending(w)' /\ Current(w)'
    BY <2>1 DEF Truthful, Pending, Current, First
  <2>3. job[w] \in Power => snap[w].powered = radio[w]
    BY <2>1 DEF Truthful, Current, First, Power
  <2>4. Target(w)' = Target(w)
    BY <2>1, <2>3 DEF FirstStage, Target, AtWork, ChildRuns, TypeOK, Command, Power
  <2> QED
    BY <2>1, <2>2, <2>4 DEF Truthful, Meant, HasPower
<1>6. CASE RunWait(w)
  <2>1. /\ step[w] = "waiting" /\ step'[w] = "run" /\ proc[child[w]] # "running" /\ stage'[w] = NextStage(w)
        /\ UNCHANGED <<due, queue, job, snap, radio, expected>>
    BY <1>6 DEF RunWait, Goes, TypeOK, askVars
  <2>2. Target(w)' = Target(w)
    BY <2>1 DEF NextStage, Target, AtWork, ChildRuns, TypeOK, Stages
  <2> QED
    BY <2>1, <2>2 DEF Truthful, Pending, Current, First, Meant, HasPower
<1>7. CASE BackendRefresh(w)
  <2>1. /\ step[w] = "run" /\ stage[w] = "done" /\ step'[w] = "publish" /\ after'[w] = radio[w] /\ ~due'[w]
        /\ UNCHANGED <<queue, job, stage, snap, radio, expected>>
    BY <1>7 DEF BackendRefresh, Goes, TypeOK
  <2> QED
    BY <2>1 DEF Truthful, Pending, Current, First, Meant, HasPower, Target, AtWork, ChildRuns
<1>8. CASE Publish(w)
  <2>1. /\ step[w] = "publish" /\ step'[w] = "published" /\ snap'[w].powered = after[w]
        /\ UNCHANGED <<due, queue, radio, stage, expected>>
    BY <1>8 DEF Publish, Goes, TypeOK, askVars
  <2> QED
    BY <2>1 DEF Truthful, Pending, Current, First, Meant, HasPower, Target, AtWork, ChildRuns
<1> QED
  BY <1>1, <1>2, <1>3, <1>4, <1>6, <1>7, <1>8, <1>5 DEF ThreadMain

(* The steps of other workers.                                             *)
LEMMA OtherTruth ==
  ASSUME Inv, NEW w \in Worker, NEW v \in Worker, v # w, Truthful(v), ThreadMain(w)
  PROVE  Truthful(v)'
<1> USE PidAssumption DEF Inv
<1>1. Same(v)
  BY DEF ThreadMain, Dequeue, Announce, DoCommand, Spawn, SpawnNothing, Expects, RunWait, BackendRefresh, Publish,
         Goes, Same, TypeOK, askVars
<1>2. CASE Spawn(w)
  <2>1. PICK p \in Pid : NextPid(p) /\ child' = [child EXCEPT ![w] = p] /\ proc' = [proc EXCEPT ![p] = "running"]
    BY <1>2 DEF Spawn
  <2>2. child'[v] = child[v] /\ child[v] # p
    BY <2>1 DEF NextPid, Free, TypeOK
  <2>3. ChildRuns(v)' <=> ChildRuns(v)
    BY <1>1, <2>1, <2>2 DEF Same, ChildRuns, TypeOK, Awaiting, Awaits
  <2> QED
    BY <1>1, <2>3, SameTruth
<1>3. CASE RunWait(w)
  <2>1. ChildRuns(v)' <=> ChildRuns(v)
    BY <1>1, <1>3 DEF RunWait, Goes, Same, ChildRuns, TypeOK, Awaiting, Awaits, Named
  <2> QED
    BY <1>1, <2>1, SameTruth
<1>4. CASE UNCHANGED <<child, proc>>
  BY <1>1, <1>4, SameTruth DEF Same, ChildRuns
<1> QED
  BY <1>2, <1>3, <1>4 DEF ThreadMain, Dequeue, Announce, DoCommand, SpawnNothing, BackendRefresh, Publish

(* A command ends; what the radio does is the outcome.                     *)
LEMMA ExitTruth ==
  ASSUME Inv, NEW p \in Pid, Exit(p), NEW v \in Worker, Truthful(v)
  PROVE  Truthful(v)'
<1> USE PidAssumption DEF Inv
<1>1. /\ UNCHANGED <<due, queue, step, job, stage, snap, after, child>>
      /\ proc[p] = "running" /\ proc' = [proc EXCEPT ![p] = "ended"]
  BY DEF Exit, workVars
<1>2. CASE child[v] # p
  <2>1. radio'[v] = radio[v] /\ expected'[v] = expected[v]
    BY <1>2 DEF Exit, CommandEnds, Succeeds, Fails, Expects, TypeOK
  <2>2. ChildRuns(v)' <=> ChildRuns(v)
    BY <1>1, <1>2 DEF ChildRuns, TypeOK, Awaiting, Awaits
  <2> QED
    BY <1>1, <2>1, <2>2, SameTruth DEF Same
<1>3. CASE child[v] = p
  <2>1. step[v] = "waiting" /\ \A w \in Worker : child[w] = p => w = v
    BY <1>3 DEF Awaiting, Awaits, Named
  <2>2. Pending(v)' /\ Current(v)'
    BY <1>1, <2>1 DEF Truthful, Pending, Current, First
  <2>3. ChildRuns(v) /\ ~ChildRuns(v)'
    BY <1>1, <1>3, <2>1 DEF ChildRuns, TypeOK
  <2>4. Succeeds(v) \/ Fails(v)
    BY <1>3, <2>1 DEF Exit, CommandEnds
  <2>5. CASE stage[v] = "command" /\ Succeeds(v)
    <3>1. radio'[v] = job[v] /\ expected' = expected
      BY <2>5 DEF Succeeds, TypeOK
    <3>2. Target(v)' = Target(v)
      BY <1>1, <2>1, <2>3, <2>5, <3>1 DEF Target, AtWork
    <3> QED
      BY <1>1, <2>2, <3>1, <3>2 DEF Truthful, Meant, HasPower
  <2>6. CASE stage[v] = "command" /\ Fails(v)
    BY <1>1, <2>2, <2>6, FailedMeant DEF Fails, Truthful
  <2>7. CASE stage[v] # "command" /\ Succeeds(v)
    <3>1. radio'[v] = "on" /\ expected'[v] = IF HasPower(v) THEN expected[v] ELSE "on"
      BY <2>7 DEF Succeeds, Expects, HasPower, TypeOK
    <3>2. Target(v)' = "on"
      BY <1>1, <2>1, <2>7, <3>1 DEF Target, AtWork, Awaiting, Awaits
    <3> QED
      BY <1>1, <2>2, <3>1, <3>2 DEF Truthful, Meant, HasPower
  <2>8. CASE stage[v] # "command" /\ Fails(v)
    <3>1. UNCHANGED <<radio, expected>>
      BY <2>8 DEF Fails
    <3>2. Target(v)' = Target(v)
      BY <1>1, <2>1, <2>8, <3>1 DEF Target, AtWork
    <3> QED
      BY <1>1, <2>2, <3>1, <3>2 DEF Truthful, Meant, HasPower
  <2> QED
    BY <2>4, <2>5, <2>6, <2>7, <2>8
<1> QED
  BY <1>2, <1>3

(* The requests of the shell.                                              *)
LEMMA RequestTruth ==
  ASSUME Inv, NEW ws, ws \subseteq Worker, NEW c \in Command, Ask(ws, c),
         UNCHANGED <<step, job, stage, child, after, radio, proc>>,
         NEW v \in Worker, Truthful(v), snap'[v].powered = snap[v].powered
  PROVE  Truthful(v)'
<1> USE DEF Inv
<1>1. ChildRuns(v)' <=> ChildRuns(v)
  BY DEF ChildRuns
<1>2. CASE v \in ws
  <2>1. queue'[v] = Enqueued(v, c) /\ Accepts(v) /\ expected'[v] = IF c \in Power THEN c ELSE expected[v]
    BY <1>2 DEF Ask, MayAsk
  <2>2. \/ queue'[v] = Append(queue[v], c)
        \/ queue'[v] = queue[v] /\ c = "refresh" /\ queue[v] # <<>>
    BY <2>1, EnqueuedShape
  <2> QED
    BY <1>1, <2>1, <2>2, AskedTruth
<1>3. CASE v \notin ws
  <2>1. Same(v)
    BY <1>3 DEF Ask, Same, TypeOK
  <2> QED
    BY <1>1, <2>1, SameTruth
<1> QED
  BY <1>2, <1>3

LEMMA NextTruth == Inv /\ Truth /\ [Next]_vars => Truth'
<1> SUFFICES ASSUME Inv, Truth, [Next]_vars, NEW v \in Worker PROVE Truthful(v)'
  BY DEF Truth
<1> USE PidAssumption DEF Inv
<1>1. Truthful(v)
  BY DEF Truth
<1>2. CASE Same(v) /\ (ChildRuns(v)' <=> ChildRuns(v))
  BY <1>1, <1>2, SameTruth
<1>3. ASSUME NEW w \in Worker, ThreadMain(w) PROVE Truthful(v)'
  BY <1>1, <1>3, OwnTruth, OtherTruth
<1>4. ASSUME NEW p \in Pid, Exit(p) PROVE Truthful(v)'
  BY <1>1, <1>4, ExitTruth
<1>5. CASE Tick
  <2>1. UNCHANGED <<step, job, stage, child, after, radio, proc>>
    BY <1>5 DEF Tick
  <2>2. CASE TickBusy
    BY <1>2, <2>1, <2>2 DEF TickBusy, Same, ChildRuns, askVars
  <2>3. CASE WifiTick
    <3>1. PICK old \in SUBSET {w \in Worker : ~Consumed(w).busy} : Ask(old, "refresh")
      BY <2>3 DEF WifiTick
    <3>2. snap'[v].powered = snap[v].powered
      BY <2>3 DEF WifiTick, TypeOK
    <3> QED
      BY <1>1, <2>1, <3>1, <3>2, RequestTruth DEF Command
  <2> QED
    BY <1>5, <2>2, <2>3 DEF Tick
<1>6. CASE Input
  <2>1. UNCHANGED <<step, job, stage, child, after, radio, proc, snap>>
    BY <1>6 DEF Input
  <2>2. CASE Plain
    BY <1>2, <2>1, <2>2 DEF Plain, Same, ChildRuns, askVars
  <2>3. ASSUME NEW w \in Switched, Switch(w) PROVE Truthful(v)'
    BY <1>1, <2>1, <2>3, RequestTruth, OrderAssumption DEF Switch, Other, Command, Power
  <2>4. ASSUME NEW w \in Worker, OpenMenu(w) PROVE Truthful(v)'
    BY <1>1, <2>1, <2>4, RequestTruth DEF OpenMenu, Command
  <2> QED
    BY <1>6, <2>2, <2>3, <2>4 DEF Input
<1>7. ASSUME NEW p \in Pid, ReapChildren, WaitAny(p) PROVE Truthful(v)'
  BY <1>2, <1>7 DEF ReapChildren, WaitAny, Same, ChildRuns, TypeOK, Awaiting, Awaits, workVars, askVars
<1>8. CASE OnVideo
  <2>1. PICK p \in Pid : (NextPid(p) \/ p = player) /\ player' = p /\ proc' = [Collected EXCEPT ![p] = "running"]
    BY <1>8 DEF OnVideo
  <2>2. UNCHANGED <<workVars, radio, askVars>>
    BY <1>8 DEF OnVideo
  <2>3. child[v] # NoPid => child[v] # p /\ child[v] # player
    BY <2>1 DEF NextPid, Free, Named
  <2>4. ChildRuns(v)' <=> ChildRuns(v)
    BY <2>1, <2>2, <2>3 DEF ChildRuns, Collected, TypeOK, Awaiting, Awaits, workVars
  <2> QED
    BY <1>2, <2>2, <2>4 DEF Same, workVars, askVars
<1>9. CASE PlayerStop
  <2>1. UNCHANGED <<workVars, radio, askVars>> /\ proc' = [proc EXCEPT ![player] = "none"]
    BY <1>9 DEF PlayerStop
  <2>2. ChildRuns(v)' <=> ChildRuns(v)
    BY <2>1 DEF ChildRuns, TypeOK, Awaiting, Awaits, Named, workVars
  <2> QED
    BY <1>2, <2>1, <2>2 DEF Same, workVars, askVars
<1>10. CASE UNCHANGED <<proc, workVars, radio, askVars>>
  BY <1>2, <1>10 DEF Same, ChildRuns, workVars, askVars
<1>11. \/ UNCHANGED <<proc, workVars, radio, askVars>>
       \/ \E w \in Worker : ThreadMain(w)
       \/ \E p \in Pid : Exit(p)
       \/ Tick \/ Input \/ OnVideo \/ PlayerStop
       \/ ReapChildren /\ \E p \in Pid : WaitAny(p)
  BY DEF Next, Loop, Top, ReapChildren, TryLock, PutOff, ReapDone, Woken, Deadline, GracePasses, vars
<1> QED
  BY <1>3, <1>4, <1>5, <1>6, <1>7, <1>8, <1>9, <1>10, <1>11

LEMMA InitTruth == Init => Truth
<1> SUFFICES ASSUME Init, NEW w \in Worker PROVE Truthful(w)
  BY DEF Truth
<1>1. step[w] = "idle" /\ queue[w] = <<"refresh">> \o IF w \in Switched THEN <<expected[w]>> ELSE <<>>
  BY DEF Init
<1>2. expected[w] = "any" <=> w \notin Switched
  BY DEF Init
<1>3. CASE w \in Switched
  <2>1. expected[w] \in Power
    BY <1>2, <1>3 DEF Init
  <2>2. Len(queue[w]) = 2 /\ queue[w][1] = "refresh" /\ queue[w][2] = expected[w] /\ Head(queue[w]) = "refresh"
    BY <1>1, <1>3
  <2>3. HasPower(w)
    BY <2>1, <2>2 DEF HasPower
  <2>4. queue[w] # <<>>
    BY <2>2
  <2>5. Meant(w)
    BY <2>1, <2>2, <2>3 DEF Meant, Power
  <2> QED
    BY <1>1, <2>2, <2>4, <2>5 DEF Truthful, Pending, Current, First
<1>4. CASE w \notin Switched
  <2>1. Len(queue[w]) = 1 /\ queue[w][1] = "refresh" /\ Head(queue[w]) = "refresh" /\ queue[w] # <<>>
    BY <1>1, <1>4
  <2>2. Meant(w)
    BY <1>2, <1>4, <2>1 DEF Meant, Power
  <2> QED
    BY <1>1, <2>1, <2>2 DEF Truthful, Pending, Current, First
<1> QED
  BY <1>3, <1>4

(* Whatever was coalesced, skipped because the radio is so already, or     *)
(* failed: a worker at rest has published what the last accepted request   *)
(* asked to be read, and the radio is what was asked for last, or on since *)
(* a refresh unblocked it, unless a command failed.                        *)
THEOREM OutcomesAreCurrent == Spec => []OutcomeIsCurrent
<1>1. Inv /\ Truth => OutcomeIsCurrent
  BY DEF Truth, Truthful, Pending, Current, First, Meant, HasPower, Target, AtWork, ChildRuns, OutcomeIsCurrent,
         AtRest
<1>2. Inv /\ Truth /\ [Next]_vars => (Inv /\ Truth)'
  BY NextTypes, NextAwaits, NextGuarded, NextNamed, NextTruth DEF Inv
<1> QED
  BY <1>1, <1>2, InitInv, InitTruth, PTL DEF Spec

-----------------------------------------------------------------------------
(* What keeps the loop from sleeping over a result.  A snapshot it has not *)
(* seen while it sleeps is announced or will be, as its worker has still   *)
(* the mutex; what it shows is the snapshot it saw last, unless something  *)
(* is queued that will make another; and a worker that has nothing to do   *)
(* does not say that it is busy.                                           *)
Announced(w) == ui = "poll" /\ snap[w].new => event \/ MutexHeld(w)
Seen(w) ==
  snap[w].new \/ queue[w] # <<>> \/ shown[w] = [powered |-> snap[w].powered, busy |-> snap[w].busy]
Rested(w) == step[w] \in {"idle", "published"} /\ snap[w].busy => queue[w] # <<>>
Awake(w) == Announced(w) /\ Seen(w) /\ Rested(w)
Vigilance == \A w \in Worker : Awake(w)

(* A request leaves no queue empty.                                        *)
LEMMA AskFills ==
  ASSUME TypeOK, NEW ws, ws \subseteq Worker, NEW c \in Command, Ask(ws, c), NEW v \in Worker
  PROVE  /\ v \in ws => queue'[v] # <<>>
         /\ v \notin ws => queue'[v] = queue[v]
<1>1. CASE v \in ws
  <2>1. queue'[v] = Enqueued(v, c) /\ Accepts(v)
    BY <1>1 DEF Ask, MayAsk
  <2>2. queue[v] \in Seq(Command)
    BY DEF TypeOK
  <2>3. Enqueued(v, c) = Append(queue[v], c) \/ (Enqueued(v, c) = queue[v] /\ queue[v] # <<>>)
    BY <2>1, EnqueuedShape
  <2> QED
    BY <1>1, <2>1, <2>2, <2>3
<1>2. CASE v \notin ws
  BY <1>2 DEF Ask
<1> QED
  BY <1>1, <1>2

LEMMA WorkerAwake ==
  ASSUME TypeOK, NEW w \in Worker, ThreadMain(w), NEW v \in Worker, Awake(v)
  PROVE  Awake(v)'
<1> USE DEF Awake, Announced, Seen, Rested, MutexHeld, Goes, TypeOK
<1>1. CASE Dequeue(w)
  <2>1. CASE v = w
    <3>1. step'[v] = "marked" /\ snap'[v].new = TRUE
      BY <1>1, <2>1 DEF Dequeue
    <3> QED
      BY <3>1
  <2>2. CASE v # w
    <3>1. /\ step'[v] = step[v] /\ snap'[v] = snap[v] /\ queue'[v] = queue[v]
          /\ UNCHANGED <<ui, event, shown>>
      BY <1>1, <2>2 DEF Dequeue, loopVars
    <3> QED
      BY <3>1
  <2> QED
    BY <2>1, <2>2
<1>2. CASE Announce(w)
  BY <1>2 DEF Announce
<1>3. CASE DoCommand(w) \/ Spawn(w) \/ SpawnNothing(w)
  BY <1>3 DEF DoCommand, Spawn, SpawnNothing, loopVars
<1>4. CASE RunWait(w)
  BY <1>4 DEF RunWait, loopVars
<1>5. CASE BackendRefresh(w)
  BY <1>5 DEF BackendRefresh, loopVars
<1>6. CASE Publish(w)
  BY <1>6 DEF Publish, loopVars
<1> QED
  BY <1>1, <1>2, <1>3, <1>4, <1>5, <1>6 DEF ThreadMain

LEMMA TickAwake ==
  ASSUME TypeOK, Tick, NEW v \in Worker, Awake(v)
  PROVE  Awake(v)'
<1>1. step' = step /\ event' = event /\ ui' = IF recent THEN "pollBusy" ELSE "poll"
  BY DEF Tick
<1>2. CASE TickBusy /\ recent
  BY <1>1, <1>2 DEF TickBusy, Awake, Announced, Seen, Rested, MutexHeld
<1>3. CASE WifiTick
  <2>1. PICK old \in SUBSET {w \in Worker : ~Consumed(w).busy} :
          /\ Ask(old, "refresh")
          /\ shown' = [w \in Worker |-> IF w \in old THEN [Consumed(w) EXCEPT !.busy = TRUE] ELSE Consumed(w)]
    BY <1>3 DEF WifiTick
  <2>2. /\ v \in old => queue'[v] # <<>>
        /\ v \notin old => queue'[v] = queue[v] /\ shown'[v] = Consumed(v)
    BY <2>1, AskFills DEF Command
  <2>3. /\ snap'[v].new = (snap[v].new /\ ~Consumes(v))
        /\ snap'[v].powered = snap[v].powered /\ snap'[v].busy = snap[v].busy
    BY <1>3 DEF WifiTick, TypeOK
  <2>4. Announced(v)'
    BY <1>1, <2>3 DEF Announced, Consumes, MutexHeld
  <2>5. Seen(v)'
    BY <2>2, <2>3 DEF Seen, Awake, Consumed, Consumes
  <2>6. Rested(v)'
    BY <1>1, <2>2, <2>3 DEF Rested, Awake
  <2> QED
    BY <2>4, <2>5, <2>6 DEF Awake
<1> QED
  BY <1>2, <1>3 DEF Tick, TickBusy

LEMMA InputAwake ==
  ASSUME TypeOK, Input, NEW v \in Worker, Awake(v)
  PROVE  Awake(v)'
<1>1. ui' = "top" /\ UNCHANGED <<step, snap>>
  BY DEF Input
<1>2. \/ queue'[v] # <<>>
      \/ queue'[v] = queue[v] /\ shown'[v] = shown[v]
  <2>1. ASSUME NEW w \in Switched, Switch(w)
        PROVE  queue'[v] # <<>> \/ (queue'[v] = queue[v] /\ shown'[v] = shown[v])
    <3>1. w \in Worker /\ Other(shown[w].powered) \in Command
      BY OrderAssumption DEF Other, Command, Power
    <3>2. Ask({w}, Other(shown[w].powered)) /\ (v # w => shown'[v] = shown[v])
      BY <2>1 DEF Switch, TypeOK
    <3> QED
      BY <3>1, <3>2, AskFills
  <2>2. ASSUME NEW w \in Worker, OpenMenu(w)
        PROVE  queue'[v] # <<>> \/ (queue'[v] = queue[v] /\ shown'[v] = shown[v])
    BY <2>2, AskFills DEF OpenMenu, Command, TypeOK
  <2> QED
    BY <2>1, <2>2 DEF Input, Plain
<1> QED
  BY <1>1, <1>2 DEF Awake, Announced, Seen, Rested

LEMMA NextVigilant == TypeOK /\ Vigilance /\ [Next]_vars => Vigilance'
<1> SUFFICES ASSUME TypeOK, Vigilance, [Next]_vars, NEW v \in Worker PROVE Awake(v)'
  BY DEF Vigilance
<1>1. Awake(v)
  BY DEF Vigilance
<1>2. CASE /\ UNCHANGED <<shown, step, queue, snap>>
           /\ ui' = "poll" => ui = "poll" /\ (event => event')
  BY <1>1, <1>2 DEF Awake, Announced, Seen, Rested, MutexHeld
<1>3. \/ UNCHANGED <<shown, step, queue, snap>> /\ (ui' = "poll" => ui = "poll" /\ (event => event'))
      \/ Tick \/ Input \/ \E w \in Worker : ThreadMain(w)
  BY DEF Next, Loop, Top, ReapChildren, TryLock, PutOff, WaitAny, ReapDone, Woken, Deadline, GracePasses,
         Exit, OnVideo, PlayerStop, Polls, LoopGoes, vars, loopVars, workVars
<1> QED
  BY <1>1, <1>2, <1>3, TickAwake, InputAwake, WorkerAwake

LEMMA InitVigilant == Init => Vigilance
<1> SUFFICES ASSUME Init, NEW w \in Worker PROVE Awake(w)
  BY DEF Vigilance
<1>1. queue[w] = <<"refresh">> \o IF w \in Switched THEN <<expected[w]>> ELSE <<>>
  BY DEF Init
<1>2. queue[w] # <<>>
  BY <1>1
<1> QED
  BY <1>2 DEF Init, Awake, Announced, Seen, Rested

(* No result is slept over: when the loop sleeps, no notification is on    *)
(* its way and a worker rests, the shell shows the radio as it is and no   *)
(* request as running, whatever the try-locks of wifi_consume_snapshot     *)
(* missed and whichever notifications were drained by input.               *)
THEOREM AsleepShowsOutcome ==
  Spec => [](\A w \in Worker :
               ui = "poll" /\ ~event /\ AtRest(w) => shown[w] = [powered |-> radio[w], busy |-> FALSE])
<1> DEFINE Outcome == \A w \in Worker :
                        ui = "poll" /\ ~event /\ AtRest(w)
                          => shown[w] = [powered |-> radio[w], busy |-> FALSE]
<1>1. Init => TypeOK /\ Awaiting /\ Vigilance
  BY InitTypes, InitVigilant DEF Init, Awaiting, Awaits
<1>2. TypeOK /\ Awaiting /\ Vigilance /\ [Next]_vars => (TypeOK /\ Awaiting /\ Vigilance)'
  BY NextTypes, NextAwaits, NextVigilant
<1>3. TypeOK /\ Vigilance /\ OutcomeIsCurrent => Outcome
  <2> SUFFICES ASSUME TypeOK, Vigilance, OutcomeIsCurrent, NEW w \in Worker,
                      ui = "poll", ~event, AtRest(w)
               PROVE  shown[w] = [powered |-> radio[w], busy |-> FALSE]
    OBVIOUS
  <2>1. Awake(w) /\ step[w] = "idle" /\ queue[w] = <<>>
    BY DEF Vigilance, AtRest
  <2>2. ~snap[w].new /\ snap[w].busy = FALSE
    BY <2>1 DEF Awake, Announced, Rested, MutexHeld, TypeOK
  <2>3. snap[w].powered = radio[w]
    BY DEF OutcomeIsCurrent
  <2> QED
    BY <2>1, <2>2, <2>3 DEF Awake, Seen
<1>4. QED
  BY <1>1, <1>2, <1>3, OutcomesAreCurrent, PTL DEF Spec

(* No child is forgotten: as long as one has ended and nobody waited for   *)
(* it, SIGCHLD is noted or the loop is at it, also when it was put off     *)
(* because a worker had its guard.                                         *)
THEOREM EndedAreNoted ==
  Spec => [](\A p \in Pid : proc[p] = "ended" => sigchld \/ ui = "reap")
<1> DEFINE Noted == \A p \in Pid : proc[p] = "ended" => sigchld \/ ui = "reap"
<1>1. Init => Noted
  BY DEF Init
<1>2. TypeOK /\ Noted /\ [Next]_vars => Noted'
  <2> SUFFICES ASSUME TypeOK, Noted, [Next]_vars, NEW p \in Pid, proc'[p] = "ended"
               PROVE  sigchld' \/ ui' = "reap"
    OBVIOUS
  <2>1. CASE Loop
    <3>1. proc[p] = "ended"
      BY <2>1 DEF Loop, Top, ReapChildren, TryLock, PutOff, WaitAny, ReapDone, Tick, Woken, Deadline, TypeOK
    <3>2. CASE Top
      BY <3>2 DEF Top, LoopGoes
    <3>3. CASE ReapChildren
      BY <3>3 DEF ReapChildren, TryLock, PutOff, WaitAny
    <3>4. CASE ReapDone
      BY <3>1, <3>4 DEF ReapDone
    <3>5. CASE Tick \/ Woken \/ Deadline
      <4>1. ui # "reap" /\ sigchld' = sigchld
        BY <3>5 DEF Tick, Woken, Deadline, LoopGoes, Polls
      <4> QED
        BY <3>1, <4>1
    <3> QED
      BY <2>1, <3>2, <3>3, <3>4, <3>5 DEF Loop
  <2>2. ASSUME NEW q \in Pid, Exit(q) PROVE sigchld'
    BY <2>2 DEF Exit
  <2>3. CASE OnVideo \/ PlayerStop
    <3>1. proc[p] = "ended"
      BY <2>3 DEF OnVideo, PlayerStop, Collected, TypeOK
    <3> QED
      BY <2>3, <3>1 DEF OnVideo, PlayerStop, loopVars, TypeOK
  <2>4. ASSUME NEW w \in Worker, ThreadMain(w) PROVE sigchld' \/ ui' = "reap"
    <3>1. proc[p] = "ended"
      BY <2>4 DEF ThreadMain, Dequeue, Announce, DoCommand, Spawn, SpawnNothing, RunWait, BackendRefresh,
                  Publish, TypeOK
    <3> QED
      BY <2>4, <3>1 DEF ThreadMain, Dequeue, Announce, DoCommand, Spawn, SpawnNothing, RunWait, BackendRefresh,
                        Publish, loopVars
  <2>5. CASE GracePasses \/ Input \/ UNCHANGED vars
    BY <2>5 DEF GracePasses, Input, Polls, vars, loopVars
  <2> QED
    BY <2>1, <2>2, <2>3, <2>4, <2>5 DEF Next
<1>3. QED
  BY <1>1, <1>2, TypeCorrect, PTL DEF Spec
=============================================================================
