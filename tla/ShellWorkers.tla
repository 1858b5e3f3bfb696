---------------------------- MODULE ShellWorkers ----------------------------
(* The desktop shell's main loop and the threads beside it: the network    *)
(* workers (luna-wifi.h; luna-bluetooth.h and luna-ethernet.h are the same *)
(* program), which run commands as child processes, and the AirPlay thread *)
(* with its player.  The loop queues requests, applies the snapshots the   *)
(* workers publish, and collects every child that has ended with           *)
(* waitpid(-1), unless a worker holds its guard.  An idle loop sleeps in   *)
(* poll() until a descriptor wakes it.                                     *)
EXTENDS Naturals, Sequences

CONSTANTS
  Worker,       \* the workers
  Switched,     \* those whose radio the user switches: wifi and bluetooth
  Unblocks,     \* those that unblock it for a refresh that finds nothing: wifi
  Order,        \* the order in which the loop takes their guards
  Pid, NoPid,   \* so many processes at a time
  QueueCap,     \* LUNA_WIFI_QUEUE_CAP
  More          \* bound on the requests to each worker after those of the start

ASSUME OrderAssumption ==
  /\ Switched \subseteq Worker /\ Unblocks \subseteq Switched
  /\ Order \in Seq(Worker)
  /\ \A w \in Worker : \E i \in 1 .. Len(Order) : Order[i] = w
ASSUME PidAssumption == Pid \subseteq Nat /\ NoPid \notin Pid
ASSUME BoundAssumption == QueueCap \in Nat /\ QueueCap >= 2 /\ More \in [Worker -> Nat]

VARIABLES
  \* the main loop
  ui,           \* where the loop is; "pollBusy" is poll() with g_interaction_busy
  taken,        \* reap_children: how many guards it holds
  sigchld,      \* g_sigchld_pending
  recent,       \* input came less than the grace period ago
  event,        \* the eventfd the threads notify
  shown,        \* g_wifi_powered and g_wifi_busy
  \* the processes
  proc,         \* "none", "running" or "ended": nobody waited for it yet
  \* the workers
  step,         \* where each is in luna_wifi_thread_main
  queue,        \* its commands
  job,          \* the command it works on
  stage,        \* how far it is with the children of that command
  child,        \* the process it waits for
  after,        \* what it has read and not published yet
  snap,         \* g_luna_wifi.snapshot; new: g_wifi_generation is another one
  radio,        \* whether the radio is on
  \* the AirPlay thread
  player,       \* g_ap_player; g_ap_player_fd is open as long as it is set
  \* what the properties compare with
  asked,        \* requests that were accepted
  due,          \* nothing was read since the last of them
  expected      \* the last power request, "on" when the radio was unblocked
                \* since, "any" when a command failed

loopVars == <<ui, taken, sigchld, recent, event, shown>>
workVars == <<step, queue, job, stage, child, after, snap>>
askVars == <<asked, due, expected>>
vars == <<loopVars, proc, workVars, radio, player, askVars>>

Power == {"on", "off"}
Command == Power \cup {"refresh"}
Other(power) == IF power = "on" THEN "off" ELSE "on"

-----------------------------------------------------------------------------
(* Locks.  mutex protects the queue and the snapshot, child_mutex is the   *)
(* guard: a worker holds it from the command to the end of the refresh.    *)
MutexHeld(w) == step[w] \in {"marked", "published"}
WorkerGuards(w) == step[w] \in {"run", "waiting"}
LoopGuards(w) == \E i \in 1 .. taken : Order[i] = w

(* fork and posix_spawn, if there can be one more process.  The number of  *)
(* a process is not used again while somebody still knows it.              *)
Free == {p \in Pid : proc[p] = "none" /\ p # player /\ \A w \in Worker : child[w] # p}
NextPid(p) == p \in Free /\ \A q \in Free : p <= q

(* Mutants: the queue takes one command too many; a refresh is dropped     *)
(* while the worker is busy.                                               *)
AcceptsOneMore(w) == Len(queue[w]) <= QueueCap
EnqueuedUnlessBusy(w, c) ==
  IF c = "refresh" /\ snap[w].busy THEN queue[w] ELSE Append(queue[w], c)

(* luna_wifi_enqueue, when there is room: a refresh behind a refresh is    *)
(* the same refresh.                                                       *)
Accepts(w) == Len(queue[w]) < QueueCap
Enqueued(w, c) ==
  LET q == queue[w] IN
  IF c = "refresh" /\ q # <<>> /\ q[Len(q)] = "refresh" THEN q ELSE Append(q, c)

-----------------------------------------------------------------------------
(* The worker: luna_wifi_thread_main.  Each critical section is two steps, *)
(* so that the loop can find the mutex taken.                              *)
Goes(w, from, to) == step[w] = from /\ step' = [step EXCEPT ![w] = to]

Dequeue(w) ==
  /\ Goes(w, "idle", "marked") /\ queue[w] # <<>>
  /\ job' = [job EXCEPT ![w] = Head(queue[w])]
  /\ queue' = [queue EXCEPT ![w] = Tail(@)]
  /\ snap' = [snap EXCEPT ![w].busy = TRUE, ![w].new = TRUE]
  /\ UNCHANGED <<loopVars, proc, stage, child, after, radio, player, askVars>>

(* A mutant: the result is published without a notification.               *)
AnnounceStart(w) ==
  /\ \/ Goes(w, "marked", "lock") /\ event' = TRUE
     \/ Goes(w, "published", "idle") /\ UNCHANGED event
  /\ UNCHANGED <<ui, taken, sigchld, recent, shown>>
  /\ UNCHANGED <<proc, queue, job, stage, child, after, snap, radio, player, askVars>>

(* The mutex is released, then luna_wifi_notify, shell_async_notify.       *)
Announce(w) ==
  /\ Goes(w, "marked", "lock") \/ Goes(w, "published", "idle")
  /\ event' = TRUE
  /\ UNCHANGED <<ui, taken, sigchld, recent, shown>>
  /\ UNCHANGED <<proc, queue, job, stage, child, after, snap, radio, player, askVars>>

(* The children of a command run one after another.  Switching on unblocks *)
(* the radio before the command and, for Unblocks, after it; there a       *)
(* refresh unblocks it too, as long as the snapshot lists no network.      *)
(* Nothing is to be done when the radio was as asked for already.          *)
FirstStage(w) ==
  CASE job[w] = "refresh" -> IF w \in Unblocks THEN "after" ELSE "done"
    [] job[w] = snap[w].powered -> "done"
    [] OTHER -> IF job[w] = "on" THEN "before" ELSE "command"
NextStage(w) ==
  CASE stage[w] = "before" -> "command"
    [] stage[w] = "command" /\ job[w] = "on" /\ w \in Unblocks -> "after"
    [] OTHER -> "done"

(* What the radio is to be, unless there is a later request of the user.   *)
Expects(w, e) ==
  LET later == \E i \in 1 .. Len(queue[w]) : queue[w][i] \in Power IN
  expected' = [expected EXCEPT ![w] = IF later THEN @ ELSE e]

(* The guard is taken, then luna_wifi_do_command or, for a refresh,        *)
(* luna_wifi_prepare_interfaces.                                           *)
DoCommand(w) ==
  /\ Goes(w, "lock", "run") /\ ~LoopGuards(w)
  /\ stage' = [stage EXCEPT ![w] = FirstStage(w)]
  /\ UNCHANGED <<loopVars, proc, queue, job, child, after, snap, radio, player, askVars>>

(* luna_wifi_run_wait starts a child.  When it cannot, the command has     *)
(* failed; and there is none to unblock with when rfkill is not installed  *)
(* or a network is listed.                                                 *)
Spawn(w) ==
  /\ Goes(w, "run", "waiting") /\ stage[w] # "done"
  /\ \E p \in Pid : NextPid(p) /\ child' = [child EXCEPT ![w] = p] /\ proc' = [proc EXCEPT ![p] = "running"]
  /\ UNCHANGED <<loopVars, queue, job, stage, after, snap, radio, player, askVars>>
SpawnNothing(w) ==
  /\ step[w] = "run" /\ stage[w] # "done"
  /\ IF stage[w] = "command" THEN Free = {} /\ Expects(w, "any") ELSE UNCHANGED expected
  /\ stage' = [stage EXCEPT ![w] = NextStage(w)]
  /\ UNCHANGED <<loopVars, proc, step, queue, job, child, after, snap, radio, player, asked, due>>

(* Its waitpid returns when the child has ended, or when there is no such  *)
(* child any more, which it takes for a failure.                           *)
RunWait(w) ==
  /\ Goes(w, "waiting", "run") /\ proc[child[w]] \in {"ended", "none"}
  /\ proc' = [proc EXCEPT ![child[w]] = "none"]
  /\ child' = [child EXCEPT ![w] = NoPid]
  /\ stage' = [stage EXCEPT ![w] = NextStage(w)]
  /\ UNCHANGED <<loopVars, queue, job, after, snap, radio, player, askVars>>

(* luna_wifi_backend_refresh, and child_mutex is released.                 *)
BackendRefresh(w) ==
  /\ Goes(w, "run", "publish") /\ stage[w] = "done"
  /\ after' = [after EXCEPT ![w] = radio[w]] /\ due' = [due EXCEPT ![w] = FALSE]
  /\ UNCHANGED <<loopVars, proc, queue, job, stage, child, snap, radio, player, asked, expected>>

(* luna_wifi_publish; the thread's locals end here.                         *)
Publish(w) ==
  /\ Goes(w, "publish", "published")
  /\ snap' = [snap EXCEPT ![w] = [powered |-> after[w], busy |-> FALSE, new |-> TRUE]]
  /\ after' = [after EXCEPT ![w] = "off"] /\ job' = [job EXCEPT ![w] = "refresh"]
  /\ UNCHANGED <<loopVars, proc, queue, stage, child, radio, player, askVars>>

ThreadMain(w) ==
  \/ Dequeue(w) \/ Announce(w) \/ DoCommand(w) \/ Spawn(w) \/ SpawnNothing(w) \/ RunWait(w)
  \/ BackendRefresh(w) \/ Publish(w)

-----------------------------------------------------------------------------
(* A process ends, and SIGCHLD is handled: on_sigchld only sets the flag,  *)
(* and the poll() of the loop is called again after EINTR.  A command did  *)
(* what it was for, or failed; unblocking may turn the radio on.           *)
Succeeds(w) ==
  IF stage[w] = "command" THEN radio' = [radio EXCEPT ![w] = job[w]] /\ UNCHANGED expected
                          ELSE radio' = [radio EXCEPT ![w] = "on"] /\ Expects(w, "on")
Fails(w) ==
  /\ IF stage[w] = "command" THEN Expects(w, "any") ELSE UNCHANGED expected
  /\ UNCHANGED radio
CommandEnds(p) ==
  \/ (\A w \in Worker : child[w] # p) /\ UNCHANGED <<radio, expected>>
  \/ \E w \in Worker : child[w] = p /\ (Succeeds(w) \/ Fails(w))
Exit(p) ==
  /\ proc[p] = "running" /\ proc' = [proc EXCEPT ![p] = "ended"]
  /\ CommandEnds(p)
  /\ sigchld' = TRUE
  /\ UNCHANGED <<ui, taken, recent, event, shown, workVars, player, asked, due>>

-----------------------------------------------------------------------------
(* The main loop.                                                          *)
LoopGoes(from, to) == ui = from /\ ui' = to

Top ==
  /\ LoopGoes("top", "reap") /\ sigchld /\ sigchld' = FALSE
  /\ UNCHANGED <<taken, recent, event, shown, proc, workVars, radio, player, askVars>>

(* reap_children: the guards are tried in order; when one is taken those   *)
(* before it are released and the children wait for another time.          *)
AllTaken == taken = Len(Order)

(* Mutants: the guard of the worker is not tried; what was put off is      *)
(* forgotten.                                                              *)
TryLockNothing ==
  /\ ui = "reap" /\ ~AllTaken /\ taken' = taken + 1
  /\ UNCHANGED <<ui, sigchld, proc>>
PutOffForgets ==
  /\ LoopGoes("reap", "tick") /\ ~AllTaken /\ WorkerGuards(Order[taken + 1])
  /\ taken' = 0 /\ UNCHANGED <<sigchld, proc>>

TryLock ==
  /\ ui = "reap" /\ ~AllTaken /\ ~WorkerGuards(Order[taken + 1])
  /\ taken' = taken + 1
  /\ UNCHANGED <<ui, sigchld, proc>>
PutOff ==
  /\ LoopGoes("reap", "tick") /\ ~AllTaken /\ WorkerGuards(Order[taken + 1])
  /\ taken' = 0 /\ sigchld' = TRUE
  /\ UNCHANGED proc
WaitAny(p) ==
  /\ ui = "reap" /\ AllTaken /\ proc[p] = "ended"
  /\ proc' = [proc EXCEPT ![p] = "none"]
  /\ UNCHANGED <<ui, taken, sigchld>>
ReapChildren ==
  /\ TryLock \/ PutOff \/ \E p \in Pid : WaitAny(p)
  /\ UNCHANGED <<recent, event, shown, workVars, radio, player, askVars>>
ReapDone ==
  /\ LoopGoes("reap", "tick") /\ AllTaken /\ \A p \in Pid : proc[p] # "ended"
  /\ taken' = 0
  /\ UNCHANGED <<sigchld, recent, event, shown, proc, workVars, radio, player, askVars>>

(* Requests of the shell: wifi_refresh, wifi_request_powered.  At most     *)
(* More[w] of them are made of one worker.                                 *)
MayAsk(w) == ~MutexHeld(w) /\ Accepts(w) /\ asked[w] < More[w]
Ask(ws, c) ==
  /\ \A w \in ws : MayAsk(w)
  /\ queue' = [w \in Worker |-> IF w \in ws THEN Enqueued(w, c) ELSE queue[w]]
  /\ asked' = [w \in Worker |-> IF w \in ws THEN asked[w] + 1 ELSE asked[w]]
  /\ due' = [w \in Worker |-> w \in ws \/ due[w]]
  /\ expected' = [w \in Worker |-> IF w \in ws /\ c \in Power THEN c ELSE expected[w]]

(* wifi_consume_snapshot, luna_wifi_consume: what is new, unless the       *)
(* worker has the mutex.                                                   *)
Consumes(w) == ~MutexHeld(w) /\ snap[w].new
Consumed(w) == IF Consumes(w) THEN [powered |-> snap[w].powered, busy |-> snap[w].busy] ELSE shown[w]

(* What the loop does unless the user interacts: wifi_tick applies the     *)
(* snapshots and refreshes a list that is shown and old.                   *)
TickBusy == recent /\ UNCHANGED <<shown, snap, queue, askVars>>
WifiTick ==
  /\ ~recent
  /\ snap' = [w \in Worker |-> [snap[w] EXCEPT !.new = @ /\ ~Consumes(w)]]
  /\ \E old \in SUBSET {w \in Worker : ~Consumed(w).busy} :
       /\ Ask(old, "refresh")
       /\ shown' = [w \in Worker |-> IF w \in old THEN [Consumed(w) EXCEPT !.busy = TRUE] ELSE Consumed(w)]
Tick ==
  /\ ui = "tick" \/ (ui = "top" /\ ~sigchld)
  /\ ui' = IF recent THEN "pollBusy" ELSE "poll"
  /\ TickBusy \/ WifiTick
  /\ UNCHANGED <<taken, sigchld, recent, event, proc, step, job, stage, child, after, radio, player>>

(* poll(): a notification of a worker ends it, but is left for later while *)
(* the user interacts; then the poll ends with the grace period.           *)
Polls == ui \in {"poll", "pollBusy"}
Woken ==
  /\ Polls /\ event /\ event' = FALSE
  /\ ui' = IF ui = "pollBusy" THEN ui ELSE "top"
  /\ UNCHANGED <<taken, sigchld, recent, shown, proc, workVars, radio, player, askVars>>
Deadline ==
  /\ LoopGoes("pollBusy", "top") /\ ~recent
  /\ UNCHANGED <<taken, sigchld, recent, event, shown, proc, workVars, radio, player, askVars>>
GracePasses ==
  /\ recent /\ recent' = FALSE
  /\ UNCHANGED <<ui, taken, sigchld, event, shown, proc, workVars, radio, player, askVars>>

(* Input ends the poll too, and whatever notification came is drained with *)
(* it.  on_wifi_power shows the radio as it will be; the menu refreshes    *)
(* its list.                                                               *)
Plain == UNCHANGED <<shown, queue, askVars>>
Switch(w) ==
  LET c == Other(shown[w].powered) IN
  /\ Ask({w}, c) /\ shown' = [shown EXCEPT ![w] = [powered |-> c, busy |-> TRUE]]
OpenMenu(w) ==
  /\ Ask({w}, "refresh") /\ shown' = [shown EXCEPT ![w].busy = TRUE]
Input ==
  /\ Polls /\ ui' = "top" /\ recent' = TRUE /\ event' = FALSE
  /\ \/ Plain
     \/ \E w \in Switched : Switch(w)
     \/ \E w \in Worker : OpenMenu(w)
  /\ UNCHANGED <<taken, sigchld, proc, step, job, stage, child, after, snap, radio, player>>

Loop == Top \/ ReapChildren \/ ReapDone \/ Tick \/ Woken \/ Deadline

-----------------------------------------------------------------------------
(* The AirPlay thread.  ap_on_video, ap_player_start_locked: a frame       *)
(* starts the player unless there is one that waitpid does not return.     *)
Collected == [p \in Pid |-> IF p = player THEN "none" ELSE proc[p]]
OnVideo ==
  /\ player # NoPid => proc[player] = "ended"
  /\ \E p \in Pid :
       /\ NextPid(p) \/ p = player
       /\ player' = p /\ proc' = [Collected EXCEPT ![p] = "running"]
  /\ UNCHANGED <<loopVars, workVars, radio, askVars>>

(* ap_player_stop: SIGTERM, and waitpid.                                   *)
PlayerStop ==
  /\ player # NoPid /\ player' = NoPid
  /\ proc' = [proc EXCEPT ![player] = "none"]
  /\ sigchld' = (sigchld \/ proc[player] = "running")
  /\ UNCHANGED <<ui, taken, recent, event, shown, workVars, radio, askVars>>

-----------------------------------------------------------------------------
(* main: the worker starts with a refresh, and with the radio as it was    *)
(* saved.                                                                  *)
Init ==
  /\ ui = "top" /\ taken = 0 /\ sigchld = FALSE /\ recent = FALSE /\ event = FALSE
  /\ proc = [p \in Pid |-> "none"] /\ player = NoPid
  /\ step = [w \in Worker |-> "idle"] /\ job = [w \in Worker |-> "refresh"]
  /\ child = [w \in Worker |-> NoPid] /\ stage = [w \in Worker |-> "done"]
  /\ radio \in [Worker -> Power] /\ asked = [w \in Worker |-> 0]
  /\ \A w \in Worker \ Switched : radio[w] = "off"
  /\ due = [w \in Worker |-> TRUE]
  /\ expected \in [Worker -> Power \cup {"any"}]
  /\ \A w \in Worker : expected[w] = "any" <=> w \notin Switched
  /\ queue = [w \in Worker |-> <<"refresh">> \o IF w \in Switched THEN <<expected[w]>> ELSE <<>>]
  /\ snap = [w \in Worker |-> [powered |-> "off", busy |-> TRUE, new |-> FALSE]]
  /\ after = [w \in Worker |-> "off"]
  /\ shown = [w \in Worker |-> [powered |-> "off", busy |-> TRUE]]

Next ==
  \/ Loop \/ GracePasses \/ Input
  \/ \E w \in Worker : ThreadMain(w)
  \/ \E p \in Pid : Exit(p)
  \/ OnVideo \/ PlayerStop
Spec == Init /\ [][Next]_vars

(* The threads run, commands end, time passes, and children do not end so  *)
(* fast that waitpid always finds one more.  The user, the player and the  *)
(* sender of the video owe nothing.                                        *)
CommandExits == \E w \in Worker : child[w] # NoPid /\ Exit(child[w])
FairSpec ==
  /\ Spec /\ WF_vars(Loop) /\ SF_vars(ReapDone) /\ WF_vars(GracePasses) /\ WF_vars(CommandExits)
  /\ \A w \in Worker : WF_vars(ThreadMain(w))

-----------------------------------------------------------------------------
Steps == {"idle", "marked", "lock", "run", "waiting", "publish", "published"}
Stages == {"before", "command", "after", "done"}

(* Every variable has its type, and no queue is longer than its array.     *)
TypeOK ==
  /\ ui \in {"top", "reap", "tick", "poll", "pollBusy"} /\ taken \in 0 .. Len(Order)
  /\ sigchld \in BOOLEAN /\ recent \in BOOLEAN /\ event \in BOOLEAN
  /\ player \in Pid \cup {NoPid}
  /\ proc \in [Pid -> {"none", "running", "ended"}]
  /\ shown \in [Worker -> [powered : Power, busy : BOOLEAN]]
  /\ step \in [Worker -> Steps] /\ job \in [Worker -> Command]
  /\ stage \in [Worker -> Stages] /\ child \in [Worker -> Pid \cup {NoPid}]
  /\ queue \in [Worker -> Seq(Command)] /\ \A w \in Worker : Len(queue[w]) <= QueueCap
  /\ after \in [Worker -> Power] /\ due \in [Worker -> BOOLEAN]
  /\ snap \in [Worker -> [powered : Power, busy : BOOLEAN, new : BOOLEAN]]
  /\ radio \in [Worker -> Power] /\ asked \in [Worker -> Nat]
  /\ expected \in [Worker -> Power \cup {"any"}]

(* waitpid(-1) never takes the child a worker waits for: a command that    *)
(* succeeded would be reported as failed.                                  *)
ChildrenAwaited ==
  \A w \in Worker : step[w] = "waiting" => child[w] \in Pid /\ proc[child[w]] \in {"running", "ended"}

(* A worker that has come to rest has published what it read after the     *)
(* last request that was accepted, coalesced requests among them.  The     *)
(* radio is what the user asked for last, or on since a refresh that found *)
(* nothing unblocked it, unless a command failed.                          *)
AtRest(w) == step[w] = "idle" /\ queue[w] = <<>>
OutcomeIsCurrent ==
  \A w \in Worker : AtRest(w) =>
    ~due[w] /\ snap[w].powered = radio[w] /\ expected[w] \in {radio[w], "any"}

(* Children whose collection the loop puts off because a worker has its    *)
(* guard are collected later, although nothing wakes the loop for them.    *)
PutOffIsMadeUp == \A p \in Pid : (ui = "reap" /\ proc[p] = "ended") ~> proc[p] # "ended"

(* When the user leaves the shell alone it shows the outcome in the end,   *)
(* and no request as running: no notification gets lost between a worker,  *)
(* the loop's try-lock and its poll, nor with one that is drained early.   *)
ShowsOutcome ==
  <>[]~recent => <>[](\A w \in Worker : AtRest(w) /\ shown[w] = [powered |-> radio[w], busy |-> FALSE])

(* The comments in ap_player_start_locked and ap_on_video: when the window *)
(* was closed, the next frame starts it again.                             *)
NextFrameRestarts == player # NoPid /\ proc[player] # "running" => proc[player] = "ended"
=============================================================================
