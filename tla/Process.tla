------------------------------- MODULE Process -------------------------------
(***************************************************************************)
(* The life cycle of a task in the process table: sys_fork and the         *)
(* mm-release half of sys_exit (womb/kernel/proc/fork.vuma), the zombie    *)
(* half of sys_exit (exit.vuma) and sys_waitpid (wait.vuma), with the      *)
(* task_alloc and task_free those files declare for themselves: a pid is   *)
(* the slot number plus one, and a freed slot keeps its old fields.        *)
(*                                                                         *)
(* One CPU runs the tasks in any order; the functions take no lock and are *)
(* taken to run with interrupts masked.  The timer may still charge a task *)
(* that has called sys_exit and has not been switched away yet.            *)
(***************************************************************************)
EXTENDS Integers, FiniteSets

CONSTANTS Size,         \* slots of the process table, 256 in the code
          Codes,        \* the exit codes tried
          MaxRefs,      \* bound: no fork takes a refcount past it
          MaxVruntime,  \* bound: no tick takes a vruntime past it
          None

ASSUME ProcessAssumptions ==
  /\ Size \in Nat \ {0}
  /\ Codes \subseteq Nat
  /\ MaxRefs \in Nat
  /\ MaxVruntime \in Nat
  /\ None \notin Nat

Slots == 0 .. Size - 1

VARIABLES
  state,     \* per slot: FREE (0), READY (2), ZOMBIE (4)
  pid,       \* per slot, 0 while it was never used
  ppid,      \* per slot: the pid of the task that forked it
  vruntime,  \* per slot; sys_exit stores the exit code here
  refcount,  \* per slot: the sharers of its address space
  count,     \* tbl.count
  status,    \* per slot: status.code of its last waitpid
  waiting,   \* per slot: the target pid its task polls for (0 any), or None
  dying,     \* the task that exited and still is on the CPU, or None
  mother,    \* history: the slot of the task that forked it, None once freed
  exited     \* history: the code a zombie exited with, None if charged since

procVars == <<state, pid, ppid, vruntime, refcount, count, status, waiting,
              dying, mother, exited>>

ProcTypeOK ==
  /\ state \in [Slots -> {"FREE", "READY", "ZOMBIE"}]
  /\ pid \in [Slots -> 0 .. Size]
  /\ ppid \in [Slots -> 0 .. Size]
  /\ vruntime \in [Slots -> Nat]
  /\ refcount \in [Slots -> 0 .. MaxRefs]
  /\ count \in 0 .. Size
  /\ status \in [Slots -> Nat \cup {None}]
  /\ waiting \in [Slots -> 0 .. Size \cup {None}]
  /\ dying \in Slots \cup {None}
  /\ mother \in [Slots -> Slots \cup {None}]
  /\ exited \in [Slots -> Codes \cup {None}]

\* pt_init, and the first task.
ProcInit ==
  /\ state = [s \in Slots |-> IF s = 0 THEN "READY" ELSE "FREE"]
  /\ pid = [s \in Slots |-> IF s = 0 THEN 1 ELSE 0]
  /\ ppid = [s \in Slots |-> 0]
  /\ vruntime = [s \in Slots |-> 0]
  /\ refcount = [s \in Slots |-> 0]
  /\ count = 1
  /\ status = [s \in Slots |-> None]
  /\ waiting = [s \in Slots |-> None]
  /\ dying = None
  /\ mother = [s \in Slots |-> None]
  /\ exited = [s \in Slots |-> None]

------------------------------------------------------------------------------

\* A task that runs and is not polling in a wait.
Runs(p) == dying = None /\ state[p] = "READY" /\ waiting[p] = None

\* task_alloc: the lowest free slot, and its pid.
FreeSlots == {s \in Slots : state[s] = "FREE"}

FirstFree == CHOOSE s \in FreeSlots : \A t \in FreeSlots : s <= t

NewPid(s) == s + 1

\* sys_fork, the table not being full.  The roots and descriptors it copies
\* are not modelled.
Fork(p) ==
  /\ Runs(p)
  /\ FreeSlots # {}
  /\ LET c == FirstFree IN
     /\ refcount[p] < MaxRefs /\ refcount[c] < MaxRefs
     /\ state' = [state EXCEPT ![c] = "READY"]
     /\ pid' = [pid EXCEPT ![c] = NewPid(c)]
     /\ count' = count + 1
     /\ ppid' = [ppid EXCEPT ![c] = pid[p]]
     /\ refcount' = [refcount EXCEPT ![p] = @ + 1, ![c] = @ + 1]
     /\ mother' = [mother EXCEPT ![c] = p]
     /\ exited' = [exited EXCEPT ![c] = None]
     /\ UNCHANGED <<vruntime, status, waiting, dying>>

\* The refcount after the mm-release half of sys_exit.
Released(n) == IF n = 0 THEN 0 ELSE n - 1

\* The two sys_exit, one after the other.
Exit(p, code) ==
  /\ Runs(p)
  /\ refcount' = [refcount EXCEPT ![p] = Released(@)]
  /\ state' = [state EXCEPT ![p] = "ZOMBIE"]
  /\ vruntime' = [vruntime EXCEPT ![p] = code]
  /\ exited' = [exited EXCEPT ![p] = code]
  /\ dying' = p
  /\ UNCHANGED <<pid, ppid, count, status, waiting, mother>>

\* A timer interrupt on the way to the switch: sched_tick charges the task.
Tick(p) ==
  /\ dying = p
  /\ vruntime[p] < MaxVruntime
  /\ vruntime' = [vruntime EXCEPT ![p] = @ + 1]
  /\ exited' = [exited EXCEPT ![p] = None]
  /\ UNCHANGED <<state, pid, ppid, refcount, count, status, waiting, dying,
                 mother>>

\* The CPU leaves the exited task.
Switch ==
  /\ dying # None
  /\ dying' = None
  /\ UNCHANGED <<state, pid, ppid, vruntime, refcount, count, status, waiting,
                 mother, exited>>

\* The call of sys_waitpid, for any child (0) or for one pid.
BeginWait(p, target) ==
  /\ Runs(p)
  /\ waiting' = [waiting EXCEPT ![p] = target]
  /\ UNCHANGED <<state, pid, ppid, vruntime, refcount, count, status, dying,
                 mother, exited>>

IsTarget(p, s) == waiting[p] \in {0, pid[s]}

\* Mutant: the zombies of the first task, whoever calls.
ZombiesOfInit(p) ==
  {s \in Slots : state[s] = "ZOMBIE" /\ ppid[s] = 1 /\ IsTarget(p, s)}

\* The children wait_reap_zombie may take, and the ones wait_has_children
\* counts.
Zombies(p) ==
  {s \in Slots : state[s] = "ZOMBIE" /\ ppid[s] = pid[p] /\ IsTarget(p, s)}

\* Mutant: a slot that was reaped still counts as a child.
ChildrenFreeToo(p) == {s \in Slots : ppid[s] = pid[p] /\ IsTarget(p, s)}

Children(p) ==
  {s \in Slots : ppid[s] = pid[p] /\ state[s] # "FREE" /\ IsTarget(p, s)}

Polls(p) == dying = None /\ state[p] = "READY" /\ waiting[p] # None

\* sys_waitpid finds a zombie: the lowest slot is reaped.
Reap(p) ==
  /\ Polls(p)
  /\ Zombies(p) # {}
  /\ LET z == CHOOSE s \in Zombies(p) : \A t \in Zombies(p) : s <= t IN
     /\ status' = [status EXCEPT ![p] = vruntime[z]]
     /\ state' = [state EXCEPT ![z] = "FREE"]
     /\ count' = count - 1
     /\ mother' = [s \in Slots |-> IF s = z \/ mother[s] = z THEN None
                                   ELSE mother[s]]
     /\ waiting' = [waiting EXCEPT ![p] = None]
     /\ UNCHANGED <<pid, ppid, vruntime, refcount, dying, exited>>

\* sys_waitpid finds no matching child: -ECHILD.  (With a child that still
\* runs it returns -EAGAIN, and the task polls again.)
NoChild(p) ==
  /\ Polls(p)
  /\ Children(p) = {}
  /\ waiting' = [waiting EXCEPT ![p] = None]
  /\ UNCHANGED <<state, pid, ppid, vruntime, refcount, count, status, dying,
                 mother, exited>>

ProcNext ==
  \/ Switch
  \/ \E p \in Slots :
       \/ Fork(p) \/ Tick(p) \/ Reap(p) \/ NoChild(p)
       \/ \E c \in Codes : Exit(p, c)
       \/ \E t \in 0 .. Size : BeginWait(p, t)

ProcSpec == ProcInit /\ [][ProcNext]_procVars

\* The exited task is switched away, and a task that polls keeps getting the
\* CPU, which other tasks may take from it by exiting in between.
ProcFairness ==
  WF_procVars(Switch) /\ \A p \in Slots : SF_procVars(Reap(p) \/ NoChild(p))

------------------------------------------------------------------------------
(* Properties. *)

\* A zombie is reaped by the task that forked it, although pids are reused,
\* exit does not reparent and ppid is never cleared: only once that task was
\* itself reaped may another one (in its slot, with its pid) take the
\* zombie.  And the code waitpid reports is the code the child exited with,
\* unless the timer charged the child between sys_exit and the switch.
WaitReports ==
  [][\A s \in Slots :
       state[s] = "ZOMBIE" /\ state'[s] = "FREE" =>
         \E p \in Slots : /\ waiting[p] # None /\ waiting'[p] = None
                          /\ mother[s] \in {p, None}
                          /\ exited[s] \in {status'[p], None}]_procVars

\* The call need not go on: a child it waits for has exited, or none is left.
WaitOver(p) ==
  LET child(s) == ppid[s] = pid[p] /\ waiting[p] \in {0, pid[s]} IN
  \/ \E s \in Slots : child(s) /\ state[s] = "ZOMBIE"
  \/ \A s \in Slots : child(s) => state[s] = "FREE"

\* The polling loop around sys_waitpid ends: when a child it waits for has
\* exited, or there is none to wait for, the call returns, whatever else is
\* forked, exits and is reaped meanwhile.
WaitLoopEnds ==
  \A p \in Slots : (waiting[p] # None /\ WaitOver(p)) ~> (waiting[p] = None)

==============================================================================
