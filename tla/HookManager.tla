----------------------------- MODULE HookManager -----------------------------
(***************************************************************************)
(* The hook manager, hook/hook_manager.go: the registration of the enabled *)
(* hooks, sorted by priority, and the five runs of the hooks in the order  *)
(* in which the executor asks for them (executor/executor.go): pre-create, *)
(* pre-run and post-run in a launch, pre-stop and post-stop in a teardown. *)
(***************************************************************************)
EXTENDS Integers, Sequences, FiniteSets, Functions

CONSTANTS
  Order,        \* the hooks, in the order in which main registers them, once each
  Implements,   \* the runs a hook has a function for
  MayFail,      \* the hooks whose functions may return an error
  Priorities    \* the priorities a hook may have

StartRuns == {"preCreate", "preRun", "postRun"}
StopRuns == {"preStop", "postStop"}

VARIABLES
  enabled,    \* EnabledHooks: configuration, it never changes
  priority,   \* Priority of each hook: it never changes
  toRegister, \* hooks main has not registered yet
  hooks,      \* Hooks
  phase,      \* the run in progress
  pos,        \* position of runHooks in Hooks
  ran,        \* history: the functions called in this launch or teardown
  applied,    \* history: hooks whose post-run left something on the host
  stuck       \* history: hooks whose last undoing failed

hookVars == <<enabled, priority, toRegister, hooks, phase, pos, ran, applied, stuck>>

Init ==
  /\ enabled \in SUBSET Range(Order)
  /\ priority \in [Range(Order) -> Priorities]
  /\ toRegister = Order
  /\ hooks = <<>>
  /\ phase = "register"
  /\ pos = 1
  /\ ran = {} /\ applied = {} /\ stuck = {}

(* A mutant of Less: ascending priorities. *)
LessAscending(h1, h2) == priority[h1] <= priority[h2]

(* The order sortByPriority hands to the sort: not a strict one. *)
Less(h1, h2) == ~(priority[h1] < priority[h2])

(* sort.Sort on so few elements is an insertion sort: an element moves to    *)
(* the left as long as it is Less than its neighbour, and so past those of   *)
(* the same priority.  Hence which of two elements ends up first.            *)
Before(s, i, j) ==
  \/ i < j /\ ~Less(s[j], s[i])
  \/ i > j /\ Less(s[i], s[j])

Rank(s, j) == 1 + Cardinality({i \in DOMAIN s : Before(s, i, j)})
SortByPriority(s) ==
  [r \in DOMAIN s |-> s[CHOOSE j \in DOMAIN s : Rank(s, j) = r]]

(* A mutant of RegisterHooks: disabled hooks are registered too. *)
RegisterAnyHook ==
  /\ phase = "register"
  /\ toRegister # <<>>
  /\ toRegister' = Tail(toRegister)
  /\ hooks' = SortByPriority(Append(hooks, Head(toRegister)))
  /\ UNCHANGED <<enabled, priority, phase, pos, ran, applied, stuck>>

(* One call of RegisterHooks, with one hook as main does: it sorts again even *)
(* when the hook is disabled.                                                 *)
RegisterHooks ==
  /\ phase = "register"
  /\ toRegister # <<>>
  /\ toRegister' = Tail(toRegister)
  /\ LET h == Head(toRegister)
     IN  hooks' = SortByPriority(IF h \in enabled THEN Append(hooks, h) ELSE hooks)
  /\ UNCHANGED <<enabled, priority, phase, pos, ran, applied, stuck>>

(* The executor asks for a run of the hooks.  The container may fail to be   *)
(* created or to start, which tears the launch down; a second teardown may   *)
(* follow the first.                                                         *)
Ask(run) ==
  /\ \/ phase = "register" /\ toRegister = <<>> /\ run = "preCreate"
     \/ phase = "created" /\ run = "preRun"
     \/ phase = "started" /\ run = "postRun"
     \/ phase \in {"created", "started", "up", "failed", "down"} /\ run = "preStop"
     \/ phase = "stopped" /\ run = "postStop"
  /\ phase' = run
  /\ pos' = 1
  /\ ran' = IF run \in {"preCreate", "preStop"} THEN {} ELSE ran
  /\ UNCHANGED <<enabled, priority, toRegister, hooks, applied, stuck>>

(* Where the executor is when a run of the hooks returns nil. *)
After == [preCreate |-> "created", preRun |-> "started", postRun |-> "up",
          preStop |-> "stopped", postStop |-> "down"]

EndOfHooks ==
  /\ phase \in StartRuns \cup StopRuns
  /\ pos > Len(hooks)
  /\ phase' = After[phase]
  /\ UNCHANGED <<enabled, priority, toRegister, hooks, pos, ran, applied, stuck>>

(* A hook without a function for this run is passed over. *)
SkipHook ==
  /\ phase \in StartRuns \cup StopRuns
  /\ pos <= Len(hooks)
  /\ phase \notin Implements[hooks[pos]]
  /\ pos' = pos + 1
  /\ UNCHANGED <<enabled, priority, toRegister, hooks, phase, ran, applied, stuck>>

(* What hook h leaves on the host, and whether its last undoing went wrong.  *)
(* A post-run may leave something there, even when it fails.  A stop         *)
(* function undoes that, even when it returns an error, unless a command or  *)
(* a call it makes fails, which it need not report.                          *)
Effect(h) ==
  CASE phase = "postRun" -> applied' \in {applied, applied \cup {h}} /\ UNCHANGED stuck
    [] phase \in StopRuns ->
         \/ applied' = applied \ {h} /\ stuck' = stuck \ {h}
         \/ /\ h \in MayFail
            /\ applied' \in {applied, applied \ {h}}
            /\ stuck' = stuck \cup {h}
    [] OTHER -> UNCHANGED <<applied, stuck>>

(* A mutant of ExitOnError: every run stops at its first error. *)
ExitOnAnyError(run) == TRUE

(* The exitOnError argument of each Run*Hooks. *)
ExitOnError(run) == run \in StartRuns

(* The loop of runHooks calls the function of one hook, which returns an     *)
(* error unless ok: an error ends a start run, and the launch with it; a     *)
(* stop run goes on.                                                         *)
Call(ok) ==
  /\ phase \in StartRuns \cup StopRuns
  /\ pos <= Len(hooks)
  /\ phase \in Implements[hooks[pos]]
  /\ ran' = ran \cup {<<phase, hooks[pos]>>}
  /\ IF ok \/ ~ExitOnError(phase)
       THEN pos' = pos + 1 /\ UNCHANGED phase
       ELSE /\ phase' = IF phase \in StartRuns THEN "failed" ELSE After[phase]
            /\ UNCHANGED pos
  /\ UNCHANGED <<enabled, priority, toRegister, hooks>>

RunHook ==
  \E ok \in BOOLEAN :
    /\ Call(ok)
    /\ ok \/ hooks[pos] \in MayFail
    /\ Effect(hooks[pos])

Next ==
  \/ RegisterHooks
  \/ \E run \in StartRuns \cup StopRuns : Ask(run)
  \/ EndOfHooks \/ SkipHook \/ RunHook

Spec == Init /\ [][Next]_hookVars

-----------------------------------------------------------------------------
(* Types; and, whatever the sort does, each enabled hook that was registered *)
(* is there once, and no other (hook_manager.go:84-97).                      *)
HookTypeOK ==
  /\ phase \in {"register", "failed"} \cup StartRuns \cup StopRuns \cup Range(After)
  /\ pos \in 1 .. (Len(hooks) + 1)
  /\ IsInjective(hooks)
  /\ Range(hooks) = enabled \ Range(toRegister)
  /\ ran \subseteq (StartRuns \cup StopRuns) \X enabled
  /\ applied \cup stuck \subseteq enabled

(* In each run the function of a hook is called after those of all hooks of  *)
(* a higher priority that have one, although hooks are sorted one            *)
(* registration at a time by an order that is not strict (hook_manager.go:   *)
(* 70-97, 124-165).                                                          *)
HighestPriorityFirst ==
  \A r \in ran : \A h \in Range(hooks) :
    priority[h] > priority[r[2]] /\ r[1] \in Implements[h] => <<r[1], h>> \in ran

(* After a teardown, what a launch left on the host is there only because    *)
(* the hook that owns it failed to undo it: no failure of another hook,      *)
(* before or after it, keeps a stop function from running, whether or not    *)
(* the launch succeeded (hook_manager.go:114-122, 167-173).                  *)
OnlyOwnFailureLeaks == phase = "down" => applied \subseteq stuck
=============================================================================
