------------------------------ MODULE Scheduler ------------------------------
(***************************************************************************)
(* The periodic task scheduler of src/jerboa-emacs/async.ss.               *)
(*                                                                         *)
(* master-timer-tick! drains the UI queue, then maps over the task table,  *)
(* running the tasks whose interval has elapsed, and assigns the mapped    *)
(* list to the table.  Everything runs on the UI thread, but not one tick  *)
(* after the other: a UI action or a task that opens a minibuffer loop     *)
(* (qt/echo.ss) runs further ticks before it returns.  `stack' holds the   *)
(* ticks in progress, innermost last.                                      *)
(*                                                                         *)
(* A registration is a pair of a task name and the number of the call of   *)
(* schedule-periodic! that made it, which stands for its thunk.  The table *)
(* is a list, but a set here: map may take its elements in any order.      *)
(***************************************************************************)
EXTENDS Integers, Sequences, FiniteSets

CONSTANTS
    Names,      \* the names under which tasks are registered
    Interval,   \* Interval[n]: the interval of task n
    Guarded,    \* tasks whose body is protected by an in-progress flag
    FirstNow,   \* the clock when the editor starts
    MaxNow,     \* bound: the clock stops there
    MaxGen,     \* bound: calls of schedule-periodic!
    MaxDepth    \* bound: ticks in progress at once

ASSUME SchedulerAssumption ==
    /\ FirstNow \in Nat /\ MaxNow \in Nat /\ FirstNow <= MaxNow
    /\ MaxGen \in Nat /\ MaxDepth \in Nat
    /\ Interval \in [Names -> 0 .. FirstNow]
    /\ Guarded \subseteq Names

VARIABLES
    now,        \* the wall clock
    tasks,      \* *scheduled-tasks*
    stack,      \* the ticks in progress
    held,       \* the guarded tasks whose in-progress flag is set
    gen,        \* how many registrations were made
    wanted,     \* history: wanted[n] is the registration of n in force, 0 if none
    started,    \* history: the registrations that ran at least once
    edited      \* history: a task edited the table while a tick was mapping it

vars == <<now, tasks, stack, held, gen, wanted, started, edited>>

Task  == [name : Names, gen : 1 .. MaxGen, last : Nat]
NoTask == [gen |-> 0]
Tick0 == [phase |-> "drain", at |-> 0, snap |-> {}, todo |-> {}, running |-> NoTask,
          body |-> FALSE, prompting |-> FALSE]

Top == stack[Len(stack)]
Pop == SubSeq(stack, 1, Len(stack) - 1)
SetTop(f) == [stack EXCEPT ![Len(stack)] = f]

\* The UI thread runs code that may call the scheduler: a command, a UI action
\* of a drain, or a task.
UiRunsCode ==
    stack # <<>> => ~Top.prompting /\ (Top.phase = "drain" \/ Top.running # NoTask)

\* Some tick is mapping over the table.
Mapping == \E d \in DOMAIN stack : stack[d].phase = "tasks"

Without(table, n) == {t \in table : t.name # n}

Init ==
    /\ now = FirstNow
    /\ tasks = {}
    /\ stack = <<>>
    /\ held = {}
    /\ gen = 0
    /\ wanted = [n \in Names |-> 0]
    /\ started = {}
    /\ edited = FALSE

------------------------------------------------------------------------------
(* The table's operations.                                                 *)

ScheduleKeepingOld(n) ==
    /\ UiRunsCode
    /\ gen < MaxGen
    /\ gen' = gen + 1
    /\ tasks' = {[name |-> n, gen |-> gen', last |-> 0]} \cup tasks
    /\ wanted' = [wanted EXCEPT ![n] = gen']
    /\ edited' = (edited \/ Mapping)
    /\ UNCHANGED <<now, stack, held, started>>

\* schedule-periodic!: the task replaces the one of the same name and is due
\* at once (its last run is time 0).
Schedule(n) ==
    /\ UiRunsCode
    /\ gen < MaxGen
    /\ gen' = gen + 1
    /\ tasks' = {[name |-> n, gen |-> gen', last |-> 0]} \cup Without(tasks, n)
    /\ wanted' = [wanted EXCEPT ![n] = gen']
    /\ edited' = (edited \/ Mapping)
    /\ UNCHANGED <<now, stack, held, started>>

\* cancel-periodic!
Cancel(n) ==
    /\ UiRunsCode
    /\ wanted[n] # 0
    /\ tasks' = Without(tasks, n)
    /\ wanted' = [wanted EXCEPT ![n] = 0]
    /\ edited' = (edited \/ Mapping)
    /\ UNCHANGED <<now, stack, held, gen, started>>

------------------------------------------------------------------------------
(* The master timer.                                                       *)

Clock ==
    /\ now < MaxNow
    /\ now' = now + 1
    /\ UNCHANGED <<tasks, stack, held, gen, wanted, started, edited>>

\* The Qt event loop, or a minibuffer loop, calls master-timer-tick!, which
\* first drains the UI queue.
TickBegin ==
    /\ stack # <<>> => Top.prompting
    /\ Len(stack) < MaxDepth
    /\ stack' = Append(stack, Tick0)
    /\ UNCHANGED <<now, tasks, held, gen, wanted, started, edited>>

\* A UI action or a task opens a minibuffer, and the user answers it.
Prompt ==
    /\ stack # <<>>
    /\ UiRunsCode
    /\ Len(stack) < MaxDepth
    /\ stack' = SetTop([Top EXCEPT !.prompting = TRUE])
    /\ UNCHANGED <<now, tasks, held, gen, wanted, started, edited>>

Answer ==
    /\ stack # <<>>
    /\ Top.prompting
    /\ stack' = SetTop([Top EXCEPT !.prompting = FALSE])
    /\ UNCHANGED <<now, tasks, held, gen, wanted, started, edited>>

DueLater(t, at) == at - t.last > Interval[t.name]
Due(t, at) == at - t.last >= Interval[t.name]

\* The drain is over; the map over the table starts.
MapBegin ==
    /\ stack # <<>>
    /\ Top.phase = "drain" /\ ~Top.prompting
    /\ stack' = SetTop([Top EXCEPT !.phase = "tasks", !.at = now, !.snap = tasks,
                             !.todo = {t \in tasks : Due(t, now)}])
    /\ UNCHANGED <<now, tasks, held, gen, wanted, started, edited>>

RunTaskUnguarded ==
    /\ stack # <<>>
    /\ Top.phase = "tasks" /\ Top.running = NoTask
    /\ \E t \in Top.todo :
         /\ stack' = SetTop([Top EXCEPT !.running = t, !.todo = @ \ {t}, !.body = TRUE])
         /\ held' = IF t.name \in Guarded THEN held \cup {t.name} ELSE held
         /\ started' = started \cup {<<t.name, t.gen>>}
    /\ UNCHANGED <<now, tasks, gen, wanted, edited>>

RunTaskHoldingAny ==
    /\ stack # <<>>
    /\ Top.phase = "tasks" /\ Top.running = NoTask
    /\ \E t \in Top.todo :
         /\ stack' = SetTop([Top EXCEPT !.running = t, !.todo = @ \ {t},
                                  !.body = t.name \notin held])
         /\ held' = held \cup {t.name}
         /\ started' = started \cup {<<t.name, t.gen>>}
    /\ UNCHANGED <<now, tasks, gen, wanted, edited>>

\* The map calls the thunk of a due task, in whatever order map takes its
\* elements.  A guarded thunk whose flag is set by a run further out skips
\* its body; otherwise it sets the flag.
RunTask ==
    /\ stack # <<>>
    /\ Top.phase = "tasks" /\ Top.running = NoTask
    /\ \E t \in Top.todo :
         /\ stack' = SetTop([Top EXCEPT !.running = t, !.todo = @ \ {t},
                                  !.body = t.name \notin held])
         /\ held' = IF t.name \in Guarded THEN held \cup {t.name} ELSE held
         /\ started' = started \cup {<<t.name, t.gen>>}
    /\ UNCHANGED <<now, tasks, gen, wanted, edited>>

\* The thunk returns, or raises and is caught; a guarded body clears its flag
\* either way (dynamic-wind).
TaskReturn ==
    /\ stack # <<>>
    /\ Top.running # NoTask /\ ~Top.prompting
    /\ stack' = SetTop([Top EXCEPT !.running = NoTask, !.body = FALSE])
    /\ held' = IF Top.body THEN held \ {Top.running.name} ELSE held
    /\ UNCHANGED <<now, tasks, gen, wanted, started, edited>>

\* The mapped list becomes the table: the tasks that ran are stamped with the
\* time the map began, and whatever happened to the table meanwhile is lost.
MapEnd ==
    /\ stack # <<>>
    /\ Top.phase = "tasks" /\ Top.running = NoTask /\ Top.todo = {}
    /\ tasks' = {IF Due(t, Top.at) THEN [t EXCEPT !.last = Top.at] ELSE t : t \in Top.snap}
    /\ stack' = Pop
    /\ UNCHANGED <<now, held, gen, wanted, started, edited>>

Timer == TickBegin \/ MapBegin \/ RunTask \/ TaskReturn \/ MapEnd

Next ==
    \/ \E n \in Names : Schedule(n) \/ Cancel(n)
    \/ Clock
    \/ Timer
    \/ Prompt
    \/ Answer

\* The loops call the timer for ever, and a task that does not wait for the
\* user returns.
Spec == Init /\ [][Next]_vars /\ WF_vars(Timer)

------------------------------------------------------------------------------
(* Properties.                                                             *)

TickFrame == [phase : {"drain", "tasks"}, at : Nat, snap : SUBSET Task, todo : SUBSET Task,
              running : Task \cup {NoTask}, body : BOOLEAN, prompting : BOOLEAN]

VarTypes ==
    /\ now \in FirstNow .. MaxNow
    /\ tasks \subseteq Task
    /\ stack \in Seq(TickFrame) /\ Len(stack) <= MaxDepth
    /\ held \subseteq Guarded
    /\ gen \in 0 .. MaxGen
    /\ wanted \in [Names -> 0 .. MaxGen]
    /\ started \subseteq Names \X (1 .. MaxGen)
    /\ edited \in BOOLEAN

\* Every variable has its type, and what a tick in progress runs and has still to
\* run is of the table it maps (async.ss:247-266).
TypeOK ==
    /\ VarTypes
    /\ \A d \in DOMAIN stack :
         /\ stack[d].running # NoTask => stack[d].running \in stack[d].snap
         /\ stack[d].todo \subseteq stack[d].snap

Unique(table) == \A s, t \in table : s.name = t.name => s = t

\* The registrations a table holds.
InTable(table) == {<<t.name, t.gen>> : t \in table}
InForce == {<<n, wanted[n]>> : n \in {m \in Names : wanted[m] # 0}}

\* A name is registered at most once, in the table and in every one a tick is
\* mapping, however ticks nest (async.ss:227 removes the task of that name
\* first; the map reinstates old tables).  And unless a task (or something below
\* it) edited the table during a map, the table holds exactly the registrations
\* in force, and so does every one a tick in progress will put back.
TableFaithful ==
    /\ Unique(tasks)
    /\ \A d \in DOMAIN stack : Unique(stack[d].snap)
    /\ ~edited => /\ InTable(tasks) = InForce
                  /\ \A d \in DOMAIN stack :
                        stack[d].phase = "tasks" => InTable(stack[d].snap) = InForce

\* A guarded body is never entered again while it is in progress further out,
\* and its flag is set exactly then (qt/app.ss *pty-poll-in-progress?*).
GuardedOnce ==
    \A n \in Guarded :
        LET inside == {d \in DOMAIN stack :
                         /\ stack[d].body
                         /\ stack[d].running.name = n}
        IN Cardinality(inside) = IF n \in held THEN 1 ELSE 0

\* A registration is run sooner or later, unless it is cancelled or replaced
\* before, or lost to an edit during a map: even if no prompt is ever answered.
EventuallyRuns ==
    \A n \in Names : \A g \in 1 .. MaxGen :
        (wanted[n] = g) ~> (<<n, g>> \in started \/ wanted[n] # g \/ edited)

\* async.ss:234 says cancel-periodic! "remove[s] a periodic task by name" and
\* async.ss:225 that schedule-periodic! registers one: between ticks the table
\* holds exactly the registrations in force.
EditsTakeEffect == stack = <<>> => InTable(tasks) = InForce
==============================================================================
