--------------------------- MODULE Periodic_proofs ---------------------------
(***************************************************************************)
(* What the master timer runs: the scheduler, and the highlighting that    *)
(* its treesitter-reparse task keeps up.                                   *)
(*                                                                         *)
(* The scheduler, for any tasks, intervals and depth of nesting: what the  *)
(* table and the tables that nested ticks map hold, and that guarded       *)
(* bodies do not nest.                                                     *)
(*                                                                         *)
(* Highlighting, for any buffers, editors, languages and texts: which      *)
(* objects of the library live, that drawing the captures in their order   *)
(* gives each byte the style of the rule, and that comments and strings    *)
(* are shown with the queries built in.  The captures are ordered because  *)
(* sequences put together from ordered ones in order are (FlattenOrdered). *)
(***************************************************************************)
EXTENDS Scheduler, Highlight, SplitTree_proofs

\* A tick that drains has no table yet; one that runs a task took it from its
\* table.
FrameOK(f) ==
    /\ f.phase = "drain" => f.running = NoTask /\ f.snap = {}
    /\ f.running # NoTask => f.phase = "tasks" /\ f.running \in f.snap
    /\ f.body => f.running # NoTask
    /\ f.todo \subseteq f.snap

\* The registrations in force, task by task.
Current(table) ==
    /\ \A t \in table : wanted[t.name] = t.gen
    /\ \A n \in Names : wanted[n] # 0 => \E t \in table : t.name = n

Faithful ==
    /\ Unique(tasks)
    /\ \A d \in DOMAIN stack : Unique(stack[d].snap)
    /\ ~edited => /\ Current(tasks)
                  /\ \A d \in DOMAIN stack :
                        stack[d].phase = "tasks" => Current(stack[d].snap)

\* Frame f is inside the body of task n.
Within(f, n) == f.body /\ f.running.name = n

Once(n) ==
    /\ n \in held <=> \E d \in DOMAIN stack : Within(stack[d], n)
    /\ \A d, e \in DOMAIN stack : Within(stack[d], n) /\ Within(stack[e], n) => d = e

IInv ==
    /\ VarTypes
    /\ \A d \in DOMAIN stack : FrameOK(stack[d])
    /\ Faithful
    /\ \A n \in Guarded : Once(n)

------------------------------------------------------------------------------
LEMMA Constants ==
    /\ FirstNow \in Nat /\ MaxNow \in Nat /\ MaxGen \in Nat /\ MaxDepth \in Nat
    /\ Guarded \subseteq Names
    /\ NoTask \notin Task
    /\ \A n \in Names : Interval[n] \in Nat
<1>1. \A t \in Task : t.gen # NoTask.gen
  BY SchedulerAssumption DEF Task, NoTask
<1>2. \A n \in Names : Interval[n] \in 0 .. FirstNow
  BY SchedulerAssumption
<1> QED BY <1>1, <1>2, SchedulerAssumption

LEMMA InitIInv == Init => IInv
<1> SUFFICES ASSUME Init PROVE IInv
  OBVIOUS
<1> USE Constants
<1>1. stack = <<>> /\ DOMAIN stack = {} /\ tasks = {} /\ held = {}
  BY DEF Init
<1>2. VarTypes
  <2>1. stack \in Seq(TickFrame) /\ Len(stack) = 0
    BY <1>1
  <2>2. 0 \in 0 .. MaxGen /\ now \in FirstNow .. MaxNow
    BY SchedulerAssumption DEF Init
  <2>3. wanted \in [Names -> 0 .. MaxGen] /\ Len(stack) <= MaxDepth
    BY <2>1, <2>2 DEF Init
  <2> QED BY <2>1, <2>2, <2>3 DEF Init, VarTypes
<1>3. Faithful
  BY <1>1 DEF Init, Faithful, Unique, Current
<1> QED BY <1>1, <1>2, <1>3 DEF IInv, Once

------------------------------------------------------------------------------
(* Sequences of frames.                                                    *)

LEMMA Frames ==
    ASSUME VarTypes
    PROVE  /\ Len(stack) \in Nat /\ DOMAIN stack = 1 .. Len(stack)
           /\ \A d \in DOMAIN stack : stack[d] \in TickFrame
           /\ stack # <<>> => Len(stack) \in DOMAIN stack /\ Top \in TickFrame
<1>1. stack \in Seq(TickFrame)
  BY DEF VarTypes
<1>2. stack # <<>> => Len(stack) \in 1 .. Len(stack)
  BY <1>1
<1> QED BY <1>1, <1>2 DEF Top

\* Another frame on top.
LEMMA TopSet ==
    ASSUME VarTypes, stack # <<>>, NEW f \in TickFrame, stack' = SetTop(f)
    PROVE  /\ stack' \in Seq(TickFrame) /\ Len(stack') = Len(stack)
           /\ DOMAIN stack' = DOMAIN stack
           /\ stack'[Len(stack)] = f
           /\ \A d \in DOMAIN stack \ {Len(stack)} : stack'[d] = stack[d]
BY Frames DEF VarTypes, SetTop

LEMMA Pushed ==
    ASSUME VarTypes, NEW f \in TickFrame, stack' = Append(stack, f)
    PROVE  /\ stack' \in Seq(TickFrame) /\ Len(stack') = Len(stack) + 1
           /\ DOMAIN stack' = DOMAIN stack \cup {Len(stack) + 1}
           /\ stack'[Len(stack) + 1] = f
           /\ \A d \in DOMAIN stack : stack'[d] = stack[d]
           /\ Len(stack) + 1 \notin DOMAIN stack
BY Frames DEF VarTypes

LEMMA Popped ==
    ASSUME VarTypes, stack # <<>>, stack' = Pop
    PROVE  /\ stack' \in Seq(TickFrame) /\ Len(stack') = Len(stack) - 1
           /\ DOMAIN stack' = DOMAIN stack \ {Len(stack)}
           /\ \A d \in DOMAIN stack' : stack'[d] = stack[d]
<1> DEFINE n == Len(stack) - 1
<1>1. stack \in Seq(TickFrame) /\ n \in 0 .. Len(stack) /\ n \in Nat
      /\ DOMAIN stack = 1 .. Len(stack) /\ Len(stack) = n + 1
  BY Frames DEF VarTypes
<1>2. stack' = SubSeq(stack, 1, n)
  BY DEF Pop
<1> HIDE DEF n
<1>3. stack' \in Seq(TickFrame) /\ Len(stack') = n /\ DOMAIN stack' = 1 .. n
      /\ \A d \in 1 .. n : stack'[d] = stack[d]
  BY <1>1, <1>2
<1>4. 1 .. n = (1 .. Len(stack)) \ {Len(stack)}
  BY <1>1
<1> QED BY <1>1, <1>3, <1>4 DEF n

\* The parts of the invariant that only steps of the tick disturb.
LEMMA SameStack ==
    ASSUME IInv, UNCHANGED <<stack, held>>
    PROVE  (\A d \in DOMAIN stack : FrameOK(stack[d]))' /\ (\A n \in Guarded : Once(n))'
BY DEF IInv, FrameOK, Once, Within

\* Nothing is stamped before its registration and no table changes: a step that
\* leaves the tables alone and changes at most the top of the stack.
LEMMA SameTables ==
    ASSUME IInv, stack # <<>>, NEW f \in TickFrame, stack' = SetTop(f),
           UNCHANGED <<tasks, wanted, edited>>,
           f.snap = Top.snap \/ (f.snap = tasks /\ f.phase = "tasks"),
           f.phase = "tasks" => Top.phase = "tasks" \/ f.snap = tasks
    PROVE  Faithful'
<1>1. /\ DOMAIN stack' = DOMAIN stack /\ stack'[Len(stack)] = f
      /\ \A d \in DOMAIN stack \ {Len(stack)} : stack'[d] = stack[d]
      /\ Len(stack) \in DOMAIN stack
  BY TopSet, Frames DEF IInv
<1>2. \A table : Current(table)' <=> Current(table)
  BY DEF Current
<1>3. Unique(f.snap)
  BY <1>1 DEF IInv, Faithful, Top
<1>4. ~edited /\ f.phase = "tasks" => Current(f.snap)
  BY <1>1 DEF IInv, Faithful, Top
<1> QED BY <1>1, <1>2, <1>3, <1>4 DEF IInv, Faithful

\* A step that leaves the bodies in progress as they are.
LEMMA SameBodies ==
    ASSUME IInv, stack # <<>>, NEW f \in TickFrame, stack' = SetTop(f), UNCHANGED held,
           \A n \in Guarded : Within(f, n) <=> Within(Top, n)
    PROVE  (\A n \in Guarded : Once(n))'
<1>1. /\ DOMAIN stack' = DOMAIN stack /\ stack'[Len(stack)] = f
      /\ \A d \in DOMAIN stack \ {Len(stack)} : stack'[d] = stack[d]
      /\ Len(stack) \in DOMAIN stack
  BY TopSet, Frames DEF IInv
<1>2. ASSUME NEW n \in Guarded
      PROVE  \A d \in DOMAIN stack : Within(stack'[d], n) <=> Within(stack[d], n)
  BY <1>1 DEF Top
<1> QED BY <1>1, <1>2 DEF IInv, Once

LEMMA SameFrames ==
    ASSUME IInv, stack # <<>>, NEW f \in TickFrame, stack' = SetTop(f), FrameOK(f)
    PROVE  \A d \in DOMAIN stack' : FrameOK(stack'[d])
BY TopSet, Frames DEF IInv

------------------------------------------------------------------------------
(* The table's operations.                                                 *)

LEMMA ScheduleKeeps ==
    ASSUME IInv, NEW n \in Names, Schedule(n)
    PROVE  IInv'
<1> USE Constants
<1> DEFINE new == [name |-> n, gen |-> gen + 1, last |-> 0]
<1>1. /\ gen + 1 \in 1 .. MaxGen /\ gen' = gen + 1
      /\ tasks' = {new} \cup Without(tasks, n)
      /\ wanted' = [wanted EXCEPT ![n] = gen + 1]
      /\ edited' = (edited \/ Mapping)
      /\ UNCHANGED <<now, stack, held, started>>
  BY DEF Schedule, IInv, VarTypes
<1>2. new \in Task /\ new.name = n /\ new.gen = gen + 1
  BY <1>1 DEF Task
<1>3. VarTypes'
  BY <1>1, <1>2 DEF IInv, VarTypes, Without
<1>4. Faithful'
  <2>1. Unique(tasks)'
    BY <1>1, <1>2 DEF IInv, Faithful, Unique, Without
  <2>2. \A d \in DOMAIN stack : Unique(stack[d].snap)'
    BY <1>1 DEF IInv, Faithful, Unique
  <2>3. ~edited' => Current(tasks)'
    <3>1. tasks \subseteq Task /\ wanted \in [Names -> 0 .. MaxGen]
      BY DEF IInv, VarTypes
    <3>2. wanted'[n] = gen + 1 /\ \A m \in Names \ {n} : wanted'[m] = wanted[m]
      BY <1>1, <3>1
    <3>3. ~edited' => Current(tasks)
      BY <1>1 DEF IInv, Faithful
    <3>4. ASSUME ~edited', NEW t \in tasks' PROVE wanted'[t.name] = t.gen
      BY <1>1, <1>2, <3>1, <3>2, <3>3, <3>4 DEF Current, Without, Task
    <3>5. ASSUME ~edited', NEW m \in Names, wanted'[m] # 0
          PROVE  \E t \in tasks' : t.name = m
      BY <1>1, <1>2, <3>2, <3>3, <3>5 DEF Current, Without
    <3> QED BY <3>4, <3>5 DEF Current
  <2>4. ~edited' => \A d \in DOMAIN stack : stack[d].phase # "tasks"
    BY <1>1 DEF Mapping
  <2> QED BY <1>1, <2>1, <2>2, <2>3, <2>4 DEF Faithful
<1> QED BY <1>1, <1>3, <1>4, SameStack DEF IInv

LEMMA CancelKeeps ==
    ASSUME IInv, NEW n \in Names, Cancel(n)
    PROVE  IInv'
<1> USE Constants
<1>1. /\ tasks' = Without(tasks, n)
      /\ wanted' = [wanted EXCEPT ![n] = 0]
      /\ edited' = (edited \/ Mapping)
      /\ UNCHANGED <<now, stack, held, gen, started>>
  BY DEF Cancel
<1>2. VarTypes'
  BY <1>1 DEF IInv, VarTypes, Without
<1>3. Faithful'
  <2>1. Unique(tasks)'
    BY <1>1 DEF IInv, Faithful, Unique, Without
  <2>2. \A d \in DOMAIN stack : Unique(stack[d].snap)'
    BY <1>1 DEF IInv, Faithful, Unique
  <2>3. ~edited' => Current(tasks)'
    <3>1. tasks \subseteq Task /\ wanted \in [Names -> 0 .. MaxGen]
      BY DEF IInv, VarTypes
    <3>2. wanted'[n] = 0 /\ \A m \in Names \ {n} : wanted'[m] = wanted[m]
      BY <1>1, <3>1
    <3>3. ~edited' => Current(tasks)
      BY <1>1 DEF IInv, Faithful
    <3> QED BY <1>1, <3>1, <3>2, <3>3 DEF Current, Without, Task
  <2>4. ~edited' => \A d \in DOMAIN stack : stack[d].phase # "tasks"
    BY <1>1 DEF Mapping
  <2> QED BY <1>1, <2>1, <2>2, <2>3, <2>4 DEF Faithful
<1> QED BY <1>1, <1>2, <1>3, SameStack DEF IInv

LEMMA ClockKeeps == IInv /\ Clock => IInv'
<1> SUFFICES ASSUME IInv, Clock PROVE IInv'
  OBVIOUS
<1> USE Constants
<1>1. VarTypes'
  BY DEF IInv, VarTypes, Clock
<1>2. Faithful'
  BY DEF IInv, Faithful, Unique, Current, Clock
<1> QED BY <1>1, <1>2, SameStack DEF IInv, Clock

------------------------------------------------------------------------------
(* The master timer.                                                       *)

LEMMA TickBeginKeeps == IInv /\ TickBegin => IInv'
<1> SUFFICES ASSUME IInv, TickBegin PROVE IInv'
  OBVIOUS
<1> USE Constants
<1>1. Tick0 \in TickFrame /\ stack' = Append(stack, Tick0) /\ Len(stack) < MaxDepth
  BY DEF TickBegin, Tick0, TickFrame
<1>2. UNCHANGED <<now, tasks, held, gen, wanted, started, edited>>
  BY DEF TickBegin
<1>3. /\ stack' \in Seq(TickFrame) /\ Len(stack') = Len(stack) + 1
      /\ DOMAIN stack' = DOMAIN stack \cup {Len(stack) + 1}
      /\ stack'[Len(stack) + 1] = Tick0
      /\ \A d \in DOMAIN stack : stack'[d] = stack[d]
      /\ Len(stack) + 1 \notin DOMAIN stack
  BY <1>1, Pushed DEF IInv
<1>4. Tick0.phase = "drain" /\ Tick0.snap = {} /\ Tick0.todo = {} /\ ~Tick0.body
      /\ Tick0.running = NoTask
  BY DEF Tick0
<1>5. VarTypes'
  <2>1. Len(stack) \in Nat /\ Len(stack') <= MaxDepth
    BY <1>1, <1>3, Frames DEF IInv
  <2> QED BY <1>2, <1>3, <2>1 DEF IInv, VarTypes
<1>6. \A d \in DOMAIN stack' : FrameOK(stack'[d])
  BY <1>3, <1>4 DEF IInv, FrameOK
<1>7. Faithful'
  <2>1. \A table : Current(table)' <=> Current(table)
    BY <1>2 DEF Current
  <2> QED BY <1>2, <1>3, <1>4, <2>1 DEF IInv, Faithful, Unique
<1>8. \A n \in Guarded : Once(n)'
  <2>1. \A n : ~Within(Tick0, n)
    BY <1>4 DEF Within
  <2> QED BY <1>2, <1>3, <2>1 DEF IInv, Once
<1> QED BY <1>5, <1>6, <1>7, <1>8 DEF IInv

\* A user's question, and its answer.
LEMMA PromptKeeps == IInv /\ (Prompt \/ Answer) => IInv'
<1> SUFFICES ASSUME IInv, Prompt \/ Answer PROVE IInv'
  OBVIOUS
<1> USE Constants
<1>1. PICK b \in BOOLEAN : stack' = SetTop([Top EXCEPT !.prompting = b])
  BY DEF Prompt, Answer
<1>2. stack # <<>> /\ UNCHANGED <<now, tasks, held, gen, wanted, started, edited>>
  BY DEF Prompt, Answer
<1> DEFINE f == [Top EXCEPT !.prompting = b]
<1>3. Top \in TickFrame
  BY <1>2, Frames DEF IInv
<1>4. f \in TickFrame /\ f.phase = Top.phase /\ f.snap = Top.snap /\ f.todo = Top.todo
      /\ f.running = Top.running /\ f.body = Top.body
  BY <1>3 DEF TickFrame
<1>5. FrameOK(f)
  BY <1>2, <1>4, Frames DEF IInv, FrameOK, Top
<1> HIDE DEF f
<1>6. VarTypes'
  BY <1>1, <1>2, <1>4, TopSet DEF IInv, VarTypes, f
<1>7. Faithful' /\ \A n \in Guarded : Once(n)'
  BY <1>1, <1>2, <1>4, SameTables, SameBodies DEF Within, f
<1> QED BY <1>1, <1>2, <1>4, <1>5, <1>6, <1>7, SameFrames DEF IInv, f

LEMMA MapBeginKeeps == IInv /\ MapBegin => IInv'
<1> SUFFICES ASSUME IInv, MapBegin PROVE IInv'
  OBVIOUS
<1> USE Constants
<1> DEFINE f == [Top EXCEPT !.phase = "tasks", !.at = now, !.snap = tasks,
                            !.todo = {t \in tasks : Due(t, now)}]
<1>1. stack' = SetTop(f) /\ stack # <<>> /\ Top.phase = "drain"
      /\ UNCHANGED <<now, tasks, held, gen, wanted, started, edited>>
  BY DEF MapBegin
<1>2. Top \in TickFrame /\ FrameOK(Top)
  BY <1>1, Frames DEF IInv, Top
<1>3. now \in Nat /\ tasks \subseteq Task
  BY DEF IInv, VarTypes
<1>4. f \in TickFrame /\ f.phase = "tasks" /\ f.snap = tasks /\ f.todo \subseteq tasks
      /\ f.running = Top.running /\ f.body = Top.body
  BY <1>2, <1>3 DEF TickFrame
<1>5. FrameOK(f)
  BY <1>1, <1>2, <1>4 DEF FrameOK
<1> HIDE DEF f
<1>6. VarTypes'
  BY <1>1, <1>4, TopSet DEF IInv, VarTypes
<1>7. Faithful' /\ \A n \in Guarded : Once(n)'
  BY <1>1, <1>4, SameTables, SameBodies DEF Within
<1> QED BY <1>1, <1>4, <1>5, <1>6, <1>7, SameFrames DEF IInv

LEMMA RunTaskKeeps == IInv /\ RunTask => IInv'
<1> SUFFICES ASSUME IInv, RunTask PROVE IInv'
  OBVIOUS
<1> USE Constants
<1>1. PICK t \in Top.todo :
        /\ stack' = SetTop([Top EXCEPT !.running = t, !.todo = @ \ {t},
                                 !.body = t.name \notin held])
        /\ held' = IF t.name \in Guarded THEN held \cup {t.name} ELSE held
        /\ started' = started \cup {<<t.name, t.gen>>}
  BY DEF RunTask
<1>2. stack # <<>> /\ Top.phase = "tasks" /\ Top.running = NoTask
      /\ UNCHANGED <<now, tasks, gen, wanted, edited>>
  BY DEF RunTask
<1> DEFINE f == [Top EXCEPT !.running = t, !.todo = @ \ {t}, !.body = t.name \notin held]
<1>3. Top \in TickFrame /\ FrameOK(Top)
  BY <1>2, Frames DEF IInv, Top
<1>4. t \in Task /\ t.name \in Names /\ t.gen \in 1 .. MaxGen /\ t # NoTask
  <2>1. t \in Task
    BY <1>3 DEF TickFrame
  <2> QED BY <2>1 DEF Task
<1>5. f \in TickFrame /\ f.phase = "tasks" /\ f.snap = Top.snap /\ f.todo = Top.todo \ {t}
      /\ f.running = t /\ f.body = (t.name \notin held)
  BY <1>2, <1>3, <1>4 DEF TickFrame
<1>6. FrameOK(f)
  BY <1>3, <1>4, <1>5 DEF FrameOK
<1>0. stack' = SetTop(f)
  BY <1>1
<1> HIDE DEF f
<1>7. VarTypes'
  <2>1. held' \subseteq Guarded /\ started' \subseteq Names \X (1 .. MaxGen)
    BY <1>1, <1>4 DEF IInv, VarTypes
  <2> QED BY <1>0, <1>2, <1>5, <2>1, TopSet DEF IInv, VarTypes
<1>8. Faithful'
  BY <1>0, <1>2, <1>5, SameTables
<1>9. ASSUME NEW n \in Guarded PROVE Once(n)'
  <2>1. /\ DOMAIN stack' = DOMAIN stack /\ stack'[Len(stack)] = f
        /\ \A d \in DOMAIN stack \ {Len(stack)} : stack'[d] = stack[d]
        /\ Len(stack) \in DOMAIN stack
    BY <1>0, <1>2, <1>5, TopSet, Frames DEF IInv
  <2>2. Once(n) /\ ~Within(stack[Len(stack)], n)
    BY <1>2, <1>3 DEF IInv, FrameOK, Within, Top
  <2>3. Within(f, n) <=> t.name = n /\ n \notin held
    BY <1>5 DEF Within
  <2>4. CASE t.name = n
    <3>1. n \in held'
      BY <1>1, <2>4
    <3>2. CASE n \in held
      BY <2>1, <2>2, <2>3, <3>1, <3>2 DEF Once
    <3>3. CASE n \notin held
      <4>1. \A d \in DOMAIN stack : Within(stack'[d], n) <=> d = Len(stack)
        BY <2>1, <2>2, <2>3, <2>4, <3>3 DEF Once
      <4> QED BY <2>1, <3>1, <4>1 DEF Once
    <3> QED BY <3>2, <3>3
  <2>5. CASE t.name # n
    <3>1. n \in held' <=> n \in held
      BY <1>1, <2>5
    <3> QED BY <2>1, <2>2, <2>3, <2>5, <3>1 DEF Once
  <2> QED BY <2>4, <2>5
<1> QED BY <1>0, <1>2, <1>5, <1>6, <1>7, <1>8, <1>9, SameFrames DEF IInv

LEMMA TaskReturnKeeps == IInv /\ TaskReturn => IInv'
<1> SUFFICES ASSUME IInv, TaskReturn PROVE IInv'
  OBVIOUS
<1> USE Constants
<1> DEFINE f == [Top EXCEPT !.running = NoTask, !.body = FALSE]
<1>1. stack' = SetTop(f) /\ stack # <<>> /\ Top.running # NoTask
      /\ held' = (IF Top.body THEN held \ {Top.running.name} ELSE held)
      /\ UNCHANGED <<now, tasks, gen, wanted, started, edited>>
  BY DEF TaskReturn
<1>2. Top \in TickFrame /\ FrameOK(Top)
  BY <1>1, Frames DEF IInv, Top
<1>3. f \in TickFrame /\ f.phase = Top.phase /\ f.snap = Top.snap /\ f.todo = Top.todo
      /\ f.running = NoTask /\ ~f.body
  BY <1>2 DEF TickFrame
<1>4. FrameOK(f) /\ f.phase = "tasks"
  BY <1>1, <1>2, <1>3 DEF FrameOK
<1> HIDE DEF f
<1>5. VarTypes'
  BY <1>1, <1>3, TopSet DEF IInv, VarTypes
<1>6. Faithful'
  BY <1>1, <1>3, SameTables
<1>7. ASSUME NEW n \in Guarded PROVE Once(n)'
  <2>1. /\ DOMAIN stack' = DOMAIN stack /\ stack'[Len(stack)] = f
        /\ \A d \in DOMAIN stack \ {Len(stack)} : stack'[d] = stack[d]
        /\ Len(stack) \in DOMAIN stack
    BY <1>1, <1>3, TopSet, Frames DEF IInv
  <2>2. Once(n)
    BY DEF IInv
  <2>3. ~Within(f, n)
    BY <1>3 DEF Within
  <2>4. CASE Within(Top, n)
    <3>1. n \notin held'
      BY <1>1, <2>4 DEF Within
    <3>2. \A d \in DOMAIN stack : ~Within(stack'[d], n)
      BY <2>1, <2>2, <2>3, <2>4 DEF Once, Top
    <3> QED BY <2>1, <3>1, <3>2 DEF Once
  <2>5. CASE ~Within(Top, n)
    <3>1. n \in held' <=> n \in held
      BY <1>1, <2>5 DEF Within
    <3>2. \A d \in DOMAIN stack : Within(stack'[d], n) <=> Within(stack[d], n)
      BY <2>1, <2>3, <2>5 DEF Top
    <3> QED BY <2>1, <2>2, <3>1, <3>2 DEF Once
  <2> QED BY <2>4, <2>5
<1> QED BY <1>1, <1>3, <1>4, <1>5, <1>6, <1>7, SameFrames DEF IInv

\* A task with the time of its run.
Stamped(t) == IF Due(t, Top.at) THEN [t EXCEPT !.last = Top.at] ELSE t

LEMMA MapEndKeeps == IInv /\ MapEnd => IInv'
<1> SUFFICES ASSUME IInv, MapEnd PROVE IInv'
  OBVIOUS
<1> USE Constants
<1>1. tasks' = {Stamped(t) : t \in Top.snap} /\ stack' = Pop /\ stack # <<>>
      /\ Top.phase = "tasks" /\ Top.running = NoTask
      /\ UNCHANGED <<now, held, gen, wanted, started, edited>>
  BY DEF MapEnd, Stamped
<1>2. Top \in TickFrame /\ FrameOK(Top) /\ Len(stack) \in DOMAIN stack
      /\ Len(stack) \in Nat
  BY <1>1, Frames DEF IInv, Top
<1>3. Top.snap \subseteq Task /\ Top.at \in Nat
  BY <1>2 DEF TickFrame
<1>4. ASSUME NEW t \in Top.snap
      PROVE  Stamped(t) \in Task /\ Stamped(t).name = t.name /\ Stamped(t).gen = t.gen
  BY <1>3 DEF Stamped, Task
<1>5. /\ stack' \in Seq(TickFrame) /\ Len(stack') = Len(stack) - 1
      /\ DOMAIN stack' = DOMAIN stack \ {Len(stack)}
      /\ \A d \in DOMAIN stack' : stack'[d] = stack[d]
  BY <1>1, Popped DEF IInv
<1>6. VarTypes'
  <2>1. tasks' \subseteq Task
    BY <1>1, <1>4
  <2>2. Len(stack') <= MaxDepth
    BY <1>2, <1>5 DEF IInv, VarTypes
  <2> QED BY <1>1, <1>5, <2>1, <2>2 DEF IInv, VarTypes
<1>7. \A d \in DOMAIN stack' : FrameOK(stack'[d])
  BY <1>5 DEF IInv
<1>8. Faithful'
  <2>1. Unique(Top.snap) /\ (~edited => Current(Top.snap))
    BY <1>1, <1>2 DEF IInv, Faithful, Top
  <2>2. Unique(tasks')
    BY <1>1, <1>4, <2>1 DEF Unique
  <2>3. \A table : Current(table)' <=> Current(table)
    BY <1>1 DEF Current
  <2>4. ~edited => Current(tasks')
    BY <1>1, <1>4, <2>1 DEF Current
  <2>5. \A d \in DOMAIN stack' : Unique(stack'[d].snap)
    BY <1>5 DEF IInv, Faithful
  <2>6. ~edited => \A d \in DOMAIN stack' :
                     stack'[d].phase = "tasks" => Current(stack'[d].snap)
    BY <1>5 DEF IInv, Faithful
  <2> QED BY <1>1, <2>2, <2>3, <2>4, <2>5, <2>6 DEF Faithful, Unique
<1>9. ASSUME NEW n \in Guarded PROVE Once(n)'
  <2>1. ~Within(stack[Len(stack)], n)
    BY <1>1, <1>2 DEF FrameOK, Within, Top
  <2> QED BY <1>1, <1>5, <2>1 DEF IInv, Once
<1> QED BY <1>6, <1>7, <1>8, <1>9 DEF IInv

LEMMA Stutter == IInv /\ UNCHANGED vars => IInv'
BY DEF IInv, VarTypes, FrameOK, Faithful, Unique, Current, Once, Within, vars

LEMMA Step == IInv /\ [Next]_vars => IInv'
BY ScheduleKeeps, CancelKeeps, ClockKeeps, TickBeginKeeps, PromptKeeps, MapBeginKeeps,
   RunTaskKeeps, TaskReturnKeeps, MapEndKeeps, Stutter DEF Next, Timer

LEMMA Invariant == Spec => []IInv
BY InitIInv, Step, PTL DEF Spec

------------------------------------------------------------------------------
\* The variables keep their types, and every tick runs tasks of the table it
\* maps, for any tasks and depths.
THEOREM TypeCorrect == Spec => []TypeOK
<1>1. IInv => TypeOK
  BY DEF IInv, FrameOK, TypeOK
<1> QED BY <1>1, Invariant, PTL

\* A table of the current registrations, task by task, is one as sets.
LEMMA CurrentIsInForce ==
    ASSUME VarTypes, NEW table \in SUBSET Task, Current(table)
    PROVE  InTable(table) = InForce
<1> USE Constants
<1>1. \A t \in table : t.name \in Names /\ t.gen \in 1 .. MaxGen
  BY DEF Task
<1>2. ASSUME NEW p \in InTable(table) PROVE p \in InForce
  <2>1. PICK t \in table : p = <<t.name, t.gen>>
    BY <1>2 DEF InTable
  <2>2. wanted[t.name] = t.gen /\ t.gen # 0
    BY <1>1 DEF Current
  <2> QED BY <1>1, <2>1, <2>2 DEF InForce
<1>3. ASSUME NEW p \in InForce PROVE p \in InTable(table)
  <2>1. PICK n \in Names : wanted[n] # 0 /\ p = <<n, wanted[n]>>
    BY <1>3 DEF InForce
  <2>2. PICK t \in table : t.name = n /\ t.gen = wanted[n]
    BY <2>1 DEF Current
  <2> QED BY <2>1, <2>2 DEF InTable
<1> QED BY <1>2, <1>3

\* Whatever ticks nest, a name is registered once, and only an edit during a map
\* can lose or revive a registration.
THEOREM TableCorrect == Spec => []TableFaithful
<1>1. IInv => TableFaithful
  <2> SUFFICES ASSUME IInv PROVE TableFaithful
    OBVIOUS
  <2>1. tasks \subseteq Task /\ \A d \in DOMAIN stack : stack[d].snap \subseteq Task
    BY Frames DEF IInv, VarTypes, TickFrame
  <2> QED BY <2>1, CurrentIsInForce DEF IInv, Faithful, TableFaithful
<1> QED BY <1>1, Invariant, PTL

\* No guarded body is entered while it is in progress, for any guarded tasks and
\* any nesting.
THEOREM GuardsHold == Spec => []GuardedOnce
<1>1. IInv => GuardedOnce
  <2> SUFFICES ASSUME IInv, NEW n \in Guarded
               PROVE  LET inside == {d \in DOMAIN stack :
                                       stack[d].body /\ stack[d].running.name = n}
                      IN Cardinality(inside) = IF n \in held THEN 1 ELSE 0
    BY DEF GuardedOnce
  <2> DEFINE inside == {d \in DOMAIN stack : stack[d].body /\ stack[d].running.name = n}
  <2>1. Once(n)
    BY DEF IInv
  <2>2. CASE n \in held
    <3>1. PICK d \in DOMAIN stack : Within(stack[d], n)
      BY <2>1, <2>2 DEF Once
    <3>2. inside = {d}
      BY <2>1, <3>1 DEF Once, Within
    <3> QED BY <2>2, <3>2, FS_Singleton
  <2>3. CASE n \notin held
    <3>1. inside = {}
      BY <2>1, <2>3 DEF Once, Within
    <3> QED BY <2>3, <3>1, FS_EmptySet
  <2> QED BY <2>2, <2>3
<1> QED BY <1>1, Invariant, PTL

------------------------------------------------------------------------------
(* Drawing the captures.                                                   *)

Styles == DOMAIN Styled \cup {Default}

\* What is drawn.
LEMMA StyleOfType == ASSUME NEW x PROVE StyleOf(x) \in Styles
  BY DEF StyleOf, Styles

Drawing(n) == [styles : [0 .. n - 1 -> Styles], end : Nat]

\* One capture drawn: the type, the end, and the style of each byte.
LEMMA DrawType ==
  ASSUME NEW n \in Nat, NEW acc \in Drawing(n), NEW c, c.start \in Nat, c.end \in Nat
  PROVE /\ Draw(acc, c) \in Drawing(n)
        /\ Draw(acc, c).end \in Nat
        /\ \A x \in Nat : Draw(acc, c).end <= x <=> acc.end <= x /\ c.end <= x
        /\ \A p \in 0 .. n - 1 :
             Draw(acc, c).styles[p] =
               IF /\ StyleOf(c.name) # Default /\ c.start >= acc.end
                  /\ c.start <= p /\ p < c.end
               THEN StyleOf(c.name) ELSE acc.styles[p]
  <1> DEFINE s == StyleOf(c.name)
  <1>1. s \in Styles BY StyleOfType
  <1> HIDE DEF s
  <1>2. acc.styles \in [0 .. n - 1 -> Styles] /\ acc.end \in Nat BY DEF Drawing
  <1> DEFINE t == IF s # Default /\ c.start >= acc.end
                  THEN [p \in DOMAIN acc.styles |->
                          IF p \in c.start .. c.end - 1 THEN s ELSE acc.styles[p]]
                  ELSE acc.styles
             e == Greatest(acc.end, c.end)
  <1>3. Draw(acc, c) = [styles |-> t, end |-> e] BY DEF Draw, s
  <1>4. t \in [0 .. n - 1 -> Styles] BY <1>1, <1>2
  <1>5. e \in Nat /\ \A x \in Nat : e <= x <=> acc.end <= x /\ c.end <= x
    BY <1>2 DEF Greatest
  <1>6. ASSUME NEW p \in 0 .. n - 1
        PROVE t[p] = IF s # Default /\ c.start >= acc.end /\ c.start <= p /\ p < c.end
                     THEN s ELSE acc.styles[p]
    <2>1. p \in c.start .. c.end - 1 <=> c.start <= p /\ p < c.end OBVIOUS
    <2>2. p \in DOMAIN acc.styles BY <1>2
    <2> QED BY <2>1, <2>2
  <1> HIDE DEF t, e
  <1> QED BY <1>3, <1>4, <1>5, <1>6 DEF Drawing, s

\* The captures a rule can be applied to.
Extents(captures) ==
    /\ DOMAIN captures = 1 .. Len(captures) /\ Len(captures) \in Nat
    /\ \A i \in DOMAIN captures : captures[i].start \in Nat /\ captures[i].end \in Nat

\* Capture i is drawn, and on byte p.
Marks(captures, i, p) ==
    /\ captures[i].start <= p /\ p < captures[i].end
    /\ StyleOf(captures[i].name) # Default
    /\ \A j \in 1 .. i - 1 : captures[j].end <= captures[i].start

\* The style of byte p after i captures is that of the first that marks it.
StyledAs(captures, i, p, style) ==
    \/ style = Default /\ \A m \in 1 .. i : ~ Marks(captures, m, p)
    \/ \E m \in 1 .. i : /\ style = StyleOf(captures[m].name) /\ Marks(captures, m, p)
                         /\ \A j \in 1 .. m - 1 : ~ Marks(captures, j, p)

\* The rule, from the first capture that marks a byte.
LEMMA StyledByRule ==
  ASSUME NEW captures, Extents(captures), NEW p, NEW style,
         StyledAs(captures, Len(captures), p, style)
  PROVE StyleByRule(captures, p) = style
  <1> DEFINE covering == {m \in DOMAIN captures : Marks(captures, m, p)}
             least(m) == m \in covering /\ \A j \in covering : m <= j
  <1>1. StyleByRule(captures, p) =
          IF covering = {} THEN Default
          ELSE StyleOf(captures[CHOOSE m \in covering : \A j \in covering : m <= j].name)
    <2>1. covering =
            {i \in DOMAIN captures : captures[i].start <= p /\ p < captures[i].end
                /\ StyleOf(captures[i].name) # Default
                /\ \A j \in 1 .. i - 1 : captures[j].end <= captures[i].start}
      BY DEF Marks
    <2> HIDE DEF covering
    <2> QED BY <2>1 DEF StyleByRule
  <1>2. CASE style = Default /\ \A m \in 1 .. Len(captures) : ~ Marks(captures, m, p)
    <2>1. covering = {} BY <1>2 DEF Extents
    <2> QED BY <1>1, <1>2, <2>1
  <1>3. CASE \E m \in 1 .. Len(captures) :
               /\ style = StyleOf(captures[m].name) /\ Marks(captures, m, p)
               /\ \A j \in 1 .. m - 1 : ~ Marks(captures, j, p)
    <2>1. PICK m \in 1 .. Len(captures) :
               /\ style = StyleOf(captures[m].name) /\ Marks(captures, m, p)
               /\ \A j \in 1 .. m - 1 : ~ Marks(captures, j, p)
      BY <1>3
    <2>2. Len(captures) \in Nat /\ DOMAIN captures = 1 .. Len(captures) BY DEF Extents
    <2>3. m \in covering BY <2>1, <2>2
    <2>4. ASSUME NEW j \in covering PROVE m <= j
      <3>1. j \in 1 .. Len(captures) /\ Marks(captures, j, p) BY <2>2
      <3>2. ~ (j \in 1 .. m - 1) BY <2>1, <3>1
      <3> QED BY <2>2, <3>1, <3>2
    <2>5. covering \subseteq 1 .. Len(captures) BY <2>2
    <2> DEFINE f == CHOOSE x \in covering : \A j \in covering : x <= j
    <2>6. f \in covering /\ \A j \in covering : f <= j
      <3> HIDE DEF covering
      <3> QED BY <2>3, <2>4
    <2> HIDE DEF f
    <2>7. f <= m /\ m <= f /\ f \in Int /\ m \in Int BY <2>2, <2>3, <2>4, <2>5, <2>6
    <2>8. f = m BY <2>7
    <2>9. covering # {} BY <2>3
    <2> HIDE DEF covering
    <2>10. StyleByRule(captures, p) = StyleOf(captures[f].name) BY <1>1, <2>9 DEF f
    <2> QED BY <2>1, <2>8, <2>10
  <1> QED BY <1>2, <1>3 DEF StyledAs

Blank(n) == [p \in 0 .. n - 1 |-> Default]

\* ts-apply-captures! draws by the rule, whatever the captures.
LEMMA ApplyByRule ==
  ASSUME NEW n \in Nat, NEW captures, Extents(captures)
  PROVE Apply(Blank(n), captures) = [p \in 0 .. n - 1 |-> StyleByRule(captures, p)]
  <1> DEFINE T == Drawing(n)
             a == [styles |-> Blank(n), end |-> 0]
             k == Len(captures)
             Is(f) == f = [i \in 0 .. k |-> IF i = 0 THEN a ELSE Draw(f[i - 1], captures[i])]
             step == [x \in T \X (1 .. k) |-> Draw(x[1], captures[x[2]])]
             f == CHOOSE g : Is(g)
  <1>0. k \in Nat /\ DOMAIN captures = 1 .. k BY DEF Extents
  <1>1. a \in T
    <2>1. Default \in Styles BY DEF Styles
    <2> QED BY <2>1 DEF Drawing, Blank
  <1>2. ASSUME NEW acc \in T, NEW i \in 1 .. k
        PROVE captures[i].start \in Nat /\ captures[i].end \in Nat /\ Draw(acc, captures[i]) \in T
    <2>1. captures[i].start \in Nat /\ captures[i].end \in Nat BY <1>0 DEF Extents
    <2> QED BY <2>1, DrawType
  <1>3. Apply(Blank(n), captures) = f[k].styles BY DEF Apply
  <1> HIDE DEF T, a, k
  <1>4. Stepping(T, k, step) BY <1>2 DEF Stepping
  <1>5. \E g : Is(g)
    <2> HIDE DEF step
    <2>1. PICK g : Stepped(T, a, k, step, g) BY <1>0, <1>1, <1>4, StepsExist
    <2>2. ASSUME NEW i \in 0 .. k, i # 0 PROVE g[i] = Draw(g[i - 1], captures[i])
      <3>1. i \in 1 .. k /\ i - 1 \in 0 .. k BY <1>0, <2>2
      <3>2. g[i - 1] \in T BY <2>1, <3>1 DEF Stepped
      <3> QED BY <2>1, <3>1, <3>2 DEF step, Stepped
    <2>3. g = [i \in 0 .. k |-> g[i]] BY <2>1 DEF Stepped
    <2>4. g[0] = a BY <2>1 DEF Stepped
    <2>5. Is(g) BY <2>2, <2>3, <2>4
    <2> QED BY <2>5
  <1>6. Is(f) BY <1>5
  <1> HIDE DEF f
  <1>7. f[0] = a /\ \A i \in 1 .. k : f[i] = Draw(f[i - 1], captures[i])
    <2>1. 0 \in 0 .. k BY <1>0
    <2>2. \A i \in 1 .. k : i \in 0 .. k /\ i # 0 BY <1>0
    <2> QED BY <1>6, <2>1, <2>2
  <1> HIDE DEF Is, step
  <1> DEFINE Inv(i) ==
               /\ f[i] \in T
               /\ \A x \in Nat : f[i].end <= x <=> \A j \in 1 .. i : captures[j].end <= x
               /\ \A p \in 0 .. n - 1 : StyledAs(captures, i, p, f[i].styles[p])
             S == {i \in Nat : i <= k => Inv(i)}
  <1>8. 0 \in S
    <2>1. f[0].end = 0 /\ f[0].styles = Blank(n) BY <1>7 DEF a
    <2>2. \A j \in 1 .. 0 : FALSE OBVIOUS
    <2>3. \A p \in 0 .. n - 1 : f[0].styles[p] = Default BY <2>1 DEF Blank
    <2>4. \A p \in 0 .. n - 1 : StyledAs(captures, 0, p, f[0].styles[p])
      BY <2>2, <2>3 DEF StyledAs
    <2>5. \A x \in Nat : f[0].end <= x BY <2>1
    <2> QED BY <1>1, <1>7, <2>2, <2>4, <2>5
  <1>9. ASSUME NEW i \in Nat, i \in S PROVE i + 1 \in S
    <2> SUFFICES ASSUME i + 1 <= k PROVE Inv(i + 1) OBVIOUS
    <2>1. Inv(i) BY <1>0, <1>9
    <2>2. i + 1 \in 1 .. k /\ (i + 1) - 1 = i BY <1>0
    <2> DEFINE c == captures[i + 1]
    <2>3. f[i + 1] = Draw(f[i], c) BY <1>7, <2>2
    <2>4. c.start \in Nat /\ c.end \in Nat BY <1>2, <2>1, <2>2
    <2> HIDE DEF c
    <2>5. /\ f[i + 1] \in T
          /\ \A x \in Nat : f[i + 1].end <= x <=> f[i].end <= x /\ c.end <= x
          /\ \A p \in 0 .. n - 1 :
               f[i + 1].styles[p] =
                 IF StyleOf(c.name) # Default /\ c.start >= f[i].end /\ c.start <= p /\ p < c.end
                 THEN StyleOf(c.name) ELSE f[i].styles[p]
      BY <2>1, <2>3, <2>4, DrawType DEF T
    <2>6. \A j : j \in 1 .. i + 1 <=> j \in 1 .. i \/ j = i + 1 OBVIOUS
    <2>7. ASSUME NEW x \in Nat
          PROVE f[i + 1].end <= x <=> \A j \in 1 .. i + 1 : captures[j].end <= x
      <3>1. f[i].end <= x <=> \A j \in 1 .. i : captures[j].end <= x BY <2>1
      <3> QED BY <2>5, <2>6, <3>1 DEF c
    <2>8. ASSUME NEW p \in 0 .. n - 1 PROVE StyledAs(captures, i + 1, p, f[i + 1].styles[p])
      <3>1. f[i].end \in Nat BY <2>1 DEF T, Drawing
      <3>2. c.start >= f[i].end <=> \A j \in 1 .. i : captures[j].end <= c.start
        <4>1. f[i].end <= c.start <=> \A j \in 1 .. i : captures[j].end <= c.start BY <2>1, <2>4
        <4> QED BY <2>4, <3>1, <4>1
      <3>3. Marks(captures, i + 1, p) <=>
              StyleOf(c.name) # Default /\ c.start >= f[i].end /\ c.start <= p /\ p < c.end
        BY <2>2, <3>2 DEF Marks, c
      <3>4. StyledAs(captures, i, p, f[i].styles[p]) BY <2>1
      <3>5. CASE Marks(captures, i + 1, p)
        <4>1. f[i + 1].styles[p] = StyleOf(c.name) BY <2>5, <3>3, <3>5
        <4>2. ASSUME NEW j \in 1 .. i PROVE ~ Marks(captures, j, p)
          <5>1. captures[j].end <= c.start BY <3>2, <3>3, <3>5
          <5>2. c.start <= p BY <3>3, <3>5
          <5>3. captures[j].end \in Nat
            <6>1. j \in 1 .. k BY <2>2, <1>0
            <6> QED BY <6>1, <1>2, <1>1
          <5>4. ~ (p < captures[j].end) BY <5>1, <5>2, <5>3, <2>4
          <5> QED BY <5>4 DEF Marks
        <4>3. i + 1 \in 1 .. i + 1 /\ (i + 1) - 1 = i OBVIOUS
        <4> QED BY <3>5, <4>1, <4>2, <4>3 DEF StyledAs, c
      <3>6. CASE ~ Marks(captures, i + 1, p)
        <4>1. f[i + 1].styles[p] = f[i].styles[p] BY <2>5, <3>3, <3>6
        <4> QED BY <2>6, <3>4, <3>6, <4>1 DEF StyledAs
      <3> QED BY <3>5, <3>6
    <2> QED BY <2>5, <2>7, <2>8
  <1> HIDE DEF S
  <1>10. k \in S BY <1>0, <1>8, <1>9, InductionSet
  <1>11. Inv(k) BY <1>0, <1>10 DEF S
  <1>12. f[k].styles \in [0 .. n - 1 -> Styles] BY <1>11 DEF T, Drawing
  <1>13. \A p \in 0 .. n - 1 : f[k].styles[p] = StyleByRule(captures, p)
    BY <1>11, StyledByRule DEF k
  <1>14. f[k].styles = [p \in 0 .. n - 1 |-> f[k].styles[p]] BY <1>12
  <1> QED BY <1>3, <1>13, <1>14

------------------------------------------------------------------------------
(* The objects of the library and the styles, under one operation.         *)

\* What tree-sitter keeps for a buffer, and what a document was drawn with.
States == [name : Grammars, parsed : AllTexts \cup {NoTree}, version : Int]
Drawings == [name : Grammars, parsed : AllTexts]

Owners(state) == {b \in Docs : state[b] # Absent}
Queried(state) == {b \in Docs : state[b] # Absent /\ state[b].name \in Compiled}
Treed(state) == {b \in Docs : state[b] # Absent /\ state[b].parsed # NoTree}

\* As many objects live as the states own.
Owned(live, state) ==
    /\ live.parsers = Cardinality(Owners(state))
    /\ live.queries = Cardinality(Queried(state))
    /\ live.trees = Cardinality(Treed(state))

StateOK(live, state) == state \in [Docs -> States \cup {Absent}] /\ Owned(live, state)

Counts == [parsers : Int, queries : Int, trees : Int]

ByRule(d, n) == [p \in 0 .. n - 1 |-> StyleByRule(Captures[d.name][d.parsed], p)]

\* The documents drawn follow the rule, for the lengths their texts tx have.
Ruled(styles, drawn, tx) ==
    \A b \in Docs : drawn[b] # Absent => styles[b] = ByRule(drawn[b], tx[b].length)

HlOK(h, tx) ==
    /\ h.live \in Counts
    /\ StateOK(h.live, h.state)
    /\ DOMAIN h.styles = Docs
    /\ h.drawn \in [Docs -> Drawings \cup {Absent}]
    /\ Ruled(h.styles, h.drawn, tx)

\* The sets that are counted are finite.
LEMMA DocsFinite == IsFiniteSet(Docs) /\ \A S \in SUBSET Docs : IsFiniteSet(S) /\ Cardinality(S) \in Nat
  <1>1. IsFiniteSet(Docs)
    <2>1. IsFiniteSet(Bufs) BY HighlightAssumption
    <2> QED BY <2>1, FS_AddElement DEF Docs
  <1> QED BY <1>1, FS_Subset, FS_CardinalityType

LEMMA OwnersFinite ==
  ASSUME NEW state
  PROVE /\ IsFiniteSet(Owners(state)) /\ Cardinality(Owners(state)) \in Nat
        /\ IsFiniteSet(Queried(state)) /\ Cardinality(Queried(state)) \in Nat
        /\ IsFiniteSet(Treed(state)) /\ Cardinality(Treed(state)) \in Nat
  <1>1. /\ Owners(state) \in SUBSET Docs /\ Queried(state) \in SUBSET Docs
        /\ Treed(state) \in SUBSET Docs
    BY DEF Owners, Queried, Treed
  <1> QED BY <1>1, DocsFinite

\* A state is not the absence of one.
LEMMA KnownState ==
  ASSUME NEW st \in States
  PROVE st # Absent /\ st.name \in Grammars /\ st.parsed \in AllTexts \cup {NoTree}
  <1>1. st.name \in Grammars BY DEF States
  <1>2. Absent.name \notin Grammars BY DEF Absent, None, Grammars
  <1> QED BY <1>1, <1>2 DEF States

LEMMA KnownText == ASSUME NEW t \in AllTexts PROVE IsText(t) /\ t # NoTree
  <1>1. IsText(NoText)
    <2>1. NoText.length = 0 /\ NoText.nodes = <<>> BY DEF NoText
    <2>2. <<>> \in Seq([role : STRING, place : Places, start : Nat, end : Nat]) OBVIOUS
    <2>3. DOMAIN NoText.nodes = {}
      <3> HIDE DEF NoText
      <3>1. DOMAIN <<>> = {} OBVIOUS
      <3> QED BY <2>1, <3>1
    <2>4. NoText.length \in Nat BY <2>1
    <2>5. NoText.nodes \in Seq([role : STRING, place : Places, start : Nat, end : Nat])
      BY <2>1, <2>2
    <2> HIDE DEF NoText
    <2>6. \A i \in DOMAIN NoText.nodes :
            /\ NoText.nodes[i].start < NoText.nodes[i].end /\ NoText.nodes[i].end <= NoText.length
            /\ \A j \in 1 .. i - 1 : NoText.nodes[j].start <= NoText.nodes[i].start
      BY <2>3, Zenon
    <2> QED BY <2>4, <2>5, <2>6 DEF IsText
  <1>2. IsText(t) BY <1>1, HighlightAssumption DEF AllTexts
  <1>3. t.length \in Nat BY <1>2 DEF IsText
  <1>4. NoTree.length = -1 BY DEF NoTree
  <1> QED BY <1>2, <1>3, <1>4

LEMMA OneOrNone == \A name : QueryObjects(name) \in Int BY DEF QueryObjects

\* A state that is made, replaced or deleted.
LEMMA StateMade ==
  ASSUME NEW state, NEW live, StateOK(live, state), NEW b \in Docs, state[b] = Absent,
         NEW st \in States, st.parsed = NoTree, NEW l2,
         l2.parsers = live.parsers + 1,
         l2.queries = live.queries + QueryObjects(st.name), l2.trees = live.trees
  PROVE StateOK(l2, [state EXCEPT ![b] = st])
  <1> DEFINE s2 == [state EXCEPT ![b] = st]
  <1> USE DEF StateOK
  <1>1. s2 \in [Docs -> States \cup {Absent}] OBVIOUS
  <1>2. \A x \in Docs : s2[x] = IF x = b THEN st ELSE state[x] OBVIOUS
  <1>3. st # Absent BY KnownState
  <1> HIDE DEF s2
  <1>4. Owners(s2) = Owners(state) \cup {b} /\ b \notin Owners(state) BY <1>2, <1>3 DEF Owners
  <1>5. Treed(s2) = Treed(state) BY <1>2, <1>3 DEF Treed
  <1>6. Cardinality(Owners(s2)) = Cardinality(Owners(state)) + 1
    <2>1. IsFiniteSet(Owners(state)) BY OwnersFinite
    <2> QED BY <1>4, <2>1, FS_AddElement
  <1>8. Cardinality(Queried(s2)) = Cardinality(Queried(state)) + QueryObjects(st.name)
    <2>1. IsFiniteSet(Queried(state)) /\ Cardinality(Queried(state)) \in Nat BY OwnersFinite
    <2>2. CASE st.name \in Compiled
      <3>1. Queried(s2) = Queried(state) \cup {b} /\ b \notin Queried(state)
        BY <1>2, <1>3, <2>2 DEF Queried
      <3>2. Cardinality(Queried(s2)) = Cardinality(Queried(state)) + 1
        BY <2>1, <3>1, FS_AddElement
      <3> QED BY <2>2, <3>2 DEF QueryObjects
    <2>3. CASE st.name \notin Compiled
      <3>1. Queried(s2) = Queried(state) BY <1>2, <1>3, <2>3 DEF Queried
      <3>2. Cardinality(Queried(state)) = Cardinality(Queried(state)) + 0 BY <2>1
      <3> QED BY <2>3, <3>1, <3>2 DEF QueryObjects
    <2> QED BY <2>2, <2>3
  <1>7. Owned(l2, s2) BY <1>5, <1>6, <1>8 DEF Owned
  <1> QED BY <1>1, <1>7 DEF s2, StateOK

LEMMA StateParsed ==
  ASSUME NEW state, NEW live, StateOK(live, state), NEW b \in Docs, state[b] # Absent,
         NEW st \in States, st.parsed # NoTree, st.name = state[b].name, NEW l2,
         l2.parsers = live.parsers, l2.queries = live.queries,
         l2.trees = IF state[b].parsed = NoTree THEN live.trees + 1 ELSE live.trees
  PROVE StateOK(l2, [state EXCEPT ![b] = st])
  <1> DEFINE s2 == [state EXCEPT ![b] = st]
  <1> USE DEF StateOK
  <1>1. s2 \in [Docs -> States \cup {Absent}] OBVIOUS
  <1>2. \A x \in Docs : s2[x] = IF x = b THEN st ELSE state[x] OBVIOUS
  <1>3. st # Absent BY KnownState
  <1> HIDE DEF s2
  <1>4. Owners(s2) = Owners(state) BY <1>2, <1>3 DEF Owners
  <1>8. Queried(s2) = Queried(state) BY <1>2, <1>3 DEF Queried
  <1>5. Treed(s2) = Treed(state) \cup {b} BY <1>2, <1>3 DEF Treed
  <1>6. Cardinality(Treed(s2)) =
          IF state[b].parsed = NoTree THEN Cardinality(Treed(state)) + 1
          ELSE Cardinality(Treed(state))
    <2>1. CASE state[b].parsed = NoTree
      <3>1. b \notin Treed(state) BY <2>1 DEF Treed
      <3> QED BY <2>1, <3>1, <1>5, OwnersFinite, FS_AddElement
    <2>2. CASE state[b].parsed # NoTree
      <3>1. b \in Treed(state) BY <2>2 DEF Treed
      <3>2. Treed(s2) = Treed(state) BY <3>1, <1>5
      <3> QED BY <2>2, <3>2
    <2> QED BY <2>1, <2>2
  <1>7. Owned(l2, s2) BY <1>4, <1>6, <1>8 DEF Owned
  <1> QED BY <1>1, <1>7 DEF s2, StateOK

LEMMA StateKept ==
  ASSUME NEW state, NEW live, StateOK(live, state), NEW b \in Docs, state[b] # Absent,
         NEW st \in States, st.parsed = state[b].parsed, st.name = state[b].name
  PROVE StateOK(live, [state EXCEPT ![b] = st])
  <1> DEFINE s2 == [state EXCEPT ![b] = st]
  <1> USE DEF StateOK
  <1>1. s2 \in [Docs -> States \cup {Absent}] OBVIOUS
  <1>2. \A x \in Docs : s2[x] = IF x = b THEN st ELSE state[x] OBVIOUS
  <1>3. st # Absent BY KnownState
  <1> HIDE DEF s2
  <1>4. Owners(s2) = Owners(state) BY <1>2, <1>3 DEF Owners
  <1>8. Queried(s2) = Queried(state) BY <1>2, <1>3 DEF Queried
  <1>5. Treed(s2) = Treed(state) BY <1>2, <1>3 DEF Treed
  <1>7. Owned(live, s2) BY <1>4, <1>5, <1>8 DEF Owned
  <1> QED BY <1>1, <1>7 DEF s2, StateOK

LEMMA StateDeleted ==
  ASSUME NEW state, NEW live, StateOK(live, state), NEW b \in Docs, state[b] # Absent,
         NEW l2,
         l2.parsers = live.parsers - 1,
         l2.queries = live.queries - QueryObjects(state[b].name),
         l2.trees = IF state[b].parsed = NoTree THEN live.trees ELSE live.trees - 1
  PROVE StateOK(l2, [state EXCEPT ![b] = Absent])
  <1> DEFINE s2 == [state EXCEPT ![b] = Absent]
  <1> USE DEF StateOK
  <1>1. s2 \in [Docs -> States \cup {Absent}] OBVIOUS
  <1>2. \A x \in Docs : s2[x] = IF x = b THEN Absent ELSE state[x] OBVIOUS
  <1> HIDE DEF s2
  <1>4. Owners(s2) = Owners(state) \ {b} /\ b \in Owners(state) BY <1>2 DEF Owners
  <1>5. Treed(s2) = Treed(state) \ {b} BY <1>2 DEF Treed
  <1>6. Cardinality(Owners(s2)) = Cardinality(Owners(state)) - 1
    BY <1>4, OwnersFinite, FS_RemoveElement
  <1>8. Cardinality(Treed(s2)) =
          IF state[b].parsed = NoTree THEN Cardinality(Treed(state))
          ELSE Cardinality(Treed(state)) - 1
    <2>1. CASE state[b].parsed # NoTree
      <3>1. b \in Treed(state) BY <2>1 DEF Treed
      <3> QED BY <2>1, <3>1, <1>5, OwnersFinite, FS_RemoveElement
    <2>2. CASE state[b].parsed = NoTree
      <3>1. b \notin Treed(state) BY <2>2 DEF Treed
      <3>2. Treed(s2) = Treed(state) BY <3>1, <1>5
      <3> QED BY <2>2, <3>2
    <2> QED BY <2>1, <2>2
  <1>9. Cardinality(Queried(s2)) = Cardinality(Queried(state)) - QueryObjects(state[b].name)
    <2>1. IsFiniteSet(Queried(state)) /\ Cardinality(Queried(state)) \in Nat BY OwnersFinite
    <2>2. CASE state[b].name \in Compiled
      <3>1. Queried(s2) = Queried(state) \ {b} /\ b \in Queried(state)
        BY <1>2, <2>2 DEF Queried
      <3>2. Cardinality(Queried(s2)) = Cardinality(Queried(state)) - 1
        BY <2>1, <3>1, FS_RemoveElement
      <3> QED BY <2>2, <3>2 DEF QueryObjects
    <2>3. CASE state[b].name \notin Compiled
      <3>1. Queried(s2) = Queried(state) BY <1>2, <2>3 DEF Queried
      <3>2. Cardinality(Queried(state)) = Cardinality(Queried(state)) - 0 BY <2>1
      <3> QED BY <2>3, <3>1, <3>2 DEF QueryObjects
    <2> QED BY <2>2, <2>3
  <1>7. Owned(l2, s2) BY <1>6, <1>8, <1>9 DEF Owned
  <1> QED BY <1>1, <1>7 DEF s2, StateOK

\* What is drawn of a tree has extents in the text, so that the rule applies.
CaptureExtents == \A d \in Drawings : Extents(Captures[d.name][d.parsed])

\* A text that nothing is drawn on.
LEMMA PlainIsBlank ==
  ASSUME NEW t \in AllTexts
  PROVE Plain(t) = Blank(t.length) /\ t.length \in Nat
  BY KnownText DEF Plain, Blank, IsText

\* ts-buffer-reparse!: the new tree takes the place of the old one, and the
\* document shown is drawn by the rule.
LEMMA ReparseOK ==
  ASSUME CaptureExtents, NEW tx \in [Docs -> AllTexts], NEW h, HlOK(h, tx),
         NEW b \in Docs, NEW d \in Docs, NEW stale
  PROVE /\ HlOK(Reparse(h, b, d, tx[d], stale), tx)
        /\ h.state[b] # Absent => Reparse(h, b, d, tx[d], stale).state[b] # Absent
  <1> DEFINE g == Reparse(h, b, d, tx[d], stale)
             t == tx[d]
             st == h.state[b]
             parsed == Parse(st.parsed, t, stale)
             s2 == [st EXCEPT !.parsed = parsed]
             l2 == [h.live EXCEPT !.trees = IF st.parsed = NoTree THEN @ + 1 ELSE @]
  <1>1. CASE st = Absent
    <2>1. g = h BY <1>1 DEF Reparse
    <2> QED BY <2>1
  <1>2. CASE st # Absent
    <2>1. /\ g.state = [h.state EXCEPT ![b] = s2]
          /\ g.live = l2
          /\ g.styles = [h.styles EXCEPT ![d] = Apply(Plain(t), Captures[st.name][parsed])]
          /\ g.drawn = [h.drawn EXCEPT ![d] = [name |-> st.name, parsed |-> parsed]]
      BY <1>2 DEF Reparse
    <2> HIDE DEF g
    <2>2. /\ h.live \in Counts /\ StateOK(h.live, h.state) /\ DOMAIN h.styles = Docs
          /\ h.drawn \in [Docs -> Drawings \cup {Absent}] /\ Ruled(h.styles, h.drawn, tx)
      BY DEF HlOK
    <2>3. st \in States BY <1>2, <2>2 DEF StateOK
    <2>4. t \in AllTexts OBVIOUS
    <2>5. parsed \in AllTexts /\ parsed # NoTree
      <3>1. st.parsed \in AllTexts \cup {NoTree} BY <2>3 DEF States
      <3> QED BY <2>4, <3>1, KnownText DEF Parse
    <2>6. s2 \in States /\ s2.parsed = parsed /\ s2.name = st.name /\ st.name \in Grammars
      <3> HIDE DEF parsed, st
      <3> QED BY <2>3, <2>5 DEF States
    <2>7. /\ l2 \in Counts /\ l2.parsers = h.live.parsers /\ l2.queries = h.live.queries
          /\ l2.trees = IF st.parsed = NoTree THEN h.live.trees + 1 ELSE h.live.trees
      <3> HIDE DEF st
      <3> QED BY <2>2 DEF Counts
    <2>8. StateOK(l2, g.state)
      <3> DEFINE state == h.state
      <3>1. state[b] # Absent /\ s2.parsed # NoTree /\ s2.name = state[b].name
        BY <1>2, <2>5, <2>6
      <3>2. l2.trees = IF state[b].parsed = NoTree THEN h.live.trees + 1 ELSE h.live.trees
        BY <2>7
      <3>3. g.state = [state EXCEPT ![b] = s2] BY <2>1
      <3>4. StateOK(h.live, state) BY <2>2
      <3>5. s2 \in States /\ l2.parsers = h.live.parsers /\ l2.queries = h.live.queries
        BY <2>6, <2>7
      <3> HIDE DEF s2, l2, state
      <3> QED BY <3>1, <3>2, <3>3, <3>4, <3>5, StateParsed
    <2> DEFINE d2 == [name |-> st.name, parsed |-> parsed]
               caps == Captures[st.name][parsed]
    <2>9. d2 \in Drawings /\ Captures[d2.name][d2.parsed] = caps
      <3> HIDE DEF st, parsed
      <3> QED BY <2>5, <2>6 DEF Drawings
    <2>10. Apply(Plain(t), caps) = ByRule(d2, t.length)
      <3>1. Extents(caps) BY <2>9 DEF CaptureExtents
      <3>2. Plain(t) = Blank(t.length) /\ t.length \in Nat BY <2>4, PlainIsBlank
      <3> HIDE DEF caps, d2, t
      <3>3. Apply(Plain(t), caps) = [p \in 0 .. t.length - 1 |-> StyleByRule(caps, p)]
        BY <3>1, <3>2, ApplyByRule
      <3> QED BY <2>9, <3>3 DEF ByRule
    <2> HIDE DEF d2, caps
    <2>11. DOMAIN g.styles = Docs /\ g.drawn \in [Docs -> Drawings \cup {Absent}]
      BY <2>1, <2>2, <2>9 DEF d2
    <2>12. Ruled(g.styles, g.drawn, tx)
      <3> SUFFICES ASSUME NEW x \in Docs, g.drawn[x] # Absent
                   PROVE g.styles[x] = ByRule(g.drawn[x], tx[x].length)
        BY DEF Ruled
      <3>1. g.drawn[x] = IF x = d THEN d2 ELSE h.drawn[x] BY <2>1, <2>2 DEF d2
      <3>2. g.styles[x] = IF x = d THEN Apply(Plain(t), caps) ELSE h.styles[x]
        BY <2>1, <2>2 DEF caps
      <3>3. CASE x = d BY <2>10, <3>1, <3>2, <3>3
      <3>4. CASE x # d BY <2>2, <3>1, <3>2, <3>4 DEF Ruled
      <3> QED BY <3>3, <3>4
    <2>13. g.live \in Counts /\ StateOK(g.live, g.state) BY <2>1, <2>7, <2>8
    <2>14. HlOK(g, tx) BY <2>11, <2>12, <2>13 DEF HlOK
    <2>15. g.state[b] = s2
      <3>1. DOMAIN h.state = Docs BY <2>2 DEF StateOK
      <3> HIDE DEF s2
      <3> QED BY <2>1, <3>1
    <2>16. g.state[b] # Absent BY <2>6, <2>15, KnownState
    <2> QED BY <2>14, <2>16 DEF g
  <1> QED BY <1>1, <1>2

\* ts-buffer-init!
LEMMA InitOK ==
  ASSUME NEW tx, NEW h, HlOK(h, tx), NEW b \in Docs, h.state[b] = Absent, NEW name
  PROVE HlOK(TsInit(h, b, name), tx)
  <1> DEFINE g == TsInit(h, b, name)
             st == [name |-> name, parsed |-> NoTree, version |-> 0]
             l2 == [parsers |-> h.live.parsers + 1,
                    queries |-> h.live.queries + QueryObjects(name),
                    trees |-> h.live.trees]
  <1>1. CASE name \notin Loaded
    <2>1. g = h BY <1>1 DEF TsInit
    <2> QED BY <2>1
  <1>2. CASE name \in Loaded
    <2>1. name \in Grammars BY <1>2, HighlightAssumption
    <2>2. st \in States /\ st.parsed = NoTree /\ st.name = name BY <2>1 DEF States
    <2>3. /\ h.live \in Counts /\ StateOK(h.live, h.state) /\ DOMAIN h.styles = Docs
          /\ h.drawn \in [Docs -> Drawings \cup {Absent}] /\ Ruled(h.styles, h.drawn, tx)
      BY DEF HlOK
    <2>4. /\ g.state = [h.state EXCEPT ![b] = st] /\ g.live = l2
          /\ g.styles = h.styles /\ g.drawn = h.drawn
      BY <1>2 DEF TsInit
    <2>5. /\ l2 \in Counts /\ l2.parsers = h.live.parsers + 1
          /\ l2.queries = h.live.queries + QueryObjects(st.name) /\ l2.trees = h.live.trees
      BY <2>2, <2>3, OneOrNone DEF Counts
    <2>6. StateOK(l2, g.state)
      <3> DEFINE state == h.state
      <3>1. StateOK(h.live, state) /\ state[b] = Absent
        BY <2>3
      <3>2. g.state = [state EXCEPT ![b] = st] BY <2>4
      <3> HIDE DEF st, l2, state, g
      <3> QED BY <2>2, <2>5, <3>1, <3>2, StateMade
    <2> HIDE DEF g, st, l2
    <2>7. g.live \in Counts /\ StateOK(g.live, g.state) BY <2>4, <2>5, <2>6
    <2>8. DOMAIN g.styles = Docs /\ g.drawn \in [Docs -> Drawings \cup {Absent}] BY <2>3, <2>4
    <2>9. Ruled(g.styles, g.drawn, tx) BY <2>3, <2>4
    <2>10. HlOK(g, tx) BY <2>7, <2>8, <2>9 DEF HlOK
    <2> QED BY <2>10 DEF g
  <1> QED BY <1>1, <1>2

\* qt-setup-highlighting!
LEMMA SetupOK ==
  ASSUME CaptureExtents, NEW tx \in [Docs -> AllTexts], NEW h, HlOK(h, tx),
         NEW b \in Docs, NEW d \in Docs, NEW stale, NEW l
  PROVE HlOK(Setup(h, b, l, d, tx[d], stale), tx)
  <1> DEFINE g == IF h.state[b] = Absent THEN TsInit(h, b, TsName[l]) ELSE h
  <1>1. HlOK(g, tx) BY InitOK
  <1> HIDE DEF g
  <1>2. HlOK(Reparse(g, b, d, tx[d], stale), tx) BY <1>1, ReparseOK
  <1>3. Setup(h, b, l, d, tx[d], stale) = IF l = None THEN h ELSE Reparse(g, b, d, tx[d], stale)
    BY DEF Setup, g
  <1> QED BY <1>2, <1>3

\* ts-buffer-cleanup!
LEMMA CleanupOK ==
  ASSUME NEW tx, NEW h, HlOK(h, tx), NEW b \in Docs
  PROVE HlOK(Cleanup(h, b), tx)
  <1> DEFINE g == Cleanup(h, b)
             st == h.state[b]
             l2 == [parsers |-> h.live.parsers - 1,
                    queries |-> h.live.queries - QueryObjects(st.name),
                    trees |-> IF st.parsed = NoTree THEN h.live.trees ELSE h.live.trees - 1]
  <1>1. CASE st = Absent
    <2>1. g = h BY <1>1 DEF Cleanup
    <2> QED BY <2>1
  <1>2. CASE st # Absent
    <2>3. /\ h.live \in Counts /\ StateOK(h.live, h.state) /\ DOMAIN h.styles = Docs
          /\ h.drawn \in [Docs -> Drawings \cup {Absent}] /\ Ruled(h.styles, h.drawn, tx)
      BY DEF HlOK
    <2>4. /\ g.state = [h.state EXCEPT ![b] = Absent] /\ g.live = l2
          /\ g.styles = h.styles /\ g.drawn = h.drawn
      BY <1>2 DEF Cleanup
    <2>5. /\ l2 \in Counts /\ l2.parsers = h.live.parsers - 1
          /\ l2.queries = h.live.queries - QueryObjects(st.name)
          /\ l2.trees = IF st.parsed = NoTree THEN h.live.trees ELSE h.live.trees - 1
      <3> HIDE DEF st
      <3> QED BY <2>3, OneOrNone DEF Counts
    <2>6. StateOK(l2, g.state)
      <3> DEFINE state == h.state
      <3>1. StateOK(h.live, state) /\ state[b] # Absent
        BY <1>2, <2>3
      <3>2. g.state = [state EXCEPT ![b] = Absent] BY <2>4
      <3>3. /\ l2.queries = h.live.queries - QueryObjects(state[b].name)
            /\ l2.trees = IF state[b].parsed = NoTree THEN h.live.trees ELSE h.live.trees - 1
        BY <2>5
      <3> HIDE DEF l2, state, g
      <3> QED BY <2>5, <3>1, <3>2, <3>3, StateDeleted
    <2> HIDE DEF g, l2
    <2>7. g.live \in Counts /\ StateOK(g.live, g.state) BY <2>4, <2>5, <2>6
    <2>8. DOMAIN g.styles = Docs /\ g.drawn \in [Docs -> Drawings \cup {Absent}] BY <2>3, <2>4
    <2>9. Ruled(g.styles, g.drawn, tx) BY <2>3, <2>4
    <2>10. HlOK(g, tx) BY <2>7, <2>8, <2>9 DEF HlOK
    <2> QED BY <2>10 DEF g
  <1> QED BY <1>1, <1>2

\* The length of the text is noted.
LEMMA VersionOK ==
  ASSUME NEW tx, NEW h, HlOK(h, tx), NEW b \in Docs, h.state[b] # Absent, NEW v \in Int
  PROVE HlOK(SetVersion(h, b, v), tx)
  <1> DEFINE g == SetVersion(h, b, v)
             st == h.state[b]
             s2 == [st EXCEPT !.version = v]
  <1>3. /\ h.live \in Counts /\ StateOK(h.live, h.state) /\ DOMAIN h.styles = Docs
        /\ h.drawn \in [Docs -> Drawings \cup {Absent}] /\ Ruled(h.styles, h.drawn, tx)
    BY DEF HlOK
  <1>4. /\ g.state = [h.state EXCEPT ![b] = s2] /\ g.live = h.live
        /\ g.styles = h.styles /\ g.drawn = h.drawn
    BY DEF SetVersion
  <1>5. st \in States BY <1>3 DEF StateOK
  <1>6. s2 \in States /\ s2.parsed = st.parsed /\ s2.name = st.name
    <2> HIDE DEF st
    <2> QED BY <1>5 DEF States
  <1>7. StateOK(h.live, g.state)
    <2> DEFINE state == h.state
    <2>1. /\ StateOK(h.live, state) /\ state[b] # Absent
          /\ s2.parsed = state[b].parsed /\ s2.name = state[b].name
      BY <1>3, <1>6
    <2>2. g.state = [state EXCEPT ![b] = s2] BY <1>4
    <2> HIDE DEF s2, state, g
    <2> QED BY <1>6, <2>1, <2>2, StateKept
  <1> HIDE DEF g, s2
  <1>8. g.live \in Counts /\ StateOK(g.live, g.state) BY <1>3, <1>4, <1>7
  <1>9. DOMAIN g.styles = Docs /\ g.drawn \in [Docs -> Drawings \cup {Absent}] BY <1>3, <1>4
  <1>10. Ruled(g.styles, g.drawn, tx) BY <1>3, <1>4
  <1>11. HlOK(g, tx) BY <1>8, <1>9, <1>10 DEF HlOK
  <1> QED BY <1>11 DEF g

\* A document gets a new text, in one style, and is no longer drawn.
LEMMA TextOK ==
  ASSUME NEW tx \in [Docs -> AllTexts], NEW h, HlOK(h, tx), NEW b \in Docs, NEW t \in AllTexts
  PROVE HlOK(NewText(h, b, t), [tx EXCEPT ![b] = t])
  <1> DEFINE g == NewText(h, b, t)
             t2 == [tx EXCEPT ![b] = t]
  <1>3. /\ h.live \in Counts /\ StateOK(h.live, h.state) /\ DOMAIN h.styles = Docs
        /\ h.drawn \in [Docs -> Drawings \cup {Absent}] /\ Ruled(h.styles, h.drawn, tx)
    BY DEF HlOK
  <1>4. /\ g.state = h.state /\ g.live = h.live
        /\ g.styles = [h.styles EXCEPT ![b] = Plain(t)]
        /\ g.drawn = [h.drawn EXCEPT ![b] = Absent]
    BY DEF NewText
  <1> HIDE DEF g
  <1>5. \A x \in Docs : /\ g.drawn[x] = IF x = b THEN Absent ELSE h.drawn[x]
                        /\ x # b => g.styles[x] = h.styles[x] /\ t2[x] = tx[x]
    BY <1>3, <1>4
  <1>6. g.drawn \in [Docs -> Drawings \cup {Absent}] /\ DOMAIN g.styles = Docs BY <1>3, <1>4
  <1> HIDE DEF t2
  <1>7. Ruled(g.styles, g.drawn, t2) BY <1>3, <1>5 DEF Ruled
  <1>8. HlOK(g, t2) BY <1>3, <1>4, <1>6, <1>7 DEF HlOK
  <1> QED BY <1>8 DEF g, t2

------------------------------------------------------------------------------
(* The order of the captures.                                              *)

Ordered(s, R) == \A i, j \in 1 .. Len(s) : i < j => <<s[i], s[j]>> \in R
Before(s, t, R) == \A i \in 1 .. Len(s), j \in 1 .. Len(t) : <<s[i], t[j]>> \in R
Occurs(x, s) == \E i \in 1 .. Len(s) : s[i] = x

\* Two sequences one after the other.
LEMMA Concat ==
  ASSUME NEW S, NEW s \in Seq(S), NEW t \in Seq(S)
  PROVE /\ s \o t \in Seq(S) /\ Len(s \o t) = Len(s) + Len(t)
        /\ \A i \in 1 .. Len(s) : (s \o t)[i] = s[i]
        /\ \A i \in 1 .. Len(s) + Len(t) : i > Len(s) => (s \o t)[i] = t[i - Len(s)]
  OBVIOUS

LEMMA ConcatOrdered ==
  ASSUME NEW S, NEW s \in Seq(S), NEW t \in Seq(S), NEW R,
         Ordered(s, R), Ordered(t, R), Before(s, t, R)
  PROVE Ordered(s \o t, R)
  <1> DEFINE u == s \o t
             m == Len(s)
             n == Len(t)
  <1>1. m \in Nat /\ n \in Nat OBVIOUS
  <1>2. /\ Len(u) = m + n /\ \A i \in 1 .. m : u[i] = s[i]
        /\ \A i \in 1 .. m + n : i > m => u[i] = t[i - m]
    BY Concat
  <1>3. /\ \A i, j \in 1 .. m : i < j => <<s[i], s[j]>> \in R
        /\ \A i, j \in 1 .. n : i < j => <<t[i], t[j]>> \in R
        /\ \A i \in 1 .. m, j \in 1 .. n : <<s[i], t[j]>> \in R
    BY DEF Ordered, Before
  <1> HIDE DEF u, m, n
  <1>4. ASSUME NEW i \in 1 .. m + n, NEW j \in 1 .. m + n, i < j PROVE <<u[i], u[j]>> \in R
    <2>1. CASE j <= m
      <3>1. i \in 1 .. m /\ j \in 1 .. m BY <1>1, <1>4, <2>1
      <3> QED BY <1>2, <1>3, <1>4, <3>1
    <2>2. CASE i > m
      <3>1. i - m \in 1 .. n /\ j - m \in 1 .. n /\ i - m < j - m /\ j > m BY <1>1, <1>4, <2>2
      <3>2. <<t[i - m], t[j - m]>> \in R BY <1>3, <3>1
      <3> QED BY <1>2, <2>2, <3>1, <3>2
    <2>3. CASE i <= m /\ j > m
      <3>1. i \in 1 .. m /\ j - m \in 1 .. n BY <1>1, <2>3
      <3>2. <<s[i], t[j - m]>> \in R BY <1>3, <3>1
      <3> QED BY <1>2, <2>3, <3>1, <3>2
    <2> QED BY <1>1, <2>1, <2>2, <2>3
  <1> QED BY <1>2, <1>4 DEF Ordered, u

LEMMA ConcatOccurs ==
  ASSUME NEW S, NEW s \in Seq(S), NEW t \in Seq(S), NEW x
  PROVE Occurs(x, s \o t) <=> Occurs(x, s) \/ Occurs(x, t)
  <1> DEFINE u == s \o t
             m == Len(s)
             n == Len(t)
  <1>1. m \in Nat /\ n \in Nat OBVIOUS
  <1>2. /\ Len(u) = m + n /\ \A i \in 1 .. m : u[i] = s[i]
        /\ \A i \in 1 .. m + n : i > m => u[i] = t[i - m]
    BY Concat
  <1> HIDE DEF u
  <1>3. ASSUME Occurs(x, u) PROVE Occurs(x, s) \/ Occurs(x, t)
    <2> HIDE DEF m, n
    <2>1. PICK i \in 1 .. m + n : u[i] = x BY <1>2, <1>3 DEF Occurs
    <2>2. CASE i <= m
      <3>1. i \in 1 .. m BY <1>1, <2>2
      <3> QED BY <1>2, <2>1, <3>1 DEF Occurs, m
    <2>3. CASE i > m
      <3>1. i - m \in 1 .. n BY <1>1, <2>3
      <3>2. t[i - m] = x BY <1>2, <2>1, <2>3
      <3> QED BY <3>1, <3>2 DEF Occurs, n
    <2> QED BY <1>1, <2>2, <2>3
  <1>4. ASSUME Occurs(x, s) PROVE Occurs(x, u)
    <2>1. PICK i \in 1 .. m : s[i] = x BY <1>4 DEF Occurs
    <2> HIDE DEF m, n
    <2>2. i \in 1 .. m + n /\ u[i] = x BY <1>1, <1>2, <2>1
    <2> QED BY <1>2, <2>2 DEF Occurs
  <1>5. ASSUME Occurs(x, t) PROVE Occurs(x, u)
    <2>1. PICK i \in 1 .. n : t[i] = x BY <1>5 DEF Occurs
    <2> HIDE DEF m, n
    <2>2. i + m \in 1 .. m + n /\ i + m > m /\ (i + m) - m = i BY <1>1
    <2>3. u[i + m] = x BY <1>2, <2>1, <2>2
    <2> QED BY <1>2, <2>2, <2>3 DEF Occurs
  <1> QED BY <1>3, <1>4, <1>5 DEF u

\* A sequence put together from ordered ones, in order, is ordered, and has
\* their elements.
LEMMA FlattenOrdered ==
  ASSUME NEW S, NEW ss \in Seq(Seq(S)), NEW R,
         \A n \in 1 .. Len(ss) : Ordered(ss[n], R),
         \A m, n \in 1 .. Len(ss) : m < n => Before(ss[m], ss[n], R)
  PROVE /\ FlattenSeq(ss) \in Seq(S) /\ Ordered(FlattenSeq(ss), R)
        /\ \A x : Occurs(x, FlattenSeq(ss)) <=> \E n \in 1 .. Len(ss) : Occurs(x, ss[n])
  <1>1. CASE Len(ss) = 0
    <2>1. ss = <<>> /\ ss \in Seq(S) BY <1>1, EmptySeq
    <2>2. FlattenSeq(ss) = ss BY <1>1 DEF FlattenSeq
    <2>3. \A n \in 1 .. Len(ss) : FALSE BY <1>1
    <2> QED BY <2>1, <2>2, <2>3 DEF Ordered, Occurs
  <1>2. CASE Len(ss) # 0
    <2> DEFINE k == Len(ss)
    <2>1. k \in Nat \ {0} BY <1>2
    <2>2. PICK g : /\ g[1] = ss[1]
                   /\ \A n \in 1 .. k - 1 : g[n + 1] = g[n] \o ss[n + 1]
                   /\ FlattenSeq(ss) = g[k]
      BY <2>1, FlattenSeqSteps
    <2>3. \A n \in 1 .. k : ss[n] \in Seq(S) OBVIOUS
    <2> HIDE DEF k
    <2> DEFINE Inv(n) == /\ g[n] \in Seq(S) /\ Ordered(g[n], R)
                         /\ \A x : Occurs(x, g[n]) <=> \E m \in 1 .. n : Occurs(x, ss[m])
               T == {n \in 1 .. k : Inv(n)}
    <2>4. 1 \in T
      <3>1. \A m \in 1 .. 1 : m = 1 OBVIOUS
      <3>2. 1 \in 1 .. 1 /\ 1 \in 1 .. k BY <2>1
      <3>3. Ordered(ss[1], R) BY <3>2 DEF k
      <3> QED BY <2>2, <2>3, <3>1, <3>2, <3>3
    <2>5. ASSUME NEW n \in 1 .. k - 1, n \in T PROVE n + 1 \in T
      <3>1. n + 1 \in 1 .. k /\ n \in 1 .. k BY <2>1
      <3>2. Inv(n) BY <2>5
      <3>3. g[n + 1] = g[n] \o ss[n + 1] /\ ss[n + 1] \in Seq(S) BY <2>2, <2>3, <3>1
      <3>4. Ordered(ss[n + 1], R) BY <3>1 DEF k
      <3>5. Before(g[n], ss[n + 1], R)
        <4> SUFFICES ASSUME NEW i \in 1 .. Len(g[n]), NEW j \in 1 .. Len(ss[n + 1])
                     PROVE <<g[n][i], ss[n + 1][j]>> \in R
          BY DEF Before
        <4>1. Occurs(g[n][i], g[n]) BY DEF Occurs
        <4>2. PICK m \in 1 .. n : Occurs(g[n][i], ss[m]) BY <3>2, <4>1
        <4>3. m \in 1 .. k /\ m < n + 1 BY <2>1, <3>1
        <4>4. Before(ss[m], ss[n + 1], R) BY <3>1, <4>3 DEF k
        <4> QED BY <4>2, <4>4 DEF Occurs, Before
      <3>6. g[n + 1] \in Seq(S) /\ Ordered(g[n + 1], R) BY <3>2, <3>3, <3>4, <3>5, ConcatOrdered, Concat
      <3>7. \A x : Occurs(x, g[n + 1]) <=> Occurs(x, g[n]) \/ Occurs(x, ss[n + 1])
        BY <3>2, <3>3, ConcatOccurs
      <3>8. \A m : m \in 1 .. n + 1 <=> m \in 1 .. n \/ m = n + 1 BY <3>1
      <3>9. ASSUME NEW x PROVE Occurs(x, g[n + 1]) <=> \E m \in 1 .. n + 1 : Occurs(x, ss[m])
        BY <3>2, <3>7, <3>8
      <3> QED BY <3>1, <3>6, <3>9
    <2> HIDE DEF T
    <2>6. 1 .. k \subseteq T BY <2>1, <2>4, <2>5, InductionUpTo
    <2>7. k \in T BY <2>1, <2>6
    <2> QED BY <2>2, <2>7 DEF T, k
  <1> QED BY <1>1, <1>2

CaptureOf(query, t, k, i) ==
    [start |-> t.nodes[i].start, end |-> t.nodes[i].end, pattern |-> k, node |-> i,
     name |-> query[k].capture]

CaptureSet(query, t) ==
    {CaptureOf(query, t, k, i) : k \in 1 .. Len(query), i \in 1 .. Len(t.nodes)}

IsQuery(query) == Len(query) \in Nat /\ DOMAIN query = 1 .. Len(query)

Sooner(x, y) ==
    \/ x.start < y.start
    \/ x.start = y.start /\ x.node < y.node
    \/ x.start = y.start /\ x.node = y.node /\ x.pattern < y.pattern

\* Captures in the order in which the library returns them.
InOrder(query, t) ==
    {c \in CaptureSet(query, t) \X CaptureSet(query, t) : Sooner(c[1], c[2])}

\* Node i is captured by pattern k, and capture c is of it.
CaptureIs(query, t, c, k, i) ==
    /\ k \in 1 .. Len(query) /\ i \in 1 .. Len(t.nodes)
    /\ Matches(query[k], t.nodes[i]) /\ c = CaptureOf(query, t, k, i)

\* The nodes of a text, and the captures of a node.
LEMMA NodesOfText ==
  ASSUME NEW t, IsText(t)
  PROVE /\ t.length \in Nat /\ Len(t.nodes) \in Nat /\ DOMAIN t.nodes = 1 .. Len(t.nodes)
        /\ \A i \in 1 .. Len(t.nodes) :
             /\ t.nodes[i].start \in Nat /\ t.nodes[i].end \in Nat
             /\ t.nodes[i].start < t.nodes[i].end /\ t.nodes[i].end <= t.length
  <1> DEFINE N == t.nodes
             Nodes == [role : STRING, place : Places, start : Nat, end : Nat]
  <1>1. N \in Seq(Nodes) /\ t.length \in Nat BY DEF IsText
  <1>2. \A i \in DOMAIN N : N[i].start < N[i].end /\ N[i].end <= t.length BY DEF IsText
  <1> HIDE DEF N
  <1>3. Len(N) \in Nat /\ DOMAIN N = 1 .. Len(N) BY <1>1
  <1>4. ASSUME NEW i \in 1 .. Len(N) PROVE N[i].start \in Nat /\ N[i].end \in Nat
    <2>1. N[i] \in Nodes
      <3> HIDE DEF Nodes
      <3> QED BY <1>1, ElementOfSeq
    <2> QED BY <2>1
  <1> QED BY <1>1, <1>2, <1>3, <1>4 DEF N

LEMMA CaptureFields ==
  ASSUME NEW query, NEW t, IsText(t), NEW k \in 1 .. Len(query), NEW i \in 1 .. Len(t.nodes)
  PROVE LET c == CaptureOf(query, t, k, i) IN
        /\ c \in CaptureSet(query, t)
        /\ c.start = t.nodes[i].start /\ c.end = t.nodes[i].end /\ c.pattern = k /\ c.node = i
        /\ c.name = query[k].capture
        /\ c.start \in Nat /\ c.end \in Nat
  BY NodesOfText DEF CaptureOf, CaptureSet

LEMMA CapturesInOrder ==
  ASSUME NEW query, NEW t, NEW k, NEW i, NEW c, CaptureIs(query, t, c, k, i),
         NEW l, NEW j, NEW d, CaptureIs(query, t, d, l, j),
         \/ t.nodes[i].start < t.nodes[j].start
         \/ t.nodes[i].start = t.nodes[j].start /\ i < j
         \/ t.nodes[i].start = t.nodes[j].start /\ i = j /\ k < l
  PROVE <<c, d>> \in InOrder(query, t)
  <1>1. /\ c.start = t.nodes[i].start /\ c.pattern = k /\ c.node = i
        /\ c \in CaptureSet(query, t)
    BY DEF CaptureIs, CaptureOf, CaptureSet
  <1>2. /\ d.start = t.nodes[j].start /\ d.pattern = l /\ d.node = j
        /\ d \in CaptureSet(query, t)
    BY DEF CaptureIs, CaptureOf, CaptureSet
  <1>3. Sooner(c, d) BY <1>1, <1>2 DEF Sooner
  <1> QED BY <1>1, <1>2, <1>3 DEF InOrder

Captured(query, t, p, k, i) ==
    IF t.nodes[i].start = p /\ Matches(query[k], t.nodes[i])
    THEN <<[start |-> p, end |-> t.nodes[i].end, pattern |-> k, node |-> i,
            name |-> query[k].capture]>>
    ELSE <<>>

Row(query, t, p, i) == FlattenSeq([k \in 1 .. Len(query) |-> Captured(query, t, p, k, i)])

LEMMA CapturesAtRows ==
  ASSUME NEW query, IsQuery(query), NEW t, IsText(t), NEW p
  PROVE CapturesAt(query, t, p) = FlattenSeq([i \in 1 .. Len(t.nodes) |-> Row(query, t, p, i)])
  <1>1. DOMAIN query = 1 .. Len(query) /\ DOMAIN t.nodes = 1 .. Len(t.nodes)
    BY NodesOfText DEF IsQuery
  <1> QED BY <1>1 DEF CapturesAt, Row, Captured

\* The captures of one node by one pattern; of one node by all patterns; of all
\* nodes at one position.
LEMMA CapturedOne ==
  ASSUME NEW query, NEW t, IsText(t), NEW p, NEW k \in 1 .. Len(query),
         NEW i \in 1 .. Len(t.nodes)
  PROVE LET s == Captured(query, t, p, k, i) IN
        /\ s \in Seq(CaptureSet(query, t)) /\ Ordered(s, InOrder(query, t))
        /\ \A x : Occurs(x, s) <=> t.nodes[i].start = p /\ CaptureIs(query, t, x, k, i)
  <1> DEFINE s == Captured(query, t, p, k, i)
             c == CaptureOf(query, t, k, i)
             S == CaptureSet(query, t)
  <1>1. c \in S BY CaptureFields
  <1>2. CASE t.nodes[i].start = p /\ Matches(query[k], t.nodes[i])
    <2>1. s = <<c>> BY <1>2 DEF Captured, CaptureOf
    <2>2. \A x : CaptureIs(query, t, x, k, i) <=> x = c BY <1>2 DEF CaptureIs
    <2> HIDE DEF s, c, S
    <2>3. s \in Seq(S) /\ Len(s) = 1 /\ s[1] = c BY <1>1, <2>1
    <2>4. Ordered(s, InOrder(query, t)) BY <2>3 DEF Ordered
    <2>5. \A x : Occurs(x, s) <=> x = c BY <2>3 DEF Occurs
    <2> QED BY <1>2, <2>2, <2>3, <2>4, <2>5 DEF s, S
  <1>3. CASE ~ (t.nodes[i].start = p /\ Matches(query[k], t.nodes[i]))
    <2>1. s = <<>> BY <1>3 DEF Captured
    <2>2. \A x : ~ (t.nodes[i].start = p /\ CaptureIs(query, t, x, k, i)) BY <1>3 DEF CaptureIs
    <2> HIDE DEF s, S
    <2>3. s \in Seq(S) /\ Len(s) = 0 BY <2>1
    <2>4. Ordered(s, InOrder(query, t)) BY <2>3 DEF Ordered
    <2>5. \A x : ~ Occurs(x, s) BY <2>3 DEF Occurs
    <2> QED BY <2>2, <2>3, <2>4, <2>5 DEF s, S
  <1> QED BY <1>2, <1>3

LEMMA RowInOrder ==
  ASSUME NEW query, IsQuery(query), NEW t, IsText(t), NEW p, NEW i \in 1 .. Len(t.nodes)
  PROVE LET s == Row(query, t, p, i) IN
        /\ s \in Seq(CaptureSet(query, t)) /\ Ordered(s, InOrder(query, t))
        /\ \A x : Occurs(x, s) <=> \E k \in 1 .. Len(query) :
                     t.nodes[i].start = p /\ CaptureIs(query, t, x, k, i)
  <1> DEFINE N == Len(query)
             S == CaptureSet(query, t)
             R == InOrder(query, t)
             f(k) == Captured(query, t, p, k, i)
             ss == [k \in 1 .. N |-> f(k)]
  <1>1. N \in Nat BY DEF IsQuery
  <1>2. \A k \in 1 .. N : /\ f(k) \in Seq(S) /\ Ordered(f(k), R)
                          /\ \A x : Occurs(x, f(k)) <=>
                                      t.nodes[i].start = p /\ CaptureIs(query, t, x, k, i)
    BY CapturedOne
  <1>3. Row(query, t, p, i) = FlattenSeq(ss) BY DEF Row
  <1>4. ASSUME NEW k \in 1 .. N, NEW l \in 1 .. N, k < l PROVE Before(f(k), f(l), R)
    <2> SUFFICES ASSUME NEW m \in 1 .. Len(f(k)), NEW n \in 1 .. Len(f(l))
                 PROVE <<f(k)[m], f(l)[n]>> \in R
      BY DEF Before
    <2>1. Occurs(f(k)[m], f(k)) /\ Occurs(f(l)[n], f(l)) BY DEF Occurs
    <2>2. /\ t.nodes[i].start = p /\ CaptureIs(query, t, f(k)[m], k, i)
          /\ CaptureIs(query, t, f(l)[n], l, i)
      BY <1>2, <2>1
    <2> QED BY <1>4, <2>2, CapturesInOrder
  <1> HIDE DEF f, S, R, N
  <1>5. ss \in Seq(Seq(S)) /\ Len(ss) = N /\ \A k \in 1 .. N : ss[k] = f(k) BY <1>1, <1>2
  <1> HIDE DEF ss
  <1>10. \A k \in 1 .. Len(ss) : Ordered(ss[k], R) BY <1>2, <1>5
  <1>11. \A m, n \in 1 .. Len(ss) : m < n => Before(ss[m], ss[n], R) BY <1>4, <1>5
  <1>6. /\ FlattenSeq(ss) \in Seq(S) /\ Ordered(FlattenSeq(ss), R)
        /\ \A x : Occurs(x, FlattenSeq(ss)) <=> \E k \in 1 .. Len(ss) : Occurs(x, ss[k])
    BY <1>5, <1>10, <1>11, FlattenOrdered
  <1>7. \A x : Occurs(x, FlattenSeq(ss)) <=>
                 \E k \in 1 .. N : t.nodes[i].start = p /\ CaptureIs(query, t, x, k, i)
    BY <1>2, <1>5, <1>6
  <1> QED BY <1>3, <1>6, <1>7 DEF S, R, N

LEMMA CapturesAtInOrder ==
  ASSUME NEW query, IsQuery(query), NEW t, IsText(t), NEW p \in Nat
  PROVE LET s == CapturesAt(query, t, p) IN
        /\ s \in Seq(CaptureSet(query, t)) /\ Ordered(s, InOrder(query, t))
        /\ \A x : Occurs(x, s) <=> \E k, i : t.nodes[i].start = p /\ CaptureIs(query, t, x, k, i)
  <1> DEFINE N == Len(t.nodes)
             S == CaptureSet(query, t)
             R == InOrder(query, t)
             f(i) == Row(query, t, p, i)
             ss == [i \in 1 .. N |-> f(i)]
  <1>1. N \in Nat BY NodesOfText
  <1>2. \A i \in 1 .. N : /\ f(i) \in Seq(S) /\ Ordered(f(i), R)
                          /\ \A x : Occurs(x, f(i)) <=> \E k \in 1 .. Len(query) :
                                      t.nodes[i].start = p /\ CaptureIs(query, t, x, k, i)
    BY RowInOrder
  <1>3. CapturesAt(query, t, p) = FlattenSeq(ss) BY CapturesAtRows
  <1>4. ASSUME NEW i \in 1 .. N, NEW j \in 1 .. N, i < j PROVE Before(f(i), f(j), R)
    <2> SUFFICES ASSUME NEW m \in 1 .. Len(f(i)), NEW n \in 1 .. Len(f(j))
                 PROVE <<f(i)[m], f(j)[n]>> \in R
      BY DEF Before
    <2>1. Occurs(f(i)[m], f(i)) /\ Occurs(f(j)[n], f(j)) BY DEF Occurs
    <2>2. PICK k \in 1 .. Len(query) :
                 t.nodes[i].start = p /\ CaptureIs(query, t, f(i)[m], k, i)
      BY <1>2, <2>1
    <2>3. PICK l \in 1 .. Len(query) :
                 t.nodes[j].start = p /\ CaptureIs(query, t, f(j)[n], l, j)
      BY <1>2, <2>1
    <2> QED BY <1>4, <2>2, <2>3, CapturesInOrder
  <1> HIDE DEF f, S, R, N
  <1>5. ss \in Seq(Seq(S)) /\ Len(ss) = N /\ \A i \in 1 .. N : ss[i] = f(i) BY <1>1, <1>2
  <1> HIDE DEF ss
  <1>10. \A i \in 1 .. Len(ss) : Ordered(ss[i], R) BY <1>2, <1>5
  <1>11. \A m, n \in 1 .. Len(ss) : m < n => Before(ss[m], ss[n], R) BY <1>4, <1>5
  <1>6. /\ FlattenSeq(ss) \in Seq(S) /\ Ordered(FlattenSeq(ss), R)
        /\ \A x : Occurs(x, FlattenSeq(ss)) <=> \E i \in 1 .. Len(ss) : Occurs(x, ss[i])
    BY <1>5, <1>10, <1>11, FlattenOrdered
  <1>7. \A x : Occurs(x, FlattenSeq(ss)) <=>
                 \E k \in 1 .. Len(query), i \in 1 .. N :
                    t.nodes[i].start = p /\ CaptureIs(query, t, x, k, i)
    BY <1>2, <1>5, <1>6
  <1>8. \A x, k, i : CaptureIs(query, t, x, k, i) => k \in 1 .. Len(query) /\ i \in 1 .. N
    BY DEF CaptureIs, N
  <1>9. \A x : Occurs(x, FlattenSeq(ss)) <=>
                 \E k, i : t.nodes[i].start = p /\ CaptureIs(query, t, x, k, i)
    BY <1>7, <1>8
  <1> QED BY <1>3, <1>6, <1>9 DEF S, R

\* The captures of a query are those of its patterns, in order.
LEMMA AllCapturesInOrder ==
  ASSUME NEW query, IsQuery(query), NEW t, IsText(t)
  PROVE LET s == AllCaptures(query, t) IN
        /\ s \in Seq(CaptureSet(query, t)) /\ Ordered(s, InOrder(query, t))
        /\ \A x : Occurs(x, s) <=> \E k, i : CaptureIs(query, t, x, k, i)
  <1> DEFINE N == t.length
             S == CaptureSet(query, t)
             R == InOrder(query, t)
             f(p) == CapturesAt(query, t, p - 1)
             ss == [p \in 1 .. N |-> f(p)]
  <1>1. N \in Nat BY NodesOfText
  <1>2. ASSUME NEW p \in 1 .. N
        PROVE /\ f(p) \in Seq(S) /\ Ordered(f(p), R)
              /\ \A x : Occurs(x, f(p)) <=>
                          \E k, i : t.nodes[i].start = p - 1 /\ CaptureIs(query, t, x, k, i)
    <2>1. p - 1 \in Nat BY <1>1
    <2> QED BY <2>1, CapturesAtInOrder
  <1>3. AllCaptures(query, t) = FlattenSeq(ss) BY DEF AllCaptures
  <1>4. ASSUME NEW p \in 1 .. N, NEW q \in 1 .. N, p < q PROVE Before(f(p), f(q), R)
    <2> SUFFICES ASSUME NEW m \in 1 .. Len(f(p)), NEW n \in 1 .. Len(f(q))
                 PROVE <<f(p)[m], f(q)[n]>> \in R
      BY DEF Before
    <2>1. Occurs(f(p)[m], f(p)) /\ Occurs(f(q)[n], f(q)) BY DEF Occurs
    <2>2. PICK k, i : t.nodes[i].start = p - 1 /\ CaptureIs(query, t, f(p)[m], k, i)
      BY <1>2, <2>1
    <2>3. PICK l, j : t.nodes[j].start = q - 1 /\ CaptureIs(query, t, f(q)[n], l, j)
      BY <1>2, <2>1
    <2>4. t.nodes[i].start < t.nodes[j].start BY <1>1, <1>4, <2>2, <2>3
    <2> QED BY <2>2, <2>3, <2>4, CapturesInOrder
  <1> HIDE DEF f, S, R, N
  <1>5. ss \in Seq(Seq(S)) /\ Len(ss) = N /\ \A p \in 1 .. N : ss[p] = f(p) BY <1>1, <1>2
  <1> HIDE DEF ss
  <1>10. \A p \in 1 .. Len(ss) : Ordered(ss[p], R) BY <1>2, <1>5
  <1>11. \A m, n \in 1 .. Len(ss) : m < n => Before(ss[m], ss[n], R) BY <1>4, <1>5
  <1>6. /\ FlattenSeq(ss) \in Seq(S) /\ Ordered(FlattenSeq(ss), R)
        /\ \A x : Occurs(x, FlattenSeq(ss)) <=> \E p \in 1 .. Len(ss) : Occurs(x, ss[p])
    BY <1>5, <1>10, <1>11, FlattenOrdered
  <1>7. \A x : Occurs(x, FlattenSeq(ss)) <=>
                 \E p \in 1 .. N : \E k, i :
                    t.nodes[i].start = p - 1 /\ CaptureIs(query, t, x, k, i)
    BY <1>2, <1>5, <1>6
  <1>8. ASSUME NEW x, NEW k, NEW i, CaptureIs(query, t, x, k, i)
        PROVE \E p \in 1 .. N : t.nodes[i].start = p - 1
    <2>1. i \in 1 .. Len(t.nodes) BY <1>8 DEF CaptureIs
    <2> DEFINE a == t.nodes[i].start
    <2>2. a \in Nat /\ t.nodes[i].end \in Nat /\ a < t.nodes[i].end /\ t.nodes[i].end <= N
      BY <2>1, NodesOfText DEF N
    <2> HIDE DEF a
    <2>3. a + 1 \in 1 .. N /\ a = (a + 1) - 1 BY <1>1, <2>2
    <2> QED BY <2>3 DEF a
  <1>9. \A x : Occurs(x, FlattenSeq(ss)) <=> \E k, i : CaptureIs(query, t, x, k, i)
    BY <1>7, <1>8
  <1> QED BY <1>3, <1>6, <1>9 DEF S, R

\* The queries are sequences.
LEMMA QueriesAre == \A name \in Grammars : IsQuery(Query(name))
  <1>1. IsQuery(Bash) BY DEF Bash, IsQuery
  <1>2. IsQuery(C) BY DEF C, IsQuery
  <1>3. IsQuery(Cpp) BY DEF Cpp, IsQuery
  <1>4. IsQuery(Css) BY DEF Css, IsQuery
  <1>5. IsQuery(Go) BY DEF Go, IsQuery
  <1>6. IsQuery(Html) BY DEF Html, IsQuery
  <1>7. IsQuery(Java) BY DEF Java, IsQuery
  <1>8. IsQuery(JavaScript) BY DEF JavaScript, IsQuery
  <1>9. IsQuery(Json) BY DEF Json, IsQuery
  <1>10. IsQuery(Lua) BY DEF Lua, IsQuery
  <1>11. IsQuery(Python) BY DEF Python, IsQuery
  <1>12. IsQuery(Ruby) BY DEF Ruby, IsQuery
  <1>13. IsQuery(Rust) BY DEF Rust, IsQuery
  <1>14. IsQuery(Scheme) BY DEF Scheme, IsQuery
  <1>15. \A name \in Grammars : IsQuery(Queries[name])
    BY <1>1, <1>2, <1>3, <1>4, <1>5, <1>6, <1>7, <1>8, <1>9, <1>10, <1>11, <1>12, <1>13, <1>14
    DEF Queries, Grammars
  <1>16. IsQuery(<<>>) BY DEF IsQuery
  <1> QED BY <1>15, <1>16 DEF Query

\* The captures returned are the first of all, as many as fit.
LEMMA CapturesPrefix ==
  ASSUME NEW name \in Grammars, NEW t \in AllTexts
  PROVE LET all == AllCaptures(Query(name), t)
            s == Captures[name][t]
        IN /\ Len(all) \in Nat
           /\ s \in Seq(CaptureSet(Query(name), t))
           /\ Len(s) = Least(Limit, Len(all))
           /\ \A i \in 1 .. Len(s) : s[i] = all[i]
  <1> DEFINE all == AllCaptures(Query(name), t)
             S == CaptureSet(Query(name), t)
             n == Least(Limit, Len(all))
             s == Captures[name][t]
  <1>1. all \in Seq(S) BY QueriesAre, KnownText, AllCapturesInOrder
  <1>2. s = SubSeq(all, 1, n) BY DEF Captures
  <1>3. Limit \in Nat BY HighlightAssumption
  <1> HIDE DEF all, S, s
  <1>4. n \in 0 .. Len(all) /\ Len(all) \in Nat BY <1>1, <1>3 DEF Least
  <1> HIDE DEF n
  <1>5. s \in Seq(S) /\ Len(s) = n /\ \A i \in 1 .. n : s[i] = all[i]
    BY <1>1, <1>2, <1>4
  <1> QED BY <1>4, <1>5 DEF all, S, n, s

\* What is returned can be drawn.
LEMMA CapturesAreExtents == CaptureExtents
  <1> SUFFICES ASSUME NEW d \in Drawings PROVE Extents(Captures[d.name][d.parsed])
    BY DEF CaptureExtents
  <1>1. d.name \in Grammars /\ d.parsed \in AllTexts BY DEF Drawings
  <1> DEFINE q == Query(d.name)
             t == d.parsed
             s == Captures[d.name][t]
  <1>2. s \in Seq(CaptureSet(q, t)) BY <1>1, CapturesPrefix
  <1>3. ASSUME NEW c \in CaptureSet(q, t) PROVE c.start \in Nat /\ c.end \in Nat
    <2>1. PICK k \in 1 .. Len(q), i \in 1 .. Len(t.nodes) : c = CaptureOf(q, t, k, i)
      BY DEF CaptureSet
    <2>2. IsText(t) BY <1>1, KnownText
    <2> HIDE DEF q, t
    <2> QED BY <2>1, <2>2, CaptureFields
  <1> HIDE DEF q, t, s
  <1>4. /\ Len(s) \in Nat /\ DOMAIN s = 1 .. Len(s)
        /\ \A i \in DOMAIN s : s[i] \in CaptureSet(q, t)
    BY <1>2
  <1>5. Extents(s) BY <1>3, <1>4 DEF Extents
  <1> QED BY <1>5 DEF s, t

\* Setting up every buffer again, one after the other.
LEMMA SetupAllOK ==
  ASSUME text \in [Docs -> AllTexts], HlOK(hl, text), Len(order) \in Nat,
         \A i \in 1 .. Len(order) :
            order[i] \in Docs /\ shown[docEditor[order[i]]] \in Docs,
         NEW stale
  PROVE HlOK(SetupAll(stale), text)
  <1> DEFINE k == Len(order)
             d(i) == shown[docEditor[order[i]]]
             Again(h, i) == Setup(h, order[i], lang[order[i]], d(i), text[d(i)], order[i] \in stale)
             Is(f) == f = [i \in 0 .. k |-> IF i = 0 THEN hl ELSE Again(f[i - 1], i)]
             f == CHOOSE g : Is(g)
             Upto(n, g) == g[0] = hl /\ \A i \in 1 .. n : g[i] = Again(g[i - 1], i)
             E == {n \in Nat : n <= k => \E g : Upto(n, g)}
  <1>0. k \in Nat OBVIOUS
  <1>1. SetupAll(stale) = f[k] BY DEF SetupAll
  <1>2. \A h : \A i \in 1 .. k : HlOK(h, text) => HlOK(Again(h, i), text)
    <2> SUFFICES ASSUME NEW h, NEW i \in 1 .. k, HlOK(h, text) PROVE HlOK(Again(h, i), text)
      OBVIOUS
    <2>1. order[i] \in Docs /\ d(i) \in Docs OBVIOUS
    <2> HIDE DEF d
    <2> QED BY <2>1, SetupOK, CapturesAreExtents
  <1> HIDE DEF Again, k, f
  <1>3. 0 \in E
    <2> DEFINE g == [i \in 0 .. 0 |-> hl]
    <2>1. g[0] = hl /\ \A i \in 1 .. 0 : FALSE OBVIOUS
    <2> HIDE DEF g
    <2> QED BY <2>1
  <1>4. ASSUME NEW n \in Nat, n \in E PROVE n + 1 \in E
    <2> SUFFICES ASSUME n + 1 <= k PROVE \E g : Upto(n + 1, g) OBVIOUS
    <2>1. PICK g : Upto(n, g) BY <1>0, <1>4
    <2> DEFINE h == [i \in 0 .. n + 1 |-> IF i = n + 1 THEN Again(g[n], n + 1) ELSE g[i]]
    <2>2. h[0] = hl BY <2>1
    <2>3. ASSUME NEW i \in 1 .. n + 1 PROVE h[i] = Again(h[i - 1], i)
      <3>1. i - 1 \in 0 .. n + 1 /\ i - 1 # n + 1 /\ i \in 0 .. n + 1 OBVIOUS
      <3>2. h[i - 1] = g[i - 1] BY <3>1
      <3>3. CASE i = n + 1
        <4>1. h[i] = Again(g[n], n + 1) /\ i - 1 = n BY <3>1, <3>3
        <4> HIDE DEF h
        <4> QED BY <3>2, <3>3, <4>1
      <3>4. CASE i # n + 1
        <4>1. i \in 1 .. n /\ h[i] = g[i] BY <3>1, <3>4
        <4> HIDE DEF h
        <4> QED BY <2>1, <3>2, <4>1
      <3> QED BY <3>3, <3>4
    <2> HIDE DEF h
    <2>4. Upto(n + 1, h) BY <2>2, <2>3
    <2> QED BY <2>4
  <1> HIDE DEF E
  <1>5. k \in E BY <1>0, <1>3, <1>4, InductionSet
  <1>6. PICK g : Upto(k, g) BY <1>0, <1>5 DEF E
  <1>7. \E x : Is(x)
    <2> DEFINE h == [i \in 0 .. k |-> g[i]]
    <2>1. ASSUME NEW i \in 0 .. k PROVE g[i] = IF i = 0 THEN hl ELSE Again(h[i - 1], i)
      <3>1. CASE i = 0 BY <1>6, <3>1
      <3>2. CASE i # 0
        <4>1. i \in 1 .. k /\ i - 1 \in 0 .. k BY <1>0, <3>2
        <4>2. h[i - 1] = g[i - 1] BY <4>1
        <4> HIDE DEF h
        <4> QED BY <1>6, <3>2, <4>1, <4>2
      <3> QED BY <3>1, <3>2
    <2>2. Is(h) BY <2>1
    <2> QED BY <2>2
  <1>8. Is(f) BY <1>7 DEF f
  <1>9. f[0] = hl /\ \A i \in 1 .. k : f[i] = Again(f[i - 1], i)
    <2>1. 0 \in 0 .. k BY <1>0
    <2>2. \A i \in 1 .. k : i \in 0 .. k /\ i # 0 BY <1>0
    <2> QED BY <1>8, <2>1, <2>2
  <1> DEFINE S == {n \in Nat : n <= k => HlOK(f[n], text)}
  <1>10. 0 \in S BY <1>9
  <1>11. ASSUME NEW n \in Nat, n \in S PROVE n + 1 \in S
    <2> SUFFICES ASSUME n + 1 <= k PROVE HlOK(f[n + 1], text) OBVIOUS
    <2>1. n + 1 \in 1 .. k /\ (n + 1) - 1 = n /\ n <= k BY <1>0
    <2>2. HlOK(f[n], text) BY <1>11, <2>1
    <2>3. f[n + 1] = Again(f[n], n + 1) BY <1>9, <2>1
    <2> QED BY <1>2, <2>1, <2>2, <2>3
  <1> HIDE DEF S
  <1>12. k \in S BY <1>0, <1>10, <1>11, InductionSet
  <1> QED BY <1>0, <1>1, <1>12 DEF S

------------------------------------------------------------------------------
(* The inductive invariant and the commands.                               *)

\* The buffer list holds every buffer once, and only those attached once.
OrderOK(list, opened) ==
    /\ list \in Seq(Docs) /\ Len(list) >= 1 /\ IsInjective(list)
    /\ ToSet(list) \subseteq opened

\* The inductive invariant.
HighlightInv ==
    /\ text \in [Docs -> AllTexts]
    /\ shown \in [Editors -> Docs] /\ current \in Editors
    /\ DOMAIN docEditor \subseteq Docs /\ docEditor \in [DOMAIN docEditor -> Editors]
    /\ OrderOK(order, DOMAIN docEditor)
    /\ HlOK(hl, text)

\* The buffer list, when a buffer is opened and when one is killed.
LEMMA OrderElements ==
  ASSUME NEW list, NEW opened, OrderOK(list, opened)
  PROVE /\ Len(list) \in Nat
        /\ \A i \in 1 .. Len(list) : list[i] \in opened /\ list[i] \in Docs
  BY DEF OrderOK, ToSet

LEMMA OrderPushed ==
  ASSUME NEW list, NEW opened, OrderOK(list, opened), NEW b \in Docs, b \notin opened
  PROVE OrderOK(<<b>> \o list, opened \cup {b})
  <1> DEFINE l2 == <<b>> \o list
             n == Len(list)
  <1>1. list \in Seq(Docs) /\ IsInjective(list) /\ ToSet(list) \subseteq opened BY DEF OrderOK
  <1>2. n \in Nat BY <1>1
  <1>3. /\ l2 \in Seq(Docs) /\ Len(l2) = n + 1 /\ l2[1] = b
        /\ \A i \in 2 .. n + 1 : l2[i] = list[i - 1]
    BY <1>1
  <1> HIDE DEF l2
  <1>4. DOMAIN list = 1 .. n /\ DOMAIN l2 = 1 .. n + 1 BY <1>1, <1>3
  <1>5. \A i \in 1 .. n : list[i] \in opened BY <1>1, <1>4 DEF ToSet
  <1>6. \A i, j \in 1 .. n : list[i] = list[j] => i = j BY <1>1, <1>4 DEF IsInjective
  <1> HIDE DEF n
  <1>7. ASSUME NEW i \in 2 .. n + 1 PROVE i - 1 \in 1 .. n /\ l2[i] = list[i - 1]
    BY <1>2, <1>3
  <1>8. ASSUME NEW i \in 1 .. n + 1, NEW j \in 1 .. n + 1, l2[i] = l2[j] PROVE i = j
    <2>1. CASE i = 1 /\ j = 1 BY <2>1
    <2>2. CASE i = 1 /\ j # 1
      <3>1. j \in 2 .. n + 1 BY <1>2, <2>2
      <3> QED BY <1>3, <1>5, <1>7, <1>8, <2>2, <3>1
    <2>3. CASE i # 1 /\ j = 1
      <3>1. i \in 2 .. n + 1 BY <1>2, <2>3
      <3> QED BY <1>3, <1>5, <1>7, <1>8, <2>3, <3>1
    <2>4. CASE i # 1 /\ j # 1
      <3>1. i \in 2 .. n + 1 /\ j \in 2 .. n + 1 BY <1>2, <2>4
      <3>2. i - 1 = j - 1 BY <1>6, <1>7, <1>8, <3>1
      <3> QED BY <1>2, <3>2
    <2> QED BY <2>1, <2>2, <2>3, <2>4
  <1>9. IsInjective(l2) BY <1>4, <1>8 DEF IsInjective
  <1>10. ASSUME NEW i \in 1 .. n + 1 PROVE l2[i] \in opened \cup {b}
    <2>1. CASE i = 1 BY <1>3, <2>1
    <2>2. CASE i # 1
      <3>1. i \in 2 .. n + 1 BY <1>2, <2>2
      <3> QED BY <1>5, <1>7, <3>1
    <2> QED BY <2>1, <2>2
  <1>11. ToSet(l2) \subseteq opened \cup {b} BY <1>4, <1>10 DEF ToSet
  <1>12. Len(l2) >= 1 BY <1>2, <1>3
  <1> QED BY <1>3, <1>9, <1>11, <1>12 DEF OrderOK, l2

LEMMA OrderRemoved ==
  ASSUME NEW list, NEW opened, OrderOK(list, opened), NEW b, Len(list) > 1
  PROVE OrderOK(RemoveFirst(list, b), opened \ {b})
  <1> DEFINE l2 == RemoveFirst(list, b)
  <1>1. list \in Seq(Docs) /\ IsInjective(list) /\ ToSet(list) \subseteq opened BY DEF OrderOK
  <1>2. /\ l2 \in Seq(Docs) /\ ToSet(l2) = ToSet(list) \ {b} /\ IsInjective(l2)
        /\ b \in ToSet(list) => Len(l2) = Len(list) - 1
        /\ b \notin ToSet(list) => l2 = list
    BY <1>1, RemoveFirstElements
  <1> HIDE DEF l2
  <1>3. Len(list) \in Nat BY <1>1
  <1>4. Len(l2) >= 1 BY <1>2, <1>3
  <1> QED BY <1>1, <1>2, <1>4 DEF OrderOK, l2

\* The invariant holds at first, and every command keeps it.
LEMMA InitInv == HighlightInit => HighlightInv
  <1> SUFFICES ASSUME HighlightInit PROVE HighlightInv OBVIOUS
  <1> USE DEF HighlightInit
  <1>1. text \in [Docs -> AllTexts]
    <2>1. NoText \in AllTexts BY DEF AllTexts
    <2> QED BY <2>1
  <1>2. Scratch \in Docs BY DEF Docs
  <1>3. shown \in [Editors -> Docs] /\ current \in Editors BY <1>2
  <1>4. DOMAIN docEditor = {Scratch} /\ docEditor \in [DOMAIN docEditor -> Editors] BY <1>3
  <1>5. OrderOK(order, {Scratch})
    <2>1. /\ order \in Seq(Docs) /\ Len(order) = 1 /\ DOMAIN order = 1 .. 1
          /\ order[1] = Scratch
      BY <1>2
    <2>2. \A i \in 1 .. 1 : i = 1 OBVIOUS
    <2> QED BY <2>1, <2>2 DEF OrderOK, IsInjective, ToSet
  <1>6. HlOK(hl, text)
    <2>1. /\ hl.state = [b \in Docs |-> Absent]
          /\ hl.live = [parsers |-> 0, queries |-> 0, trees |-> 0]
          /\ hl.styles = [b \in Docs |-> <<>>] /\ hl.drawn = [b \in Docs |-> Absent]
      BY DEF HlInit
    <2>2. Owners(hl.state) = {} /\ Queried(hl.state) = {} /\ Treed(hl.state) = {}
      BY <2>1 DEF Owners, Queried, Treed
    <2>3. Owned(hl.live, hl.state)
      <3>1. /\ Cardinality(Owners(hl.state)) = 0 /\ Cardinality(Queried(hl.state)) = 0
            /\ Cardinality(Treed(hl.state)) = 0
        BY <2>2, FS_EmptySet
      <3>2. hl.live.parsers = 0 /\ hl.live.queries = 0 /\ hl.live.trees = 0 BY <2>1
      <3> QED BY <3>1, <3>2 DEF Owned
    <2>4. StateOK(hl.live, hl.state) BY <2>1, <2>3 DEF StateOK
    <2>5. hl.live \in Counts BY <2>1 DEF Counts
    <2>6. Ruled(hl.styles, hl.drawn, text) BY <2>1 DEF Ruled
    <2>7. DOMAIN hl.styles = Docs /\ hl.drawn \in [Docs -> Drawings \cup {Absent}] BY <2>1
    <2> QED BY <2>4, <2>5, <2>6, <2>7 DEF HlOK
  <1> QED BY <1>1, <1>2, <1>3, <1>4, <1>5, <1>6 DEF HighlightInv

LEMMA OpenStep ==
  ASSUME HighlightInv, NEW b \in Bufs, Open(b) PROVE HighlightInv'
  <1> USE DEF HighlightInv
  <1>1. b \in Docs /\ b \notin DOMAIN docEditor BY DEF Open, Opened, Docs
  <1>2. PICK l \in Languages[b], t \in Texts[b] :
           /\ text' = [text EXCEPT ![b] = t]
           /\ hl' = Setup(NewText(hl, b, t), b, l, b, t, FALSE)
    BY DEF Open
  <1>3. t \in AllTexts BY DEF AllTexts
  <1>4. text' \in [Docs -> AllTexts] /\ text'[b] = t BY <1>1, <1>2, <1>3
  <1>5. HlOK(NewText(hl, b, t), text') BY <1>1, <1>2, <1>3, TextOK
  <1>6. HlOK(hl', text') BY <1>1, <1>2, <1>4, <1>5, SetupOK, CapturesAreExtents
  <1>7. shown' \in [Editors -> Docs] /\ current' \in Editors BY <1>1 DEF Open
  <1>8. /\ docEditor' = [d \in DOMAIN docEditor \cup {b} |->
                            IF d = b THEN current ELSE docEditor[d]]
        /\ order' = <<b>> \o order
    BY DEF Open
  <1>9. DOMAIN docEditor' = DOMAIN docEditor \cup {b} /\ docEditor' \in [DOMAIN docEditor' -> Editors]
    BY <1>8
  <1>10. OrderOK(order', DOMAIN docEditor') BY <1>1, <1>8, <1>9, OrderPushed
  <1>11. DOMAIN docEditor' \subseteq Docs BY <1>1, <1>9
  <1> QED BY <1>4, <1>6, <1>7, <1>9, <1>10, <1>11

LEMMA SwitchStep ==
  ASSUME HighlightInv, NEW b \in Docs, SwitchToBuffer(b) PROVE HighlightInv'
  <1> USE DEF HighlightInv
  <1>1. PICK stale \in BOOLEAN : hl' = Reparse(hl, b, b, text[b], stale)
    BY DEF SwitchToBuffer, Attach
  <1>2. HlOK(hl', text) BY <1>1, ReparseOK, CapturesAreExtents
  <1>3. /\ shown' = [shown EXCEPT ![current] = b] /\ docEditor' = [docEditor EXCEPT ![b] = current]
        /\ text' = text /\ order' = order /\ current' = current
    BY DEF SwitchToBuffer, Attach
  <1>4. shown' \in [Editors -> Docs] BY <1>3
  <1>5. DOMAIN docEditor' = DOMAIN docEditor /\ docEditor' \in [DOMAIN docEditor -> Editors]
    BY <1>3
  <1> QED BY <1>2, <1>3, <1>4, <1>5

LEMMA OtherStep == ASSUME HighlightInv, OtherWindow PROVE HighlightInv'
  <1>1. /\ UNCHANGED <<text, order, shown, docEditor, hl>> /\ current' \in Editors
    BY DEF OtherWindow
  <1> QED BY <1>1 DEF HighlightInv

LEMMA TextStep == ASSUME HighlightInv, SetText PROVE HighlightInv'
  <1> USE DEF HighlightInv
  <1> DEFINE b == shown[current]
  <1>1. b \in Docs /\ b \in Bufs BY DEF SetText
  <1>2. PICK t \in Texts[b] : text' = [text EXCEPT ![b] = t] /\ hl' = NewText(hl, b, t)
    BY DEF SetText
  <1>3. UNCHANGED <<order, shown, current, docEditor>> BY DEF SetText
  <1> HIDE DEF b
  <1>4. t \in AllTexts BY <1>1 DEF AllTexts
  <1>5. text' \in [Docs -> AllTexts] BY <1>1, <1>2, <1>4
  <1>6. HlOK(hl', text') BY <1>1, <1>2, <1>4, TextOK
  <1> QED BY <1>3, <1>5, <1>6

LEMMA TickStep == ASSUME HighlightInv, Tick PROVE HighlightInv'
  <1> USE DEF HighlightInv
  <1> DEFINE b == shown[current]
  <1>1. b \in Docs OBVIOUS
  <1>2. PICK stale \in BOOLEAN :
           hl' = SetVersion(Reparse(hl, b, b, text[b], stale), b, text[b].length)
    BY DEF Tick
  <1>3. UNCHANGED <<text, order, shown, current, docEditor>> /\ hl.state[b] # Absent BY DEF Tick
  <1> HIDE DEF b
  <1> DEFINE g == Reparse(hl, b, b, text[b], stale)
  <1>4. HlOK(g, text) /\ g.state[b] # Absent BY <1>1, <1>3, ReparseOK, CapturesAreExtents
  <1>5. text[b].length \in Int BY <1>1, KnownText DEF IsText
  <1> HIDE DEF g
  <1>6. HlOK(SetVersion(g, b, text[b].length), text) BY <1>1, <1>4, <1>5, VersionOK
  <1> QED BY <1>2, <1>3, <1>6 DEF g

LEMMA ThemeStep == ASSUME HighlightInv, Theme PROVE HighlightInv'
  <1> USE DEF HighlightInv
  <1>1. PICK stale \in SUBSET Bufs : hl' = SetupAll(stale) BY DEF Theme
  <1>2. UNCHANGED <<text, order, shown, current, docEditor>> BY DEF Theme
  <1>3. Len(order) \in Nat /\ \A i \in 1 .. Len(order) : order[i] \in DOMAIN docEditor /\ order[i] \in Docs
    BY OrderElements
  <1>4. \A i \in 1 .. Len(order) : shown[docEditor[order[i]]] \in Docs BY <1>3
  <1>5. HlOK(SetupAll(stale), text) BY <1>3, <1>4, SetupAllOK
  <1> QED BY <1>1, <1>2, <1>5

LEMMA KillStep == ASSUME HighlightInv, Kill PROVE HighlightInv'
  <1> USE DEF HighlightInv
  <1> DEFINE b == shown[current]
             rest == RemoveFirst(order, b)
             next == rest[1]
  <1>1. PICK stale \in BOOLEAN :
           hl' = Cleanup(Reparse(hl, next, next, text[next], stale), b)
    BY DEF Kill
  <1>2. /\ Len(order) > 1 /\ order' = rest /\ shown' = [shown EXCEPT ![current] = next]
        /\ docEditor' = [d \in DOMAIN docEditor \ {b} |->
                            IF d = next THEN current ELSE docEditor[d]]
        /\ text' = text /\ current' = current
    BY DEF Kill
  <1>3. b \in Docs OBVIOUS
  <1> HIDE DEF b
  <1>4. OrderOK(rest, DOMAIN docEditor \ {b}) BY <1>2, OrderRemoved
  <1> HIDE DEF rest
  <1>5. next \in Docs
    <2>1. Len(rest) >= 1 BY <1>4 DEF OrderOK
    <2>2. Len(rest) \in Nat /\ \A i \in 1 .. Len(rest) : rest[i] \in Docs BY <1>4, OrderElements
    <2>3. 1 \in 1 .. Len(rest) BY <2>1, <2>2
    <2> QED BY <2>2, <2>3
  <1> HIDE DEF next
  <1>6. HlOK(Reparse(hl, next, next, text[next], stale), text)
    BY <1>5, ReparseOK, CapturesAreExtents
  <1>7. HlOK(hl', text) BY <1>1, <1>3, <1>6, CleanupOK
  <1>8. DOMAIN docEditor' = DOMAIN docEditor \ {b} /\ docEditor' \in [DOMAIN docEditor' -> Editors]
    BY <1>2
  <1>9. shown' \in [Editors -> Docs] BY <1>2, <1>5
  <1> QED BY <1>2, <1>4, <1>7, <1>8, <1>9

LEMMA HighlightStep == HighlightInv /\ [HighlightNext]_highlightVars => HighlightInv'
  <1> SUFFICES ASSUME HighlightInv, [HighlightNext]_highlightVars PROVE HighlightInv' OBVIOUS
  <1>1. CASE Tick BY <1>1, TickStep
  <1>2. ASSUME NEW b \in Bufs, Open(b) PROVE HighlightInv' BY <1>2, OpenStep
  <1>3. ASSUME NEW b \in Docs, SwitchToBuffer(b) PROVE HighlightInv' BY <1>3, SwitchStep
  <1>4. CASE OtherWindow BY <1>4, OtherStep
  <1>5. CASE SetText BY <1>5, TextStep
  <1>6. CASE Theme BY <1>6, ThemeStep
  <1>7. CASE Kill BY <1>7, KillStep
  <1>8. CASE UNCHANGED highlightVars BY <1>8 DEF highlightVars, HighlightInv
  <1> QED BY <1>1, <1>2, <1>3, <1>4, <1>5, <1>6, <1>7, <1>8 DEF HighlightNext, Command

\* The inductive invariant holds throughout.
LEMMA HighlightInvAlways == HighlightSpec => []HighlightInv
  BY InitInv, HighlightStep, PTL DEF HighlightSpec

\* HandlesOwned: the library holds exactly the parsers, queries and trees that the
\* states of the buffers refer to, whatever buffers are opened, shown, edited and
\* killed, and whichever queries compile (treesitter.ss:318-363).
THEOREM HandlesCorrect == HighlightSpec => []HandlesOwned
  <1>1. HighlightInv => HandlesOwned
    <2> SUFFICES ASSUME HighlightInv PROVE HandlesOwned OBVIOUS
    <2> DEFINE owners == {b \in Docs : hl.state[b] # Absent}
    <2>1. Owned(hl.live, hl.state) BY DEF HighlightInv, HlOK, StateOK
    <2>2. owners = Owners(hl.state) BY DEF Owners
    <2>3. /\ {b \in owners : hl.state[b].parsed # NoTree} = Treed(hl.state)
          /\ {b \in owners : hl.state[b].name \in Compiled} = Queried(hl.state)
      BY DEF Treed, Queried
    <2> HIDE DEF owners
    <2> QED BY <2>1, <2>2, <2>3 DEF HandlesOwned, Owned, owners
  <1> QED BY <1>1, HighlightInvAlways, PTL

\* DrawnByRule: every document drawn has the style of the rule at every byte, for
\* texts of any length, any number of captures, and whichever tree the parser kept
\* (treesitter.ss:260-287).
THEOREM DrawnCorrect == HighlightSpec => []DrawnByRule
  <1>1. HighlightInv => DrawnByRule
    <2> SUFFICES ASSUME HighlightInv, NEW b \in Drawn
        PROVE LET captures == Captures[hl.drawn[b].name][hl.drawn[b].parsed] IN
              hl.styles[b] = [p \in 0 .. text[b].length - 1 |-> StyleByRule(captures, p)]
      BY DEF DrawnByRule
    <2>1. Ruled(hl.styles, hl.drawn, text) BY DEF HighlightInv, HlOK
    <2>2. b \in Docs /\ hl.drawn[b] # Absent BY DEF Drawn
    <2>3. hl.styles[b] = ByRule(hl.drawn[b], text[b].length) BY <2>1, <2>2 DEF Ruled
    <2> QED BY <2>3 DEF ByRule
  <1> QED BY <1>1, HighlightInvAlways, PTL

------------------------------------------------------------------------------
(* Comments and strings.                                                   *)

\* The pattern k of a query captures a node with this role at this place.
CapturesRole(query, k, role, place) == role \in query[k].roles /\ place \in query[k].places

\* Some pattern captures it with the style of its role, and so do the patterns
\* before that one, if they capture it.
ShownBy(query, role) ==
    \A place \in Places : \E k \in 1 .. Len(query) :
        /\ CapturesRole(query, k, role, place)
        /\ \A m \in 1 .. k : CapturesRole(query, m, role, place) => StyleOf(query[m].capture) = role

\* The styles of what prose is captured as.
LEMMA StyleIs ==
  ASSUME NEW style \in DOMAIN Styled, NEW c, c \in Styled[style],
         \A x \in DOMAIN Styled : c \in Styled[x] => x = style
  PROVE StyleOf(c) = style
  BY DEF StyleOf

LEMMA ProseStyles ==
  /\ StyleOf("comment") = "comment"
  /\ StyleOf("string") = "string"
  /\ StyleOf("string.special.key") = "string"
  <1>1. \A x \in DOMAIN Styled : "comment" \in Styled[x] => x = "comment" BY DEF Styled
  <1>2. \A x \in DOMAIN Styled : "string" \in Styled[x] => x = "string" BY DEF Styled
  <1>3. \A x \in DOMAIN Styled : "string.special.key" \in Styled[x] => x = "string" BY DEF Styled
  <1>4. /\ "comment" \in DOMAIN Styled /\ "comment" \in Styled["comment"]
        /\ "string" \in DOMAIN Styled /\ "string" \in Styled["string"]
        /\ "string.special.key" \in Styled["string"]
    BY DEF Styled
  <1> QED BY <1>1, <1>2, <1>3, <1>4, StyleIs

\* Pattern k captures the role at every place, under its own name, and no
\* pattern before it has the role.
First(query, role, k) ==
    /\ k \in 1 .. Len(query)
    /\ query[k].roles = {role} /\ query[k].places = Places /\ query[k].capture = role
    /\ \A m \in 1 .. k - 1 : role \notin query[m].roles

\* Such a pattern shows the role.
LEMMA ShownFirst ==
  ASSUME NEW query, NEW role \in {"comment", "string"}, NEW k, First(query, role, k)
  PROVE ShownBy(query, role)
  <1> SUFFICES ASSUME NEW place \in Places
               PROVE \E n \in 1 .. Len(query) :
                        /\ CapturesRole(query, n, role, place)
                        /\ \A m \in 1 .. n : CapturesRole(query, m, role, place) =>
                                               StyleOf(query[m].capture) = role
    BY DEF ShownBy
  <1>1. k \in 1 .. Len(query) BY DEF First
  <1>2. \A m \in 1 .. k : m = k \/ m \in 1 .. k - 1 BY <1>1
  <1>3. \A m \in 1 .. k - 1 : ~ CapturesRole(query, m, role, place) BY DEF First, CapturesRole
  <1>4. CapturesRole(query, k, role, place) BY DEF First, CapturesRole
  <1>5. StyleOf(query[k].capture) = role BY ProseStyles DEF First
  <1> QED BY <1>1, <1>2, <1>3, <1>4, <1>5

\* The queries built in.
LEMMA QueriesShow ==
  \A name \in Grammars \ {"cpp"} :
     ShownBy(Queries[name], "comment") /\ ShownBy(Queries[name], "string")
  <1>1. First(Bash, "comment", 5) /\ First(Bash, "string", 1) BY DEF First, Bash, Each, In
  <1>2. First(C, "comment", 15) /\ First(C, "string", 6) BY DEF First, C, Each, In
  <1>3. First(Css, "comment", 1) /\ First(Css, "string", 11) BY DEF First, Css, Each, In
  <1>4. First(Go, "comment", 15) /\ First(Go, "string", 11) BY DEF First, Go, Each, In
  <1>5. First(Html, "comment", 6) /\ First(Html, "string", 5) BY DEF First, Html, Each, In
  <1>6. First(Java, "comment", 15) /\ First(Java, "string", 12) BY DEF First, Java, Each, In
  <1>7. First(JavaScript, "comment", 13) /\ First(JavaScript, "string", 14) BY DEF First, JavaScript, Each, In
  <1>8. First(Lua, "comment", 29) /\ First(Lua, "string", 32)
    <2>1. First(Lua, "comment", 29) BY DEF First, Lua, Each, In
    <2>2. First(Lua, "string", 32) BY DEF First, Lua, Each, In
    <2> QED BY <2>1, <2>2
  <1>9. First(Python, "comment", 14) /\ First(Python, "string", 15) BY DEF First, Python, Each, In
  <1>10. First(Ruby, "comment", 26) /\ First(Ruby, "string", 18)
    <2>1. First(Ruby, "comment", 26) BY DEF First, Ruby, Each, In
    <2>2. First(Ruby, "string", 18) BY DEF First, Ruby, Each, In
    <2> QED BY <2>1, <2>2
  <1>11. First(Rust, "comment", 12) /\ First(Rust, "string", 21) BY DEF First, Rust, Each, In
  <1>12. First(Scheme, "comment", 13) /\ First(Scheme, "string", 5) BY DEF First, Scheme, Each, In
  <1>13. First(Json, "comment", 6) BY DEF First, Json, Each, In
  <1>14. ShownBy(Json, "string")
    <2> SUFFICES ASSUME NEW place \in Places
                 PROVE /\ 2 \in 1 .. Len(Json) /\ CapturesRole(Json, 2, "string", place)
                       /\ \A m \in 1 .. 2 : CapturesRole(Json, m, "string", place) =>
                                              StyleOf(Json[m].capture) = "string"
      BY DEF ShownBy
    <2>1. /\ Len(Json) = 6 /\ Json[2].roles = {"string"} /\ Json[2].places = Places
          /\ Json[1].capture = "string.special.key" /\ Json[2].capture = "string"
      BY DEF Json, Each, In
    <2>2. \A m \in 1 .. 2 : m = 1 \/ m = 2 OBVIOUS
    <2> QED BY <2>1, <2>2, ProseStyles DEF CapturesRole
  <1> DEFINE Shows(q) == ShownBy(q, "comment") /\ ShownBy(q, "string")
  <1>15. Shows(Bash) /\ Shows(C) /\ Shows(Css) /\ Shows(Go) /\ Shows(Html) /\ Shows(Java)
       /\ Shows(JavaScript) /\ Shows(Lua) /\ Shows(Python) /\ Shows(Ruby) /\ Shows(Rust) /\ Shows(Scheme) /\ Shows(Json)
    BY <1>1, <1>2, <1>3, <1>4, <1>5, <1>6, <1>7, <1>8, <1>9, <1>10, <1>11, <1>12, <1>13, <1>14, ShownFirst
  <1> HIDE DEF Shows
  <1>16. \A name \in Grammars \ {"cpp"} : Shows(Queries[name])
    BY <1>15 DEF Queries, Grammars
  <1> QED BY <1>16 DEF Shows

\* The captures s are all those of the patterns q, in order.
Returned(q, t, s) ==
    /\ s \in Seq(CaptureSet(q, t))
    /\ Ordered(s, InOrder(q, t))
    /\ \A k, i : \A x : CaptureIs(q, t, x, k, i) => Occurs(x, s)
    /\ \A x : Occurs(x, s) => \E k, i : CaptureIs(q, t, x, k, i)

\* When not all captures fit, there are as many as fit.
LEMMA AllReturned ==
  ASSUME NEW name \in Grammars, NEW t \in AllTexts, Len(Captures[name][t]) < Limit
  PROVE Returned(Query(name), t, Captures[name][t])
  <1> DEFINE q == Query(name)
             all == AllCaptures(q, t)
             s == Captures[name][t]
  <1>1. /\ Len(all) \in Nat /\ s \in Seq(CaptureSet(q, t))
        /\ Len(s) = Least(Limit, Len(all)) /\ \A i \in 1 .. Len(s) : s[i] = all[i]
    BY CapturesPrefix
  <1>2. Limit \in Nat BY HighlightAssumption
  <1>3. IsQuery(q) /\ IsText(t) BY QueriesAre, KnownText
  <1> HIDE DEF q
  <1>4. Ordered(all, InOrder(q, t)) /\ \A x : Occurs(x, all) <=> \E k, i : CaptureIs(q, t, x, k, i)
    BY <1>3, AllCapturesInOrder
  <1> HIDE DEF all, s
  <1>5. Len(s) = Len(all)
    <2>1. Len(s) < Limit BY DEF s
    <2> QED BY <1>1, <1>2, <2>1 DEF Least
  <1>6. Ordered(s, InOrder(q, t)) BY <1>1, <1>4, <1>5 DEF Ordered
  <1>7. \A x : Occurs(x, s) <=> Occurs(x, all) BY <1>1, <1>5 DEF Occurs
  <1> QED BY <1>1, <1>4, <1>6, <1>7 DEF q, s, Returned

\* A node with the role that nothing else overlaps has its style by the rule.
LEMMA ShownByRule ==
  ASSUME NEW q, NEW t, IsText(t), NEW s, Returned(q, t, s),
         Len(q) \in Nat,
         NEW role \in {"comment", "string"}, ShownBy(q, role),
         NEW i \in 1 .. Len(t.nodes), t.nodes[i].role = role, t.nodes[i].place \in Places,
         Outermost(t, i),
         NEW p \in t.nodes[i].start .. t.nodes[i].end - 1
  PROVE StyleByRule(s, p) = role
  <1> DEFINE N == Len(t.nodes)
             a == t.nodes[i].start
             e == t.nodes[i].end
             place == t.nodes[i].place
             L == Len(s)
  <1>1. a \in Nat /\ e \in Nat /\ a < e /\ N \in Nat /\ DOMAIN t.nodes = 1 .. N BY NodesOfText
  <1>0. /\ s \in Seq(CaptureSet(q, t)) /\ Ordered(s, InOrder(q, t))
        /\ \A k, j : \A x : CaptureIs(q, t, x, k, j) => Occurs(x, s)
        /\ \A x : Occurs(x, s) => \E k, j : CaptureIs(q, t, x, k, j)
    BY DEF Returned
  <1>2. L \in Nat /\ DOMAIN s = 1 .. L BY <1>0
  <1>3. PICK k \in 1 .. Len(q) :
           /\ CapturesRole(q, k, role, place)
           /\ \A m \in 1 .. k : CapturesRole(q, m, role, place) => StyleOf(q[m].capture) = role
    BY DEF ShownBy
  <1>4. \A m : Matches(q[m], t.nodes[i]) <=> CapturesRole(q, m, role, place) BY DEF Matches, CapturesRole
  <1> DEFINE x == CaptureOf(q, t, k, i)
  <1>5. CaptureIs(q, t, x, k, i) BY <1>3, <1>4 DEF CaptureIs
  <1> HIDE DEF x
  <1>6. PICK n \in 1 .. L : s[n] = x BY <1>0, <1>5 DEF Occurs
  <1> DEFINE T == {j \in 1 .. L : s[j].node = i}
  <1>7. x.node = i /\ x.pattern = k BY <1>5 DEF CaptureIs, CaptureOf
  <1>8. n \in T BY <1>6, <1>7
  <1>9. T \subseteq Nat BY <1>2
  <1> HIDE DEF T
  <1>10. PICK f \in T : \A j \in T : f <= j BY <1>8, <1>9, LeastElement
  <1>11. f \in 1 .. L /\ s[f].node = i /\ f <= n BY <1>8, <1>10 DEF T
  <1>12. \A j \in 1 .. L : Occurs(s[j], s) BY DEF Occurs
  <1>13. \A j \in 1 .. L : \E k2, i2 : CaptureIs(q, t, s[j], k2, i2) BY <1>0, <1>12
  <1>14. PICK k0, i0 : CaptureIs(q, t, s[f], k0, i0) BY <1>11, <1>13
  <1>15. i0 = i /\ s[f].start = a /\ s[f].pattern = k0 BY <1>11, <1>14 DEF CaptureIs, CaptureOf
  <1>16. k0 \in 1 .. k
    <2>1. k0 \in 1 .. Len(q) BY <1>14 DEF CaptureIs
    <2>2. CASE f = n
      <3>1. k0 = k BY <1>6, <1>7, <1>15, <2>2
      <3> QED BY <1>3, <3>1
    <2>3. CASE f # n
      <3>1. f < n /\ f \in 1 .. Len(s) /\ n \in 1 .. Len(s) BY <1>2, <1>11, <2>3
      <3>2. <<s[f], s[n]>> \in InOrder(q, t) BY <1>0, <3>1 DEF Ordered
      <3>3. Sooner(s[f], s[n]) BY <3>2 DEF InOrder
      <3>4. x.start = a BY <1>5 DEF CaptureIs, CaptureOf
      <3>5. s[n].start = a /\ s[n].pattern = k /\ s[n].node = i BY <1>6, <1>7, <3>4
      <3> HIDE DEF a
      <3>6. k0 <= k
        <4>1. k0 \in Int /\ k \in Int /\ i \in Int BY <1>3, <2>1
        <4> QED BY <1>1, <1>11, <1>15, <3>3, <3>5, <4>1 DEF Sooner
      <3> QED BY <1>3, <2>1, <3>6
    <2> QED BY <2>2, <2>3
  <1>17. s[f].name = q[k0].capture /\ s[f].end = e BY <1>14, <1>15 DEF CaptureIs, CaptureOf
  <1>18. StyleOf(s[f].name) = role
    <2>1. CapturesRole(q, k0, role, place) BY <1>4, <1>14, <1>15 DEF CaptureIs
    <2> QED BY <1>3, <1>16, <1>17, <2>1
  <1>19. role # Default BY DEF Default
  <1>20. ASSUME NEW j \in 1 .. f - 1 PROVE s[j].end <= a /\ s[j].end \in Nat
    <2>1. j \in 1 .. L /\ j < f BY <1>2, <1>11
    <2>2. PICK k2, j2 : CaptureIs(q, t, s[j], k2, j2) BY <1>13, <2>1
    <2>3. j2 \in 1 .. N /\ s[j].start = t.nodes[j2].start /\ s[j].node = j2
      <3>1. j2 \in 1 .. N BY <2>2 DEF CaptureIs
      <3>2. s[j].start = t.nodes[j2].start /\ s[j].node = j2 BY <2>2 DEF CaptureIs, CaptureOf
      <3> QED BY <3>1, <3>2
    <2>4. s[j].end = t.nodes[j2].end BY <2>2 DEF CaptureIs, CaptureOf
    <2>5. /\ t.nodes[j2].start \in Nat /\ t.nodes[j2].end \in Nat
      BY <2>3, NodesOfText
    <2>6. j2 # i
      <3>1. j \notin T BY <1>2, <1>9, <1>10, <1>11, <2>1
      <3> QED BY <2>1, <2>3, <3>1 DEF T
    <2>7. <<s[j], s[f]>> \in InOrder(q, t)
      <3>1. j \in 1 .. Len(s) /\ f \in 1 .. Len(s) BY <1>11, <2>1
      <3> QED BY <1>0, <2>1, <3>1 DEF Ordered
    <2>8. Sooner(s[j], s[f]) BY <2>7 DEF InOrder
    <2>9. t.nodes[j2].end <= a \/ t.nodes[j2].start > a BY <1>1, <2>3, <2>6 DEF Outermost
    <2> HIDE DEF a
    <2>10. s[j].start <= a BY <1>1, <1>15, <2>3, <2>5, <2>8 DEF Sooner
    <2>11. ~ (t.nodes[j2].start > a) BY <1>1, <2>3, <2>5, <2>10
    <2> QED BY <2>4, <2>5, <2>9, <2>11
  <1>21. Marks(s, f, p)
    <2>1. s[f].start <= p /\ p < s[f].end BY <1>1, <1>15, <1>17
    <2> QED BY <1>15, <1>18, <1>19, <1>20, <2>1 DEF Marks
  <1>22. \A j \in 1 .. f - 1 : ~ Marks(s, j, p)
    <2> SUFFICES ASSUME NEW j \in 1 .. f - 1, Marks(s, j, p) PROVE FALSE OBVIOUS
    <2>1. s[j].end <= a /\ s[j].end \in Nat /\ p < s[j].end BY <1>20 DEF Marks
    <2>2. a <= p /\ p \in Int BY <1>1
    <2> HIDE DEF a
    <2> QED BY <1>1, <2>1, <2>2
  <1>23. StyledAs(s, L, p, role) BY <1>11, <1>18, <1>21, <1>22 DEF StyledAs
  <1>24. Extents(s)
    <2>1. ASSUME NEW j \in 1 .. L PROVE s[j].start \in Nat /\ s[j].end \in Nat
      <3>1. PICK k2, j2 : CaptureIs(q, t, s[j], k2, j2) BY <1>13
      <3>2. j2 \in 1 .. N /\ s[j].start = t.nodes[j2].start
        BY <3>1 DEF CaptureIs, CaptureOf
      <3>3. s[j].end = t.nodes[j2].end BY <3>1 DEF CaptureIs, CaptureOf
      <3> QED BY <3>2, <3>3, NodesOfText
    <2> QED BY <1>2, <2>1 DEF Extents
  <1> QED BY <1>23, <1>24, StyledByRule

\* CommentsShown: with each of the queries built in that compile, but that of C++, a
\* comment or a string that nothing overlaps from outside is shown as one from end to end,
\* whatever patterns, captures and nodes there are besides
\* (support/treesitter_queries.c).
THEOREM CommentsCorrect == HighlightSpec => []CommentsShown
  <1>1. HighlightInv => CommentsShown
    <2> SUFFICES ASSUME HighlightInv, NEW b \in Drawn PROVE
          LET t == hl.drawn[b].parsed
              name == hl.drawn[b].name
          IN t = text[b] /\ name \in Compiled \ {"cpp"} /\ Len(Captures[name][t]) < Limit =>
             \A i \in DOMAIN t.nodes :
                 t.nodes[i].role \in {"comment", "string"} /\ Outermost(t, i) =>
                 \A p \in t.nodes[i].start .. t.nodes[i].end - 1 :
                     hl.styles[b][p] = t.nodes[i].role
      BY DEF CommentsShown
    <2> DEFINE d == hl.drawn[b]
               t == d.parsed
               name == d.name
    <2>1. b \in Docs /\ d # Absent BY DEF Drawn
    <2>2. d \in Drawings /\ hl.styles[b] = ByRule(d, text[b].length)
      BY <2>1 DEF HighlightInv, HlOK, Ruled
    <2> HIDE DEF d
    <2>3. name \in Grammars /\ t \in AllTexts BY <2>2 DEF Drawings
    <2> SUFFICES ASSUME t = text[b], name \in Compiled \ {"cpp"}, Len(Captures[name][t]) < Limit,
                        NEW i \in DOMAIN t.nodes,
                        t.nodes[i].role \in {"comment", "string"}, Outermost(t, i),
                        NEW p \in t.nodes[i].start .. t.nodes[i].end - 1
                 PROVE hl.styles[b][p] = t.nodes[i].role
      BY DEF d
    <2> HIDE DEF t, name
    <2> DEFINE q == Query(name)
               s == Captures[name][t]
               role == t.nodes[i].role
    <2>4. IsText(t) BY <2>3, KnownText
    <2>5. /\ t.length \in Nat /\ DOMAIN t.nodes = 1 .. Len(t.nodes)
          /\ t.nodes[i].start \in Nat /\ t.nodes[i].end \in Nat /\ t.nodes[i].end <= t.length
      BY <2>4, NodesOfText
    <2>6. t.nodes[i].place \in Places
      <3> DEFINE Nodes == [role : STRING, place : Places, start : Nat, end : Nat]
                 ns == t.nodes
      <3>1. ns \in Seq(Nodes) BY <2>4 DEF IsText
      <3>2. i \in 1 .. Len(ns) BY <2>5
      <3> HIDE DEF Nodes, ns
      <3>3. ns[i] \in Nodes BY <3>1, <3>2, ElementOfSeq
      <3>4. ns[i].place \in Places BY <3>3 DEF Nodes
      <3> QED BY <3>4 DEF ns
    <2>7. ShownBy(q, role) /\ Len(q) \in Nat BY <2>3, QueriesShow, QueriesAre DEF IsQuery, Query
    <2>8. Returned(q, t, s) BY <2>3, AllReturned
    <2>12. role \in {"comment", "string"} /\ t.nodes[i].role = role /\ i \in 1 .. Len(t.nodes)
      BY <2>5
    <2> HIDE DEF q, s, role
    <2>9. StyleByRule(s, p) = role BY <2>4, <2>5, <2>6, <2>7, <2>8, <2>12, ShownByRule
    <2>10. p \in 0 .. text[b].length - 1 BY <2>5
    <2>11. ByRule(d, text[b].length)[p] = StyleByRule(Captures[name][t], p)
      BY <2>10 DEF ByRule, name, t
    <2> QED BY <2>2, <2>9, <2>11 DEF s, role
  <1> QED BY <1>1, HighlightInvAlways, PTL
==============================================================================
