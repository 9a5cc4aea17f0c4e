# Verification of jerboa-emacs

TLA+ models of the parts of jerboa-emacs in which order matters, TLC runs that
check them on small instances, and TLAPS proofs of what matters most for every
size. Paths are relative to the root of the repository; `async.ss`, `qt/echo.ss`
and so on are under `src/jerboa-emacs/`, and `support/` holds the C shims.

## 1. The system

jerboa-emacs is an Emacs-like editor in Chez Scheme with two front ends, one on
Qt with QScintilla and one for the terminal. Text, undo and selections live in
the Scintilla widgets. One thread (the primordial, "UI" thread) runs every
command, callback and timer; other threads only run blocking work, or read the
output of a child process.

Two things make it hard. *The UI thread nests*: a question to the user blocks
in a loop of its own (`qt/echo.ss`) that processes Qt events **and runs the
master timer**, whose tasks and queued actions may ask a question again. Nothing
preempts the UI thread, and yet a handler can find, after a prompt, that other
handlers have run to their end below it. (Only after a prompt: Qt's callbacks are
put on a queue by `vendor/qt_chez_shim.c` and called where it is drained, by the
event loop and the loops of the prompts, so that processing Qt's events alone calls
no handler.) And *C objects live below it*: screens,
rings, parsers, descriptors and children that Scheme creates and deletes by hand,
with callbacks and other threads in between.

### Inventory

| Component | State | Operations | Interacts with |
|---|---|---|---|
| UI action queue (`async.ss` 160-361) | channel `*ui-queue*` of 4096 | `spawn-worker`, `async-process!`, `-stream!`, `-read-file!`, `-write-file!`, `-eval!`; `ui-queue-push!` from any thread, `ui-queue-drain!` on the UI thread | drained by the master timer; an action may prompt |
| Scheduler (`async.ss` 213-266) | `*scheduled-tasks*`: name, thunk, interval, last run | `schedule-periodic!`, `cancel-periodic!`, `master-timer-tick!` | called by the Qt timer and by every minibuffer loop |
| Inline minibuffer (`qt/echo.ss`) | line edit, label, list, `*mb-result*`, seven mode variables, `*minibuffer-active?*` | five readers; type, Tab, Enter, Escape | runs the timer; guarded by the key handler |
| Qt frame (`qt/window.ss`) | split tree, flat list, current index, `*editor-window-map*`, the Qt widgets | split below/right, delete, delete others, other window | commands, terminal hook, winner mode |
| Winner mode (`qt/commands-core.ss` 30-157) | `*winner-history*`, `*winner-future*` | save, undo, redo | rebuilds through the Qt frame's operations |
| Terminal front end's frame (`window.ss`) | split tree, flat list, boxes in cells, biases | the same, resize, enlarge and shrink | `app.ss` draws from the boxes |
| Terminal wrapper (`support/vterm_shim.c`) | libvterm screen, damage flags, scrollback ring | write, resize, texts, damage, scrollback | fed and drawn by the PTY poll of `qt/app.ss` (row cache, text before the screen, throttle) |
| Terminal processes (`terminal.ss`, `pty.sls`, `support/pty_shim.c`) | descriptor, child, reader thread and channel per terminal | start, read without blocking, reap, post, take, clean up | the PTY poll takes the messages; the kernel hands descriptor numbers out again |
| Blocking calls (`support/repl_shim.c`) | a buffer per thread; the set of active threads | capture a command, read or write a file, poll, sleep | Chez's collector, which waits for the active threads |
| Highlighting (`treesitter.ss`, `qt/highlight.ss`, `support/treesitter_*.c`) | parser, query and tree per buffer; `*doc-editor-map*`; style bytes per document | set up, reparse, draw captures, clean up | open, attach, theme and kill; a task notices edits |
| Engine evaluation (`async.ss` 549-635) | the current engine and its callbacks | start, tick, cancel | a task of the scheduler that cancels itself |
| Background services and helpers (`async.ss` 365-546, 637-1040) | caches in atoms, running flags, guardians | index, git, flycheck, parallel-*, futures | workers and the queue; the services are never started |
| Qt application (`qt/app.ss`) | key state, chord timer, row caches | key handler, timers, PTY polling, rendering | everything |
| LSP client (`qt/lsp-client.ss`) | process, request ids, pending callbacks, document versions | start, stop, request, drain | a 50 ms task; callbacks may prompt |
| IPC server (`ipc.ss`) | listening and client sockets, line buffer, path queue | tick, start, stop | a 100 ms task; opens files |
| Keymaps and key states (`core.ss`, `keymap.ss`, `qt/keymap.ss`) | keymaps, prefix keys | feed a key | the key handlers |
| Buffers, chat and debug protocols, Helm, Org, persistence, editing commands | see `PROJECT.json` | | |

The hard behaviours, and the properties that make each component right:

* **Queue**: workers race each other for a bounded channel, drains nest, and a
  full channel refuses actions silently. Each worker's actions must be run in
  order, none twice, and one that is lost must have been refused; what is in the
  channel must be run even though a prompt may never be answered.
* **Scheduler**: ticks nest in the middle of the map over the table, and the map
  then assigns the list it started from. Names must stay unique, no registration
  may be lost or revived (it can, see section 6), a guarded body must not be
  entered twice, and no task may starve.
* **Minibuffer**: all readers share one set of variables. No key may reach the
  editor below a prompt, nothing may be left on when the last reader has
  returned, every reader must return once it is answered, with its own answer.
* **Frames**: tree, list and widgets (or boxes) are changed by separate code in
  each operation and must agree after every sequence of operations.
* **Winner**: undo and redo do not rebuild the tree; they must at least bring
  back the buffers, and the two stacks must stay bounded.
* **Screen**: libvterm calls back in the middle of a resize, the window may get
  another height between feeding and drawing, and the poll draws only rows whose
  flag is set. No
  flag may be written outside its array, a row that is skipped must show what it
  has, a draw that is put off must come, and the ring must own its texts.
* **Terminal processes**: the reader learns of an exit in two steps while the
  child runs; descriptor numbers are used again, and the reader of a
  command that was killed may outlive it. A terminal must be told the output of its
  own command only, all that no such reader has read, and then its end; no
  descriptor may leak; the prompt must come back.
* **Blocking calls**: every way out of a call, also the failing ones, must pass
  the collector's rendezvous; a command that never ends must not block a
  collection; nothing but an error of its stream may cut an output short.
* **Highlighting**: C objects per buffer, editors shared by buffers, and captures
  that overlap. No object may leak or be deleted twice, and what is drawn must
  be what the queries say of the text.

`PROJECT.json` lists 39 hazards, each with its line and the properties that would
notice it.

## 2. Modules

| Module | Models | State and actions |
|---|---|---|
| `LossyFifo` | the promise of the queue | per worker: sent, got; may lose, never duplicates or overtakes |
| `UiQueue` | the queue and its drains | `phase`, `total`, `posted` per worker; `queue`; `stack` of the drains in progress. `Spawn`, `Return`, `Post` by workers; `Tick`, `NestedTick`, `Take`, `Prompt`, `Answer`, `Finish`, `DrainEnd` by the UI thread |
| `Scheduler` | the task table and its ticks | `tasks`, a set of registrations (their order in the list is not relied on: a map may run them in any order); `stack` of ticks with the table each one maps, flags `held`; `Schedule`, `Cancel`, `TickBegin`, `MapBegin`, `RunTask`, `TaskReturn`, `MapEnd`, `Prompt`, `Answer`, `Clock` |
| `Minibuffer` | the five readers | `loops`, the readers in progress, and one variable per variable or widget of `qt/echo.ss`; who calls a reader (`Key`, `ChordTimeout`, `TaskReads`), the loop (`EventsEnd`, `Turn`, `Return`) and the user (`Type`, `Tab`, `Enter`, `Descend`, `Escape`) |
| `SplitTree` | the split tree common to both front ends | operators only |
| `WindowList` | the promise of the window commands | an ordered list of windows, one selected |
| `QtFrame` | the Qt frame | one record `fr`: tree, list, buffers, editor map and widget tree; one function from frames to frames per handler |
| `Winner` | winner mode, extending `QtFrame` | `history`, `future`; the window commands with their save, `Undo`, `Redo` |
| `TuiFrame` | the terminal's frame and layout | the record `fr`: tree, list, biases, and the boxes, which every operation that lays out computes by `Layout` from the other parts; one function from frames to frames per operation |
| `BoundedLog` | the promise of a scrollback | a log that keeps the newest lines |
| `Scrollback` | the ring of `vterm_shim.c` | `lines`, `max_lines`, `count`, `head` as in the struct; `lost` remembers a leak |
| `Screen` | the rest of the wrapper and the poll that draws it, extending `Scrollback` | `screen` and `st` (JvtState) with one operator per function of the shim; `chunks` in the channel; `doc`, `ts`, `due` of the poll; the poll's parts `FollowSize`, `MoveLine` and `Resized`, `Batch`, `Scroll` and `Written`, `Flush`, `Draw`, `Done`; the user's `UseWindow` and `Kill` between polls, and `ResizeWindow` also within one |
| `Pty` | commands on pseudo-terminals | `command` per terminal; the kernel's `file` per descriptor and `proc` per child; where each `reader` is and its `channel`. `Write`, `Leave` by the child; the nine steps of `pty-reader-loop`, and `Terminate`, which may never come; `Start`, `Take`, `Kill`; `stolen` remembers what leftover readers have read |
| `Blocking` | the wrappers of blocking calls and the collector | `pc` per thread, `active` and `parked` threads, `gc`, the buffer's `cap` and `len`; one action per way into, through and out of a wrapper; a result says whether its stream had reported an error |
| `TsQueries` | the fourteen built-in queries, and the styles of captures | operators only |
| `Highlight` | the life of parsers, queries and trees, and drawing | `hl`: state per buffer, live C objects, styles of each document; `Open`, `SwitchToBuffer`, `OtherWindow`, `SetText`, `Theme`, `Kill`, and the `Tick` that reparses |

`MC*` modules give the constants values for TLC. `*_proofs` modules hold the
proofs: of the module of that name, `Screen_proofs` also those of `Scrollback`,
`Process_proofs` those of `Pty` and `Blocking`, `Periodic_proofs` those of
`Scheduler` and `Highlight` (what the periodic tasks do to the table and to the
documents), and `Frame_proofs` those of `QtFrame` and `Winner`. `Frame_proofs` and
`TuiFrame_proofs` share the lemmas of `SplitTree_proofs`, which also holds the
general ones about sums, sequences and induction. `PROJECT.json` maps every definition to the lines it stands for. Two
definitions that differ only in a name such as `Take` and `TakeNewest` are the
code and a plausible mistake in it, kept to show that the properties notice it.

Abstractions: an action of worker w is the pair of w and its number; a task's
thunk is the number of the call that registered it; texts, prompts and candidates
are the number of the reader they belong to; a window, its leaf, container and
editor are one number, and a split node and its QSplitter another; a line is a
value. `qt_widget_destroy` is `deleteLater`: the model lets the destruction happen
at once, which is what the event loop makes of it before the next command. A
chunk of output carries only whose it is (`Pty`) or that there is one (`Screen`);
what libvterm makes of it is any number of lines for the ring (`Scroll`) and any of the screens in `Contents`. A resize moves one row after the other (`MoveLine`) and reports the damage when all have moved: the shim's array of flags does not see the difference. A buffered output is a number of
bytes. A source text is the sequence of its syntax nodes with their extents, and
a node type is the role all queries of the language give it.

External and modelled only as far as the code uses them: libvterm (any rows, any
switch of screens, lines to and from the ring; it reports every row that
changed), the kernel (lowest free descriptor, waitpid, EAGAIN, EIO or end of file on a closed terminal, EBADF), `thread-terminate!` (it takes effect at any time or never), Chez's collector, the tree-sitter library (grammars and queries that fail to load or compile; order of captures; a parser may keep an old tree it is given unedited), Qt's splitters.

## 3. Runs

Ten runs pass. Deadlock is checked in all but three, where a bound on what the
user does is reached and nothing further need happen: `minibuffer` (calls of
readers), `pty` (commands) and `highlight` (commands of the user).

| Run | States | Bounds | What it shows |
|---|---|---|---|
| `ui_queue` | 14 377 | 3 workers, 2 lines, 2 places, batches of 2, 2 drains | order per worker, accounting, refinement of `LossyFifo`, delivery |
| `scheduler` | 89 312 | 2 tasks, 3 registrations, 2 clock values, 2 nested ticks | unique names, faithful table, guarded bodies, no starvation |
| `minibuffer` | 75 252 | 3 calls of any of 5 readers, nested 3 deep | keys ignored, modes cleared, own answer when alone, readers end |
| `qt_frame` | 150 110 | 5 windows ever made, 2 buffers | tree, list and widgets agree; no double destruction; refinement of `WindowList` |
| `winner` | 10 218 | 3 windows, 2 buffers, history of 2 | bounded history; buffers and selection restored |
| `tui_frame` | 18 920 | 4 windows, screens of 17x9 and 10x5, biases -1..1 | windows tile the screen, enlarging enlarges, refinement of `WindowList` |
| `screen` | 832 849 | heights 1 and 3, 2 texts, 5 contents, rings of 0 to 2, 1 chunk waiting | flags fit the rows, clean rows are as drawn, full-screen programs exact, damage drawn; the ring owns its texts and refines `BoundedLog` |
| `blocking` | 776 655 | 3 threads, first buffer of 2 bytes, outputs of up to 2 | no Scheme code beside the collector, results whole but for errors of the stream, collections run |
| `pty` | 171 111 | 2 terminals, 2 commands of 2 chunks, 2 descriptors, 1 retry | no leak; own output, complete but for what leftover readers read; prompt comes back |
| `highlight` | 213 201 | 2 files (any of 15 languages, and Python), 2 texts, 2 editors, 5 commands | no leak or double free, drawing follows the rule, comments and strings shown by the queries that compile |

Why the bounds are enough. *Queue*: two places and three workers reach full and
empty channels in every phase, a batch of two ends both by count and by emptiness,
and two drains are what nesting is about; for other sizes the safety results are
proved. *Scheduler*: two tasks of different intervals are one that runs while the
other is being mapped; three registrations allow a replacement and a
cancellation during one map; the clock starts late enough for a new task to be due.
*Minibuffer*: three readers give every triple of kinds, nested or one after the
other. *Frames*: four windows are the least with a split two levels below the root
and a sibling beside it, five give a second one; a roomy and a cramped screen
make the minimum sizes bite, an odd width makes the remainder matter. *Winner*:
three windows allow an undo that deletes two and a redo that makes two. For both
frames and winner mode the same properties are proved for any number of windows. The
bound on windows is on those ever made, so a run makes and deletes them in every
order until it is used up. *Screen*: with heights of one and three the screen grows and
shrinks by as many rows as the ring holds or more, and keeps one; the contents follow one
another with no row changed, one, two, and all; `ManyDirty` of 1 reaches both
ways of drawing; its safety is proved for other values. *Blocking*: a buffer of
two is filled by one byte, so an output of two bytes doubles it and one of one
byte just fits; an error may come at any byte; three threads allow one collecting, one parked and one in a call.
*Pty*: two commands in two terminals run beside each other, or after each other on
the same descriptor number, the second then beside the reader of the first; one retry of each kind reaches both ends of each loop;
its safety is proved for other values. *Highlight*: the two texts hold every kind
of overlap the queries produce (a node captured by two patterns, a node inside a
captured one, a capture without a style); of the languages, Scheme has no grammar and the query of Ruby does not compile; five commands open both files, move one
to another editor, edit it and theme or kill it. The editors of the windows are
interchangeable, so the run uses their symmetry; it checks no liveness.

Two more runs look for a counterexample and find one: section 6.

## 4. Fairness

* `UiQueue`: weak fairness of the UI thread's own steps (`Tick`, `NestedTick`,
  `Take`, `Finish`, `DrainEnd` together) and of `Post`. The Qt timer and the
  minibuffer loops call the master timer for ever, a callback that does not
  prompt ends, and a worker that has its result posts it. Nothing is assumed of
  the user (`Answer`) or of a blocking call (`Return`): `AllSettled` holds while
  a prompt is never answered.
* `Scheduler`: weak fairness of the timer's steps together, for the same reason.
* `Minibuffer`: weak fairness of the loop's own steps. The user need not answer;
  `AnswerEnds` starts from an answer in the box.
* `Screen`: weak fairness of `Poll` (the 50 ms task of the master timer) and of
  `Clock` (time passes). Nothing of the child or the user; in particular a hidden
  window may stay hidden.
* `Pty`: weak fairness of every reader's steps (its sleeps are bounded; `Terminate` is not among them) and of
  `Take` for every terminal (the timer). Nothing of the child: `CommandEnds`
  starts from a child that has exited.
* `Blocking`: weak fairness of `Park` and `Wake` (a thread that runs Scheme code
  notices a request; a sleep or a poll has a timeout) and of the collector.
  Nothing of the wrapped calls: a command may run for ever.
* The frames, winner mode, the ring and highlighting promise nothing in time.

Drains and ticks may nest only `MaxDepth` deep. The bound is on the prompts: none
is opened at the last level, so that below every prompt there is room for the
drain or tick its loop runs, and the bound blocks no step fairness asks for.

## 5. Proofs

Everything proved is under the named assumptions of the modules only: sizes are
natural numbers (the positive ones positive), `Scratch` is a buffer, streams are workers, guarded tasks
are tasks, `NULL` is no text, texts are lists of syntax nodes that are not empty and
come in order of their start, kinds are those of the five readers, and heights of a window are positive.

* `UiQueue_proofs`. `TypeInv` strengthens `TypeOK` by two facts: only a drain below
  the depth bound waits for the user (or `NestedTick` would exceed it), and a
  worker posts nothing before its result is there (or `Return` would make
  `posted` exceed `total`). `TypeCorrect` follows. `QueueOrdered` alone is not
  inductive: a refused action must be known to have been posted before, so
  `IInv` adds `OnlyPosted`. From it: `OrderCorrect`; `RefinesLossyFifo`, in which
  `Post` maps to `Send`, `Take` to `Deliver` and all else to a stutter; and
  `NothingLost` (`Accounted`).
* `Periodic_proofs`, the scheduler. What the table holds depends on the tables that ticks below
  are going to put back, so the invariant speaks of every frame of the stack:
  `FrameOK` (a frame runs, and has still to run, tasks of the table it maps), `Faithful` (each of these
  tables has unique names and, as long as nothing was edited during a map, holds
  exactly the registrations in force) and `Once` (a flag is set exactly when one
  frame is inside the body). From it: `TypeCorrect`, `TableCorrect`, `GuardsHold`.
* `Minibuffer_proofs`. `KeysIgnored` needs `KeyInv`: outer readers are in their
  timer; the innermost one that processes events has `*minibuffer-active?*` on;
  and, where an inner reader has just switched it off, the box is still full, so
  that the outer readers return before they process an event. *That the box stays
  full is what saves the keys and also what makes the outer reader return the
  inner answer* (section 6). `ModesCleared` needs `ModeInv`: a mode that is on
  belongs to a reader in progress that will switch it off. `AloneAnswers` needs
  that readers in progress together are known as such, and that whatever the box,
  the line edit, the list and the completions hold while a reader is alone is its
  own. `TypeCorrect` follows with the first of these.
* `Screen_proofs`, the ring. The inductive invariant is `TypeOK /\ TextsOwned`. All index
  arithmetic rests on the lemma `Wrap` (going at most once around a ring wraps at
  most once) and on `StoredSlots`, which turns "slot i is stored" into linear
  arithmetic. `RefinesBoundedLog` shows for each operation what it does to the
  log, the change of size included.
* `Screen_proofs`, the screen. `Flagged` (there is a flag per row, none outside, and damage is
  that of some row) is kept by every function of the shim, also by `JvtResize`,
  which reports the rows of the new size on the flags of the old one. `Drawn`
  adds that the rows are as many as the shim believes except in a resize, that a
  poll under way has a screen, that nothing counts as drawn of a screen that is not
  there, `CacheFresh` and `AltExact`. The converse direction, damage without a flag, matters too: it
  would make the draw of a full-screen program skip its text. From it:
  `ScreenTypeCorrect`, `CacheCorrect`, `AltCorrect`. `RingStep` shows that every
  step of the screen is a step of its ring or leaves it alone, so that
  `ScreenKeepsLog` inherits the theorems about the ring. A resize is as many steps
  as rows move, so nothing is assumed of how far the heights are apart.
* `Process_proofs`, the terminals. `OutputComplete` is inductive with five conjuncts per command: the command of a
  terminal has a reader, and nothing is remembered of one without a terminal, whose
  reader may go on (`Held`), what was written is posted, unread or read by another's
  reader (`Counted`), a reader past its polls has a silent child and, past its
  drain, nothing unread (`Silent`), and what it posted is its own with the end last
  (`Own`, `Last`); and two terminals never share a command
  (`Apart`), without which a cleanup would close the other's descriptor. `OrphanKeeps` is the
  case of a reader without a terminal: whatever it reads, it posts to nobody. From it:
  `TypeCorrect` (which says that no descriptor leaks) and `OutputWhole`.
* `Process_proofs`, the blocking calls. `Rendezvous` (a thread that runs Scheme code or sleeps is one a
  collection waits for, and only such threads are parked) gives `HeapSafeAlways`;
  `Room` (in a read the bytes gathered leave a byte for the NUL) gives `BuffersCorrect` and `ResultsWhole`, in which a result without an error has all its bytes.
* `Periodic_proofs`, highlighting. `HighlightInv` says of every document drawn that
  its styles are those `Apply` gives for the captures of a known text, of every
  state that its grammar is one that was loaded, and of the counts of live objects that they are the
  cardinalities of the sets of their owners (of queries: of the owners whose query
  compiles); and that the buffer list holds every buffer once
  (or `Kill` might delete what a buffer shown again still needs). One lemma per
  operation of a buffer (`SetupOK`, `ReparseOK`, `CleanupOK` ...) keeps it, and
  `SetupAllOK` is the induction over the buffer list for a theme. From it
  `HandlesCorrect`. `DrawnCorrect` rests on `ApplyByRule`: by induction over the
  captures, a byte has the style of the first capture that draws and covers it,
  *provided the captures come in order of their start*. Otherwise the rule and the
  loop differ, so `AllCapturesInOrder` shows that order for what the library
  returns. `CommentsCorrect` is the third layer: `QueriesShow` goes through the
  fourteen queries for the first pattern that captures a comment or a string, and
  `ShownByRule` shows that nothing captured before can hold it up.

* `SplitTree_proofs`. The list of windows is rebuilt from the tree by a recursion,
  and spliced by the deletion without it, so the invariant has to say what the
  leaves of a tree are without recursion: `Tree(C, r, W, lo, hi)` gives every node
  x of the tree C the range lo[x] .. hi[x] of the list W, such that a window is
  its own position and the children of a split tile its range. `FlattenTree` shows
  that the leaves of such a tree, read in order, are W (by the length of the range:
  in a tree without splits of one child a child covers less than its parent). Then
  one lemma per change of a tree gives new ranges: `TreeInsert` and `TreeRemove`
  shift those after the window, `TreeWrap` and `TreeUnwrap` give a split the range
  of its only child. That a split keeps at least two children (`Branching`) is
  part of the invariant: without it the same ranges would fit a cycle of splits of
  one child, and a deletion could leave a split empty.
* `Frame_proofs`, the frame. `FrameOK` says of a frame that the leaves of its tree
  are the list of windows (`LeavesAre`); that the tree is `Oriented`, and `Numbered`
  by order of creation (or a new window could have the number of an old one); that
  the selection is in the list and the editor map and the buffers are those of the
  windows; that the widgets `Mirror`
  the tree; and that no widget was destroyed twice. `Mirrors` says that each
  QSplitter owns the containers of the children of its split *in any order*: a
  split adds the container at the end of its siblings and the leaf in the middle
  (section 6), so the orders do differ. One lemma per operation keeps
  `FrameOK`: `SplitFrameOK` (beside a sibling, or `NestedTree` and `NestedKids`
  for a new splitter), `DeleteFrameOK` (`NarrowFrame` from a split of three or more,
  `UnwrapFrame` from one of two, whose splitter still owns the deleted window when it
  goes) and `DeleteOthersFrameOK`. The last needs `SubSplittersListed` (every
  splitter is collected once, after those inside it) and `DestroyAllWithout` (a
  list of widgets is destroyed without a second destruction when each owns by then
  only what is gone). From it: `FrameTypes`, `FrameInSync`, `FrameDestroyedOnce`; and
  with what each lemma says of windows and selection `FrameIsList`, the refinement of
  `WindowList`.
* `Frame_proofs`, winner mode. `WinnerInv` adds that both stacks hold
  configurations of at least one buffer with the selected one among them, and no
  more than the limit together. `AdjustCountOK` shows, by induction on the distance, that
  the deletions and splits of phase 1 keep `FrameOK` and end with the number of
  windows wanted, whichever windows they are. From it: `WinnerKeepsFrame`,
  `WinnerRestores` and `WinnerHistoryBounded` (a redo takes from the future what it
  adds to the history; an undo the reverse).

* `TuiFrame_proofs`, the tree. `TuiInv` says that the frame is `LaidOut` from its parts
  (its boxes are those of `Layout`: no operation forgets to lay out), that the tree
  reads as the list (`TreeOK`, on the lemmas of `SplitTree_proofs`) and that biases
  and editors are those of the windows (`PartsOK`). One lemma per operation keeps it.
  From it: `TuiFrameSafe`, and with the change each lemma states of list and
  selection `TuiFrameIsList`.
* `TuiFrame_proofs`, the layout. `PlaceEquation` shows that the recursion of the layout has a
  solution, by taking the nodes level by level: ranges shrink on the way down, so
  every node has a depth. `TopDown` and `BottomUp` are the two
  inductions over a tree. What the sizes rest on is `SharesFill`: whatever the
  biases and the least size, the shares of the children add up to the space of
  their node, because the first child takes the difference (`SumsDiffer`).
  *Tiling* then goes up the tree (`WindowsParted`): if the children of a node are
  parted and cover their boxes, so is the node (`NodeParted`, with
  `StackedParted` and `SideBySideParted` for the two orientations), where the cells
  between two children side by side are the divider right of a window
  (`SpanCovered` finds which). The hypothesis `Roomy` is needed: a window
  squeezed to less than nothing makes its siblings overlap. *Enlarging* goes down
  (`AncestorsSame`): the biases of two siblings do not change the box of any node
  that is not below their parent, and there `GrowShare` compares the two lists of
  shares; it covers the first child, whose share is what the others leave.
  From these: `TuiFrameTiled` and `TuiFrameEnlarges`.

The library's induction theorems take an operator as a parameter, which the provers
cannot instantiate. The inductions above are over sets instead: `LeastElement` comes
from the well-foundedness of the numbers, and `InductionSet` and `InductionUpTo` from
it, for a *set* of numbers; `FlattenByStep`, `DestroyAllSteps` and `AdjustSteps` are
inductions over a sequence in that form. Recursive functions are shown to exist by
giving one (`FlatMapEquation`, `SubMapEquation`), since a CHOOSE says nothing of a
function that does not.

Every invariant and action property a passing run checks, and every refinement,
is a theorem. Only model-checked: liveness (`AllSettled`, `EventuallyRuns`, `AnswerEnds`,
`DamageShown`, `CollectionRuns`, `CommandEnds`), which is out of the prover's reach,
and the two counterexamples of section 6, which are about small instances.

## 6. Where the code and its words differ

Two have a run in which TLC finds the counterexample.

| Run | Property | What the code does |
|---|---|---|
| `scheduler_edits` | `EditsTakeEffect` | `master-timer-tick!` (`async.ss:247`) assigns the list it mapped: a task registered or cancelled by a task is lost or revived. `TableFaithful` shows this is the only way. |
| `minibuffer_answer` | `OwnAnswer` | a reader called by a task inside the loop of another leaves its answer in `*mb-result*`, and the outer reader returns it as its own. `AloneAnswer` shows that readers nested with none are right. |

The others were met while modelling and have no run of their own. Where one
shows in a model, the definition is named.

*Queue and minibuffer.* `ui-queue-push!` ignores the result of `channel-try-put`,
so a stream may lose its lines or its end (`async.ss:197`, `Accounted`). The chord
timer does not look at `*minibuffer-active?*` (`qt/app.ss:1776`; the `slipped`
exception in `NoNestedKeys`).

*Frames.* A split of a window that is not the last adds the new container after
its siblings, and the leaf after the current one (`qt/window.ss:347`), although
:135 promises the "ordered flat list of qt-edit-window from tree, left-to-right".
A deletion that unwraps the parent sets its container to `#f`, so the hook of :63,
"called with (container) before qt-widget-destroy! on any window container", is
not (`qt/window.ss:568`). Winner's undo "delete[s] last windows"
(`qt/commands-core.ss:82-84`), but a split does not append to the list, so another
window than the one the split made may go (:99). A split copies a terminal when no
window shows `*scratch*` (`qt/window.ss:393`; `NewBuffer`). Enlarging takes from a
window that need not be a sibling (`window.ss:470`; the hypothesis of
`EnlargeGrows`). Dividers are drawn after the modelines, over all rows
of the frame, so with nested splits they cross the modelines of windows outside
their split (`window.ss:448`).

*Screen.* The offset of "where vtscreen rows start in the document"
(`qt/app.ss:120`) counts the empty last line of the text before the screen, and is
one too high (:582; `SavePre`, `Joined`): a row drawn alone lands a line below its
place in the whole text. Output for a buffer that no window shows is dropped
(`Batch`) although :593 says "always feed data to vtscreen so terminal state
stays current". Leaving the alternate screen does not restore the offset
(`Offset`). A resize resets the render state to "force full re-render on next
cycle", but the flush requires a screen that has been drawn, so that cycle comes
only with more output (hence `ts.initialized` in `DamageShown`). The last output
before the end of a command may fall to the throttle (`Done` does not draw).
Trimming the text before the screen leaves the offset as it was; a change of
colours alone is not redrawn. The comments at `qt/app.ss:601`, that "processEvents
may have triggered switch-buffer", and at :1468, that `qt-app-process-events!` "can
fire this timer again", describe callbacks that are called at once; those of
`vendor/qt_chez_shim.c` wait until the poll has ended (`UseWindow` and `Kill` are
steps of an idle poll, `ResizeWindow` is not a callback). That ring is not
modelled: `chez_qt_drain_pending_callbacks` stores the tail after each callback has
returned (:121-122), so the loop of a minibuffer that a callback opens runs the
entry in progress once more, and what it has run is run again when it returns.

*Processes.* The cleanup is to "terminate reader thread" (`terminal.ss:764`), but
`thread-terminate!` is not defined in the repository, every error of it is
swallowed, and the descriptor is closed without waiting: the reader may go on with
the number when the next command has it, and what it reads of that command's output
is lost (`Terminate`, `stolen`). The reader reaps its child and then asks again for its status, so the
status posted is always -1 (`terminal.ss:514` says "when child exits"; statuses
are left out of `Pty`). On an end of file that is not one, the drain is skipped
and the count of empty reads decides. `g_wait_status` is shared by all readers.
The cleanup of `*shell*` (`shell.ss` 352-366) closes the descriptor without
stopping its reader. `pty-write` sends as many bytes as the string has characters,
and chunks of 4095 bytes cut UTF-8 sequences. A child that ignores SIGTERM stays
as a zombie (`Waitpid` in `Cleanup`).

*Blocking calls.* The wrappers read their string arguments, which are Scheme
objects, after the thread has been deactivated, where the comment in
`repl-socket.sls` says it "must NOT touch any Scheme heap objects until
reactivated" (`CallRead`, `CallWrite` do not model the arguments).
`repl-write-file` passes a length in characters as one in bytes. `async-read-file!`
promises `#f` on errors and gives the empty string. `repl_write_file` "returns 0 on
success, -1 on error" (`support/repl_shim.c:159`) by the count of `fwrite`, and does
not look at `fclose`, which writes what is buffered: on a full disk it may return 0
for a file without all its bytes. An error of `fread` is taken for the end of the
data, although :113 promises an "empty string on error". `Ended` carries such an
error and `WholeResult` excepts it.

*Highlighting.* `ts-query-create` "returns query pointer or #f"
(`treesitter.ss:191`), but a query that does not compile is the number 0, which
counts as true: its document gets a state and is drawn blank (`Query`, `Compiled`;
`CommentsShown` is about the queries that compile). Applying a theme ";; Re-apply[s] syntax highlighting to all open
buffers" (`qt/commands-core.ss:300`) through the editor each was last attached to,
which may show another document by then: that document is drawn with the wrong
query (`Theme`; `DrawnByRule` therefore says only that the drawing follows *the
query used*). An edit is noticed by its length (`qt/app.ss:2019`; `Tick`). The old
tree is passed to the parser without the edit (`treesitter.ss:350`; `stale`), so
the parser may keep it: "incremental parsing" (`docs/50-features.md:217`) is not what
happens. The first capture of a node wins, so the names of functions that the
queries of C, JavaScript, Python, Ruby and Java capture after identifiers are never
shown; predicates are not evaluated, so in Rust every identifier is a constant
(`TsQueries`). The query of C++ has neither comments nor strings
(`CommentsShown` excludes it), though `docs/jemacs-vs-emacs.md:564` ticks C/C++.
Lengths of texts are in characters where the parser takes bytes. A change of the
major mode keeps the old parser.

## 7. Not modelled

`PROJECT.json` gives the reason for every component left out. In short: text
editing and the two thousand commands (one buffer, one handler, tested by the
repository's own suites), Org and Helm (pure string processing), persistence and
presentation (I/O and formats), the TUI loop (its prompts do not run the timer, so
nothing interleaves), and the libraries. The LSP client, the IPC server, engine
evaluation and the key states could be modelled and are not yet.

Within modelled components: sizes and focus of Qt windows, the movement of the
selection in the candidate list, buffers killed between a winner save and an undo,
`frame-shutdown!`; colours and attributes of cells, the cursor and the mouse of
the terminal; the input and sizes of terminal processes, and
virtual terminals without a child; the string arguments of blocking calls;
parsing with ranges, the node accessors of the tree-sitter shim (nothing calls
them), and languages highlighted by Lexilla.

## 8. Plan

Modelled first were the queue and the timer, then what their nesting does to the
minibuffer, then the two frames; then the C shims with their Scheme callers:
screen, blocking calls, processes, highlighting. The project is kept to a dozen
runs, so a new module shares a run with one it is composed with, or replaces a
run whose question has been proved. Next, in this order:

1. `EngineEval`, composed with `Scheduler`: an evaluation sliced by a task that
   cancels itself; that a result is reported exactly once, and what happens to an
   evaluation started by the callback of another (`async.ss:584-635`).
2. `LspClient` with an external server: pending callbacks across stop and restart,
   document versions, initialisation (`qt/lsp-client.ss`), and the IPC server as a
   second client of the timer.
3. `KeyChord`: key states, chords and their timer (`qt/app.ss` 1291-1391,
   `qt/keymap.ss`), merged with the callers of `Minibuffer`.
4. The frame under a prompt: commands that hold window indices across a question
   (`cmd-ace-window`), composing `QtFrame` with `Minibuffer`.
5. The `*shell*` buffer beside the terminals in `Pty`, with its reader that
   outlives its descriptor.
6. The ring of callbacks of `vendor/qt_chez_shim.c`, which is bounded, between the
   Qt thread and the thread that drains it, with drains nested in a prompt.

Theorems to add: those of the modules above, as they are written, in the modules
of proofs of their neighbours.
